------------------------------- MODULE Parity -------------------------------
(***************************************************************************)
(* tools/parity: every case is sent by httpx2 and then by mojo.httpx to    *)
(* one recording server, and what they sent and read is compared.  Three   *)
(* actors take turns: the driver, the client it is running and the         *)
(* server's thread; only one connection at a time is spoken on, but the    *)
(* server is still busy with it when its client has gone on.               *)
(*                                                                         *)
(* A request is [case, line, headers, body]; a header is <<name, value>>.  *)
(* What is random in a value or a body is a token of its own:              *)
(*   [plain], [product], [boundary, length], [digest, cnonce, response].   *)
(***************************************************************************)
EXTENDS Integers, Sequences, FiniteSets, Accumulate

CONSTANTS
    Cases,    \* sequence of [name, kind, replies]; a reply is "final" or "again"
    Acts,     \* [sends, reads]: what each client does with each case
    Missing

VARIABLES
    acts,     \* what the clients do; never changes
    turn,     \* the driver: theirs, ours, compare, exit
    nth, hop, \* the running client: its case, and its requests so far
    waiting,  \* its connection: the request on it, or Missing
    reply,    \* how far it is: Missing, "accepted", "closed" or the answer on it
    lines,    \* the report lines of the running client
    server,   \* the thread: [raw, left, hit, answered], left the steps to go
    records, problems, hits, \* of the Recorder
    theirs, ours, \* what the driver took from it: [records, problems, lines]
    code      \* the exit code

(* What is random is random where the library puts it: a boundary in a       *)
(* content-type, a nonce in an authorization.                                *)
IsHeader(h) ==
    /\ h = <<h[1], h[2]>>
    /\ LET v == h[2]
       IN \/ v.kind = "plain" /\ v = [kind |-> "plain", text |-> v.text]
          \/ /\ h[1] = "content-type" /\ v.kind = "boundary" /\ v.token # Missing
             /\ v = [kind |-> "boundary", token |-> v.token, length |-> v.length]
          \/ /\ h[1] = "authorization" /\ v.kind = "digest"
             /\ v = [kind |-> "digest", cnonce |-> v.cnonce, response |-> v.response]
IsBody(b) ==
    \/ b.kind = "plain" /\ b = [kind |-> "plain", text |-> b.text]
    \/ b.kind = "parts" /\ b.token # Missing /\ b = [kind |-> "parts", token |-> b.token, text |-> b.text]
IsRequest(r) ==
    /\ r # Missing /\ IsList(r.headers) /\ IsBody(r.body)
    /\ \A k \in DOMAIN r.headers : IsHeader(r.headers[k])

Boundaries(r) ==
    {k \in DOMAIN r.headers : r.headers[k][1] = "content-type" /\ r.headers[k][2].kind = "boundary"}

(* One boundary at most, and the one that parts the body. *)
WellParted(r) ==
    /\ \A j, k \in Boundaries(r) : j = k
    /\ r.body.kind = "parts" => \E k \in Boundaries(r) : r.headers[k][2].token = r.body.token

(* Cases have names of their own and an answer each at least; of a client    *)
(* nothing is assumed but that it sends requests, of httpx2 that it parts a  *)
(* body with the boundary it names.                                          *)
Comparable ==
    /\ IsList(Cases) /\ \A j, k \in DOMAIN Cases : Cases[j].name = Cases[k].name => j = k
    /\ \A k \in DOMAIN Cases : IsList(Cases[k].replies) /\ Cases[k].replies # <<>>
    /\ \A k \in DOMAIN Cases : \A j \in DOMAIN Cases[k].replies : Cases[k].replies[j] \in {"final", "again"}
    /\ Missing \notin {"final", "again", "accepted", "closed"}
    /\ \A a \in Acts : \A who \in {"httpx2", "mojo"} : \A k \in DOMAIN Cases :
         LET all == a.sends[who][Cases[k].name]
         IN IsList(all) /\ \A j \in DOMAIN all :
              IsRequest(all[j]) /\ (who = "httpx2" => WellParted(all[j]))

ASSUME ParityAssumption == Comparable

driver == <<turn, theirs, ours, code>>
client == <<nth, hop, waiting, reply, lines>>
recorder == <<records, problems, hits>>
parityVars == <<acts, driver, client, server, recorder>>

Names == {Cases[k].name : k \in DOMAIN Cases}
Client == IF turn = "theirs" THEN "httpx2" ELSE "mojo"
----------------------------------------------------------------------------
(* wire.py *)

IsDigest(h) == h[1] = "authorization" /\ h[2].kind = "digest"

(* The tokens that cannot be equal become what is compared of them. *)
NormalValue(h) ==
    CASE h[1] = "user-agent" -> [kind |-> "product"]
      [] h[1] = "content-type" /\ h[2].kind = "boundary" ->
            [kind |-> "boundary", length |-> h[2].length]
      [] IsDigest(h) /\ h[2].cnonce # Missing -> [kind |-> "digest", cnonce |-> "nonce"]
      [] OTHER -> h[2]

(* The last boundary of a header is replaced in the body. *)
NormalBody(r) ==
    IF r.body.kind = "parts"
       /\ \E k \in Boundaries(r) : /\ r.body.token = r.headers[k][2].token
                                   /\ \A j \in Boundaries(r) : j <= k
    THEN [r.body EXCEPT !.token = Missing] ELSE r.body

normalize(r) ==
    [line    |-> r.line,
     headers |-> [k \in DOMAIN r.headers |-> <<r.headers[k][1], NormalValue(r.headers[k])>>],
     body    |-> NormalBody(r)]

NamesOf(r) == {r.headers[k][1] : k \in DOMAIN r.headers}
Named(r, names) == {k \in DOMAIN r.headers : r.headers[k][1] \in names}
ValuesOf(r, name) == Picked(r.headers, Named(r, {name}))
Order(r, shared) == Picked([k \in DOMAIN r.headers |-> r.headers[k][1]], Named(r, shared))

ComparedNames(a, b) == NamesOf(a) \cup NamesOf(b)

(* The aspects in which two requests differ. *)
compare(mine, yours) ==
    LET a == normalize(mine)  b == normalize(yours)
        shared == NamesOf(a) \cap NamesOf(b)
    IN {x \in {<<"request-line">>} : a.line # b.line}
       \cup {<<"header", n>> : n \in {m \in ComparedNames(a, b) : ValuesOf(a, m) # ValuesOf(b, m)}}
       \cup {x \in {<<"header-order">>} : Order(a, shared) # Order(b, shared)}
       \cup {x \in {<<"body">>} : a.body # b.body}
----------------------------------------------------------------------------
(* run.py *)

by_case(list, name) == Picked(list, {k \in DOMAIN list : list[k].case = name})

(* A case with one request is named as it is, one of several by its number. *)
Label(name, count, k) == IF count = 1 THEN <<name>> ELSE <<name, k>>

(* What main() reports about a case that cannot be compared. *)
Uncomparable(name) ==
    LET mine == Len(by_case(ours.records, name))  yours == Len(by_case(theirs.records, name))
    IN mine = 0 \/ yours = 0 \/ mine # yours

Failures ==
    theirs.problems # 0 \/ ours.problems # 0 \/ \E n \in Names : Uncomparable(n)

Differences ==
    UNION {LET mine == by_case(ours.records, n)  yours == by_case(theirs.records, n)
           IN UNION {{<<Label(n, Len(mine), k), aspect>> : aspect \in compare(mine[k], yours[k])} :
                     k \in DOMAIN mine} :
           n \in {m \in Names : ~Uncomparable(m)}}

(* The differences signed off on: a case or "*", and an aspect. *)
ACCEPTED == <<<<<<"*">>, <<"header-order">>>>>>

Allows(entry, difference) == entry[2] = difference[2] /\ entry[1] \in {<<"*">>, difference[1]}

(* The first entry that allows a difference is the one that fired. *)
accepted_for(difference) == {k \in DOMAIN ACCEPTED : Allows(ACCEPTED[k], difference)}

Unexpected == {d \in Differences : accepted_for(d) = {}}
Stale ==
    {k \in DOMAIN ACCEPTED :
        ~\E d \in Differences : k \in accepted_for(d) /\ \A j \in accepted_for(d) : k <= j}

Mismatched ==
    {k \in DOMAIN Cases :
        /\ Cases[k].kind = "response"
        /\ LET mine == ours.lines[k]  yours == theirs.lines[k]
           IN mine = Missing \/ yours = Missing \/ mine # yours}

Verdict ==
    IF Failures \/ Unexpected # {} \/ Mismatched # {} \/ Stale # {} THEN 1 ELSE 0

NoLines == [k \in DOMAIN Cases |-> Missing]

Restart == nth' = 1 /\ hop' = 0 /\ lines' = NoLines /\ UNCHANGED <<waiting, reply>>

(* The records are taken once the client is through; sleeping before it     *)
(* promises nothing about the server.                                       *)
TakeTheirs ==
    /\ turn = "theirs" /\ nth > Len(Cases)
    /\ theirs' = [records |-> records, problems |-> problems, lines |-> lines]
    /\ turn' = "reset"
    /\ Restart
    /\ UNCHANGED <<acts, server, recorder, ours, code>>

reset ==
    /\ turn = "reset"
    /\ records' = <<>> /\ problems' = 0 /\ hits' = [n \in Names |-> 0]
    /\ turn' = "ours"
    /\ UNCHANGED <<acts, client, server, theirs, ours, code>>

TakeOurs ==
    /\ turn = "ours" /\ nth > Len(Cases)
    /\ ours' = [records |-> records, problems |-> problems, lines |-> lines]
    /\ turn' = "compare"
    /\ Restart
    /\ UNCHANGED <<acts, server, recorder, theirs, code>>

Compare ==
    /\ turn = "compare"
    /\ code' = Verdict
    /\ turn' = "exit"
    /\ UNCHANGED <<acts, client, server, recorder, theirs, ours>>
----------------------------------------------------------------------------
(* A client: one case after the other, each on connections of its own *)

Requests(k) == acts.sends[Client][Cases[k].name]
Running == turn \in {"theirs", "ours"} /\ nth <= Len(Cases)

Send ==
    /\ Running /\ waiting = Missing /\ hop < Len(Requests(nth))
    /\ hop = 0 \/ reply = "again"
    /\ waiting' = Requests(nth)[hop + 1]
    /\ hop' = hop + 1 /\ reply' = Missing
    /\ UNCHANGED <<acts, driver, nth, lines, server, recorder>>

(* The client goes on as soon as it has its answer. *)
Receive ==
    /\ Running /\ waiting # Missing /\ reply \in {"final", "again"}
    /\ waiting' = Missing
    /\ UNCHANGED <<acts, driver, nth, hop, reply, lines, server, recorder>>

NextCase ==
    /\ Running /\ waiting = Missing
    /\ hop = Len(Requests(nth)) \/ (hop > 0 /\ reply = "final")
    /\ lines' = IF Cases[nth].kind = "response"
                THEN [lines EXCEPT ![nth] = acts.reads[Client][Cases[nth].name]] ELSE lines
    /\ nth' = nth + 1 /\ hop' = 0 /\ reply' = Missing
    /\ UNCHANGED <<acts, driver, waiting, server, recorder>>

(* A connection closed without an answer raises: neither side gets past it. *)
ClientFails ==
    /\ Running /\ waiting # Missing /\ reply = "closed"
    /\ turn' = "exit" /\ code' = 1
    /\ UNCHANGED <<acts, theirs, ours, client, server, recorder>>
----------------------------------------------------------------------------
(* server.py: _handle() of one connection, step by step *)

(* Faulty: the answer goes out before the request is recorded. *)
HandleAnsweringFirst == <<"send", "record", "close">>

Handle == <<"record", "send", "close">>

(* A request of no known case: the finally of _serve() closes all the same. *)
Refuse == <<"close">>

(* accept() and _read_request(); the request is read whole. *)
Accept ==
    /\ server.left = <<>>
    /\ waiting # Missing /\ reply = Missing
    /\ server' = [raw |-> waiting, left |-> IF waiting.case \in Names THEN Handle ELSE Refuse,
                  hit |-> IF waiting.case \in Names THEN hits[waiting.case] ELSE 0,
                  answered |-> FALSE]
    /\ problems' = IF waiting.case \in Names THEN problems ELSE problems + 1
    /\ reply' = "accepted"
    /\ UNCHANGED <<acts, driver, nth, hop, waiting, lines, records, hits>>

Record ==
    /\ server.left # <<>> /\ Head(server.left) = "record"
    /\ hits' = [hits EXCEPT ![server.raw.case] = @ + 1]
    /\ records' = Append(records, server.raw)
    /\ server' = [server EXCEPT !.left = Tail(@)]
    /\ UNCHANGED <<acts, driver, client, problems>>

ReplyFor(name, hit) ==
    LET all == Cases[CHOOSE k \in DOMAIN Cases : Cases[k].name = name].replies
    IN all[IF hit + 1 < Len(all) THEN hit + 1 ELSE Len(all)]

Answer ==
    /\ server.left # <<>> /\ Head(server.left) = "send"
    /\ reply' = ReplyFor(server.raw.case, server.hit)
    /\ server' = [server EXCEPT !.left = Tail(@), !.answered = TRUE]
    /\ UNCHANGED <<acts, driver, nth, hop, waiting, lines, recorder>>

(* Closing without an answer tells the client that nothing will come. *)
Close ==
    /\ server.left # <<>> /\ Head(server.left) = "close"
    /\ server' = [server EXCEPT !.left = <<>>]
    /\ reply' = IF server.answered THEN reply ELSE "closed"
    /\ UNCHANGED <<acts, driver, nth, hop, waiting, lines, recorder>>
----------------------------------------------------------------------------
ParityInit ==
    /\ acts \in Acts
    /\ turn = "theirs" /\ nth = 1 /\ hop = 0 /\ waiting = Missing /\ reply = Missing /\ lines = NoLines
    /\ server = [raw |-> Missing, left |-> <<>>, hit |-> 0, answered |-> FALSE]
    /\ records = <<>> /\ problems = 0 /\ hits = [n \in Names |-> 0]
    /\ theirs = Missing /\ ours = Missing /\ code = Missing

Driver == TakeTheirs \/ reset \/ TakeOurs \/ Compare
RunClient == Send \/ Receive \/ NextCase \/ ClientFails
Serve == Accept \/ Record \/ Answer \/ Close
ParityNext == Driver \/ RunClient \/ Serve

ParitySpec == ParityInit /\ [][ParityNext]_parityVars
----------------------------------------------------------------------------
(* Requests up to the one that gets a final answer. *)
UpToFinal(name, all) ==
    LET final == {j \in DOMAIN all : ReplyFor(name, j - 1) = "final"}
    IN IF final = {} THEN all ELSE SubSeq(all, 1, CHOOSE j \in final : \A i \in final : j <= i)

(* The requests a client sends for a case when the server answers as the    *)
(* case says, whoever else has been served before.                          *)
Sent(who, k) == UpToFinal(Cases[k].name, acts.sends[who][Cases[k].name])

(* The tokens of a request put in place of those of another. *)
Tokens(r) ==
    {r.headers[k][2].token : k \in {j \in DOMAIN r.headers : r.headers[j][2].kind = "boundary"}}
    \cup (IF r.body.kind = "parts" THEN {r.body.token} ELSE {})
Renamed(v, f) ==
    IF v.kind \in {"boundary", "parts"} THEN [v EXCEPT !.token = f[v.token]] ELSE v

(* Two requests with nothing between them but the name of the product, the  *)
(* choice of random tokens and the order of headers with different names.   *)
SameValue(h, v, w) ==
    \/ h = "user-agent"
    \/ v = w
    \/ v.kind = "digest" /\ w.kind = "digest" /\ v.cnonce # Missing /\ w.cnonce # Missing
Same(r, q) ==
    /\ r.line = q.line
    /\ NamesOf(r) = NamesOf(q)
    /\ \E f \in [Tokens(r) -> Tokens(q)] :
          /\ \A t, u \in Tokens(r) : f[t] = f[u] => t = u
          /\ Renamed(r.body, f) = q.body
          /\ \A n \in NamesOf(r) :
                LET a == ValuesOf(r, n)  b == ValuesOf(q, n)
                IN Len(a) = Len(b) /\ \A k \in DOMAIN a : SameValue(n, Renamed(a[k][2], f), b[k][2])

(* No request is for the case of another: the paths of cases.py and of      *)
(* emit.mojo, and those they are redirected to, begin with the case's name. *)
OwnCases ==
    \A who \in {"httpx2", "mojo"} : \A k \in DOMAIN Cases :
        LET all == acts.sends[who][Cases[k].name]
        IN \A j \in DOMAIN all : all[j].case \in Names => all[j].case = Cases[k].name

SameRequests(k) ==
    LET mine == Sent("mojo", k)  yours == Sent("httpx2", k)
    IN /\ Len(mine) = Len(yours) /\ mine # <<>>
       /\ \A j \in DOMAIN mine : /\ mine[j].case = Cases[k].name /\ yours[j].case = Cases[k].name
                                 /\ Same(mine[j], yours[j])
SameReading(k) ==
    LET mine == acts.reads["mojo"][Cases[k].name]  yours == acts.reads["httpx2"][Cases[k].name]
    IN Cases[k].kind = "response" => mine # Missing /\ mine = yours
Reordered(k) ==
    \E j \in DOMAIN Sent("mojo", k) :
        LET r == Sent("mojo", k)[j]  q == Sent("httpx2", k)[j]
        IN Order(r, NamesOf(r)) # Order(q, NamesOf(q))
Agreement ==
    /\ \A k \in DOMAIN Cases : SameRequests(k) /\ SameReading(k)
    /\ \E k \in DOMAIN Cases : Reordered(k)

(* Parity is reported exactly when, case for case, the two clients sent the *)
(* same requests but for the order of headers, that order differed          *)
(* somewhere, as the accepted difference says it does, and both made the    *)
(* same of every answer: whatever the server's thread was doing meanwhile.  *)
OkMeansAgreement == code # Missing => (code = 0 <=> Agreement)
=============================================================================
