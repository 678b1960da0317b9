------------------------------- MODULE Client -------------------------------
(***************************************************************************)
(* The send loop of BaseClient (httpx/_client.mojo): the authentication    *)
(* loop around the redirect loop, with the request _redirects.mojo builds  *)
(* for each hop, the schemes of _auth.mojo, the jar of _models/cookies.mojo *)
(* and the hooks.  The transport is one step that answers or raises.       *)
(*                                                                         *)
(* A URL is its origin, a record [host, tls, port].  A cookie has one name *)
(* and one path, so the domain it is stored under tells it from others.    *)
(* An Authorization header is the URL it was computed for.                 *)
(***************************************************************************)
EXTENDS Integers, Sequences, FiniteSets, SequencesExt

CONSTANTS
    Urls,           \* the places requests may go to
    Parents,        \* of each host, the domains above it
    PublicSuffixes, \* the domains that are no site's own
    Methods,        \* the methods the program uses
    Bodies,         \* how it gives bodies: "none", "bytes" or "stream"
    Schemes,        \* its Auth: "none", "basic" or "digest"
    Statuses,       \* the status codes of servers, beside 401
    MaxRedirects,   \* BaseClient.max_redirects
    Own,            \* a Cookie header the caller wrote
    Extra,          \* a cookie passed for one call
    Nowhere,        \* no Location, no Authorization
    Malformed       \* a Location that is no URL to go to

ASSUME ClientAssumption ==
    /\ MaxRedirects \in Nat
    /\ Statuses \subseteq Nat
    /\ Bodies \subseteq {"none", "bytes", "stream"}
    /\ Schemes \subseteq {"none", "basic", "digest"}

ASSUME UrlsAssumption ==
    /\ Urls \subseteq [host : STRING, tls : BOOLEAN, port : STRING]
    /\ Nowhere \notin Urls /\ Malformed \notin Urls /\ Nowhere # Malformed

VARIABLES
    cookies,   \* the client's jar: [domain, hostOnly, secure], one for each domain
    challenge, \* DigestAuth._challenge: "none", "good", or one it has no answer to
    retried,   \* DigestAuth._retried
    closed,    \* _closed
    pc,        \* where send has got to
    asked,     \* the call: [url, method, body, scheme, stream, follow]
    request,   \* the request in hand: [url, method, body, auth, cookies, retry]
    response,  \* the response in hand: [status, location, challenge, set, history]
    hops,      \* redirects followed since the chain was begun
    prior,     \* the history the next response is to inherit
    sends,     \* history: requests sent by the call
    held,      \* the responses of the call, by number, that hold a connection
    outcome    \* history: how the last call ended

vars == <<cookies, challenge, retried, closed, pc, asked, request, response, hops,
          prior, sends, held, outcome>>

\* What DigestAuth makes of a 401: no challenge for it, one it can answer, one
\* parse_challenge refuses, and one of an algorithm or a qop it does not know.
Challenges == {"none", "good", "malformed", "unanswerable"}

session == <<cookies, challenge, retried, closed>>

Hosts == { u.host : u \in Urls }
Domains == Hosts \cup UNION { Parents[h] : h \in Hosts }

\* A cookie as the jar keeps it; the caller's own header and a cookie for one
\* call are told from it.
CookieType == [domain : Domains, hostOnly : BOOLEAN, secure : BOOLEAN]

ASSUME MineAssumption ==
    Own # Extra /\ Own \notin CookieType /\ Extra \notin CookieType

NoCookie == [domain |-> "", hostOnly |-> TRUE, secure |-> FALSE, gone |-> FALSE]
NoResponse == [status |-> 0, location |-> Nowhere, challenge |-> "none",
               set |-> NoCookie, history |-> <<>>]
NoRequest == [url |-> Nowhere, method |-> "", body |-> "none", auth |-> Nowhere,
              cookies |-> {}, retry |-> FALSE]
NoCall == [url |-> Nowhere, method |-> "", body |-> "none", scheme |-> "none",
           stream |-> FALSE, follow |-> FALSE]

Init ==
    /\ cookies = {} /\ challenge = "none" /\ retried = FALSE /\ closed = FALSE
    /\ pc = "ready" /\ asked = NoCall /\ request = NoRequest /\ response = NoResponse
    /\ hops = 0 /\ prior = <<>> /\ sends = 0 /\ held = {} /\ outcome = "none"

-----------------------------------------------------------------------------
(* Cookies.                                                                *)

DomainMatches(host, domain) == host = domain \/ domain \in Parents[host]

\* Cookie.matches.
CookieMatches(c, url) ==
    /\ IF c.hostOnly THEN url.host = c.domain ELSE DomainMatches(url.host, c.domain)
    /\ c.secure => url.tls

Matching(jar, url) == { c \in jar : CookieMatches(c, url) }

\* set_cookie: not for a public suffix, unless it is the host's own name, and
\* not for a domain the host is not in.
MaySet(c, url) ==
    \/ c.hostOnly
    \/ /\ c.domain \in PublicSuffixes => c.domain = url.host
       /\ DomainMatches(url.host, c.domain)

Stored(c) == [domain |-> c.domain, hostOnly |-> c.hostOnly, secure |-> c.secure]

\* Replaces, or with an expiry in the past removes, the one of the same domain.
SetCookie(jar, c, url) ==
    IF c = NoCookie \/ ~MaySet(c, url) THEN jar
    ELSE { d \in jar : d.domain # c.domain } \cup (IF c.gone THEN {} ELSE {Stored(c)})

\* The Set-Cookie a server at url may send.
Offered(url) ==
    {NoCookie}
    \cup { [domain |-> url.host, hostOnly |-> TRUE, secure |-> s, gone |-> FALSE] :
             s \in BOOLEAN }
    \cup { [domain |-> url.host, hostOnly |-> TRUE, secure |-> FALSE, gone |-> TRUE] }
    \cup { [domain |-> d, hostOnly |-> FALSE, secure |-> FALSE, gone |-> FALSE] :
             d \in Domains }

-----------------------------------------------------------------------------
(* The request after a redirect.                                           *)

\* redirect_method.
RedirectMethod(method, status) ==
    IF \/ status = 303 /\ method # "HEAD"
       \/ status = 302 /\ method \notin {"HEAD", "QUERY"}
       \/ status = 301 /\ method = "POST"
    THEN "GET" ELSE method

\* is_https_redirect.
IsHttpsRedirect(from, to) ==
    /\ from.host = to.host /\ from.port = "default" /\ to.port = "default"
    /\ ~from.tls /\ to.tls

\* Faulty: whatever was authorised stays authorised.
RedirectAuthKept(from, to) == request.auth

\* redirect_headers: Authorization stays with its origin, or goes to its upgrade.
RedirectAuth(from, to) ==
    IF from = to \/ IsHttpsRedirect(from, to) THEN request.auth ELSE Nowhere

\* Faulty: a Cookie that is there is left as it is.
RedirectCookiesKept(to) ==
    IF request.cookies # {} THEN request.cookies ELSE Matching(cookies, to)

\* The old Cookie is dropped and the jar asked again.
RedirectCookies(to) == Matching(cookies, to)

\* build_redirect_request.
Following ==
    LET method == RedirectMethod(request.method, response.status)
    IN  [url |-> response.location, method |-> method,
         body |-> IF method # request.method THEN "none" ELSE request.body,
         auth |-> RedirectAuth(request.url, response.location),
         cookies |-> RedirectCookies(response.location),
         retry |-> FALSE]

\* redirect_url raises for a Location that is no URL, wherever it is resolved.
LeadsNowhere == response.location = Malformed

\* take_stream raises for a streamed body that has gone out.
BodyGone ==
    /\ RedirectMethod(request.method, response.status) = request.method
    /\ request.body = "gone"

Unbuildable == LeadsNowhere \/ BodyGone

IsRedirect == response.status \in 300..399 /\ response.location # Nowhere

-----------------------------------------------------------------------------
(* send.                                                                   *)

Ended(how) ==
    /\ pc' = "ready" /\ outcome' = how
    /\ asked' = NoCall /\ request' = NoRequest /\ response' = NoResponse
    /\ hops' = 0 /\ prior' = <<>> /\ sends' = 0

\* response.close(), or its destructor, and the error goes up.
CloseAndRaise == Ended("raised") /\ held' = held \ {sends}

\* sign: Basic always, Digest once it remembers a challenge.
Signed(scheme, url) ==
    IF scheme = "basic" \/ (scheme = "digest" /\ challenge = "good") THEN url ELSE Nowhere

\* build_request and sign: the first request, with the jar's cookies unless the
\* caller wrote a Cookie header, and what the scheme adds unasked.
Call(url, method, body, scheme, stream, follow, mine) ==
    /\ pc = "ready" /\ ~closed
    /\ ~(scheme = "digest" /\ challenge = "unanswerable")
    /\ asked' = [url |-> url, method |-> method, body |-> body, scheme |-> scheme,
                 stream |-> stream, follow |-> follow]
    /\ request' = [url |-> url, method |-> method, body |-> body, retry |-> FALSE,
                   auth |-> Signed(scheme, url),
                   cookies |-> IF Own \in mine THEN {Own}
                               ELSE Matching(cookies, url) \cup mine]
    /\ retried' = IF scheme = "digest" THEN FALSE ELSE retried
    /\ pc' = "send" /\ held' = {} /\ outcome' = "none"
    /\ UNCHANGED <<cookies, challenge, closed, response, hops, prior, sends>>

\* A client that is closed, or a challenge remembered that sign cannot answer.
CallRefused(scheme) ==
    /\ pc = "ready"
    /\ closed \/ (scheme = "digest" /\ challenge = "unanswerable")
    /\ retried' = (closed /\ retried)
    /\ outcome' = "raised" /\ held' = {}
    /\ UNCHANGED <<cookies, challenge, closed, pc, asked, request, response, hops,
                   prior, sends>>

Close ==
    /\ pc = "ready" /\ closed' = TRUE
    /\ UNCHANGED <<cookies, challenge, retried, pc, asked, request, response, hops,
                   prior, sends, held, outcome>>

\* A request hook or the transport raises.
SendRaises ==
    /\ pc = "send"
    /\ Ended("raised")
    /\ UNCHANGED <<session, held>>

\* The transport answers: the body is read, or left on its connection.  The
\* cookies go to the jar and the history is attached.
Answered(r) ==
    /\ response' = [r EXCEPT !.history = prior]
    /\ request' = [request EXCEPT !.body = IF @ = "stream" THEN "gone" ELSE @]
    /\ cookies' = SetCookie(cookies, r.set, request.url)
    /\ sends' = sends + 1
    /\ held' = IF asked.stream THEN held \cup {sends + 1} ELSE held
    /\ pc' = "answered"
    /\ UNCHANGED <<challenge, retried, closed, asked, hops, prior, outcome>>

\* A response hook took the response and raised.
ResponseHookRaises ==
    /\ pc = "answered"
    /\ CloseAndRaise /\ UNCHANGED session

TooManyRedirects ==
    /\ pc = "answered" /\ IsRedirect /\ asked.follow /\ hops >= MaxRedirects
    /\ CloseAndRaise /\ UNCHANGED session

RedirectUnbuildable ==
    /\ pc = "answered" /\ IsRedirect /\ Unbuildable
    /\ ~(asked.follow /\ hops >= MaxRedirects)
    /\ CloseAndRaise /\ UNCHANGED session

MayFollow == pc = "answered" /\ IsRedirect /\ ~Unbuildable /\ asked.follow /\ hops < MaxRedirects

\* response.read() fails in front of the next hop.
DrainFails ==
    /\ MayFollow /\ asked.stream
    /\ CloseAndRaise /\ UNCHANGED session

\* Faulty: the hop is not counted.
FollowUncounted ==
    /\ MayFollow
    /\ request' = Following
    /\ prior' = Append(response.history, sends)
    /\ held' = held \ {sends}
    /\ pc' = "send" /\ response' = NoResponse
    /\ UNCHANGED <<session, asked, hops, sends, outcome>>

\* The response is read to its end and the next request takes its place.
Follow ==
    /\ MayFollow
    /\ request' = Following
    /\ prior' = Append(response.history, sends)
    /\ held' = held \ {sends}
    /\ hops' = hops + 1
    /\ pc' = "send" /\ response' = NoResponse
    /\ UNCHANGED <<session, asked, sends, outcome>>

\* The chain has ended: with a final answer, or a redirect left to the caller.
ChainEnds ==
    /\ pc = "answered" /\ (~IsRedirect \/ (~asked.follow /\ ~Unbuildable))
    /\ pc' = "auth"
    /\ UNCHANGED <<session, asked, request, response, hops, prior, sends, held, outcome>>

-----------------------------------------------------------------------------
(* The scheme judges the answer.                                           *)

\* DigestAuth.next_request has something to say.
IsChallenge ==
    /\ asked.scheme = "digest" /\ ~retried
    /\ response.status = 401 /\ response.challenge # "none"

Return ==
    /\ pc = "auth" /\ ~IsChallenge
    /\ Ended("returned")
    /\ UNCHANGED <<session, held>>

\* parse_challenge raises and remembers nothing; _build_header raises for an
\* algorithm or a qop it does not know, and the challenge has been remembered.
ChallengeRaises ==
    /\ pc = "auth" /\ IsChallenge /\ response.challenge # "good"
    /\ challenge' = IF response.challenge = "unanswerable" THEN "unanswerable" ELSE challenge
    /\ retried' = (retried \/ response.challenge = "unanswerable")
    /\ CloseAndRaise /\ UNCHANGED <<cookies, closed>>

\* A copy of the request that was challenged, with the answer, and with the
\* cookies of the challenge if it came with any.  A copy has no streamed body.
Retry ==
    LET fresh == Matching(SetCookie({}, response.set, request.url), request.url)
    IN  [request EXCEPT !.auth = request.url, !.retry = TRUE,
                        !.cookies = IF fresh = {} THEN @ ELSE fresh]

\* response.read() fails in front of the retry.
ChallengeUnread ==
    /\ pc = "auth" /\ IsChallenge /\ response.challenge = "good" /\ asked.stream
    /\ challenge' = "good" /\ retried' = TRUE
    /\ CloseAndRaise /\ UNCHANGED <<cookies, closed>>

\* Faulty: the challenge is left unread on its connection.
AnswerChallengeUnread ==
    /\ pc = "auth" /\ IsChallenge /\ response.challenge = "good"
    /\ challenge' = "good" /\ retried' = TRUE
    /\ request' = Retry
    /\ prior' = Append(response.history, sends)
    /\ hops' = 0
    /\ pc' = "send" /\ response' = NoResponse
    /\ UNCHANGED <<cookies, closed, asked, sends, held, outcome>>

\* Faulty: the chain begun again does not know of the one before.
AnswerChallengeAlone ==
    /\ pc = "auth" /\ IsChallenge /\ response.challenge = "good"
    /\ challenge' = "good" /\ retried' = TRUE
    /\ request' = Retry
    /\ prior' = <<>>
    /\ held' = held \ {sends}
    /\ hops' = 0
    /\ pc' = "send" /\ response' = NoResponse
    /\ UNCHANGED <<cookies, closed, asked, sends, outcome>>

AnswerChallenge ==
    /\ pc = "auth" /\ IsChallenge /\ response.challenge = "good"
    /\ challenge' = "good" /\ retried' = TRUE
    /\ request' = Retry
    /\ prior' = Append(response.history, sends)
    /\ held' = held \ {sends}
    /\ hops' = 0
    /\ pc' = "send" /\ response' = NoResponse
    /\ UNCHANGED <<cookies, closed, asked, sends, outcome>>

-----------------------------------------------------------------------------

\* The status, Location and challenge of an answer: a Location counts on a 3xx
\* only, a challenge on a 401.
Verdicts ==
    ((Statuses \cap 300..399) \X (Urls \cup {Nowhere, Malformed}) \X {"none"})
    \cup ({401} \X {Nowhere} \X Challenges)
    \cup ((Statuses \ 300..399) \X {Nowhere} \X {"none"})

\* What a server at url may answer.
Answers(url) ==
    { [status |-> v[1], location |-> v[2], challenge |-> v[3], set |-> k,
       history |-> <<>>] : v \in Verdicts, k \in Offered(url) }

Progress ==
    \/ SendRaises
    \/ /\ pc = "send"
       /\ \E r \in Answers(request.url) : Answered(r)
    \/ ResponseHookRaises \/ TooManyRedirects \/ RedirectUnbuildable
    \/ DrainFails \/ Follow \/ ChainEnds
    \/ Return \/ ChallengeRaises \/ ChallengeUnread \/ AnswerChallenge

Program ==
    \/ Close
    \/ \E scheme \in Schemes : CallRefused(scheme)
    \/ \E url \in Urls, method \in Methods, body \in Bodies, scheme \in Schemes,
          stream, follow \in BOOLEAN, mine \in {{}, {Own}, {Extra}} :
         Call(url, method, body, scheme, stream, follow, mine)

Next == Progress \/ Program

Spec == Init /\ [][Next]_vars

-----------------------------------------------------------------------------
(* What the send loop promises.                                            *)

\* "Credentials are scoped to the origin they were meant for" (redirect_headers):
\* at whatever hop of whatever chain, an Authorization header is sent to the
\* origin it was computed for or to its upgrade to TLS, and nowhere else.
CredentialsStayHome ==
    pc = "send" /\ request.auth # Nowhere =>
        request.url = request.auth \/ IsHttpsRedirect(request.auth, request.url)

\* A request carries no cookie of another host, none that is for TLS over plain
\* HTTP and none the caller meant for the first URL; unless the caller wrote the
\* header or a challenge brought its own, it carries all the jar has for it,
\* those of the hop before included.
CookiesFit ==
    pc = "send" =>
        /\ \A c \in request.cookies :
             IF c \in {Own, Extra} THEN request.url = asked.url
             ELSE CookieMatches(c, request.url)
        /\ ~request.retry /\ Own \notin request.cookies =>
             request.cookies \ {Extra} = Matching(cookies, request.url)

\* A redirect or a challenge in front of another request has been "drained
\* rather than left behind": no request goes out, and no call fails, while an
\* earlier response of the call holds a connection.
NothingHeld ==
    pc = "send" \/ (pc = "ready" /\ outcome = "raised") => held = {}

\* "The history a caller finally sees spans both, in the order things happened":
\* every response of the call but the last, redirects and challenges alike.
HistoryIsChain ==
    pc \in {"answered", "auth"} =>
        response.history = [i \in 1..(sends - 1) |-> i]

\* A call answers one challenge at most, and no chain of redirects is longer than
\* the client allows: between them they bound the requests one call can send,
\* wherever servers send it and however often they challenge it.
SendsBounded == sends <= 2 * (MaxRedirects + 1)

\* "A retry, a redirect or an auth challenge that needs the body again cannot
\* have it, and says so rather than sending an empty one" (Request.streaming):
\* a request that keeps the caller's method goes out with the caller's body.
RequestIsWhole ==
    pc = "send" /\ request.method = asked.method => request.body = asked.body

=============================================================================
