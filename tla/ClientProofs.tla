---------------------------- MODULE ClientProofs ----------------------------
(***************************************************************************)
(* The five properties the run of Client checks, for every set of places,  *)
(* statuses and methods and every number of redirects allowed.             *)
(***************************************************************************)
EXTENDS Client, TLAPS

InCall == pc \in {"send", "answered", "auth"}
HasAnswer == pc \in {"answered", "auth"}

CookieHeader == SUBSET (CookieType \cup {Own, Extra})

MethodType == Methods \cup {"", "GET"}
BodyType == {"none", "bytes", "stream", "gone"}

RequestType == [url : Urls \cup {Nowhere}, method : MethodType, body : BodyType,
                auth : Urls \cup {Nowhere}, cookies : CookieHeader, retry : BOOLEAN]

SetCookieType == [domain : Domains \cup {""}, hostOnly : BOOLEAN, secure : BOOLEAN,
                  gone : BOOLEAN]

ResponseType == [status : Nat, location : Urls \cup {Nowhere, Malformed},
                 challenge : Challenges, set : SetCookieType, history : Seq(Nat)]

CallType == [url : Urls \cup {Nowhere}, method : MethodType, body : BodyType,
             scheme : {"none", "basic", "digest"}, stream : BOOLEAN, follow : BOOLEAN]

\* The parts of the state whose types the other parts lean on.
Typed ==
    /\ pc \in {"ready", "send", "answered", "auth"}
    /\ cookies \subseteq CookieType
    /\ retried \in BOOLEAN
    /\ asked \in CallType /\ request \in RequestType /\ response \in ResponseType
    /\ InCall => request.url \in Urls
    /\ HasAnswer => response.set = NoCookie \/ response.set.domain \in Domains
    /\ hops \in Nat /\ sends \in Nat

\* CredentialsStayHome, and at every later point of the turn as well.
Scoped ==
    InCall /\ request.auth # Nowhere =>
        request.url = request.auth \/ IsHttpsRedirect(request.auth, request.url)

\* The header in hand belongs where the request goes, answered or not.
Fitting ==
    InCall => \A c \in request.cookies :
        IF c \in {Own, Extra} THEN request.url = asked.url
        ELSE CookieMatches(c, request.url)

\* What a request was given of the jar before it went out.
Complete ==
    pc = "send" /\ ~request.retry /\ Own \notin request.cookies =>
        request.cookies \ {Extra} = Matching(cookies, request.url)

\* Only the response in hand can hold a connection.
Holding ==
    /\ pc = "send" \/ (pc = "ready" /\ outcome = "raised") => held = {}
    /\ HasAnswer => held \subseteq {sends}

Numbers(n) == [i \in 1..n |-> i]

Chained ==
    /\ pc = "ready" => sends = 0 /\ hops = 0 /\ prior = <<>>
    /\ pc = "send" => prior = Numbers(sends)
    /\ HasAnswer => sends >= 1 /\ response.history = Numbers(sends - 1)

\* The chain before the one challenge that is answered.
Before == IF asked.scheme = "digest" /\ retried THEN MaxRedirects + 1 ELSE 0

Counted ==
    /\ hops <= MaxRedirects
    /\ pc = "send" => sends <= Before + hops
    /\ HasAnswer => sends <= Before + hops + 1

Inv == Typed /\ Scoped /\ Fitting /\ Complete /\ Holding /\ Chained /\ Counted

-----------------------------------------------------------------------------
(* The helpers.                                                            *)

\* inherit_history: the responses of a call are numbered without gaps.
LEMMA NumbersFacts ==
    /\ Numbers(0) = <<>>
    /\ \A n \in Nat : /\ Numbers(n) \in Seq(Nat)
                      /\ Append(Numbers(n), n + 1) = Numbers(n + 1)
<1>1. Numbers(0) = <<>>
  BY DEF Numbers
<1>2. ASSUME NEW n \in Nat
      PROVE  /\ Numbers(n) \in Seq(Nat)
             /\ Append(Numbers(n), n + 1) = Numbers(n + 1)
  <2>1. Numbers(n) \in Seq(Nat) /\ Len(Numbers(n)) = n
    BY DEF Numbers
  <2>2. /\ Append(Numbers(n), n + 1) \in Seq(Nat)
        /\ Len(Append(Numbers(n), n + 1)) = n + 1
        /\ \A i \in 1..(n + 1) : Append(Numbers(n), n + 1)[i] = i
    BY <2>1 DEF Numbers
  <2>3. /\ Numbers(n + 1) \in Seq(Nat)
        /\ Len(Numbers(n + 1)) = n + 1
        /\ \A i \in 1..(n + 1) : Numbers(n + 1)[i] = i
    BY DEF Numbers
  <2> QED BY <2>1, <2>2, <2>3
<1> QED BY <1>1, <1>2

\* The response in hand is the next in the history of the one after it.
LEMMA NumbersExtend ==
    ASSUME NEW n \in Nat, n >= 1
    PROVE  Append(Numbers(n - 1), n) = Numbers(n)
<1> DEFINE m == n - 1
<1>1. m \in Nat /\ m + 1 = n
  OBVIOUS
<1>2. Append(Numbers(m), m + 1) = Numbers(m + 1)
  BY <1>1, NumbersFacts
<1>3. Append(Numbers(m), n) = Numbers(n)
  BY <1>1, <1>2
<1> QED BY <1>3

\* CookieJar.matching gives back cookies of the jar that match, only.
LEMMA MatchingFits ==
    ASSUME NEW jar, jar \subseteq CookieType, NEW url
    PROVE  /\ Matching(jar, url) \subseteq CookieType
           /\ \A c \in Matching(jar, url) : CookieMatches(c, url)
           /\ Own \notin Matching(jar, url) /\ Extra \notin Matching(jar, url)
BY MineAssumption DEF Matching

\* A Set-Cookie, refused or not, leaves a jar of cookies.
LEMMA SetCookieTyped ==
    ASSUME NEW jar, jar \subseteq CookieType, NEW url, NEW c \in SetCookieType,
           c = NoCookie \/ c.domain \in Domains
    PROVE  SetCookie(jar, c, url) \subseteq CookieType
<1>1. CASE c = NoCookie
  BY <1>1 DEF SetCookie
<1>2. CASE c # NoCookie
  <2>1. Stored(c) \in CookieType
    BY <1>2 DEF Stored, CookieType, SetCookieType
  <2> QED BY <1>2, <2>1 DEF SetCookie
<1> QED BY <1>1, <1>2

\* What a server offers is a cookie of some domain, or none.
LEMMA OfferedTyped ==
    ASSUME NEW url \in Urls, NEW c \in Offered(url)
    PROVE  c \in SetCookieType /\ (c = NoCookie \/ c.domain \in Domains)
<1>1. url.host \in Domains
  BY DEF Domains, Hosts
<1>2. CASE c = NoCookie
  BY <1>2 DEF SetCookieType, NoCookie
<1>3. CASE \E s \in BOOLEAN, g \in BOOLEAN :
             c = [domain |-> url.host, hostOnly |-> TRUE, secure |-> s, gone |-> g]
  <2>1. PICK s \in BOOLEAN, g \in BOOLEAN :
          c = [domain |-> url.host, hostOnly |-> TRUE, secure |-> s, gone |-> g]
    BY <1>3
  <2>2. c.domain = url.host
    BY <2>1
  <2> QED BY <1>1, <2>1, <2>2 DEF SetCookieType
<1>4. CASE \E d \in Domains :
             c = [domain |-> d, hostOnly |-> FALSE, secure |-> FALSE, gone |-> FALSE]
  <2>1. PICK d \in Domains :
          c = [domain |-> d, hostOnly |-> FALSE, secure |-> FALSE, gone |-> FALSE]
    BY <1>4
  <2>2. c.domain = d
    BY <2>1
  <2> QED BY <2>1, <2>2 DEF SetCookieType
<1> QED
  <2>1. \/ c = NoCookie
        \/ \E s \in BOOLEAN :
             c = [domain |-> url.host, hostOnly |-> TRUE, secure |-> s, gone |-> FALSE]
        \/ c = [domain |-> url.host, hostOnly |-> TRUE, secure |-> FALSE, gone |-> TRUE]
        \/ \E d \in Domains :
             c = [domain |-> d, hostOnly |-> FALSE, secure |-> FALSE, gone |-> FALSE]
    BY Zenon DEF Offered
  <2> QED BY <2>1, <1>2, <1>3, <1>4

\* An answer is a response that has no history yet.
LEMMA AnswersTyped ==
    ASSUME NEW url \in Urls, NEW r \in Answers(url)
    PROVE  /\ r \in ResponseType
           /\ r.set = NoCookie \/ r.set.domain \in Domains
<1>1. PICK v \in Verdicts, k \in Offered(url) :
        r = [status |-> v[1], location |-> v[2], challenge |-> v[3], set |-> k,
             history |-> <<>>]
  BY DEF Answers
<1>2. v[1] \in Nat /\ v[2] \in Urls \cup {Nowhere, Malformed} /\ v[3] \in Challenges
  <2>1. CASE v \in (Statuses \cap 300..399) \X (Urls \cup {Nowhere, Malformed}) \X {"none"}
    BY <2>1, ClientAssumption DEF Challenges
  <2>2. CASE v \in {401} \X {Nowhere} \X Challenges
    BY <2>2
  <2>3. CASE v \in (Statuses \ 300..399) \X {Nowhere} \X {"none"}
    BY <2>3, ClientAssumption DEF Challenges
  <2> QED BY <2>1, <2>2, <2>3 DEF Verdicts
<1>3. r.set = k
  BY <1>1
<1> QED BY <1>1, <1>2, <1>3, OfferedTyped DEF ResponseType

-----------------------------------------------------------------------------
(* One lemma for each way a step can leave the invariant.                  *)

\* _send_handling_auth or a frame below it returns or raises: what a call that
\* is over leaves behind satisfies the invariant if what it raised held nothing.
LEMMA EndedKeeps ==
    ASSUME Inv, NEW how, Ended(how), cookies' \subseteq CookieType,
           retried' \in BOOLEAN, how = "raised" => held' = {}
    PROVE  Inv'
<1>1. /\ pc' = "ready" /\ outcome' = how
      /\ asked' = NoCall /\ request' = NoRequest /\ response' = NoResponse
      /\ hops' = 0 /\ prior' = <<>> /\ sends' = 0
  BY DEF Ended
<1>2. ~InCall' /\ ~HasAnswer' /\ pc' # "send"
  BY <1>1 DEF InCall, HasAnswer
<1>3. NoCall \in CallType
  BY DEF NoCall, CallType, MethodType, BodyType
<1>4. NoRequest \in RequestType
  BY DEF NoRequest, RequestType, CookieHeader, MethodType, BodyType
<1>5. NoResponse \in ResponseType
  <2>1. NoCookie \in SetCookieType
    BY DEF NoCookie, SetCookieType
  <2> QED BY <2>1 DEF NoResponse, ResponseType, Challenges
<1>6. Typed'
  BY <1>1, <1>2, <1>3, <1>4, <1>5 DEF Typed
<1>7. Scoped' /\ Fitting' /\ Complete'
  BY <1>2 DEF Scoped, Fitting, Complete
<1>8. Holding' /\ Chained'
  BY <1>1, <1>2 DEF Holding, Chained
<1>9. Counted'
  BY <1>1, <1>2, ClientAssumption DEF Counted
<1> QED BY <1>6, <1>7, <1>8, <1>9 DEF Inv

\* response.close() in front of a raise releases the one connection the call
\* can be holding.
LEMMA CloseAndRaiseKeeps ==
    ASSUME Inv, HasAnswer, CloseAndRaise, cookies' = cookies, retried' \in BOOLEAN
    PROVE  Inv'
<1>1. held' = {}
  BY DEF CloseAndRaise, Inv, Holding
<1> QED BY <1>1, EndedKeeps DEF CloseAndRaise, Inv, Typed

\* The program calls the client, with whatever.
Called ==
    \E url \in Urls, method \in Methods, body \in Bodies, scheme \in Schemes,
       stream, follow \in BOOLEAN, mine \in {{}, {Own}, {Extra}} :
        Call(url, method, body, scheme, stream, follow, mine)

\* build_request and sign.
LEMMA CallKeeps == ASSUME Inv, Called PROVE Inv'
<1> PICK url \in Urls, method \in Methods, body \in Bodies, scheme \in Schemes,
         stream \in BOOLEAN, follow \in BOOLEAN, mine \in {{}, {Own}, {Extra}} :
        Call(url, method, body, scheme, stream, follow, mine)
  BY DEF Called
<1> DEFINE carried == IF Own \in mine THEN {Own} ELSE Matching(cookies, url) \cup mine
<1>1. cookies \subseteq CookieType
  BY DEF Inv, Typed
<1>2. /\ carried \in CookieHeader
      /\ \A c \in carried : c \notin {Own, Extra} => CookieMatches(c, url)
      /\ Own \notin carried => carried \ {Extra} = Matching(cookies, url)
  BY <1>1, MatchingFits, MineAssumption DEF CookieHeader
<1>3. Signed(scheme, url) \in {url, Nowhere}
  BY DEF Signed
<1>4. /\ asked' = [url |-> url, method |-> method, body |-> body, scheme |-> scheme,
                   stream |-> stream, follow |-> follow]
      /\ request' = [url |-> url, method |-> method, body |-> body, retry |-> FALSE,
                     auth |-> Signed(scheme, url), cookies |-> carried]
      /\ pc = "ready" /\ pc' = "send" /\ held' = {}
      /\ retried' = IF scheme = "digest" THEN FALSE ELSE retried
      /\ UNCHANGED <<cookies, response, hops, prior, sends>>
  BY DEF Call
<1>5. InCall' /\ ~HasAnswer'
  BY <1>4 DEF InCall, HasAnswer
<1>6. asked' \in CallType /\ request' \in RequestType
  BY <1>2, <1>3, <1>4, ClientAssumption DEF CallType, RequestType, MethodType, BodyType
<1>7. /\ request'.url = url /\ request'.auth = Signed(scheme, url)
      /\ request'.cookies = carried /\ asked'.url = url /\ asked'.scheme = scheme
  BY <1>4
<1>8. Typed'
  BY <1>4, <1>5, <1>6, <1>7 DEF Inv, Typed
<1>9. Scoped'
  BY <1>3, <1>7 DEF Scoped
<1>10. Fitting'
  BY <1>2, <1>7 DEF Fitting, CookieMatches, DomainMatches
<1>11. Complete'
  BY <1>2, <1>4, <1>7 DEF Complete, Matching, CookieMatches, DomainMatches
<1>12. Holding' /\ Chained'
  BY <1>4, <1>5, NumbersFacts DEF Inv, Holding, Chained
<1>13. Counted'
  BY <1>4, <1>5, <1>7, ClientAssumption DEF Inv, Chained, Counted, Before
<1> QED BY <1>8, <1>9, <1>10, <1>11, <1>12, <1>13 DEF Inv

\* One turn of the redirect loop, up to the history.
LEMMA AnsweredKeeps ==
    ASSUME Inv, pc = "send", NEW r \in Answers(request.url), Answered(r)
    PROVE  Inv'
<1> USE DEF InCall, HasAnswer
<1>1. request.url \in Urls /\ request \in RequestType /\ asked \in CallType
  BY DEF Inv, Typed
<1>2. r \in ResponseType /\ (r.set = NoCookie \/ r.set.domain \in Domains)
  BY <1>1, AnswersTyped
<1>3. prior = Numbers(sends) /\ sends \in Nat /\ prior \in Seq(Nat)
  BY NumbersFacts DEF Inv, Typed, Chained
<1>4. response' \in ResponseType /\ response'.set = r.set /\ response'.history = prior
  BY <1>2, <1>3 DEF Answered, ResponseType
<1>5. /\ request' \in RequestType
      /\ request'.url = request.url /\ request'.auth = request.auth
      /\ request'.cookies = request.cookies
  BY <1>1 DEF Answered, RequestType, BodyType
<1>6. cookies' \subseteq CookieType
  <2>1. r.set \in SetCookieType /\ cookies \subseteq CookieType
    BY <1>2 DEF ResponseType, Inv, Typed
  <2> QED BY <1>2, <2>1, SetCookieTyped DEF Answered
<1>7. /\ pc' = "answered" /\ sends' = sends + 1 /\ hops' = hops
      /\ asked' = asked /\ retried' = retried
  BY DEF Answered
<1>8. Typed'
  BY <1>1, <1>2, <1>3, <1>4, <1>5, <1>6, <1>7 DEF Inv, Typed
<1>9. Scoped' /\ Complete'
  BY <1>5, <1>7 DEF Inv, Scoped, Complete
<1>10. Fitting'
  BY <1>5, <1>7 DEF Inv, Fitting, CookieMatches, DomainMatches
<1>11. Holding'
  BY <1>3, <1>7 DEF Inv, Holding, Answered
<1>12. Chained'
  BY <1>3, <1>4, <1>7 DEF Chained
<1>13. Counted'
  BY <1>3, <1>7, ClientAssumption DEF Inv, Typed, Counted, Before
<1> QED BY <1>8, <1>9, <1>10, <1>11, <1>12, <1>13 DEF Inv

\* A request that passes to its upgrade cannot have been passed on before: the
\* credentials it carries are its own.
LEMMA RedirectScoped ==
    ASSUME Inv, InCall, NEW to \in Urls, RedirectAuth(request.url, to) # Nowhere
    PROVE  LET auth == RedirectAuth(request.url, to)
           IN  to = auth \/ IsHttpsRedirect(auth, to)
<1>1. /\ request.auth # Nowhere /\ RedirectAuth(request.url, to) = request.auth
      /\ request.url = to \/ IsHttpsRedirect(request.url, to)
  BY DEF RedirectAuth
<1>2. request.url = request.auth \/ IsHttpsRedirect(request.auth, request.url)
  BY <1>1 DEF Inv, Scoped
<1>3. ~(IsHttpsRedirect(request.auth, request.url) /\ IsHttpsRedirect(request.url, to))
  BY DEF IsHttpsRedirect
<1> QED BY <1>1, <1>2, <1>3

\* The redirect loop goes round.
LEMMA FollowKeeps ==
    ASSUME Inv, Follow
    PROVE  Inv'
<1> USE DEF InCall, HasAnswer
<1> DEFINE to == response.location
<1>1. /\ pc = "answered" /\ pc' = "send" /\ request' = Following
      /\ response' = NoResponse /\ prior' = Append(response.history, sends)
      /\ held' = held \ {sends} /\ hops' = hops + 1 /\ hops < MaxRedirects
      /\ UNCHANGED <<cookies, retried, asked, sends>>
  BY DEF Follow, MayFollow, session
<1>2. /\ request \in RequestType /\ response \in ResponseType
      /\ cookies \subseteq CookieType /\ hops \in Nat /\ sends \in Nat
  BY DEF Inv, Typed
<1>3. to \in Urls
  BY <1>2 DEF Follow, MayFollow, IsRedirect, Unbuildable, LeadsNowhere, ResponseType
<1>4. /\ Matching(cookies, to) \in CookieHeader
      /\ \A c \in Matching(cookies, to) : c \notin {Own, Extra} /\ CookieMatches(c, to)
  BY <1>2, MatchingFits DEF CookieHeader
<1>5. /\ Following.url = to /\ Following.auth = RedirectAuth(request.url, to)
      /\ Following.cookies = Matching(cookies, to) /\ Following.retry = FALSE
  BY DEF Following, RedirectCookies
<1>6. Following \in RequestType
  <2>1. RedirectMethod(request.method, response.status) \in MethodType
    BY <1>2 DEF RedirectMethod, RequestType, MethodType
  <2>2. RedirectAuth(request.url, to) \in Urls \cup {Nowhere}
    BY <1>2 DEF RedirectAuth, RequestType
  <2>3. (IF RedirectMethod(request.method, response.status) # request.method
         THEN "none" ELSE request.body) \in BodyType
    BY <1>2 DEF RequestType, BodyType
  <2> QED BY <1>3, <1>4, <2>1, <2>2, <2>3 DEF Following, RedirectCookies, RequestType
<1>7. NoResponse \in ResponseType
  <2>1. NoCookie \in SetCookieType
    BY DEF NoCookie, SetCookieType
  <2> QED BY <2>1 DEF NoResponse, ResponseType, Challenges
<1>8. Typed'
  BY <1>1, <1>2, <1>3, <1>5, <1>6, <1>7 DEF Inv, Typed
<1>9. Scoped'
  BY <1>1, <1>3, <1>5, RedirectScoped DEF Scoped
<1>10. Fitting'
  BY <1>1, <1>4, <1>5 DEF Fitting
<1>11. Complete'
  BY <1>1, <1>4, <1>5 DEF Complete, Matching
<1>12. Holding'
  BY <1>1 DEF Inv, Holding
<1>13. Chained'
  <2>1. sends >= 1 /\ response.history = Numbers(sends - 1)
    BY <1>1 DEF Inv, Chained
  <2>2. Append(Numbers(sends - 1), sends) = Numbers(sends)
    BY <1>2, <2>1, NumbersExtend
  <2> QED BY <1>1, <2>1, <2>2 DEF Chained
<1>14. Counted'
  BY <1>1, <1>2, ClientAssumption DEF Inv, Counted, Before
<1> QED BY <1>8, <1>9, <1>10, <1>11, <1>12, <1>13, <1>14 DEF Inv

\* The redirect loop returns to the authentication loop.
LEMMA ChainEndsKeeps ==
    ASSUME Inv, ChainEnds
    PROVE  Inv'
<1> USE DEF InCall, HasAnswer
<1>1. /\ pc = "answered" /\ pc' = "auth"
      /\ UNCHANGED <<cookies, retried, asked, request, response, hops, prior,
                     sends, held, outcome>>
  BY DEF ChainEnds, session
<1>2. Typed' /\ Scoped' /\ Complete' /\ Holding' /\ Chained'
  BY <1>1 DEF Inv, Typed, Scoped, Complete, Holding, Chained
<1>3. Fitting'
  BY <1>1 DEF Inv, Fitting
<1>4. Counted'
  BY <1>1 DEF Inv, Counted, Before
<1> QED BY <1>2, <1>3, <1>4 DEF Inv

\* DigestAuth.next_request answers, and the authentication loop goes round.
LEMMA AnswerChallengeKeeps ==
    ASSUME Inv, AnswerChallenge
    PROVE  Inv'
<1> USE DEF InCall, HasAnswer
<1> DEFINE fresh == Matching(SetCookie({}, response.set, request.url), request.url)
<1>1. /\ pc = "auth" /\ pc' = "send" /\ request' = Retry
      /\ asked.scheme = "digest" /\ retried = FALSE /\ retried' = TRUE
      /\ response' = NoResponse /\ prior' = Append(response.history, sends)
      /\ held' = held \ {sends} /\ hops' = 0
      /\ UNCHANGED <<cookies, asked, sends>>
  BY DEF AnswerChallenge, IsChallenge, Inv, Typed
<1>2. /\ request \in RequestType /\ response \in ResponseType /\ request.url \in Urls
      /\ cookies \subseteq CookieType /\ hops \in Nat /\ sends \in Nat
  BY <1>1 DEF Inv, Typed
<1>3. /\ fresh \in CookieHeader
      /\ \A c \in fresh : c \notin {Own, Extra} /\ CookieMatches(c, request.url)
  <2>1. response.set \in SetCookieType
    BY <1>2 DEF ResponseType
  <2>2. response.set = NoCookie \/ response.set.domain \in Domains
    BY <1>1 DEF Inv, Typed
  <2>3. SetCookie({}, response.set, request.url) \subseteq CookieType
    BY <2>1, <2>2, SetCookieTyped
  <2> QED BY <2>3, MatchingFits DEF CookieHeader
<1>4. /\ Retry \in RequestType
      /\ Retry.url = request.url /\ Retry.auth = request.url /\ Retry.retry = TRUE
      /\ Retry.cookies = IF fresh = {} THEN request.cookies ELSE fresh
  BY <1>2, <1>3 DEF Retry, RequestType
<1>5. NoResponse \in ResponseType
  <2>1. NoCookie \in SetCookieType
    BY DEF NoCookie, SetCookieType
  <2> QED BY <2>1 DEF NoResponse, ResponseType, Challenges
<1>6. Typed'
  BY <1>1, <1>2, <1>4, <1>5 DEF Inv, Typed
<1>7. Scoped' /\ Complete'
  BY <1>1, <1>4 DEF Scoped, Complete
<1>8. Fitting'
  <2>1. \A c \in request.cookies :
          IF c \in {Own, Extra} THEN request.url = asked.url
          ELSE CookieMatches(c, request.url)
    BY <1>1 DEF Inv, Fitting
  <2> QED BY <1>1, <1>3, <1>4, <2>1 DEF Fitting
<1>9. Holding'
  BY <1>1 DEF Inv, Holding
<1>10. Chained'
  <2>1. sends >= 1 /\ response.history = Numbers(sends - 1)
    BY <1>1 DEF Inv, Chained
  <2>2. Append(Numbers(sends - 1), sends) = Numbers(sends)
    BY <1>2, <2>1, NumbersExtend
  <2> QED BY <1>1, <2>1, <2>2 DEF Chained
<1>11. Counted'
  BY <1>1, <1>2, ClientAssumption DEF Inv, Counted, Before
<1> QED BY <1>6, <1>7, <1>8, <1>9, <1>10, <1>11 DEF Inv

-----------------------------------------------------------------------------
(* The specification.                                                      *)

\* A client just made satisfies the invariant (BaseClient.__init__).
LEMMA InitHolds == Init => Inv
<1> SUFFICES ASSUME Init PROVE Inv
  OBVIOUS
<1>1. ~InCall /\ ~HasAnswer /\ pc = "ready"
  BY DEF Init, InCall, HasAnswer
<1>2. NoCall \in CallType
  BY DEF NoCall, CallType, MethodType, BodyType
<1>3. NoRequest \in RequestType
  BY DEF NoRequest, RequestType, CookieHeader, MethodType, BodyType
<1>4. NoResponse \in ResponseType
  <2>1. NoCookie \in SetCookieType
    BY DEF NoCookie, SetCookieType
  <2> QED BY <2>1 DEF NoResponse, ResponseType, Challenges
<1>5. Typed
  BY <1>1, <1>2, <1>3, <1>4 DEF Typed, Init
<1>6. Scoped /\ Fitting /\ Complete
  BY <1>1 DEF Scoped, Fitting, Complete
<1>7. Holding /\ Chained
  BY <1>1 DEF Holding, Chained, Init
<1>8. Counted
  BY <1>1, ClientAssumption DEF Counted, Init
<1> QED BY <1>5, <1>6, <1>7, <1>8 DEF Inv

\* A step that ends no call and starts none: a refused one, close, a stutter.
LEMMA AtRestKeeps ==
    ASSUME Inv, UNCHANGED <<cookies, pc, asked, request, response, hops, prior, sends>>,
           retried' \in BOOLEAN, retried' = retried \/ pc = "ready",
           (held' = held /\ outcome' = outcome) \/ (pc = "ready" /\ held' = {})
    PROVE  Inv'
<1> USE DEF InCall, HasAnswer
<1>1. Typed' /\ Scoped' /\ Complete' /\ Chained'
  BY DEF Inv, Typed, Scoped, Complete, Chained
<1>2. Fitting'
  BY DEF Inv, Fitting
<1>3. Holding'
  BY DEF Inv, Holding
<1>4. Counted'
  BY DEF Inv, Counted, Before
<1> QED BY <1>1, <1>2, <1>3, <1>4 DEF Inv

\* Every step of send and of the program around it keeps the invariant.
LEMMA NextHolds == Inv /\ [Next]_vars => Inv'
<1> SUFFICES ASSUME Inv, [Next]_vars PROVE Inv'
  OBVIOUS
<1>0. retried \in BOOLEAN /\ cookies \subseteq CookieType
  BY DEF Inv, Typed
<1>1. CASE SendRaises
  <2>1. held' = {}
    BY <1>1 DEF SendRaises, Inv, Holding
  <2> QED BY <1>0, <1>1, <2>1, EndedKeeps DEF SendRaises, session
<1>2. CASE pc = "send" /\ \E r \in Answers(request.url) : Answered(r)
  BY <1>2, AnsweredKeeps
<1>3. CASE ResponseHookRaises
  BY <1>0, <1>3, CloseAndRaiseKeeps DEF ResponseHookRaises, HasAnswer, session
<1>4. CASE TooManyRedirects
  BY <1>0, <1>4, CloseAndRaiseKeeps DEF TooManyRedirects, HasAnswer, session
<1>5. CASE RedirectUnbuildable
  BY <1>0, <1>5, CloseAndRaiseKeeps DEF RedirectUnbuildable, HasAnswer, session
<1>6. CASE DrainFails
  BY <1>0, <1>6, CloseAndRaiseKeeps DEF DrainFails, MayFollow, HasAnswer, session
<1>7. CASE Follow
  BY <1>7, FollowKeeps
<1>8. CASE ChainEnds
  BY <1>8, ChainEndsKeeps
<1>9. CASE Return
  <2>1. Ended("returned") /\ UNCHANGED <<cookies, retried>>
    BY <1>9 DEF Return, session
  <2> QED BY <1>0, <2>1, EndedKeeps
<1>10. CASE ChallengeRaises
  <2>1. retried' \in BOOLEAN
    BY <1>0, <1>10 DEF ChallengeRaises
  <2> QED BY <1>10, <2>1, CloseAndRaiseKeeps DEF ChallengeRaises, HasAnswer
<1>11. CASE ChallengeUnread
  BY <1>11, CloseAndRaiseKeeps DEF ChallengeUnread, HasAnswer
<1>12. CASE AnswerChallenge
  BY <1>12, AnswerChallengeKeeps
<1>13. CASE Close
  BY <1>0, <1>13, AtRestKeeps DEF Close
<1>14. ASSUME NEW scheme \in Schemes, CallRefused(scheme)
       PROVE  Inv'
  <2>1. retried' \in BOOLEAN
    BY <1>14 DEF CallRefused
  <2> QED BY <1>0, <1>14, <2>1, AtRestKeeps DEF CallRefused
<1>15. CASE Called
  BY <1>15, CallKeeps
<1>16. CASE UNCHANGED vars
  BY <1>0, <1>16, AtRestKeeps DEF vars
<1> QED
  BY <1>1, <1>2, <1>3, <1>4, <1>5, <1>6, <1>7, <1>8, <1>9, <1>10, <1>11, <1>12,
     <1>13, <1>14, <1>15, <1>16 DEF Next, Progress, Program, Called

\* BaseClient.send keeps the invariant, whatever servers, hooks and the
\* transport do.
THEOREM Invariance == Spec => []Inv
<1>1. Init => Inv
  BY InitHolds
<1>2. Inv /\ [Next]_vars => Inv'
  BY NextHolds
<1> QED BY <1>1, <1>2, PTL DEF Spec

\* redirect_headers and DigestAuth between them: a chain of any length, with a
\* challenge anywhere in it, sends an Authorization header only to the origin it
\* was computed for or to that origin's upgrade to TLS.
THEOREM CredentialsScoped == Spec => []CredentialsStayHome
<1>1. Inv => CredentialsStayHome
  BY DEF Inv, Scoped, InCall, CredentialsStayHome
<1> QED BY <1>1, Invariance, PTL

\* _apply_cookies: a request carries no cookie of elsewhere, and all the jar has
\* for where it goes.
THEOREM CookiesScoped == Spec => []CookiesFit
<1>1. Inv => CookiesFit
  BY DEF Inv, Fitting, Complete, InCall, CookiesFit
<1> QED BY <1>1, Invariance, PTL

\* Every response the two loops leave behind, and every one a failing call had
\* in hand, has given its connection back.
THEOREM ConnectionsReleased == Spec => []NothingHeld
<1>1. Inv => NothingHeld
  BY DEF Inv, Holding, NothingHeld
<1> QED BY <1>1, Invariance, PTL

\* inherit_history across both loops: the history of a response is every
\* response of the call before it, in order.
THEOREM HistoryComplete == Spec => []HistoryIsChain
<1>1. Inv => HistoryIsChain
  BY DEF Inv, Chained, HasAnswer, Numbers, HistoryIsChain
<1> QED BY <1>1, Invariance, PTL

\* max_redirects and the one retry bound the requests of a call.
THEOREM CallsBounded == Spec => []SendsBounded
<1>1. Inv => SendsBounded
  BY ClientAssumption
     DEF Inv, Typed, Chained, Counted, Before, HasAnswer, SendsBounded
<1> QED BY <1>1, Invariance, PTL

=============================================================================
