------------------------------- MODULE H1Proofs -------------------------------
(***************************************************************************)
(* Proofs that an HTTP/1.1 connection gives each request its own answer,   *)
(* and all of it, and sends nothing after an upload that broke half way,   *)
(* for any number of requests, pieces of body and tokens in flight.        *)
(***************************************************************************)
EXTENDS H1, SeqLemmas

Tokens ==
    [what : {"info", "continue", "head", "switch", "data", "last"},
     by : 0..Requests, framing : Framings, keep : BOOLEAN]

Pieces == {"head", "body", "short", "over"}

Wanted == {"head", "post", "expect", "short"}

Misreadings == {"none", "head", "post", "expect", "short", "over"}

Parts == [part : Pieces, kind : AllKinds, of : 1..Requests]

Counts == [data : Nat, ended : BOOLEAN]

\* The types TypeOK leaves out.
Types ==
    /\ pending \in Tokens \cup {NoToken} /\ reader \in Framings \cup {"complete"}
    /\ keepAlive \in BOOLEAN /\ upgraded \in BOOLEAN
    /\ buf \in Seq(Tokens) /\ wire \in Seq(Tokens) /\ toServer \in Seq(Parts)
    /\ streamOpen \in BOOLEAN /\ kind \in AllKinds
    /\ serverClosed \in BOOLEAN /\ wants \in Wanted
    /\ serving \in 0..Requests /\ stage \in {"idle", "owes", "sending"}
    /\ reply \in [framing : Framings, keep : BOOLEAN]
    /\ answer \in [1..Requests -> Tokens \cup {NoToken}]
    /\ verdict \in [1..Requests -> {"none", "whole", "failed"}]
    /\ sent \in [1..Requests -> Counts] /\ read \in [1..Requests -> Nat]
    /\ misread \in Misreadings

-----------------------------------------------------------------------------
(* What the server has read, and has yet to.                               *)

\* What is to come first is the body of the request being served.
Lead ==
    /\ Len(toServer) > 0 /\ wants # "head"
    /\ toServer[1].part # "head" /\ toServer[1].of = serving

Ahead == IF Lead THEN 1 ELSE 0

\* Behind it come the head of the last request, if the server has not read
\* that, and its body.
Uplink ==
    /\ \A i \in 1..Len(toServer) : i > Ahead =>
         /\ toServer[i].of = k /\ toServer[i].kind = kind /\ serving < k
         /\ toServer[i].part = "head" => i = Ahead + 1
         /\ toServer[i].part # "head" => HasBody(kind) /\ i = Len(toServer)
         /\ toServer[i].part # "head" /\ i = Ahead + 1 => wants = "head"
    /\ serving < k /\ Len(toServer) = Ahead => wants = "head" /\ Ahead = 0
    /\ pc \in {"expecting", "sending"} =>
         /\ \A i \in 1..Len(toServer) : toServer[i].part # "head" => i <= Ahead
         /\ serving = k => Len(toServer) = 0 /\ (HasBody(kind) => wants = kind)

\* What the server has done about the last request.
Unanswered == serving < k \/ stage = "owes"

Serving ==
    /\ serving <= k
    /\ stage # "idle" => serving = k /\ k > 0 /\ ~sent[k].ended
    /\ stage = "owes" => sent[k].data = 0
    /\ stage = "sending" => reply.framing # "none"
    /\ Unanswered => reply.keep
    /\ k = 0 => reply.keep /\ pc \in {"idle", "ended"} /\ toServer = <<>>
    /\ \A r \in 1..Requests : r > serving => sent[r] = [data |-> 0, ended |-> FALSE]
    /\ \A r \in 1..Requests : r > k =>
         answer[r] = NoToken /\ read[r] = 0 /\ verdict[r] = "none"

-----------------------------------------------------------------------------
(* What is on its way to the client.                                       *)

Queue == buf \o wire

Before(t) == t.by = k /\ IsInterim(t) /\ (kind = "expect" => t.what = "continue")

\* The response to the last request, as the server means it.
Final(t) ==
    /\ t.by = k
    /\ \/ /\ t.what = "head" /\ t.framing = reply.framing /\ t.keep = reply.keep
          /\ t.framing = "none" => sent[k].data = 0
          /\ stage = "idle" => sent[k].ended /\ t.framing # "until_close"
       \/ t.what = "switch" /\ reply.keep /\ stage = "idle"

Unread == sent[k].data - read[k]

\* The interim heads, the response at position f (0 when it has been taken),
\* what is left of its body, and then only what a server may send that closes.
Laid(f) ==
    /\ Unread \in Nat /\ f + Unread <= Len(Queue)
    /\ \A i \in 1..Len(Queue) :
         /\ i < f => Before(Queue[i])
         /\ i = f => Final(Queue[i])
         /\ i > f /\ i <= f + Unread =>
              Queue[i].what = IF i = f + Unread /\ sent[k].ended THEN "last" ELSE "data"
         /\ i > f + Unread /\ i > f => ~reply.keep /\ stage = "idle"

\* The end of a body that has one is still to be read.
EndToCome == reply.framing = "sized" /\ sent[k].ended => Unread > 0

Awaited ==
    pc \in {"expecting", "sending", "head"} /\ pending = NoToken =>
        /\ k > 0 /\ answer[k] = NoToken /\ read[k] = 0
        /\ \/ Unanswered /\ \A i \in 1..Len(Queue) : Before(Queue[i])
           \/ ~Unanswered /\ EndToCome /\ \E f \in 1..Len(Queue) : Laid(f)

Parked ==
    pending # NoToken =>
        /\ k > 0 /\ answer[k] = NoToken /\ read[k] = 0 /\ ~Unanswered
        /\ Laid(0) /\ EndToCome /\ Final(pending)

Reading ==
    pc = "body" =>
        /\ k > 0 /\ ~Unanswered /\ Laid(0)
        /\ Final(answer[k]) /\ answer[k].what = "head"
        /\ keepAlive = KeepsAlive(answer[k])
        /\ reader \in {"none", "complete"} => Unread = 0 /\ sent[k].ended
        /\ reader \notin {"none", "complete"} => EndToCome /\ reader = reply.framing

Rested ==
    pc = "idle" =>
        /\ Len(Queue) = 0
        /\ k > 0 => /\ ~Unanswered /\ stage = "idle" /\ reply.keep /\ verdict[k] = "whole"
                    /\ answer[k].keep /\ answer[k].framing # "until_close"

\* The kind of the request and the stage of its sending.
Sending ==
    pc = "expecting" => kind = "expect"

\* The inductive invariant: where each token of the two directions stands.
Inv ==
    /\ TypeOK /\ Types /\ Uplink /\ Serving /\ Sending
    /\ Awaited /\ Parked /\ Reading /\ Rested
    /\ AnswerIsForRequest /\ WholeIsWhole

-----------------------------------------------------------------------------
(* The framing of uploads, whatever the server answers.                    *)

\* What may come after a part of a request.
Follows(a, b) ==
    IF a.part # "head" \/ ~HasBody(a.kind) THEN b.part = "head"
    ELSE a.kind = "post" => b.part # "head"

Mid == pc \in {"expecting", "sending"}

Framed ==
    misread = "none" =>
        /\ \A i \in 1..(Len(toServer) - 1) : Follows(toServer[i], toServer[i + 1])
        /\ Len(toServer) > 0 =>
             /\ wants = "head" => toServer[1].part = "head"
             /\ wants = "post" => toServer[1].part # "head"
             /\ LET t == toServer[Len(toServer)]
                IN  /\ t.part = "head" /\ t.kind = "post" => pc \in {"sending", "ended"}
                    /\ Mid => t.part = "head" /\ t.kind = kind
        /\ Len(toServer) = 0 =>
             /\ wants = "post" => pc \in {"sending", "ended"}
             /\ Mid => wants = IF HasBody(kind) THEN kind ELSE "head"

\* What the client has seen of the exchange it has finished.
Kept ==
    /\ pc = "body" => keepAlive = KeepsAlive(answer[k])
    /\ pc = "idle" /\ k > 0 =>
         /\ verdict[k] = "whole"
         /\ answer[k].keep /\ answer[k].framing # "until_close"
    /\ pc \notin {"idle", "ended"} => k > 0

\* The inductive invariant of these: nothing in it is about the server's manners.
Ground == TypeOK /\ Types /\ Sending /\ Kept /\ Framed /\ UploadsFramed

-----------------------------------------------------------------------------
(* The queue of tokens to the client.                                      *)

LEMMA QueueShape ==
    ASSUME Types
    PROVE  /\ Queue \in Seq(Tokens) /\ Len(Queue) \in Nat
           /\ Len(buf) \in Nat /\ Len(wire) \in Nat /\ Len(Queue) = Len(buf) + Len(wire)
           /\ \A i \in 1..Len(Queue) : Queue[i] \in Tokens
           /\ buf # <<>> => Len(Queue) > 0 /\ Head(buf) = Queue[1]
<1>1. buf \in Seq(Tokens) /\ wire \in Seq(Tokens) /\ Len(buf) \in Nat /\ Len(wire) \in Nat
  BY LenProperties DEF Types
<1>2. /\ Queue \in Seq(Tokens) /\ Len(Queue) = Len(buf) + Len(wire)
      /\ \A i \in 1..(Len(buf) + Len(wire)) :
           Queue[i] = IF i <= Len(buf) THEN buf[i] ELSE wire[i - Len(buf)]
  BY <1>1, ConcatProperties DEF Queue
<1>3. buf # <<>> => Len(buf) > 0 /\ Head(buf) = buf[1]
  BY <1>1, EmptySeq
<1>4. \A i \in 1..Len(Queue) : Queue[i] \in Tokens
  BY <1>2, ElementOfSeq
<1> QED
  BY <1>1, <1>2, <1>3, <1>4

\* A read moves tokens from the wire to the buffer, in their order.
LEMMA QueueFilled ==
    ASSUME Types, buf = <<>>, NEW n \in 1..Len(wire),
           buf' = SubSeq(wire, 1, n), wire' = SubSeq(wire, n + 1, Len(wire))
    PROVE  /\ Queue' = Queue /\ buf' \in Seq(Tokens) /\ wire' \in Seq(Tokens)
           /\ Len(wire') <= Len(wire)
<1> DEFINE a == SubSeq(wire, 1, n)
           b == SubSeq(wire, n + 1, Len(wire))
<1>1. /\ wire \in Seq(Tokens) /\ Len(wire) \in Nat
      /\ \A i \in 1..Len(wire) : wire[i] \in Tokens
  BY LenProperties, ElementOfSeq DEF Types
<1>2. n \in Nat /\ n <= Len(wire)
  BY <1>1
<1>3. a \in Seq(Tokens) /\ Len(a) = n /\ \A i \in 1..n : a[i] = wire[i]
  <2>1. \A i \in 1..n : wire[i] \in Tokens
    BY <1>1, <1>2
  <2>2. /\ a \in Seq(Tokens) /\ Len(a) = IF 1 <= n THEN n - 1 + 1 ELSE 0
        /\ \A i \in 1..(n - 1 + 1) : a[i] = wire[1 + i - 1]
    BY <1>2, <2>1, SubSeqProperties
  <2> QED
    BY <1>2, <2>2
<1>4. /\ b \in Seq(Tokens) /\ Len(b) = Len(wire) - n
      /\ \A i \in 1..(Len(wire) - n) : b[i] = wire[n + i]
  <2>1. n + 1 \in Int /\ Len(wire) \in Int /\ \A i \in (n + 1)..Len(wire) : wire[i] \in Tokens
    BY <1>1, <1>2
  <2>2. /\ b \in Seq(Tokens)
        /\ Len(b) = IF n + 1 <= Len(wire) THEN Len(wire) - (n + 1) + 1 ELSE 0
        /\ \A i \in 1..(Len(wire) - (n + 1) + 1) : b[i] = wire[(n + 1) + i - 1]
    BY <2>1, SubSeqProperties
  <2> QED
    BY <1>1, <1>2, <2>2
<1> HIDE DEF a, b
<1>5. /\ a \o b \in Seq(Tokens) /\ Len(a \o b) = Len(a) + Len(b)
      /\ \A i \in 1..(Len(a) + Len(b)) :
           (a \o b)[i] = IF i <= Len(a) THEN a[i] ELSE b[i - Len(a)]
  BY <1>3, <1>4, ConcatProperties
<1>6. Len(a \o b) = Len(wire) /\ \A i \in 1..Len(wire) : (a \o b)[i] = wire[i]
  <2>1. Len(a \o b) = Len(wire)
    BY <1>1, <1>2, <1>3, <1>4, <1>5
  <2>2. ASSUME NEW i \in 1..Len(wire) PROVE (a \o b)[i] = wire[i]
    <3>1. CASE i <= n
      BY <1>1, <1>2, <1>3, <1>4, <1>5, <3>1
    <3>2. CASE ~(i <= n)
      <4>1. i - n \in 1..(Len(wire) - n) /\ n + (i - n) = i
        BY <1>1, <1>2, <3>2
      <4> QED
        BY <1>1, <1>2, <1>3, <1>4, <1>5, <3>2, <4>1
    <3> QED
      BY <3>1, <3>2
  <2> QED
    BY <2>1, <2>2
<1>7. a \o b = wire
  BY <1>1, <1>5, <1>6, SeqEqual
<1>8. Queue = wire
  BY <1>1, ConcatEmptySeq DEF Queue
<1>9. Queue' = a \o b
  BY DEF Queue, a, b
<1> QED
  BY <1>1, <1>2, <1>3, <1>4, <1>7, <1>8, <1>9 DEF a, b

\* The first token is taken.
LEMMA QueueTaken ==
    ASSUME Types, buf # <<>>, buf' = Tail(buf), wire' = wire
    PROVE  /\ buf' \in Seq(Tokens) /\ Len(Queue') = Len(Queue) - 1
           /\ \A i \in 1..(Len(Queue) - 1) : Queue'[i] = Queue[i + 1]
<1>1. /\ buf \in Seq(Tokens) /\ wire \in Seq(Tokens) /\ Len(buf) \in Nat /\ Len(wire) \in Nat
      /\ Len(buf) # 0
  BY LenProperties, EmptySeq DEF Types
<1>2. /\ Tail(buf) \in Seq(Tokens) /\ Len(Tail(buf)) = Len(buf) - 1
      /\ \A i \in 1..(Len(buf) - 1) : Tail(buf)[i] = buf[i + 1]
  BY <1>1, HeadTailProperties
<1>3. /\ Len(Queue) = Len(buf) + Len(wire)
      /\ \A i \in 1..(Len(buf) + Len(wire)) :
           Queue[i] = IF i <= Len(buf) THEN buf[i] ELSE wire[i - Len(buf)]
  BY <1>1, ConcatProperties DEF Queue
<1>4. /\ Len(Queue') = Len(buf) - 1 + Len(wire)
      /\ \A i \in 1..(Len(buf) - 1 + Len(wire)) :
           Queue'[i] = IF i <= Len(buf) - 1 THEN Tail(buf)[i] ELSE wire[i - (Len(buf) - 1)]
  <2>1. Queue' = Tail(buf) \o wire
    BY DEF Queue
  <2> DEFINE t == Tail(buf)
  <2> HIDE DEF t
  <2>2. t \in Seq(Tokens) /\ Len(t) = Len(buf) - 1
    BY <1>2 DEF t
  <2>3. /\ Len(t \o wire) = Len(t) + Len(wire)
        /\ \A i \in 1..(Len(t) + Len(wire)) :
             (t \o wire)[i] = IF i <= Len(t) THEN t[i] ELSE wire[i - Len(t)]
    BY <1>1, <2>2, ConcatProperties
  <2> QED
    BY <2>1, <2>2, <2>3 DEF t
<1>5. ASSUME NEW i \in 1..(Len(Queue) - 1) PROVE Queue'[i] = Queue[i + 1]
  <2>1. i \in Int /\ i >= 1 /\ i <= Len(buf) - 1 + Len(wire)
    BY <1>1, <1>3
  <2>2. CASE i <= Len(buf) - 1
    <3>1. /\ i \in 1..(Len(buf) - 1) /\ i \in 1..(Len(buf) - 1 + Len(wire))
          /\ i + 1 \in 1..(Len(buf) + Len(wire)) /\ i + 1 <= Len(buf)
      BY <1>1, <2>1, <2>2
    <3>2. Queue'[i] = Tail(buf)[i] /\ Queue[i + 1] = buf[i + 1]
      BY <1>3, <1>4, <2>2, <3>1
    <3> QED
      BY <1>2, <3>1, <3>2
  <2>3. CASE ~(i <= Len(buf) - 1)
    <3>1. i - (Len(buf) - 1) = (i + 1) - Len(buf)
      BY <1>1, <2>1
    <3>2. /\ i \in 1..(Len(buf) - 1 + Len(wire)) /\ i + 1 \in 1..(Len(buf) + Len(wire))
          /\ ~(i + 1 <= Len(buf))
      BY <1>1, <2>1, <2>3
    <3>3. /\ Queue'[i] = wire[i - (Len(buf) - 1)]
          /\ Queue[i + 1] = wire[(i + 1) - Len(buf)]
      BY <1>3, <1>4, <2>3, <3>2
    <3> QED
      BY <3>1, <3>3
  <2> QED
    BY <2>2, <2>3
<1> QED
  BY <1>1, <1>2, <1>3, <1>4, <1>5

\* The server puts a token behind the others.
LEMMA QueuePosted ==
    ASSUME Types, TypeOK, NEW t \in Tokens, Post(t), buf' = buf
    PROVE  /\ wire' \in Seq(Tokens) /\ Len(wire') <= MaxWire /\ Len(Queue') = Len(Queue) + 1
           /\ Queue'[Len(Queue) + 1] = t
           /\ \A i \in 1..Len(Queue) : Queue'[i] = Queue[i]
<1>1. /\ buf \in Seq(Tokens) /\ wire \in Seq(Tokens) /\ Len(buf) \in Nat /\ Len(wire) \in Nat
  BY LenProperties DEF Types
<1>2. /\ wire' \in Seq(Tokens) /\ Len(wire') = Len(wire) + 1 /\ wire'[Len(wire) + 1] = t
      /\ \A i \in 1..Len(wire) : wire'[i] = wire[i]
  BY <1>1, AppendProperties DEF Post
<1>3. /\ Len(Queue) = Len(buf) + Len(wire)
      /\ \A i \in 1..(Len(buf) + Len(wire)) :
           Queue[i] = IF i <= Len(buf) THEN buf[i] ELSE wire[i - Len(buf)]
  BY <1>1, ConcatProperties DEF Queue
<1>4. /\ Len(Queue') = Len(buf) + (Len(wire) + 1)
      /\ \A i \in 1..(Len(buf) + (Len(wire) + 1)) :
           Queue'[i] = IF i <= Len(buf) THEN buf[i] ELSE wire'[i - Len(buf)]
  <2>1. Queue' = buf \o wire'
    BY DEF Queue
  <2>2. /\ Len(buf \o wire') = Len(buf) + Len(wire')
        /\ \A i \in 1..(Len(buf) + Len(wire')) :
             (buf \o wire')[i] = IF i <= Len(buf) THEN buf[i] ELSE wire'[i - Len(buf)]
    BY <1>1, <1>2, ConcatProperties
  <2> QED
    BY <1>2, <2>1, <2>2
<1>5. ASSUME NEW i \in 1..Len(Queue) PROVE Queue'[i] = Queue[i]
  <2>1. CASE i <= Len(buf)
    BY <1>1, <1>3, <1>4, <2>1
  <2>2. CASE ~(i <= Len(buf))
    <3>1. i - Len(buf) \in 1..Len(wire) /\ i \in 1..(Len(buf) + (Len(wire) + 1))
      BY <1>1, <1>3, <2>2
    <3>2. Queue[i] = wire[i - Len(buf)]
      BY <1>3, <2>2
    <3>3. Queue'[i] = wire'[i - Len(buf)]
      BY <1>4, <2>2, <3>1
    <3>4. wire'[i - Len(buf)] = wire[i - Len(buf)]
      BY <1>2, <3>1
    <3> QED
      BY <3>2, <3>3, <3>4
  <2> QED
    BY <2>1, <2>2
<1>6. Queue'[Len(Queue) + 1] = t
  <2>1. /\ Len(Queue) + 1 \in 1..(Len(buf) + (Len(wire) + 1)) /\ ~(Len(Queue) + 1 <= Len(buf))
        /\ (Len(Queue) + 1) - Len(buf) = Len(wire) + 1
    BY <1>1, <1>3
  <2>2. Queue'[Len(Queue) + 1] = wire'[(Len(Queue) + 1) - Len(buf)]
    BY <1>4, <2>1
  <2> QED
    BY <1>2, <2>1, <2>2
<1>7. MaxWire \in Nat /\ Len(wire) < MaxWire
  BY H1Assumption DEF Post
<1> QED
  BY <1>1, <1>2, <1>3, <1>4, <1>5, <1>6, <1>7

-----------------------------------------------------------------------------
(* What a step that leaves a part of the state alone keeps.                *)

\* The client takes a step and sends nothing.
LEMMA UplinkKept ==
    ASSUME Uplink, UNCHANGED <<toServer, wants, serving, k, kind>>,
           pc' \in {"expecting", "sending"} => pc \in {"expecting", "sending"}
    PROVE  Uplink'
<1>1. Lead' = Lead /\ Ahead' = Ahead
  BY DEF Lead, Ahead
<1> QED
  BY <1>1 DEF Uplink

\* Only the last request has anything happen to it.
LEMMA ServingKept ==
    ASSUME Types, TypeOK, Serving, UNCHANGED <<serving, stage, reply, sent, k>>, k > 0,
           \A r \in 1..Requests :
             r # k => answer'[r] = answer[r] /\ read'[r] = read[r] /\ verdict'[r] = verdict[r]
    PROVE  Serving'
<1>1. Unanswered' = Unanswered
  BY DEF Unanswered
<1>2. k \in Nat
  BY H1Assumption DEF TypeOK
<1> QED
  BY <1>1, <1>2 DEF Serving

LEMMA AheadBound ==
    ASSUME Types
    PROVE  Ahead \in 0..1 /\ Ahead <= Len(toServer) /\ Len(toServer) \in Nat
<1>1. Len(toServer) \in Nat
  BY LenProperties DEF Types
<1>2. CASE Lead
  BY <1>1, <1>2 DEF Lead, Ahead
<1>3. CASE ~Lead
  BY <1>1, <1>3 DEF Ahead
<1> QED
  BY <1>1, <1>2, <1>3

LEMMA LayoutKept ==
    ASSUME UNCHANGED <<serving, stage, reply, sent, k, kind, read>>
    PROVE  /\ Unanswered' = Unanswered /\ Unread' = Unread /\ EndToCome' = EndToCome
           /\ \A t : Before(t)' = Before(t) /\ Final(t)' = Final(t)
           /\ Queue' = Queue => \A f : Laid(f)' = Laid(f)
<1>1. Unanswered' = Unanswered /\ Unread' = Unread /\ EndToCome' = EndToCome
  BY DEF Unanswered, Unread, EndToCome
<1>2. \A t : Before(t)' = Before(t) /\ Final(t)' = Final(t)
  BY DEF Before, Final, IsInterim
<1>3. ASSUME Queue' = Queue, NEW f PROVE Laid(f)' = Laid(f)
  BY <1>1, <1>2, <1>3 DEF Laid
<1> QED
  BY <1>1, <1>2, <1>3

-----------------------------------------------------------------------------
(* The client's steps.                                                     *)

LEMMA InvInit == Init => Inv
<1> SUFFICES ASSUME Init PROVE Inv
  OBVIOUS
<1>1. Requests \in Nat \ {0}
  BY H1Assumption
<1>2. TypeOK
  BY <1>1, H1Assumption DEF Init, TypeOK
<1>3. Types
  <2>1. /\ answer \in [1..Requests -> Tokens \cup {NoToken}]
        /\ verdict \in [1..Requests -> {"none", "whole", "failed"}]
        /\ sent \in [1..Requests -> Counts] /\ read \in [1..Requests -> Nat]
    BY DEF Init, Counts
  <2>2. buf \in Seq(Tokens) /\ wire \in Seq(Tokens) /\ toServer \in Seq(Parts)
    BY DEF Init
  <2>3. reply \in [framing : Framings, keep : BOOLEAN]
    BY DEF Init, Framings
  <2>4. /\ pending \in Tokens \cup {NoToken} /\ keepAlive \in BOOLEAN /\ upgraded \in BOOLEAN
        /\ streamOpen \in BOOLEAN /\ serverClosed \in BOOLEAN
    BY DEF Init
  <2>5. reader \in Framings \cup {"complete"} /\ kind \in AllKinds
    BY DEF Init, Framings, AllKinds
  <2>6. /\ wants \in Wanted /\ stage \in {"idle", "owes", "sending"}
        /\ misread \in Misreadings
    BY DEF Init, Wanted, Misreadings
  <2>7. serving \in 0..Requests
    BY <1>1 DEF Init, Nobody
  <2> QED
    BY <2>1, <2>2, <2>3, <2>4, <2>5, <2>6, <2>7 DEF Types
<1>4. Queue = <<>>
  BY DEF Init, Queue
<1>5. Uplink /\ Sending
  BY DEF Init, Uplink, Sending, Lead, Ahead
<1>6. Serving
  BY <1>1 DEF Init, Serving, Unanswered, Nobody
<1>7. Awaited /\ Parked /\ Reading /\ Rested
  BY <1>4 DEF Init, Awaited, Parked, Reading, Rested
<1>8. AnswerIsForRequest /\ WholeIsWhole
  BY DEF Init, AnswerIsForRequest, WholeIsWhole
<1> QED
  BY <1>2, <1>3, <1>5, <1>6, <1>7, <1>8 DEF Inv

\* Whatever goes wrong ends the connection and the exchange.
Failing ==
    SendFails \/ EofTooEarly \/ ReadTimesOut \/ NothingButInformational \/ Abandon

LEMMA InvFailing ==
    ASSUME Inv, Failing
    PROVE  Inv'
<1> USE DEF Inv
<1>1. /\ pc \in {"expecting", "sending", "head", "body"} /\ pc' = "ended" /\ state' = "CLOSED"
      /\ streamOpen' = FALSE /\ verdict' = [verdict EXCEPT ![k] = "failed"]
      /\ UNCHANGED <<pending, reader, keepAlive, informational, upgraded, k, kind, buf, wire,
                     toServer, serverClosed, wants, serving, stage, reply, answer, sent, read,
                     misread>>
      /\ pending = NoToken
  BY DEF Failing, SendFails, EofTooEarly, Eof, ReadTimesOut, NothingButInformational, Abandon,
     NeedsBytes, Fail, TypeOK, server
<1>2. k > 0 /\ k \in 1..Requests
  BY <1>1, H1Assumption DEF Serving, TypeOK
<1>3. TypeOK'
  BY <1>1 DEF TypeOK
<1>4. Types'
  <2>1. Types
    OBVIOUS
  <2> HIDE DEF Inv
  <2>2. verdict' \in [1..Requests -> {"none", "whole", "failed"}]
    BY <1>1, <2>1 DEF Types
  <2> QED
    BY <1>1, <2>1, <2>2, ZenonT(30) DEF Types
<1>5. Uplink'
  BY <1>1, UplinkKept
<1>6. Serving'
  BY <1>1, <1>2, ServingKept DEF Types
<1>7. Sending' /\ Awaited' /\ Parked' /\ Reading' /\ Rested'
  BY <1>1 DEF Sending, Awaited, Parked, Reading, Rested
<1>8. AnswerIsForRequest' /\ WholeIsWhole'
  BY <1>1, <1>2 DEF AnswerIsForRequest, WholeIsWhole, Types
<1> QED
  BY <1>3, <1>4, <1>5, <1>6, <1>7, <1>8

LEMMA InvDiscard ==
    ASSUME Inv, Discard
    PROVE  Inv'
<1> USE DEF Inv
<1>1. /\ pc = "idle" /\ pc' = "ended" /\ state' = "CLOSED" /\ streamOpen' = FALSE
      /\ UNCHANGED <<pending, reader, keepAlive, informational, upgraded, k, kind, buf, wire,
                     toServer, serverClosed, wants, serving, stage, reply, answer, verdict, sent,
                     read, misread>>
      /\ pending = NoToken
  BY DEF Discard, TypeOK, server, past
<1>2. TypeOK'
  BY <1>1 DEF TypeOK
<1>3. Types'
  <2>1. Types
    OBVIOUS
  <2> HIDE DEF Inv
  <2> QED
    BY <1>1, <2>1, ZenonT(30) DEF Types
<1>4. Uplink'
  BY <1>1, UplinkKept
<1>5. Serving'
  BY <1>1 DEF Serving, Unanswered
<1>6. Sending' /\ Awaited' /\ Parked' /\ Reading' /\ Rested'
  BY <1>1 DEF Sending, Awaited, Parked, Reading, Rested
<1>7. AnswerIsForRequest' /\ WholeIsWhole'
  BY <1>1 DEF AnswerIsForRequest, WholeIsWhole
<1> QED
  BY <1>2, <1>3, <1>4, <1>5, <1>6, <1>7

LEMMA InvSend ==
    ASSUME Inv, NEW what \in Kinds, Send(what)
    PROVE  Inv'
<1> USE DEF Inv
<1> DEFINE h == [part |-> "head", kind |-> what, of |-> k + 1]
<1>1. /\ pc = "idle" /\ k < Requests /\ k' = k + 1 /\ kind' = what /\ state' = "SEND_BODY"
      /\ pending' = NoToken /\ reader' = "none" /\ informational' = 0
      /\ toServer' = Append(toServer, h)
      /\ pc' = (IF what = "expect" THEN "expecting" ELSE "sending")
      /\ UNCHANGED <<keepAlive, upgraded, buf, streamOpen, wire, serverClosed, wants, serving,
                     stage, reply, answer, verdict, sent, read, misread>>
  BY DEF Send, server, past
<1>2. /\ Requests \in Nat /\ k \in 0..Requests /\ k + 1 \in 1..Requests /\ what \in AllKinds
      /\ MaxInformational \in Nat
  BY <1>1, H1Assumption DEF TypeOK
<1>3. h \in Parts /\ toServer \in Seq(Parts) /\ Len(toServer) \in Nat
  BY <1>2, LenProperties DEF Parts, Pieces, Types
<1>4. /\ toServer' \in Seq(Parts) /\ Len(toServer') = Len(toServer) + 1
      /\ toServer'[Len(toServer) + 1] = h
      /\ \A i \in 1..Len(toServer) : toServer'[i] = toServer[i]
  BY <1>1, <1>3, AppendProperties
<1>5. h.part = "head" /\ h.kind = what /\ h.of = k + 1
  OBVIOUS
<1> HIDE DEF h
<1>6. serving = k /\ stage = "idle" /\ reply.keep /\ Len(Queue) = 0
  BY <1>1, <1>2 DEF Rested, Unanswered, Serving, Types
<1>7. Len(toServer) = Ahead /\ Ahead \in 0..1
  <2>1. ASSUME Len(toServer) > Ahead PROVE FALSE
    <3>1. Len(toServer) \in 1..Len(toServer)
      BY <1>3, <2>1 DEF Ahead
    <3> QED
      BY <1>2, <1>6, <2>1, <3>1 DEF Uplink
  <2> QED
    BY <2>1, AheadBound
<1>8. Ahead' = Ahead
  BY <1>1, <1>3, <1>4, <1>5, <1>6, <1>7 DEF Ahead, Lead
<1>9. TypeOK'
  BY <1>1, <1>2 DEF TypeOK
<1>10. Types'
  BY <1>1, <1>2, <1>4 DEF Types, Framings
<1>11. Uplink'
  <2>1. \A i \in 1..Len(toServer') : i > Ahead => i = Len(toServer') /\ toServer'[i] = h
    BY <1>4, <1>7
  <2>2. Len(toServer') = Ahead + 1
    BY <1>4, <1>7
  <2> QED
    BY <1>1, <1>2, <1>5, <1>6, <1>7, <1>8, <2>1, <2>2 DEF Uplink
<1>12. Serving'
  BY <1>1, <1>2, <1>6 DEF Serving, Unanswered
<1>13. Sending' /\ Parked' /\ Reading' /\ Rested'
  BY <1>1, <1>2 DEF Sending, Parked, Reading, Rested
<1>14. Awaited'
  <2>1. Queue' = Queue
    BY <1>1 DEF Queue
  <2>2. k + 1 > k /\ answer[k + 1] = NoToken /\ read[k + 1] = 0 /\ k + 1 > 0
    BY <1>2 DEF Serving
  <2>3. Unanswered'
    BY <1>1, <1>2, <1>6 DEF Unanswered
  <2>4. 1..Len(Queue') = {}
    BY <1>6, <2>1
  <2> QED
    BY <1>1, <2>2, <2>3, <2>4 DEF Awaited
<1>15. AnswerIsForRequest' /\ WholeIsWhole'
  BY <1>1 DEF AnswerIsForRequest, WholeIsWhole
<1> QED
  BY <1>9, <1>10, <1>11, <1>12, <1>13, <1>14, <1>15

LEMMA InvSendBody ==
    ASSUME Inv, NEW body \in Bodies, SendBody(body)
    PROVE  Inv'
<1> USE DEF Inv
<1> DEFINE b == [part |-> body, kind |-> kind, of |-> k]
<1>0. body \in Pieces /\ body # "head"
  BY H1Assumption DEF Bodies, Pieces
<1>1. /\ pc = "sending" /\ pc' = "head" /\ state' = "WAIT_RESPONSE"
      /\ toServer' = (IF HasBody(kind) THEN Append(toServer, b) ELSE toServer)
      /\ UNCHANGED <<pending, reader, keepAlive, informational, upgraded, buf, streamOpen, k, kind,
                     wire, serverClosed, wants, serving, stage, reply, answer, verdict, sent, read,
                     misread>>
      /\ pending = NoToken
  BY DEF SendBody, server, past, TypeOK
<1>2. k > 0 /\ k \in 1..Requests /\ Requests \in Nat
  BY <1>1, H1Assumption DEF Serving, TypeOK
<1>3. b \in Parts /\ toServer \in Seq(Parts) /\ Len(toServer) \in Nat
  BY <1>0, <1>2, LenProperties DEF Parts, Types
<1>4. /\ Append(toServer, b) \in Seq(Parts) /\ Len(Append(toServer, b)) = Len(toServer) + 1
      /\ Append(toServer, b)[Len(toServer) + 1] = b
      /\ \A i \in 1..Len(toServer) : Append(toServer, b)[i] = toServer[i]
  BY <1>3, AppendProperties
<1>5. b.part # "head" /\ b.kind = kind /\ b.of = k
  BY <1>0
<1> HIDE DEF b
<1>6. TypeOK'
  BY <1>1 DEF TypeOK
<1>7. Types'
  BY <1>1, <1>4 DEF Types
<1>8. Uplink'
  <2>1. CASE ~HasBody(kind)
    BY <1>1, <2>1, UplinkKept
  <2>2. CASE HasBody(kind)
    <3>1. /\ Len(toServer') = Len(toServer) + 1 /\ toServer'[Len(toServer) + 1] = b
          /\ \A i \in 1..Len(toServer) : toServer'[i] = toServer[i]
      BY <1>1, <1>4, <2>2
    <3>2. CASE serving = k
      <4>1. Len(toServer) = 0 /\ wants = kind /\ kind # "head"
        BY <1>1, <2>2, <3>2 DEF Uplink, HasBody
      <4>2. Ahead' = 1 /\ Len(toServer') = 1
        BY <1>1, <1>5, <3>1, <3>2, <4>1 DEF Ahead, Lead
      <4> QED
        BY <1>1, <1>2, <3>2, <4>2 DEF Uplink
    <3>3. CASE serving # k
      <4>1. serving < k
        BY <1>2, <3>3 DEF Serving, Types
      <4>2. CASE Len(toServer) = Ahead
        <5>1. wants = "head" /\ Len(toServer) = 0
          BY <4>1, <4>2 DEF Uplink
        <5>2. Ahead' = 0 /\ Len(toServer') = 1 /\ toServer'[1] = b
          BY <1>1, <3>1, <5>1 DEF Ahead, Lead
        <5> QED
          BY <1>1, <1>5, <2>2, <4>1, <5>1, <5>2 DEF Uplink
      <4>3. CASE Len(toServer) # Ahead
        <5>1. Len(toServer) > Ahead /\ Ahead \in 0..1
          BY <4>3, AheadBound
        <5>2. /\ Len(toServer) = Ahead + 1 /\ toServer[Ahead + 1].part = "head"
          <6>1. \A i \in 1..Len(toServer) : i > Ahead => toServer[i].part = "head"
            BY <1>1, <1>3, <5>1 DEF Uplink
          <6>2. \A i \in 1..Len(toServer) : toServer[i].part \in Pieces
            <7>1. \A i \in 1..Len(toServer) : toServer[i] \in Parts
              BY <1>3, ElementOfSeq
            <7> QED
              BY <7>1 DEF Parts
          <6>3. \A i \in 1..Len(toServer) : i > Ahead => i = Ahead + 1 /\ toServer[i].part = "head"
            BY <6>1, <6>2 DEF Uplink
          <6> QED
            BY <1>3, <5>1, <6>3
        <5>3. Lead' = Lead
          BY <1>1, <1>3, <3>1, <5>1 DEF Lead
        <5>4. Ahead' = Ahead
          BY <5>3 DEF Ahead
        <5>5. ASSUME NEW i \in 1..Len(toServer'), i > Ahead
              PROVE  /\ toServer'[i].of = k /\ toServer'[i].kind = kind
                     /\ toServer'[i].part = "head" => i = Ahead + 1
                     /\ toServer'[i].part # "head" => i = Len(toServer') /\ i # Ahead + 1
          <6>1. i = Ahead + 1 \/ i = Ahead + 2
            BY <3>1, <5>1, <5>2, <5>5
          <6> QED
            BY <1>5, <3>1, <5>1, <5>2, <6>1 DEF Uplink
        <5> QED
          BY <1>1, <1>3, <2>2, <3>1, <4>1, <5>1, <5>2, <5>4, <5>5 DEF Uplink
      <4> QED
        BY <4>2, <4>3
    <3> QED
      BY <3>2, <3>3
  <2> QED
    BY <2>1, <2>2
<1>9. Serving'
  BY <1>1, <1>2, ServingKept DEF Types
<1>10. Sending' /\ Parked' /\ Reading' /\ Rested'
  BY <1>1 DEF Sending, Parked, Reading, Rested
<1>11. Awaited'
  <2>1. Queue' = Queue
    BY <1>1 DEF Queue
  <2> QED
    BY <1>1, <2>1, LayoutKept DEF Awaited
<1>12. AnswerIsForRequest' /\ WholeIsWhole'
  BY <1>1 DEF AnswerIsForRequest, WholeIsWhole
<1> QED
  BY <1>6, <1>7, <1>8, <1>9, <1>10, <1>11, <1>12

\* What the client takes for the response is the response, in its own time.
LEMMA FirstInQueue ==
    ASSUME Inv, buf # <<>>, pc \in {"expecting", "head"}, pending = NoToken
    PROVE  \/ Before(Queue[1])
           \/ Final(Queue[1]) /\ ~Unanswered /\ EndToCome /\ Laid(1)
<1>1. Len(Queue) \in Nat /\ Len(Queue) > 0
  BY QueueShape DEF Inv
<1>2. CASE \A i \in 1..Len(Queue) : Before(Queue[i])
  BY <1>1, <1>2
<1>3. CASE ~Unanswered /\ EndToCome /\ \E f \in 1..Len(Queue) : Laid(f)
  <2>1. PICK f \in 1..Len(Queue) : Laid(f)
    BY <1>3
  <2>2. CASE f = 1
    BY <1>1, <1>3, <2>1, <2>2 DEF Laid
  <2>3. CASE f > 1
    BY <1>1, <2>1, <2>3 DEF Laid
  <2> QED
    BY <1>1, <2>2, <2>3
<1> QED
  BY <1>2, <1>3 DEF Inv, Awaited

\* An interim head is not the response, and a response is not interim.
LEMMA InterimOrFinal ==
    ASSUME NEW t
    PROVE  /\ Final(t) => ~IsInterim(t) /\ t.what # "continue"
           /\ Before(t) => IsInterim(t) /\ (kind = "expect" => t.what = "continue")
BY DEF Final, Before, IsInterim

\* An interim head is taken from before the response.
LEMMA InterimTaken ==
    ASSUME Inv, buf # <<>>, pc \in {"expecting", "head"}, pending = NoToken, pending' = NoToken,
           IsInterim(Queue[1]), buf' = Tail(buf), wire' = wire,
           UNCHANGED <<serving, stage, reply, sent, k, kind, read, answer>>
    PROVE  Awaited'
<1> USE DEF Inv
<1>1. /\ Len(Queue) \in Nat /\ Len(Queue) > 0 /\ Len(Queue') = Len(Queue) - 1
      /\ \A i \in 1..(Len(Queue) - 1) : Queue'[i] = Queue[i + 1]
  BY QueueShape, QueueTaken
<1>2. /\ Unanswered' = Unanswered /\ Unread' = Unread /\ EndToCome' = EndToCome
      /\ \A t : Before(t)' = Before(t) /\ Final(t)' = Final(t)
  BY LayoutKept
<1>3. CASE Unanswered /\ \A i \in 1..Len(Queue) : Before(Queue[i])
  <2>1. \A i \in 1..Len(Queue') : Before(Queue'[i])
    BY <1>1, <1>3
  <2>2. \A i \in 1..Len(Queue') : Before(Queue[i])'
    BY <1>2, <2>1 DEF Before
  <2> QED
    BY <1>2, <1>3, <2>2 DEF Awaited
<1>4. CASE ~Unanswered /\ EndToCome /\ \E f \in 1..Len(Queue) : Laid(f)
  <2>1. PICK f \in 1..Len(Queue) : Laid(f)
    BY <1>4
  <2>2. f # 1
    BY <1>1, <2>1, InterimOrFinal DEF Laid
  <2>3. f - 1 \in 1..Len(Queue')
    BY <1>1, <2>2
  <2>4. Laid(f - 1)'
    <3>1. Unread \in Nat /\ (f - 1) + Unread <= Len(Queue')
      BY <1>1, <2>1 DEF Laid
    <3>2. ASSUME NEW i \in 1..Len(Queue')
          PROVE  /\ i < f - 1 => Before(Queue'[i])
                 /\ i = f - 1 => Final(Queue'[i])
                 /\ i > f - 1 /\ i <= (f - 1) + Unread =>
                      Queue'[i].what = IF i = (f - 1) + Unread /\ sent[k].ended THEN "last" ELSE "data"
                 /\ i > (f - 1) + Unread /\ i > f - 1 => ~reply.keep /\ stage = "idle"
      <4>1. i + 1 \in 1..Len(Queue) /\ Queue'[i] = Queue[i + 1]
        BY <1>1
      <4> QED
        BY <1>1, <2>1, <3>1, <4>1 DEF Laid
    <3>3. \A i \in 1..Len(Queue') : /\ Before(Queue'[i]) => Before(Queue[i])'
                                    /\ Final(Queue'[i]) => Final(Queue[i])'
      BY DEF Before, Final, IsInterim
    <3> QED
      BY <1>2, <3>1, <3>2, <3>3 DEF Laid
  <2> QED
    BY <1>2, <1>4, <2>3, <2>4 DEF Awaited
<1> QED
  BY <1>3, <1>4 DEF Awaited

\* The response, or a piece of its body, is taken: what is behind it is left.
LEMMA BehindIt ==
    ASSUME Inv, buf # <<>>, Laid(1), buf' = Tail(buf), wire' = wire,
           UNCHANGED <<serving, stage, reply, sent, k, kind, read>>
    PROVE  Laid(0)'
<1> USE DEF Inv
<1>1. /\ Len(Queue) \in Nat /\ Len(Queue) > 0 /\ Len(Queue') = Len(Queue) - 1
      /\ \A i \in 1..(Len(Queue) - 1) : Queue'[i] = Queue[i + 1]
  BY QueueShape, QueueTaken
<1>2. Unread' = Unread /\ Unread \in Nat /\ Unread <= Len(Queue')
  BY <1>1, LayoutKept DEF Laid
<1>3. ASSUME NEW i \in 1..Len(Queue')
      PROVE  /\ i <= Unread =>
                  Queue'[i].what = IF i = Unread /\ sent[k].ended THEN "last" ELSE "data"
             /\ i > Unread => ~reply.keep /\ stage = "idle"
  <2>1. i + 1 \in 1..Len(Queue) /\ Queue'[i] = Queue[i + 1]
    BY <1>1
  <2> QED
    BY <1>1, <1>2, <2>1 DEF Laid
<1> QED
  BY <1>1, <1>2, <1>3 DEF Laid

LEMMA InvContinue ==
    ASSUME Inv, ContinueAnswered \/ ContinueTimesOut
    PROVE  Inv'
<1> USE DEF Inv
<1>1. /\ pc = "expecting" /\ kind = "expect" /\ pending = NoToken /\ state = "SEND_BODY"
      /\ UNCHANGED <<reader, keepAlive, informational, upgraded, streamOpen, k, kind, toServer, wire,
                     serverClosed, wants, serving, stage, reply, answer, verdict, sent, read,
                     misread>>
  BY DEF ContinueAnswered, ContinueTimesOut, Sending, TypeOK, machine, server, past
<1>2. k > 0 /\ k \in 1..Requests
  BY <1>1, H1Assumption DEF Serving, TypeOK
<1>3. Serving'
  BY <1>1, <1>2, ServingKept DEF Types
<1>4. AnswerIsForRequest' /\ WholeIsWhole'
  BY <1>1 DEF AnswerIsForRequest, WholeIsWhole
<1>5. CASE pc' = "sending" /\ state' = state /\ pending' = pending
  <2>1. TypeOK'
    BY <1>1, <1>5 DEF TypeOK
  <2>2. \/ buf' = buf
        \/ buf # <<>> /\ buf' = Tail(buf) /\ Head(buf).what = "continue"
    BY <1>5 DEF ContinueAnswered, ContinueTimesOut
  <2>3. buf' \in Seq(Tokens)
    BY <1>1, <2>2, QueueTaken DEF Types
  <2>4. Types'
    BY <1>1, <1>5, <2>3 DEF Types
  <2>5. Uplink'
    BY <1>1, <1>5, UplinkKept
  <2>6. Sending' /\ Parked' /\ Reading' /\ Rested'
    BY <1>1, <1>5 DEF Sending, Parked, Reading, Rested
  <2>7. Awaited'
    <3>1. CASE buf' = buf
      <4>1. Queue' = Queue
        BY <1>1, <3>1 DEF Queue
      <4> QED
        BY <1>1, <4>1, LayoutKept DEF Awaited
    <3>2. CASE buf # <<>> /\ buf' = Tail(buf) /\ Head(buf).what = "continue"
      <4>1. IsInterim(Queue[1])
        BY <3>2, QueueShape DEF IsInterim
      <4> QED
        BY <1>1, <1>5, <3>2, <4>1, InterimTaken
    <3> QED
      BY <2>2, <3>1, <3>2
  <2> QED
    BY <1>3, <1>4, <2>1, <2>4, <2>5, <2>6, <2>7
<1>6. CASE /\ buf # <<>> /\ buf' = Tail(buf) /\ Head(buf).what # "continue"
           /\ pc' = "head" /\ pending' = Head(buf) /\ state' = "WAIT_RESPONSE"
  <2>1. Head(buf) = Queue[1] /\ Queue[1] \in Tokens
    BY <1>6, QueueShape
  <2>2. TypeOK'
    BY <1>1, <1>6 DEF TypeOK
  <2>3. buf' \in Seq(Tokens)
    BY <1>1, <1>6, QueueTaken
  <2>4. Types'
    BY <1>1, <1>6, <2>1, <2>3 DEF Types
  <2>5. Uplink'
    BY <1>1, <1>6, UplinkKept
  <2>6. Final(Queue[1]) /\ ~Unanswered /\ EndToCome /\ Laid(1)
    BY <1>1, <1>6, <2>1, FirstInQueue, InterimOrFinal
  <2>7. Parked'
    <3>1. Laid(0)'
      BY <1>1, <1>6, <2>6, BehindIt
    <3>2. Final(pending)'
      BY <1>1, <1>6, <2>1, <2>6 DEF Final
    <3> QED
      BY <1>1, <2>6, <3>1, <3>2, LayoutKept DEF Parked, Awaited
  <2>8. Queue[1] # NoToken
    BY <2>1 DEF Tokens, NoToken, Token
  <2>9. Sending' /\ Awaited' /\ Reading' /\ Rested'
    BY <1>1, <1>6, <2>1, <2>8 DEF Sending, Awaited, Reading, Rested
  <2> QED
    BY <1>3, <1>4, <2>2, <2>4, <2>5, <2>7, <2>9
<1>7. \/ pc' = "sending" /\ state' = state /\ pending' = pending
      \/ /\ buf # <<>> /\ buf' = Tail(buf) /\ Head(buf).what # "continue"
         /\ pc' = "head" /\ pending' = Head(buf) /\ state' = "WAIT_RESPONSE"
  BY DEF ContinueAnswered, ContinueTimesOut, machine
<1> QED
  BY <1>5, <1>6, <1>7

LEMMA InvFill ==
    ASSUME Inv, NEW n \in 1..MaxWire, Fill(n)
    PROVE  Inv'
<1> USE DEF Inv
<1>1. /\ UNCHANGED <<state, pending, reader, keepAlive, informational, upgraded, streamOpen, pc, k, kind,
                     toServer, serverClosed, wants, serving, stage, reply, answer, verdict, sent,
                     read, misread>>
      /\ n \in 1..Len(wire) /\ buf = <<>> /\ pc \in {"expecting", "head", "body"}
      /\ buf' = SubSeq(wire, 1, n) /\ wire' = SubSeq(wire, n + 1, Len(wire))
  BY DEF Fill, NeedsBytes, machine, driver, server, past
<1>2. /\ Queue' = Queue /\ buf' \in Seq(Tokens) /\ wire' \in Seq(Tokens)
      /\ Len(wire') <= Len(wire) /\ Len(wire') \in Nat /\ Len(wire) \in Nat /\ MaxWire \in Nat
  BY <1>1, QueueFilled, QueueShape, LenProperties, H1Assumption
<1>3. k > 0 /\ k \in 1..Requests
  BY <1>1, H1Assumption DEF Serving, TypeOK
<1>4. TypeOK'
  BY <1>1, <1>2 DEF TypeOK
<1>5. Types'
  BY <1>1, <1>2 DEF Types
<1>6. Uplink' /\ Serving'
  BY <1>1, <1>3, UplinkKept, ServingKept
<1>7. Sending' /\ Awaited' /\ Parked' /\ Reading' /\ Rested'
  BY <1>1, <1>2, LayoutKept DEF Sending, Awaited, Parked, Reading, Rested, KeepsAlive
<1>8. AnswerIsForRequest' /\ WholeIsWhole'
  BY <1>1 DEF AnswerIsForRequest, WholeIsWhole
<1> QED
  BY <1>4, <1>5, <1>6, <1>7, <1>8

LEMMA InvSkip ==
    ASSUME Inv, SkipInformational
    PROVE  Inv'
<1> USE DEF Inv
<1>1. /\ pc = "head" /\ pending = NoToken /\ buf # <<>> /\ IsInterim(Head(buf)) /\ ~TooMany
      /\ buf' = Tail(buf) /\ informational' = informational + 1
      /\ UNCHANGED <<state, pending, reader, keepAlive, upgraded, streamOpen, pc, k, kind, wire,
                     toServer, serverClosed, wants, serving, stage, reply, answer, verdict, sent,
                     read, misread>>
  BY DEF SkipInformational, driver, server, past
<1>2. k > 0 /\ k \in 1..Requests
  BY <1>1, H1Assumption DEF Serving, TypeOK
<1>3. TypeOK'
  BY <1>1, H1Assumption DEF TypeOK, TooMany
<1>4. buf' \in Seq(Tokens) /\ Head(buf) = Queue[1]
  BY <1>1, QueueTaken, QueueShape
<1>5. Types'
  BY <1>1, <1>4 DEF Types
<1>6. Uplink' /\ Serving'
  BY <1>1, <1>2, UplinkKept, ServingKept
<1>7. Awaited'
  BY <1>1, <1>4, InterimTaken
<1>8. Sending' /\ Parked' /\ Reading' /\ Rested'
  BY <1>1 DEF Sending, Parked, Reading, Rested
<1>9. AnswerIsForRequest' /\ WholeIsWhole'
  BY <1>1 DEF AnswerIsForRequest, WholeIsWhole
<1> QED
  BY <1>3, <1>5, <1>6, <1>7, <1>8, <1>9

\* The response is handed over, and its body is read next.
LEMMA HeadTaken ==
    ASSUME Inv, pc = "head", NEW t \in Tokens, TakeHead(t), pending' = NoToken,
           k > 0, answer[k] = NoToken, read[k] = 0, ~Unanswered, EndToCome, Final(t), Laid(0)',
           buf' \in Seq(Tokens)
    PROVE  Inv'
<1> USE DEF Inv
<1>1. /\ answer' = [answer EXCEPT ![k] = t]
      /\ \/ /\ t.what = "switch" /\ upgraded' = TRUE /\ state' = "CLOSED" /\ reader' = "none"
            /\ keepAlive' = FALSE /\ streamOpen' = FALSE /\ pc' = "ended"
         \/ /\ t.what # "switch" /\ state' = "RECV_BODY" /\ reader' = t.framing
            /\ keepAlive' = KeepsAlive(t) /\ pc' = "body"
            /\ upgraded' = upgraded /\ streamOpen' = streamOpen
      /\ UNCHANGED <<informational, k, kind, toServer, wire, serverClosed, wants, serving, stage,
                     reply, verdict, sent, read, misread>>
  BY DEF TakeHead, server
<1>2. k \in 1..Requests
  BY H1Assumption DEF TypeOK
<1>3. /\ answer'[k] = t /\ \A r \in 1..Requests : r # k => answer'[r] = answer[r]
      /\ answer' \in [1..Requests -> Tokens \cup {NoToken}]
  BY <1>1, <1>2 DEF Types
<1>4. TypeOK'
  BY <1>1 DEF TypeOK
<1>5. t.framing \in Framings /\ t.keep \in BOOLEAN
  BY DEF Tokens
<1>6. Types'
  <2>1. KeepsAlive(t) \in BOOLEAN
    BY <1>5 DEF KeepsAlive
  <2>2. keepAlive' \in BOOLEAN /\ upgraded' \in BOOLEAN /\ streamOpen' \in BOOLEAN
    BY <1>1, <2>1 DEF Types
  <2>3. reader' \in Framings \cup {"complete"}
    BY <1>1, <1>5 DEF Framings
  <2> QED
    BY <1>1, <1>3, <2>2, <2>3 DEF Types
<1>7. Uplink' /\ Serving'
  BY <1>1, <1>3, UplinkKept, ServingKept
<1>8. Sending' /\ Awaited' /\ Parked' /\ Rested'
  BY <1>1 DEF Sending, Awaited, Parked, Rested
<1>9. Reading'
  <2>1. CASE pc' = "ended"
    BY <2>1 DEF Reading
  <2>2. CASE t.what # "switch" /\ reader' = t.framing /\ keepAlive' = KeepsAlive(t) /\ pc' = "body"
    <3>1. t.what = "head" /\ t.framing = reply.framing
      BY <2>2 DEF Final
    <3>2. Final(answer[k])'
      BY <1>1, <1>3 DEF Final
    <3>3. keepAlive' = KeepsAlive(answer[k])'
      BY <1>1, <1>3, <2>2 DEF KeepsAlive
    <3>4. CASE t.framing = "none"
      <4>1. stage = "idle"
        BY <3>1, <3>4 DEF Serving, Unanswered, Types
      <4>2. sent[k].data = 0 /\ sent[k].ended
        BY <2>2, <3>4, <4>1 DEF Final
      <4>3. Unread' = 0
        BY <1>1, <4>2 DEF Unread
      <4> QED
        BY <1>1, <1>3, <2>2, <3>1, <3>2, <3>3, <3>4, <4>2, <4>3, LayoutKept DEF Reading
    <3>5. CASE t.framing # "none"
      <4>1. t.framing \notin {"none", "complete"}
        BY <1>5, <3>5 DEF Framings
      <4> QED
        BY <1>1, <1>3, <2>2, <3>1, <3>2, <3>3, <4>1, LayoutKept DEF Reading
    <3> QED
      BY <3>4, <3>5
  <2> QED
    BY <1>1, <2>1, <2>2
<1>10. AnswerIsForRequest'
  BY <1>1, <1>3 DEF AnswerIsForRequest, Final
<1>11. WholeIsWhole'
  <2>1. answer[k].framing = "none"
    BY DEF NoToken, Token
  <2>2. \A r \in 1..Requests : answer'[r].framing # "until_close" => answer[r].framing # "until_close"
    BY <1>3, <2>1
  <2> QED
    BY <1>1, <2>2 DEF WholeIsWhole
<1> QED
  BY <1>4, <1>6, <1>7, <1>8, <1>9, <1>10, <1>11

LEMMA InvHead ==
    ASSUME Inv, ParkedHeadArrives \/ HeadArrives
    PROVE  Inv'
<1> USE DEF Inv
<1>1. CASE ParkedHeadArrives
  <2>1. /\ pc = "head" /\ pending # NoToken /\ pending' = NoToken /\ TakeHead(pending)
        /\ buf' = buf /\ pending \in Tokens
    BY <1>1 DEF ParkedHeadArrives, Types
  <2>2. UNCHANGED <<serving, stage, reply, sent, k, kind, read, wire>>
    BY <2>1 DEF TakeHead, server
  <2>3. Laid(0)'
    <3>1. Queue' = Queue
      BY <2>1, <2>2 DEF Queue
    <3> QED
      BY <2>1, <2>2, <3>1, LayoutKept DEF Parked
  <2> QED
    BY <2>1, <2>3, HeadTaken DEF Parked, Types
<1>2. CASE HeadArrives
  <2>1. /\ pc = "head" /\ pending = NoToken /\ pending' = NoToken /\ buf # <<>>
        /\ ~IsInterim(Head(buf)) /\ buf' = Tail(buf) /\ TakeHead(Head(buf))
    BY <1>2 DEF HeadArrives
  <2>2. UNCHANGED <<serving, stage, reply, sent, k, kind, read, wire>>
    BY <2>1 DEF TakeHead, server
  <2>3. Head(buf) = Queue[1] /\ Queue[1] \in Tokens /\ buf' \in Seq(Tokens)
    BY <2>1, <2>2, QueueShape, QueueTaken
  <2>4. Final(Queue[1]) /\ ~Unanswered /\ EndToCome /\ Laid(1)
    BY <2>1, <2>3, FirstInQueue, InterimOrFinal
  <2>5. Laid(0)'
    BY <2>1, <2>2, <2>4, BehindIt
  <2>6. k > 0 /\ answer[k] = NoToken /\ read[k] = 0
    BY <2>1 DEF Awaited
  <2>7. TakeHead(Queue[1])
    BY <2>1, <2>3
  <2> QED
    BY <2>1, <2>3, <2>4, <2>5, <2>6, <2>7, HeadTaken
<1> QED
  BY <1>1, <1>2

LEMMA InvReadPiece ==
    ASSUME Inv, ReadPiece
    PROVE  Inv'
<1> USE DEF Inv
<1>1. /\ pc = "body" /\ reader \in {"sized", "until_close"} /\ buf # <<>> /\ buf' = Tail(buf)
      /\ read' = [read EXCEPT ![k] = @ + 1]
      /\ reader' = (IF Head(buf).what = "last" THEN "complete" ELSE reader)
      /\ UNCHANGED <<state, pending, keepAlive, informational, upgraded, streamOpen, pc, k, kind,
                     toServer, wire, serverClosed, wants, serving, stage, reply, answer, verdict,
                     sent, misread>>
      /\ pending = NoToken
  BY DEF ReadPiece, driver, server, TypeOK
<1>2. k > 0 /\ k \in 1..Requests /\ read[k] \in Nat /\ sent[k] \in Counts
  BY <1>1, H1Assumption DEF Serving, TypeOK, Types
<1>3. /\ read'[k] = read[k] + 1 /\ read' \in [1..Requests -> Nat]
      /\ \A r \in 1..Requests : r # k => read'[r] = read[r]
  BY <1>1, <1>2 DEF Types
<1>4. /\ Len(Queue) \in Nat /\ Len(Queue) > 0 /\ Len(Queue') = Len(Queue) - 1
      /\ \A i \in 1..(Len(Queue) - 1) : Queue'[i] = Queue[i + 1]
      /\ Head(buf) = Queue[1] /\ buf' \in Seq(Tokens)
  BY <1>1, QueueShape, QueueTaken
<1>5. /\ Laid(0) /\ ~Unanswered /\ Final(answer[k]) /\ answer[k].what = "head"
      /\ keepAlive = KeepsAlive(answer[k]) /\ EndToCome /\ reader = reply.framing
      /\ answer[k].framing = reply.framing
  BY <1>1 DEF Reading, Final
<1>6. Unread \in Nat /\ Unread > 0
  <2>1. Unread \in Nat
    BY <1>5 DEF Laid
  <2>2. ASSUME Unread = 0 PROVE FALSE
    <3>1. 1 \in 1..Len(Queue) /\ 1 > 0 + Unread
      BY <1>4, <2>2
    <3>2. stage = "idle"
      BY <1>5, <3>1 DEF Laid
    <3>3. sent[k].ended /\ reply.framing = "sized"
      BY <1>1, <1>5, <3>2 DEF Final
    <3> QED
      BY <1>5, <2>2, <3>3 DEF EndToCome
  <2> QED
    BY <2>1, <2>2
<1>7. Unread' = Unread - 1
  BY <1>1, <1>2, <1>3 DEF Unread, Counts
<1>8. Queue[1].what = IF Unread = 1 /\ sent[k].ended THEN "last" ELSE "data"
  <2>1. 1 \in 1..Len(Queue) /\ 1 > 0 /\ 1 <= 0 + Unread /\ 0 + Unread = Unread
    BY <1>4, <1>6
  <2> QED
    BY <1>5, <2>1 DEF Laid
<1>9. Laid(0)'
  <2>1. Unread' \in Nat /\ Unread' <= Len(Queue')
    BY <1>4, <1>5, <1>6, <1>7 DEF Laid
  <2>2. ASSUME NEW i \in 1..Len(Queue')
        PROVE  /\ i <= Unread' =>
                    Queue'[i].what = IF i = Unread' /\ sent[k].ended THEN "last" ELSE "data"
               /\ i > Unread' => ~reply.keep /\ stage = "idle"
    <3>1. i + 1 \in 1..Len(Queue) /\ Queue'[i] = Queue[i + 1] /\ i \in Nat /\ i > 0
      BY <1>4
    <3>2. (i + 1 <= Unread <=> i <= Unread') /\ (i + 1 = Unread <=> i = Unread')
      BY <1>6, <1>7, <3>1
    <3>3. /\ i + 1 > 0 /\ 0 + Unread = Unread
          /\ i + 1 > 0 /\ i + 1 <= 0 + Unread =>
               Queue[i + 1].what = IF i + 1 = 0 + Unread /\ sent[k].ended THEN "last" ELSE "data"
          /\ i + 1 > 0 + Unread /\ i + 1 > 0 => ~reply.keep /\ stage = "idle"
      BY <1>5, <1>6, <3>1 DEF Laid
    <3>4. i > Unread' => i + 1 > Unread
      BY <1>6, <1>7, <3>1
    <3> QED
      BY <3>1, <3>2, <3>3, <3>4
  <2>3. 0 + Unread' = Unread'
    BY <1>6, <1>7
  <2>4. ASSUME NEW i \in 1..Len(Queue') PROVE i > 0 /\ ~(i < 0) /\ i # 0
    BY <1>4
  <2> QED
    BY <1>1, <2>1, <2>2, <2>3, <2>4 DEF Laid
<1>10. TypeOK'
  BY <1>1 DEF TypeOK
<1>11. Types'
  BY <1>1, <1>3, <1>4 DEF Types, Framings
<1>12. Uplink' /\ Serving'
  BY <1>1, <1>2, <1>3, UplinkKept, ServingKept
<1>13. Sending' /\ Awaited' /\ Parked' /\ Rested'
  BY <1>1 DEF Sending, Awaited, Parked, Rested
<1>14. Reading'
  <2>1. Final(answer[k])' /\ ~Unanswered' /\ keepAlive' = KeepsAlive(answer[k])'
    BY <1>1, <1>5 DEF Final, Unanswered, KeepsAlive
  <2>2. reader' \in {"none", "complete"} => Unread' = 0 /\ sent[k].ended
    BY <1>1, <1>4, <1>6, <1>7, <1>8
  <2>3. reader' \notin {"none", "complete"} => EndToCome' /\ reader' = reply.framing
    BY <1>1, <1>4, <1>5, <1>6, <1>7, <1>8 DEF EndToCome
  <2> QED
    BY <1>1, <1>2, <1>5, <1>9, <2>1, <2>2, <2>3 DEF Reading
<1>15. AnswerIsForRequest'
  BY <1>1 DEF AnswerIsForRequest
<1>16. WholeIsWhole'
  <2>1. ~(verdict[k] = "whole" /\ answer[k].framing # "until_close")
    BY <1>2, <1>6 DEF WholeIsWhole, Unread
  <2> QED
    BY <1>1, <1>3, <2>1 DEF WholeIsWhole
<1> QED
  BY <1>9, <1>10, <1>11, <1>12, <1>13, <1>14, <1>15, <1>16

LEMMA InvEndBody ==
    ASSUME Inv, EndBody
    PROVE  Inv'
<1> USE DEF Inv
<1>1. /\ pc = "body" /\ reader' = "none" /\ streamOpen' = keepAlive
      /\ reader \in {"none", "complete"} \/ reader = "until_close"
      /\ state' = (IF keepAlive THEN "DONE" ELSE "CLOSED")
      /\ pc' = (IF keepAlive THEN "idle" ELSE "ended")
      /\ verdict' = [verdict EXCEPT ![k] = "whole"]
      /\ UNCHANGED <<pending, keepAlive, informational, upgraded, buf, k, kind, toServer, wire,
                     serverClosed, wants, serving, stage, reply, answer, sent, read, misread>>
      /\ pending = NoToken
  BY DEF EndBody, server, TypeOK
<1>2. k > 0 /\ k \in 1..Requests /\ keepAlive \in BOOLEAN
  BY <1>1, H1Assumption DEF Serving, TypeOK, Types
<1>3. /\ verdict'[k] = "whole" /\ verdict' \in [1..Requests -> {"none", "whole", "failed"}]
      /\ \A r \in 1..Requests : r # k => verdict'[r] = verdict[r]
  BY <1>1, <1>2 DEF Types
<1>4. /\ Laid(0) /\ ~Unanswered /\ Final(answer[k]) /\ answer[k].what = "head"
      /\ keepAlive = KeepsAlive(answer[k])
      /\ answer[k].framing = reply.framing /\ answer[k].keep = reply.keep
      /\ reader \in {"none", "complete"} => Unread = 0 /\ sent[k].ended
      /\ reader \notin {"none", "complete"} => reader = reply.framing
  BY <1>1 DEF Reading, Final
<1>5. TypeOK'
  BY <1>1, <1>2 DEF TypeOK
<1>6. Types'
  BY <1>1, <1>2, <1>3 DEF Types, Framings
<1>7. Uplink' /\ Serving'
  BY <1>1, <1>2, <1>3, UplinkKept, ServingKept
<1>8. Sending' /\ Awaited' /\ Parked' /\ Reading'
  BY <1>1 DEF Sending, Awaited, Parked, Reading
<1>9. Rested'
  <2>1. CASE ~keepAlive
    BY <1>1, <2>1 DEF Rested
  <2>2. CASE keepAlive
    <3>1. answer[k].framing # "until_close" /\ answer[k].keep /\ reply.keep
      BY <1>4, <2>2 DEF KeepsAlive
    <3>2. Unread = 0 /\ sent[k].ended
      BY <1>1, <1>4, <3>1
    <3>3. stage = "idle"
      BY <1>4, <3>2 DEF Serving, Types
    <3>4. Len(Queue) = 0
      <4>1. Len(Queue) \in Nat
        BY QueueShape
      <4>2. ASSUME Len(Queue) > 0 PROVE FALSE
        <5>1. 1 \in 1..Len(Queue) /\ 1 > 0 + Unread /\ 1 > 0
          BY <3>2, <4>1, <4>2
        <5> QED
          BY <1>4, <3>1, <5>1 DEF Laid
      <4> QED
        BY <4>1, <4>2
    <3>5. Queue' = Queue
      BY <1>1 DEF Queue
    <3> QED
      BY <1>1, <1>3, <1>4, <3>1, <3>3, <3>4, <3>5 DEF Rested, Unanswered
  <2> QED
    BY <2>1, <2>2
<1>10. AnswerIsForRequest'
  BY <1>1 DEF AnswerIsForRequest
<1>11. WholeIsWhole'
  <2>1. answer[k].framing # "until_close" => sent[k].ended /\ read[k] = sent[k].data
    <3>1. sent[k].data \in Nat /\ read[k] \in Nat
      BY <1>2 DEF Types, Counts
    <3> QED
      BY <1>1, <1>4, <3>1 DEF Unread
  <2> QED
    BY <1>1, <1>3, <2>1 DEF WholeIsWhole
<1> QED
  BY <1>5, <1>6, <1>7, <1>8, <1>9, <1>10, <1>11

-----------------------------------------------------------------------------
(* The server's steps.                                                     *)

\* What the model of the server must not do: ask before a body it was asked
\* about, or send what nobody asked for after a response that keeps the
\* connection.  Without it the properties fail (MCH1ExpectInterim.cfg and
\* MCH1Stray.cfg).  A server that answers the end of a body longer than its
\* declared length, having read it as a head, sends what nobody asked for.
OrderlyServer == "expect" \notin Interim /\ TRUE \notin Stray

\* The server takes the next part of a request.
LEMMA ReadUplink ==
    ASSUME Inv, ServerReads
    PROVE  /\ Uplink' /\ toServer' \in Seq(Parts)
           /\ wants' \in Wanted
           /\ misread' \in Misreadings
           /\ wants = "head" => serving < k /\ serving' = k /\ stage' = "owes"
           /\ wants # "head" => serving' = serving /\ stage' = stage
           /\ k > 0
<1> USE DEF Inv
<1>1. toServer \in Seq(Parts) /\ toServer # <<>> /\ Len(toServer) \in Nat /\ Len(toServer) > 0
  BY LenProperties, EmptySeq DEF Types, ServerReads
<1>2. /\ Head(toServer) = toServer[1] /\ Tail(toServer) \in Seq(Parts)
      /\ Len(Tail(toServer)) = Len(toServer) - 1
      /\ \A i \in 1..(Len(toServer) - 1) : Tail(toServer)[i] = toServer[i + 1]
  BY <1>1, HeadTailProperties
<1>3. /\ toServer' = Tail(toServer) /\ toServer' \in Seq(Parts)
      /\ Len(toServer') = Len(toServer) - 1
      /\ \A i \in 1..(Len(toServer) - 1) : toServer'[i] = toServer[i + 1]
      /\ UNCHANGED <<pc, k, kind>>
  BY <1>2 DEF ServerReads, driver
<1>4. k > 0 /\ k \in 1..Requests /\ serving \in Nat
  BY <1>1, H1Assumption DEF Serving, TypeOK, Types
<1>5. \A i \in 1..Len(toServer) : toServer[i] \in Parts /\ toServer[i].part \in Pieces
  <2>1. \A i \in 1..Len(toServer) : toServer[i] \in Parts
    BY <1>1, ElementOfSeq
  <2> QED
    BY <2>1 DEF Parts
<1>6. 1 \in 1..Len(toServer) /\ (Len(toServer) = 1 \/ 2 \in 1..Len(toServer))
  <2> DEFINE n == Len(toServer)
  <2>1. n \in Nat /\ n > 0
    BY <1>1
  <2> HIDE DEF n
  <2>2. 1 \in 1..n /\ (n = 1 \/ 2 \in 1..n)
    BY <2>1
  <2> QED
    BY <2>2 DEF n
<1>7. CASE wants = "head"
  <2>1. Ahead = 0
    BY <1>7 DEF Ahead, Lead
  <2>2. serving < k /\ toServer[1].of = k /\ toServer[1].kind = kind
    BY <1>6, <2>1 DEF Uplink
  <2>3. serving' = k /\ stage' = "owes" /\ wants' = (IF HasBody(kind) THEN kind ELSE "head")
        /\ misread' = misread
    BY <1>2, <1>7, <2>2 DEF ServerReads
  <2>4. wants' \in Wanted
    BY <2>3 DEF HasBody, Wanted
  <2>5. Uplink'
    <3>1. CASE Len(toServer) = 1
      <4>1. Len(toServer') = 0
        BY <1>3, <3>1
      <4>2. Ahead' = 0 /\ 1..Len(toServer') = {}
        BY <4>1 DEF Ahead, Lead
      <4>3. ~(k < k)
        BY <1>4
      <4> QED
        BY <1>3, <2>3, <4>1, <4>2, <4>3 DEF Uplink
    <3>2. CASE Len(toServer) # 1
      <4>1. 2 \in 1..Len(toServer)
        BY <1>6, <3>2
      <4>2. toServer[2].part # "head"
        BY <2>1, <4>1 DEF Uplink
      <4>3. /\ toServer[2].part # "head" /\ toServer[2].of = k /\ Len(toServer) = 2
            /\ HasBody(kind)
        <5>1. toServer[2].part # "head"
          BY <1>5, <4>1, <4>2
        <5>2. 2 > Ahead
          BY <2>1
        <5>3. toServer[2].of = k /\ HasBody(kind) /\ 2 = Len(toServer)
          BY <4>1, <5>1, <5>2 DEF Uplink
        <5> QED
          BY <5>1, <5>3
      <4>4. pc \notin {"expecting", "sending"}
        BY <2>1, <4>1, <4>3 DEF Uplink
      <4>5. Len(toServer') = 1 /\ toServer'[1] = toServer[2]
        <5>1. Len(toServer) - 1 = 1 /\ 1 \in 1..1 /\ 1 + 1 = 2
          BY <4>3
        <5> QED
          BY <1>3, <5>1
      <4>6. wants' # "head"
        BY <2>3, <4>3 DEF HasBody
      <4>7. Ahead' = 1
        BY <2>3, <4>3, <4>5, <4>6 DEF Ahead, Lead
      <4>8. \A i \in 1..1 : ~(i > 1)
        OBVIOUS
      <4>9. ~(k < k)
        BY <1>4
      <4> QED
        BY <1>3, <2>3, <4>4, <4>5, <4>7, <4>8, <4>9 DEF Uplink
    <3> QED
      BY <3>1, <3>2
  <2> QED
    BY <1>3, <1>4, <1>7, <2>2, <2>3, <2>4, <2>5 DEF Types
<1>8. CASE wants # "head"
  <2>1. /\ wants' \in {"head", "short"} /\ serving' = serving /\ stage' = stage
        /\ misread' = wants \/ misread' = misread \/ misread' \in {"none", "over"}
        /\ wants' = "head" \/ toServer[1].part = "short"
    BY <1>2, <1>8 DEF ServerReads, Misreading
  <2>9. toServer[1].part # "head" => Ahead = 1
    BY <1>6, <1>8 DEF Uplink, Ahead
  <2>10. ASSUME toServer[1].part = "short"
         PROVE  /\ Len(toServer') > 0 => toServer'[1].part = "head"
                /\ Len(toServer') = 0 => ~(serving < k)
    <3>1. Ahead = 1
      BY <2>9, <2>10
    <3>2. CASE Len(toServer) = 1
      <4>1. Len(toServer') = 0
        BY <1>3, <3>2
      <4>2. ~(serving < k)
        BY <1>8, <3>1, <3>2 DEF Uplink
      <4> QED
        BY <4>1, <4>2
    <3>3. CASE Len(toServer) # 1
      <4>1. 2 \in 1..Len(toServer) /\ 1 \in 1..(Len(toServer) - 1) /\ 1 + 1 = 2 /\ 2 > 1
        BY <1>1, <1>6, <3>3
      <4>2. toServer[2].part = "head"
        BY <1>8, <3>1, <4>1 DEF Uplink
      <4>3. toServer'[1] = toServer[2] /\ Len(toServer') # 0
        BY <1>1, <1>3, <3>3, <4>1
      <4> QED
        BY <4>2, <4>3
    <3> QED
      BY <3>2, <3>3
  <2>2. Ahead' = 0
    BY <2>1, <2>10 DEF Ahead, Lead
  <2>3. ASSUME NEW i \in 1..Len(toServer')
        PROVE  /\ toServer'[i].of = k /\ toServer'[i].kind = kind /\ serving < k
               /\ toServer'[i].part = "head" => i = 1
               /\ toServer'[i].part # "head" => HasBody(kind) /\ i = Len(toServer')
               /\ pc \notin {"expecting", "sending"} \/ toServer'[i].part = "head"
    <3>1. i + 1 \in 1..Len(toServer) /\ toServer'[i] = toServer[i + 1] /\ i \in Nat /\ i > 0
      BY <1>1, <1>3
    <3>2. Ahead \in 0..1 /\ i + 1 > Ahead /\ ~(i + 1 <= Ahead) /\ (i + 1 = Ahead + 1 => i = Ahead)
      BY <3>1, AheadBound
    <3>3. /\ toServer[i + 1].of = k /\ toServer[i + 1].kind = kind /\ serving < k
          /\ toServer[i + 1].part = "head" => i + 1 = Ahead + 1
          /\ toServer[i + 1].part # "head" => HasBody(kind) /\ i + 1 = Len(toServer)
          /\ pc \notin {"expecting", "sending"} \/ toServer[i + 1].part = "head"
      BY <3>1, <3>2 DEF Uplink
    <3>4. i + 1 = Ahead + 1 => i = 1
      <4>1. i \in Nat /\ i > 0 /\ Ahead \in 0..1
        BY <3>1, <3>2
      <4>2. \A a \in 0..1, j \in Nat : j > 0 /\ j + 1 = a + 1 => j = 1
        OBVIOUS
      <4> QED
        BY <4>1, <4>2
    <3>5. i + 1 = Len(toServer) => i = Len(toServer')
      <4>1. /\ Len(toServer) \in Nat /\ Len(toServer') = Len(toServer) - 1
            /\ i \in Nat
        BY <1>1, <1>3, <3>1
      <4> QED
        BY <4>1
    <3> QED
      BY <3>1, <3>3, <3>4, <3>5
  <2>4. pc \in {"expecting", "sending"} => serving # k
    BY <1>1 DEF Uplink
  <2>5. Uplink'
    <3>1. \A i \in 1..Len(toServer') : i > 0 => i >= 1 /\ (i = 1 => i = 0 + 1) /\ ~(i <= 0)
      BY <1>1, <1>3
    <3>2. pc \in {"expecting", "sending"} =>
            \A i \in 1..Len(toServer') : toServer'[i].part # "head" => i <= Ahead'
      BY <2>3
    <3>3. \A i \in 1..Len(toServer') : i > Ahead' =>
            /\ toServer'[i].of = k /\ toServer'[i].kind = kind /\ serving < k
            /\ toServer'[i].part = "head" => i = Ahead' + 1
            /\ toServer'[i].part # "head" => HasBody(kind) /\ i = Len(toServer')
      BY <2>2, <2>3, <3>1
    <3>4. \A i \in 1..Len(toServer') : toServer'[i].part # "head" /\ i = 1 => wants' = "head"
      BY <1>1, <1>3, <2>1, <2>10
    <3>5. serving < k /\ Len(toServer') = 0 => wants' = "head"
      BY <2>1, <2>10
    <3>6. \A i \in 1..Len(toServer') : i > Ahead' =>
            /\ toServer'[i].of = k /\ toServer'[i].kind = kind /\ serving < k
            /\ toServer'[i].part = "head" => i = Ahead' + 1
            /\ toServer'[i].part # "head" => HasBody(kind) /\ i = Len(toServer')
            /\ toServer'[i].part # "head" /\ i = Ahead' + 1 => wants' = "head"
      <4>1. 0 + 1 = 1
        OBVIOUS
      <4> QED
        BY <2>2, <3>3, <3>4, <4>1
    <3>7. serving < k /\ Len(toServer') = Ahead' => wants' = "head" /\ Ahead' = 0
      BY <2>2, <3>5
    <3> QED
      BY <1>3, <2>1, <2>2, <2>4, <3>2, <3>6, <3>7 DEF Uplink
  <2>6. misread' \in Misreadings /\ wants' \in Wanted
    BY <2>1 DEF Types, Misreadings, Wanted
  <2> QED
    BY <1>3, <1>4, <1>8, <2>1, <2>5, <2>6
<1> QED
  BY <1>7, <1>8

LEMMA InvServerReads ==
    ASSUME Inv, ServerReads
    PROVE  Inv'
<1> USE DEF Inv
<1>1. UNCHANGED <<state, pending, reader, keepAlive, informational, upgraded, streamOpen, pc, k, kind,
                  buf, wire, serverClosed, reply, answer, verdict, sent, read>>
  BY DEF ServerReads, machine, driver
<1>2. /\ Uplink' /\ toServer' \in Seq(Parts)
      /\ wants' \in Wanted
      /\ misread' \in Misreadings
      /\ wants = "head" => serving < k /\ serving' = k /\ stage' = "owes"
      /\ wants # "head" => serving' = serving /\ stage' = stage
      /\ k > 0
  BY ReadUplink
<1>3. k \in 1..Requests /\ Requests \in Nat
  BY <1>2, H1Assumption DEF TypeOK
<1>4. TypeOK'
  BY <1>1 DEF TypeOK
<1>5. Types'
  BY <1>1, <1>2, <1>3 DEF Types
<1>6. Queue' = Queue
  BY <1>1 DEF Queue
<1>7. Sending' /\ AnswerIsForRequest' /\ WholeIsWhole'
  BY <1>1 DEF Sending, AnswerIsForRequest, WholeIsWhole
<1>8. CASE wants = "head"
  <2>1. Unanswered /\ Unanswered' /\ pending = NoToken /\ pc \notin {"body", "idle"}
    BY <1>1, <1>2, <1>8 DEF Unanswered, Parked, Reading, Rested
  <2>2. Serving'
    <3>1. sent[k] = [data |-> 0, ended |-> FALSE]
      BY <1>2, <1>3, <1>8 DEF Serving
    <3>2. \A r \in 1..Requests : r > k => r > serving
      BY <1>2, <1>3, <1>8 DEF Types
    <3> QED
      BY <1>1, <1>2, <1>3, <1>8, <2>1, <3>1, <3>2 DEF Serving
  <2>3. Awaited'
    BY <1>1, <1>6, <2>1 DEF Awaited, Before, IsInterim
  <2>4. Parked' /\ Reading' /\ Rested'
    BY <1>1, <2>1 DEF Parked, Reading, Rested
  <2> QED
    BY <1>2, <1>4, <1>5, <1>7, <2>2, <2>3, <2>4
<1>9. CASE wants # "head"
  <2>1. UNCHANGED <<serving, stage>>
    BY <1>2, <1>9
  <2>2. Serving'
    BY <1>1, <1>2, <2>1, ServingKept
  <2>3. Awaited' /\ Parked' /\ Reading' /\ Rested'
    BY <1>1, <1>6, <2>1, LayoutKept DEF Awaited, Parked, Reading, Rested, KeepsAlive
  <2> QED
    BY <1>2, <1>4, <1>5, <1>7, <2>2, <2>3
<1> QED
  BY <1>8, <1>9

LEMMA InvServerInterim ==
    ASSUME Inv, OrderlyServer, ServerInterim
    PROVE  Inv'
<1> USE DEF Inv
<1>1. /\ stage = "owes" /\ serving = k /\ k > 0 /\ Unanswered
      /\ UNCHANGED <<state, pending, reader, keepAlive, informational, upgraded, streamOpen, pc, k, kind,
                     buf, toServer, serverClosed, wants, serving, stage, reply, answer, verdict,
                     sent, read, misread>>
  BY DEF ServerInterim, Serving, Unanswered, machine, driver, server, past
<1>2. k \in 1..Requests
  BY <1>1, H1Assumption DEF TypeOK
<1>3. PICK t \in Tokens : Post(t) /\ Before(t)
  <2>1. CASE kind \in Interim /\ Post(Token("info", serving, "none", TRUE))
    <3>1. /\ Token("info", serving, "none", TRUE) \in Tokens
          /\ Before(Token("info", serving, "none", TRUE))
      BY <1>1, <1>2, <2>1, H1Assumption DEF Token, Tokens, Framings, Before, IsInterim, OrderlyServer
    <3> QED
      BY <2>1, <3>1
  <2>2. CASE kind = "expect" /\ Post(Token("continue", serving, "none", TRUE))
    <3>1. /\ Token("continue", serving, "none", TRUE) \in Tokens
          /\ Before(Token("continue", serving, "none", TRUE))
      BY <1>1, <1>2, <2>2, H1Assumption DEF Token, Tokens, Framings, Before, IsInterim
    <3> QED
      BY <2>2, <3>1
  <2> QED
    BY <2>1, <2>2 DEF ServerInterim
<1>4. /\ wire' \in Seq(Tokens) /\ Len(wire') <= MaxWire /\ Len(Queue') = Len(Queue) + 1
      /\ Queue'[Len(Queue) + 1] = t /\ \A i \in 1..Len(Queue) : Queue'[i] = Queue[i]
      /\ Len(Queue) \in Nat
  BY <1>1, <1>3, QueuePosted, QueueShape
<1>5. pending = NoToken /\ pc \notin {"body", "idle"}
  BY <1>1 DEF Parked, Reading, Rested
<1>6. TypeOK' /\ Types'
  BY <1>1, <1>4 DEF TypeOK, Types
<1>7. Uplink' /\ Serving'
  BY <1>1, UplinkKept, ServingKept
<1>8. Sending' /\ Parked' /\ Reading' /\ Rested' /\ AnswerIsForRequest' /\ WholeIsWhole'
  BY <1>1, <1>5 DEF Sending, Parked, Reading, Rested, AnswerIsForRequest, WholeIsWhole
<1>9. Awaited'
  <2>1. SUFFICES ASSUME pc \in {"expecting", "sending", "head"} PROVE Awaited'
    BY <1>1 DEF Awaited
  <2>2. \A i \in 1..Len(Queue) : Before(Queue[i])
    BY <1>1, <1>5, <2>1 DEF Awaited
  <2>3. \A i \in 1..Len(Queue') : Before(Queue'[i])
    BY <1>3, <1>4, <2>2
  <2>4. \A i \in 1..Len(Queue') : Before(Queue[i])'
    BY <1>1, <2>3 DEF Before, IsInterim
  <2> QED
    BY <1>1, <1>5, <2>1, <2>4, LayoutKept DEF Awaited
<1> QED
  BY <1>6, <1>7, <1>8, <1>9

\* The response is put behind the interim heads.
LEMMA AnswerLaid ==
    ASSUME Inv, stage = "owes", NEW t \in Tokens, Post(t), stage' # "owes",
           UNCHANGED <<buf, k, kind, serving, read, pc, pending, answer>>,
           sent'[k].data = 0, reply'.framing = "sized" => ~sent'[k].ended, Final(t)'
    PROVE  Awaited'
<1> USE DEF Inv
<1>1. /\ wire' \in Seq(Tokens) /\ Len(wire') <= MaxWire /\ Len(Queue') = Len(Queue) + 1
      /\ Queue'[Len(Queue) + 1] = t /\ \A i \in 1..Len(Queue) : Queue'[i] = Queue[i]
      /\ Len(Queue) \in Nat
  BY QueuePosted, QueueShape
<1>2. SUFFICES ASSUME pc \in {"expecting", "sending", "head"}, pending = NoToken PROVE Awaited'
  BY DEF Awaited
<1>3. serving = k /\ Unanswered /\ k \in Nat
  BY H1Assumption DEF Serving, Unanswered, TypeOK
<1>4. ~Unanswered'
  BY <1>3 DEF Unanswered
<1>5. /\ k > 0 /\ answer[k] = NoToken /\ read[k] = 0
      /\ \A i \in 1..Len(Queue) : Before(Queue[i])
  BY <1>2, <1>3 DEF Awaited
<1>6. Unread' = 0
  BY <1>5 DEF Unread
<1>7. PICK f \in 1..Len(Queue') : f = Len(Queue) + 1
  BY <1>1
<1>8. /\ f \in Nat /\ f + 0 <= Len(Queue') /\ Queue'[f] = t
      /\ \A i \in 1..Len(Queue') : /\ i <= f /\ f + 0 = f
                                   /\ i < f => i \in 1..Len(Queue)
  BY <1>1, <1>7
<1>9. \A i \in 1..Len(Queue) : Before(Queue'[i])
  BY <1>1, <1>5
<1>10. Laid(f)'
  <2>1. \A i \in 1..Len(Queue') : i < f => Before(Queue[i])'
    BY <1>1, <1>8, <1>9 DEF Before, IsInterim
  <2>2. \A i \in 1..Len(Queue') : i = f => Final(Queue[i])'
    BY <1>8 DEF Final
  <2> QED
    BY <1>6, <1>8, <2>1, <2>2 DEF Laid
<1>11. EndToCome'
  BY DEF EndToCome
<1> QED
  BY <1>2, <1>4, <1>5, <1>10, <1>11 DEF Awaited

LEMMA InvServerAnswers ==
    ASSUME Inv, NEW framing \in Framings, NEW keep \in BOOLEAN,
           ServerAnswers(framing, keep)
    PROVE  Inv'
<1> USE DEF Inv
<1> DEFINE t == Token("head", serving, framing, keep)
<1>1. /\ stage = "owes" /\ Post(t) /\ reply' = [framing |-> framing, keep |-> keep]
      /\ stage' = (IF framing = "none" THEN "idle" ELSE "sending")
      /\ sent' = [sent EXCEPT ![serving].ended = (framing = "none")]
      /\ UNCHANGED <<state, pending, reader, keepAlive, informational, upgraded, streamOpen, pc, k, kind,
                     buf, toServer, serverClosed, wants, serving, answer, verdict, read, misread>>
  BY DEF ServerAnswers, machine, driver
<1>2. serving = k /\ k > 0 /\ Unanswered /\ sent[k].data = 0 /\ ~sent[k].ended /\ k \in 1..Requests
  BY <1>1, H1Assumption DEF Serving, Unanswered, TypeOK
<1>3. /\ t \in Tokens /\ t.by = k /\ t.what = "head" /\ t.framing = framing /\ t.keep = keep
  BY <1>2, H1Assumption DEF Token, Tokens
<1> HIDE DEF t
<1>4. /\ sent' \in [1..Requests -> Counts] /\ sent'[k].data = 0
      /\ sent'[k].ended = (framing = "none")
      /\ \A r \in 1..Requests : r # k => sent'[r] = sent[r]
  <2>1. sent[k] \in Counts /\ sent[k] = [data |-> sent[k].data, ended |-> sent[k].ended]
    BY <1>2 DEF Types, Counts
  <2>2. sent' = [sent EXCEPT ![k] = [sent[k] EXCEPT !.ended = (framing = "none")]]
    BY <1>1, <1>2
  <2>3. [sent[k] EXCEPT !.ended = (framing = "none")] \in Counts
    BY <2>1 DEF Counts
  <2>4. sent'[k] = [sent[k] EXCEPT !.ended = (framing = "none")]
    BY <1>2, <2>2 DEF Types
  <2> QED
    BY <1>2, <2>1, <2>2, <2>3, <2>4 DEF Types, Counts
<1>5. reply'.framing = framing /\ reply'.keep = keep /\ reply' \in [framing : Framings, keep : BOOLEAN]
  BY <1>1
<1>6. /\ wire' \in Seq(Tokens) /\ Len(wire') <= MaxWire
  BY <1>1, <1>3, QueuePosted
<1>7. pending = NoToken /\ pc \notin {"body", "idle"}
  BY <1>1, <1>2 DEF Parked, Reading, Rested
<1>8. TypeOK'
  BY <1>1, <1>6 DEF TypeOK
<1>9. Types'
  BY <1>1, <1>4, <1>5, <1>6 DEF Types
<1>10. Uplink'
  BY <1>1, UplinkKept
<1>11. Serving'
  <2>1. ~Unanswered'
    BY <1>1, <1>2 DEF Unanswered
  <2>2. \A r \in 1..Requests : r > k => r # k
    BY <1>2
  <2> QED
    BY <1>1, <1>2, <1>4, <1>5, <2>1, <2>2 DEF Serving
<1>12. Sending' /\ Parked' /\ Reading' /\ Rested' /\ AnswerIsForRequest'
  BY <1>1, <1>7 DEF Sending, Parked, Reading, Rested, AnswerIsForRequest
<1>13. Awaited'
  <2>1. PICK u \in Tokens : u = t
    BY <1>3
  <2>2. Post(u) /\ Final(u)'
    BY <1>1, <1>3, <1>4, <1>5, <2>1 DEF Final
  <2>3. stage' # "owes" /\ (reply'.framing = "sized" => ~sent'[k].ended)
    BY <1>1, <1>4, <1>5
  <2> QED
    BY <1>1, <1>4, <2>2, <2>3, AnswerLaid
<1>14. WholeIsWhole'
  BY <1>1, <1>2, <1>4 DEF WholeIsWhole
<1> QED
  BY <1>8, <1>9, <1>10, <1>11, <1>12, <1>13, <1>14

LEMMA InvServerSwitches ==
    ASSUME Inv, ServerSwitches
    PROVE  Inv'
<1> USE DEF Inv
<1> DEFINE t == Token("switch", serving, "none", TRUE)
<1>1. /\ stage = "owes" /\ Post(t) /\ stage' = "idle"
      /\ UNCHANGED <<state, pending, reader, keepAlive, informational, upgraded, streamOpen, pc, k, kind,
                     buf, toServer, serverClosed, wants, serving, reply, answer, verdict, sent,
                     read, misread>>
  BY DEF ServerSwitches, machine, driver, past
<1>2. /\ serving = k /\ k > 0 /\ Unanswered /\ reply.keep /\ sent[k].data = 0 /\ ~sent[k].ended
      /\ k \in 1..Requests
  BY <1>1, H1Assumption DEF Serving, Unanswered, TypeOK
<1>3. t \in Tokens /\ t.by = k /\ t.what = "switch"
  BY <1>2, H1Assumption DEF Token, Tokens, Framings
<1> HIDE DEF t
<1>4. PICK u \in Tokens : u = t
  BY <1>3
<1>5. wire' \in Seq(Tokens) /\ Len(wire') <= MaxWire
  BY <1>1, <1>3, QueuePosted
<1>6. pending = NoToken /\ pc \notin {"body", "idle"}
  BY <1>1, <1>2 DEF Parked, Reading, Rested
<1>7. TypeOK' /\ Types'
  BY <1>1, <1>5 DEF TypeOK, Types
<1>8. Uplink'
  BY <1>1, UplinkKept
<1>9. Serving'
  BY <1>1, <1>2 DEF Serving, Unanswered
<1>10. Sending' /\ Parked' /\ Reading' /\ Rested' /\ AnswerIsForRequest' /\ WholeIsWhole'
  BY <1>1, <1>6 DEF Sending, Parked, Reading, Rested, AnswerIsForRequest, WholeIsWhole
<1>11. Awaited'
  <2>1. Post(u) /\ Final(u)'
    BY <1>1, <1>2, <1>3, <1>4 DEF Final
  <2> QED
    BY <1>1, <1>2, <2>1, AnswerLaid
<1> QED
  BY <1>7, <1>8, <1>9, <1>10, <1>11

\* A piece of the body is put behind the others.
LEMMA PieceLaid ==
    ASSUME Inv, NEW what \in {"data", "last"}, ServerSends(what), NEW f \in Nat, Laid(f),
           f > 0 => f <= Len(Queue)
    PROVE  Laid(f)'
<1> USE DEF Inv
<1> DEFINE u == Token(what, serving, "none", TRUE)
<1>1. /\ stage = "sending" /\ Post(u) /\ buf' = buf /\ (what = "last" => reply.framing = "sized")
      /\ sent' = [sent EXCEPT ![serving] = [data |-> @.data + 1, ended |-> (what = "last")]]
      /\ stage' = (IF what = "last" THEN "idle" ELSE stage)
      /\ UNCHANGED <<k, kind, reply, read>>
  BY DEF ServerSends, driver
<1>2. /\ serving = k /\ k > 0 /\ k \in 1..Requests /\ ~sent[k].ended /\ reply.framing # "none"
      /\ read[k] \in Nat /\ sent[k].data \in Nat
  BY <1>1, H1Assumption DEF Serving, TypeOK, Types, Counts
<1>3. u \in Tokens /\ u.what = what
  BY <1>2, H1Assumption DEF Token, Tokens, Framings
<1> HIDE DEF u
<1>4. sent'[k].data = sent[k].data + 1 /\ sent'[k].ended = (what = "last")
  BY <1>1, <1>2 DEF Types
<1>5. Unread' = Unread + 1 /\ Unread \in Nat
  <2>1. Unread' = sent'[k].data - read[k]
    BY <1>1 DEF Unread
  <2> QED
    BY <1>2, <1>4, <2>1 DEF Unread, Laid
<1>6. /\ Len(Queue') = Len(Queue) + 1 /\ Len(Queue) \in Nat
      /\ Queue'[Len(Queue) + 1] = u /\ \A i \in 1..Len(Queue) : Queue'[i] = Queue[i]
  BY <1>1, <1>3, QueuePosted, QueueShape
<1>7. Len(Queue) = f + Unread
  <2>1. f + Unread <= Len(Queue)
    BY DEF Laid
  <2>2. ASSUME f + Unread < Len(Queue) PROVE FALSE
    <3>1. Len(Queue) \in 1..Len(Queue) /\ Len(Queue) > f + Unread /\ Len(Queue) > f
      BY <1>5, <1>6, <2>2
    <3> QED
      BY <1>1, <3>1 DEF Laid
  <2> QED
    BY <1>5, <1>6, <2>1, <2>2
<1>8. f + Unread' = f + Unread + 1 /\ f + Unread' <= Len(Queue') /\ Unread' \in Nat
  BY <1>5, <1>6, <1>7
<1>9. ASSUME NEW i \in 1..Len(Queue'), i < f PROVE Before(Queue[i])'
  <2>1. i \in 1..Len(Queue)
    BY <1>5, <1>6, <1>7, <1>9
  <2>2. Before(Queue[i])
    BY <1>9, <2>1 DEF Laid
  <2> QED
    BY <1>1, <1>6, <2>1, <2>2 DEF Before, IsInterim
<1>10. ASSUME NEW i \in 1..Len(Queue'), i = f PROVE Final(Queue[i])'
  <2>1. i \in 1..Len(Queue)
    BY <1>5, <1>6, <1>7, <1>10
  <2>2. Final(Queue[i]) /\ Queue'[i] = Queue[i]
    BY <1>6, <1>10, <2>1 DEF Laid
  <2> QED
    BY <1>1, <1>2, <1>4, <2>2 DEF Final
<1>11. ASSUME NEW i \in 1..Len(Queue'), i > f
       PROVE  /\ Queue'[i].what = IF i = f + Unread' /\ sent'[k].ended THEN "last" ELSE "data"
              /\ i <= f + Unread'
  <2>1. CASE i = Len(Queue) + 1
    BY <1>3, <1>4, <1>6, <1>7, <1>8, <2>1
  <2>2. CASE i # Len(Queue) + 1
    <3>1. i \in 1..Len(Queue) /\ i <= f + Unread /\ i # f + Unread'
      BY <1>5, <1>6, <1>7, <1>8, <2>2
    <3>2. Queue[i].what = "data"
      BY <1>2, <1>11, <3>1 DEF Laid
    <3> QED
      BY <1>5, <1>6, <1>7, <1>8, <3>1, <3>2
  <2> QED
    BY <2>1, <2>2
<1>12. \A i \in 1..Len(Queue') : i > f + Unread' => ~(i > f)
  BY <1>5, <1>6, <1>7, <1>8
<1> QED
  BY <1>1, <1>8, <1>9, <1>10, <1>11, <1>12 DEF Laid

LEMMA InvServerSends ==
    ASSUME Inv, NEW what \in {"data", "last"}, ServerSends(what)
    PROVE  Inv'
<1> USE DEF Inv
<1> DEFINE u == Token(what, serving, "none", TRUE)
<1>1. /\ stage = "sending" /\ Post(u) /\ (what = "last" => reply.framing = "sized")
      /\ sent' = [sent EXCEPT ![serving] = [data |-> @.data + 1, ended |-> (what = "last")]]
      /\ stage' = (IF what = "last" THEN "idle" ELSE stage)
      /\ UNCHANGED <<state, pending, reader, keepAlive, informational, upgraded, streamOpen, pc, k, kind,
                     buf, toServer, serverClosed, wants, serving, reply, answer, verdict, read,
                     misread>>
  BY DEF ServerSends, machine, driver
<1>2. /\ serving = k /\ k > 0 /\ k \in 1..Requests /\ ~sent[k].ended /\ reply.framing # "none"
      /\ read[k] \in Nat /\ sent[k].data \in Nat /\ ~Unanswered
  BY <1>1, H1Assumption DEF Serving, TypeOK, Types, Counts, Unanswered
<1>3. u \in Tokens
  BY <1>2, H1Assumption DEF Token, Tokens, Framings
<1> HIDE DEF u
<1>4. wire' \in Seq(Tokens) /\ Len(wire') <= MaxWire
  BY <1>1, <1>3, QueuePosted
<1>5. /\ sent'[k].data = sent[k].data + 1 /\ sent'[k].ended = (what = "last")
      /\ sent' \in [1..Requests -> Counts]
      /\ \A r \in 1..Requests : r # k => sent'[r] = sent[r]
  BY <1>1, <1>2 DEF Types, Counts
<1>6. TypeOK' /\ Types'
  BY <1>1, <1>4, <1>5 DEF TypeOK, Types
<1>7. Uplink'
  BY <1>1, UplinkKept
<1>8. ~Unanswered'
  BY <1>1, <1>2 DEF Unanswered
<1>9. Serving'
  <2>1. \A r \in 1..Requests : r > k => r # k
    BY <1>2
  <2> QED
    BY <1>1, <1>2, <1>5, <1>8, <2>1 DEF Serving
<1>10. Sending' /\ AnswerIsForRequest'
  BY <1>1 DEF Sending, AnswerIsForRequest
<1>11. WholeIsWhole'
  BY <1>1, <1>2, <1>5 DEF WholeIsWhole
<1>12. Unread \in Nat => EndToCome'
  BY <1>1, <1>2, <1>5 DEF EndToCome, Unread
<1>13. \A t : Final(t) => Final(t)'
  BY <1>1, <1>2, <1>5 DEF Final
<1>14. Rested'
  BY <1>1, <1>2 DEF Rested
<1>15. Awaited'
  <2>1. SUFFICES ASSUME pc \in {"expecting", "sending", "head"}, pending = NoToken PROVE Awaited'
    BY <1>1 DEF Awaited
  <2>2. /\ answer[k] = NoToken /\ read[k] = 0 /\ EndToCome /\ \E f \in 1..Len(Queue) : Laid(f)
    BY <1>2, <2>1 DEF Awaited
  <2>3. PICK f \in 1..Len(Queue) : Laid(f)
    BY <2>2
  <2>4. Len(Queue) \in Nat /\ Len(Queue') = Len(Queue) + 1
    BY <1>1, <1>3, QueueShape, QueuePosted
  <2>5. f \in Nat /\ f <= Len(Queue) /\ f \in 1..Len(Queue')
    BY <2>4
  <2>6. Laid(f)' /\ Unread \in Nat
    BY <2>3, <2>5, PieceLaid DEF Laid
  <2> QED
    BY <1>1, <1>2, <1>8, <1>12, <2>2, <2>5, <2>6 DEF Awaited
<1>16. Laid(0) => Laid(0)' /\ EndToCome'
  <2>1. 0 \in Nat /\ (0 > 0 => 0 <= Len(Queue))
    OBVIOUS
  <2> QED
    BY <1>12, <2>1, PieceLaid DEF Laid
<1>17. Parked'
  <2>1. SUFFICES ASSUME pending # NoToken PROVE Parked'
    BY <1>1 DEF Parked
  <2>2. Final(pending)'
    BY <1>1, <1>2, <1>5, <2>1 DEF Final, Parked
  <2> QED
    BY <1>1, <1>8, <1>16, <2>1, <2>2 DEF Parked
<1>18. Reading'
  <2>1. SUFFICES ASSUME pc = "body" PROVE Reading'
    BY <1>1 DEF Reading
  <2>2. Final(answer[k])'
    BY <1>1, <1>2, <1>5, <2>1 DEF Final, Reading
  <2>3. reader \notin {"none", "complete"}
    BY <1>2, <2>1 DEF Reading
  <2> QED
    BY <1>1, <1>8, <1>16, <2>1, <2>2, <2>3 DEF Reading, KeepsAlive
<1> QED
  BY <1>6, <1>7, <1>9, <1>10, <1>11, <1>14, <1>15, <1>17, <1>18

LEMMA InvServerStrays ==
    ASSUME Inv, OrderlyServer, ServerStrays
    PROVE  Inv'
<1> USE DEF Inv
<1> DEFINE u == Token("head", Nobody, "none", TRUE)
<1>1. /\ stage = "idle" /\ serving # Nobody /\ Post(u) /\ ~reply.keep
      /\ UNCHANGED <<state, pending, reader, keepAlive, informational, upgraded, streamOpen, pc, k, kind,
                     buf, toServer, serverClosed, wants, serving, stage, reply, answer, verdict,
                     sent, read, misread>>
  BY DEF ServerStrays, OrderlyServer, machine, driver, server, past, Types
<1>2. u \in Tokens
  BY H1Assumption DEF Token, Tokens, Framings, Nobody
<1> HIDE DEF u
<1>3. ~Unanswered /\ pc # "idle"
  BY <1>1 DEF Serving, Rested, TypeOK
<1>4. /\ wire' \in Seq(Tokens) /\ Len(wire') <= MaxWire /\ Len(Queue') = Len(Queue) + 1
      /\ \A i \in 1..Len(Queue) : Queue'[i] = Queue[i]
      /\ Len(Queue) \in Nat
  BY <1>1, <1>2, QueuePosted, QueueShape
<1>5. TypeOK' /\ Types'
  BY <1>1, <1>4 DEF TypeOK, Types
<1>6. Uplink' /\ Sending' /\ AnswerIsForRequest' /\ WholeIsWhole'
  BY <1>1, UplinkKept DEF Sending, AnswerIsForRequest, WholeIsWhole
<1>7. Serving'
  BY <1>1 DEF Serving, Unanswered
<1>8. ASSUME NEW f \in Nat, Laid(f), f > 0 => f <= Len(Queue) PROVE Laid(f)'
  <2>1. Unread \in Nat /\ f + Unread <= Len(Queue) /\ Unread' = Unread
    BY <1>1, <1>8, LayoutKept DEF Laid
  <2>2. ASSUME NEW i \in 1..Len(Queue') PROVE i \in 1..Len(Queue) \/ i = Len(Queue) + 1
    BY <1>4
  <2>3. Len(Queue) + 1 > f + Unread /\ Len(Queue) + 1 > f
    BY <1>4, <2>1
  <2>4. ASSUME NEW i \in 1..Len(Queue')
        PROVE  /\ i < f => Before(Queue'[i])
               /\ i = f => Final(Queue'[i])
               /\ i > f /\ i <= f + Unread =>
                    Queue'[i].what = IF i = f + Unread /\ sent[k].ended THEN "last" ELSE "data"
    <3>1. CASE i \in 1..Len(Queue)
      BY <1>4, <1>8, <3>1 DEF Laid
    <3>2. CASE i = Len(Queue) + 1
      BY <1>4, <2>1, <2>3, <3>2
    <3> QED
      BY <2>2, <3>1, <3>2
  <2>5. \A i \in 1..Len(Queue') : /\ Before(Queue'[i]) => Before(Queue[i])'
                                  /\ Final(Queue'[i]) => Final(Queue[i])'
    BY <1>1 DEF Before, Final, IsInterim
  <2>6. f + Unread <= Len(Queue')
    BY <1>4, <2>1
  <2> QED
    BY <1>1, <2>1, <2>4, <2>5, <2>6 DEF Laid
<1>9. Awaited'
  <2>1. SUFFICES ASSUME pc \in {"expecting", "sending", "head"}, pending = NoToken PROVE Awaited'
    BY <1>1 DEF Awaited
  <2>2. PICK f \in 1..Len(Queue) : Laid(f)
    BY <1>3, <2>1 DEF Awaited
  <2>3. f \in Nat /\ f <= Len(Queue) /\ f \in 1..Len(Queue')
    BY <1>4
  <2>4. Laid(f)'
    BY <1>8, <2>2, <2>3
  <2> QED
    BY <1>1, <1>3, <2>1, <2>3, <2>4, LayoutKept DEF Awaited
<1>10. Laid(0) => Laid(0)'
  BY <1>8
<1>11. Parked' /\ Reading' /\ Rested'
  BY <1>1, <1>3, <1>10, LayoutKept DEF Parked, Reading, Rested, KeepsAlive
<1> QED
  BY <1>5, <1>6, <1>7, <1>9, <1>11

LEMMA InvServerCloses ==
    ASSUME Inv, ServerCloses \/ UNCHANGED vars
    PROVE  Inv'
<1> USE DEF Inv
<1>1. /\ UNCHANGED <<state, pending, reader, keepAlive, informational, upgraded, streamOpen, pc, k, kind,
                     buf, toServer, wire, wants, serving, stage, reply, answer, verdict,
                     sent, read, misread>>
      /\ serverClosed' \in BOOLEAN
  BY DEF ServerCloses, vars, machine, driver, server, past, Types
<1>2. TypeOK' /\ Types'
  BY <1>1 DEF TypeOK, Types
<1>3. Uplink' /\ Sending' /\ AnswerIsForRequest' /\ WholeIsWhole'
  BY <1>1, UplinkKept DEF Sending, AnswerIsForRequest, WholeIsWhole
<1>4. Serving'
  BY <1>1 DEF Serving, Unanswered
<1>5. Queue' = Queue
  BY <1>1 DEF Queue
<1>6. Awaited' /\ Parked' /\ Reading' /\ Rested'
  BY <1>1, <1>5, LayoutKept DEF Awaited, Parked, Reading, Rested, KeepsAlive
<1> QED
  BY <1>2, <1>3, <1>4, <1>6

-----------------------------------------------------------------------------
(* The theorems.                                                           *)

LEMMA InvNext ==
    ASSUME Inv, OrderlyServer, [Next]_vars
    PROVE  Inv'
<1>1. CASE \E body \in Bodies : SendBody(body)
  BY <1>1, InvSendBody
<1>2. CASE Failing
  BY <1>2, InvFailing
<1>3. CASE ContinueAnswered \/ ContinueTimesOut
  BY <1>3, InvContinue
<1>4. CASE \E n \in 1..MaxWire : Fill(n)
  BY <1>4, InvFill
<1>5. CASE SkipInformational
  BY <1>5, InvSkip
<1>6. CASE ParkedHeadArrives \/ HeadArrives
  BY <1>6, InvHead
<1>7. CASE ReadPiece
  BY <1>7, InvReadPiece
<1>8. CASE EndBody
  BY <1>8, InvEndBody
<1>9. CASE Discard
  BY <1>9, InvDiscard
<1>10. CASE \E what \in Kinds : Send(what)
  BY <1>10, InvSend
<1>11. CASE ServerReads
  BY <1>11, InvServerReads
<1>12. CASE ServerInterim
  BY <1>12, InvServerInterim
<1>13. CASE \E framing \in Framings, keep \in BOOLEAN : ServerAnswers(framing, keep)
  BY <1>13, InvServerAnswers
<1>14. CASE ServerSwitches
  BY <1>14, InvServerSwitches
<1>15. CASE \E what \in {"data", "last"} : ServerSends(what)
  BY <1>15, InvServerSends
<1>16. CASE ServerStrays
  BY <1>16, InvServerStrays
<1>17. CASE ServerCloses \/ UNCHANGED vars
  BY <1>17, InvServerCloses
<1> QED
  BY <1>1, <1>2, <1>3, <1>4, <1>5, <1>6, <1>7, <1>8, <1>9, <1>10, <1>11, <1>12, <1>13, <1>14, <1>15,
     <1>16, <1>17 DEF Next, Client, Program, Server, Failing

\* Every token stands where the one before it lets it (httpx/_proto/h1).
THEOREM Invariance == OrderlyServer => (Spec => []Inv)
<1> SUFFICES ASSUME OrderlyServer PROVE Spec => []Inv
  OBVIOUS
<1>1. Init => Inv
  BY InvInit
<1>2. Inv /\ [Next]_vars => Inv'
  BY InvNext
<1> QED
  BY <1>1, <1>2, PTL DEF Spec

\* A request is answered with a head the server sent in answer to it, never
\* with one left from the exchange before (start_send, poll_head).
THEOREM AnswersMatched == OrderlyServer => (Spec => []AnswerIsForRequest)
<1>1. Inv => AnswerIsForRequest
  BY DEF Inv
<1> QED
  BY <1>1, Invariance, PTL

\* A response handed over as whole is all the server sent for it, whatever the
\* batches it was read in and whenever the server closed (read_chunk, _end_body).
THEOREM BodiesWhole == OrderlyServer => (Spec => []WholeIsWhole)
<1>1. Inv => WholeIsWhole
  BY DEF Inv
<1> QED
  BY <1>1, Invariance, PTL

-----------------------------------------------------------------------------
(* What holds whatever the server sends.                                   *)

LEMMA GroundInit == Init => Ground
<1>1. Init => TypeOK /\ Types /\ Sending
  BY InvInit DEF Inv
<1>2. Init => Kept /\ Framed /\ UploadsFramed
  BY DEF Init, Kept, Framed, Mid, UploadsFramed
<1> QED
  BY <1>1, <1>2 DEF Ground

\* A step that sends nothing and reads no request.
LEMMA FramedKept ==
    ASSUME Framed, UNCHANGED <<toServer, wants, kind, misread>>, Mid' => Mid,
           pc \in {"sending", "ended"} => pc' \in {"sending", "ended"}
    PROVE  Framed'
BY DEF Framed

LEMMA GroundSend ==
    ASSUME Ground, NEW what \in Kinds, Send(what)
    PROVE  Ground'
<1> USE DEF Ground
<1> DEFINE h == [part |-> "head", kind |-> what, of |-> k + 1]
<1>1. /\ pc = "idle" /\ k < Requests /\ k' = k + 1 /\ kind' = what /\ state' = "SEND_BODY"
      /\ pending' = NoToken /\ reader' = "none" /\ informational' = 0
      /\ toServer' = Append(toServer, h)
      /\ pc' = (IF what = "expect" THEN "expecting" ELSE "sending")
      /\ UNCHANGED <<keepAlive, upgraded, buf, streamOpen, wire, serverClosed, wants, serving,
                     stage, reply, answer, verdict, sent, read, misread>>
  BY DEF Send, server, past
<1>2. /\ Requests \in Nat /\ k \in 0..Requests /\ k + 1 \in 1..Requests /\ what \in AllKinds
      /\ MaxInformational \in Nat
  BY <1>1, H1Assumption DEF TypeOK
<1>3. h \in Parts /\ toServer \in Seq(Parts) /\ Len(toServer) \in Nat
  BY <1>2, LenProperties DEF Parts, Pieces, Types
<1>4. /\ toServer' \in Seq(Parts) /\ Len(toServer') = Len(toServer) + 1
      /\ toServer'[Len(toServer) + 1] = h
      /\ \A i \in 1..Len(toServer) : toServer'[i] = toServer[i]
  BY <1>1, <1>3, AppendProperties
<1>5. h.part = "head" /\ h.kind = what
  OBVIOUS
<1> HIDE DEF h
<1>6. TypeOK'
  BY <1>1, <1>2 DEF TypeOK
<1>7. Types'
  BY <1>1, <1>2, <1>4 DEF Types, Framings
<1>8. Sending' /\ Kept' /\ UploadsFramed'
  BY <1>1, <1>2 DEF Sending, Kept, UploadsFramed
<1>9. Framed'
  <2>1. SUFFICES ASSUME misread = "none" PROVE Framed'
    BY <1>1 DEF Framed
  <2>2. ASSUME NEW i \in 1..(Len(toServer') - 1) PROVE Follows(toServer'[i], toServer'[i + 1])
    <3>1. i \in 1..Len(toServer)
      BY <1>3, <1>4
    <3>2. CASE i = Len(toServer)
      <4>1. toServer[i].part = "head" => toServer[i].kind # "post"
        BY <1>1, <1>3, <2>1, <3>1, <3>2 DEF Framed
      <4>2. toServer[i].part \in Pieces
        <5>1. toServer[i] \in Parts
          BY <1>3, <3>1, ElementOfSeq
        <5> QED
          BY <5>1 DEF Parts
      <4> QED
        BY <1>4, <1>5, <3>1, <3>2, <4>1, <4>2 DEF Follows
    <3>3. CASE i # Len(toServer)
      <4>1. i \in 1..(Len(toServer) - 1) /\ i + 1 \in 1..Len(toServer)
        BY <1>3, <3>1, <3>3
      <4> QED
        BY <1>4, <2>1, <3>1, <4>1 DEF Framed
    <3> QED
      BY <3>2, <3>3
  <2>3. (wants = "head" => toServer'[1].part = "head") /\ (wants = "post" => toServer'[1].part # "head")
    <3>1. CASE Len(toServer) = 0
      BY <1>1, <1>4, <1>5, <2>1, <3>1 DEF Framed
    <3>2. CASE Len(toServer) # 0
      <4>1. 1 \in 1..Len(toServer) /\ Len(toServer) > 0
        BY <1>3, <3>2
      <4> QED
        BY <1>4, <2>1, <4>1 DEF Framed
    <3> QED
      BY <3>1, <3>2
  <2>4. LET t == toServer'[Len(toServer')]
        IN  /\ t.part = "head" /\ t.kind = "post" => pc' \in {"sending", "ended"}
            /\ Mid' => t.part = "head" /\ t.kind = kind'
    BY <1>1, <1>4, <1>5
  <2>5. Len(toServer') > 0
    BY <1>3, <1>4
  <2> QED
    BY <1>1, <2>2, <2>3, <2>4, <2>5 DEF Framed
<1> QED
  BY <1>6, <1>7, <1>8, <1>9

LEMMA GroundSendBody ==
    ASSUME Ground, NEW body \in Bodies, SendBody(body)
    PROVE  Ground'
<1> USE DEF Ground
<1> DEFINE b == [part |-> body, kind |-> kind, of |-> k]
<1>0. body \in Pieces /\ body # "head"
  BY H1Assumption DEF Bodies, Pieces
<1>1. /\ pc = "sending" /\ pc' = "head" /\ state' = "WAIT_RESPONSE"
      /\ toServer' = (IF HasBody(kind) THEN Append(toServer, b) ELSE toServer)
      /\ UNCHANGED <<pending, reader, keepAlive, informational, upgraded, buf, streamOpen, k, kind,
                     wire, serverClosed, wants, serving, stage, reply, answer, verdict, sent, read,
                     misread>>
      /\ pending = NoToken
  BY DEF SendBody, server, past, TypeOK
<1>2. k > 0 /\ k \in 1..Requests /\ Requests \in Nat
  BY <1>1, H1Assumption DEF Kept, TypeOK
<1>3. b \in Parts /\ toServer \in Seq(Parts) /\ Len(toServer) \in Nat
  BY <1>0, <1>2, LenProperties DEF Parts, Types
<1>4. /\ Append(toServer, b) \in Seq(Parts) /\ Len(Append(toServer, b)) = Len(toServer) + 1
      /\ Append(toServer, b)[Len(toServer) + 1] = b
      /\ \A i \in 1..Len(toServer) : Append(toServer, b)[i] = toServer[i]
  BY <1>3, AppendProperties
<1>5. b.part # "head"
  BY <1>0
<1> HIDE DEF b
<1>6. TypeOK'
  BY <1>1 DEF TypeOK
<1>7. Types'
  BY <1>1, <1>4 DEF Types
<1>8. Sending' /\ Kept' /\ UploadsFramed'
  BY <1>1, <1>2 DEF Sending, Kept, UploadsFramed
<1>9. Framed'
  <2>1. SUFFICES ASSUME misread = "none" PROVE Framed'
    BY <1>1 DEF Framed
  <2>2. Mid /\ ~Mid'
    BY <1>1 DEF Mid
  <2>3. CASE ~HasBody(kind)
    BY <1>1, <2>1, <2>2, <2>3 DEF Framed, HasBody
  <2>4. CASE HasBody(kind)
    <3>1. /\ Len(toServer') = Len(toServer) + 1 /\ toServer'[Len(toServer) + 1] = b
          /\ \A i \in 1..Len(toServer) : toServer'[i] = toServer[i]
      BY <1>1, <1>4, <2>4
    <3>2. ASSUME NEW i \in 1..(Len(toServer') - 1) PROVE Follows(toServer'[i], toServer'[i + 1])
      <4>1. i \in 1..Len(toServer)
        BY <1>3, <3>1
      <4>2. CASE i = Len(toServer)
        <5>1. toServer[i].part = "head" /\ toServer[i].kind = kind
          BY <1>3, <2>1, <2>2, <4>1, <4>2 DEF Framed
        <5> QED
          BY <1>5, <2>4, <3>1, <4>1, <4>2, <5>1 DEF Follows
      <4>3. CASE i # Len(toServer)
        <5>1. i \in 1..(Len(toServer) - 1) /\ i + 1 \in 1..Len(toServer)
          BY <1>3, <4>1, <4>3
        <5> QED
          BY <2>1, <3>1, <4>1, <5>1 DEF Framed
      <4> QED
        BY <4>2, <4>3
    <3>3. /\ wants = "head" => toServer'[1].part = "head"
          /\ wants = "post" => toServer'[1].part # "head"
      <4>1. CASE Len(toServer) = 0
        BY <1>5, <2>1, <2>2, <2>4, <3>1, <4>1 DEF Framed, HasBody
      <4>2. CASE Len(toServer) # 0
        <5>1. 1 \in 1..Len(toServer) /\ Len(toServer) > 0
          BY <1>3, <4>2
        <5> QED
          BY <2>1, <3>1, <5>1 DEF Framed
      <4> QED
        BY <4>1, <4>2
    <3>4. toServer'[Len(toServer')].part # "head" /\ Len(toServer') > 0
      BY <1>3, <1>5, <3>1
    <3> QED
      BY <1>1, <2>2, <3>2, <3>3, <3>4 DEF Framed
  <2> QED
    BY <2>3, <2>4
<1> QED
  BY <1>6, <1>7, <1>8, <1>9

LEMMA GroundTakeHead ==
    ASSUME Ground, pc = "head", NEW t \in Tokens, TakeHead(t), pending' = NoToken,
           buf' \in Seq(Tokens)
    PROVE  Ground'
<1> USE DEF Ground
<1>1. /\ answer' = [answer EXCEPT ![k] = t]
      /\ \/ /\ t.what = "switch" /\ upgraded' = TRUE /\ state' = "CLOSED" /\ reader' = "none"
            /\ keepAlive' = FALSE /\ streamOpen' = FALSE /\ pc' = "ended"
         \/ /\ t.what # "switch" /\ state' = "RECV_BODY" /\ reader' = t.framing
            /\ keepAlive' = KeepsAlive(t) /\ pc' = "body"
            /\ upgraded' = upgraded /\ streamOpen' = streamOpen
      /\ UNCHANGED <<informational, k, kind, toServer, wire, serverClosed, wants, serving, stage,
                     reply, verdict, sent, read, misread>>
  BY DEF TakeHead, server
<1>2. k \in 1..Requests
  BY H1Assumption DEF TypeOK, Kept
<1>3. answer'[k] = t /\ answer' \in [1..Requests -> Tokens \cup {NoToken}]
  BY <1>1, <1>2 DEF Types
<1>4. TypeOK'
  BY <1>1 DEF TypeOK
<1>5. t.framing \in Framings /\ t.keep \in BOOLEAN
  BY DEF Tokens
<1>6. Types'
  <2>1. KeepsAlive(t) \in BOOLEAN
    BY <1>5 DEF KeepsAlive
  <2>2. keepAlive' \in BOOLEAN /\ upgraded' \in BOOLEAN /\ streamOpen' \in BOOLEAN
    BY <1>1, <2>1 DEF Types
  <2>3. reader' \in Framings \cup {"complete"}
    BY <1>1, <1>5 DEF Framings
  <2> QED
    BY <1>1, <1>3, <2>2, <2>3 DEF Types
<1>7. Kept'
  BY <1>1, <1>2, <1>3 DEF Kept, KeepsAlive
<1>8. Sending' /\ UploadsFramed'
  BY <1>1 DEF Sending, UploadsFramed
<1>9. Framed'
  BY <1>1, FramedKept DEF Mid
<1> QED
  BY <1>4, <1>6, <1>7, <1>8, <1>9

\* The rest of what the client does sends nothing.
LEMMA GroundClient ==
    ASSUME Ground, Client \/ Discard, ~(\E body \in Bodies : SendBody(body)),
           ~ParkedHeadArrives, ~HeadArrives
    PROVE  Ground'
<1> USE DEF Ground
<1>1. /\ k \in 0..Requests /\ Requests \in Nat /\ MaxInformational \in Nat /\ MaxWire \in Nat
      /\ informational \in 0..MaxInformational
  BY H1Assumption DEF TypeOK
<1>2. CASE Failing \/ Discard
  <2>1. /\ pc' = "ended" /\ state' = "CLOSED"
        /\ streamOpen' = FALSE /\ (verdict' = [verdict EXCEPT ![k] = "failed"] \/ verdict' = verdict)
        /\ UNCHANGED <<pending, reader, keepAlive, informational, upgraded, k, kind, buf, wire,
                       toServer, serverClosed, wants, serving, stage, reply, answer, sent, read,
                       misread>>
        /\ pending = NoToken
    BY <1>2 DEF Failing, SendFails, EofTooEarly, Eof, ReadTimesOut, NothingButInformational, Abandon,
       NeedsBytes, Fail, Discard, TypeOK, server, past
  <2>2. TypeOK' /\ Sending' /\ Kept' /\ UploadsFramed'
    BY <2>1 DEF TypeOK, Sending, Kept, UploadsFramed
  <2>3. Types'
    BY <2>1, ZenonT(60) DEF Types
  <2>4. Framed'
    BY <2>1, FramedKept DEF Mid
  <2> QED
    BY <2>2, <2>3, <2>4
<1>3. CASE ContinueAnswered \/ ContinueTimesOut
  <2>1. /\ pc = "expecting" /\ state = "SEND_BODY" /\ kind = "expect"
        /\ \/ pc' = "sending" /\ state' = state /\ pending' = pending
           \/ /\ buf # <<>> /\ pc' = "head" /\ pending' = Head(buf) /\ state' = "WAIT_RESPONSE"
        /\ buf' = buf \/ (buf # <<>> /\ buf' = Tail(buf))
        /\ UNCHANGED <<reader, keepAlive, informational, upgraded, streamOpen, k, kind, toServer, wire,
                       serverClosed, wants, serving, stage, reply, answer, verdict, sent, read,
                       misread>>
    BY <1>3 DEF ContinueAnswered, ContinueTimesOut, Sending, TypeOK, machine, server, past
  <2>2. TypeOK' /\ Sending' /\ Kept' /\ UploadsFramed'
    BY <2>1 DEF TypeOK, Sending, Kept, UploadsFramed
  <2>3. pending' \in Tokens \cup {NoToken} /\ buf' \in Seq(Tokens)
    BY <2>1, QueueShape, QueueTaken DEF Types
  <2>4. Types'
    BY <2>1, <2>3 DEF Types
  <2>5. Framed'
    BY <2>1, FramedKept DEF Mid
  <2> QED
    BY <2>2, <2>4, <2>5
<1>4. CASE \E n \in 1..MaxWire : Fill(n)
  <2>1. PICK n \in 1..Len(wire) : buf' = SubSeq(wire, 1, n) /\ wire' = SubSeq(wire, n + 1, Len(wire))
    BY <1>4 DEF Fill
  <2>2. /\ buf = <<>>
        /\ UNCHANGED <<state, pending, reader, keepAlive, informational, upgraded, streamOpen, pc, k, kind,
                       toServer, serverClosed, wants, serving, stage, reply, answer, verdict, sent,
                       read, misread>>
    BY <1>4 DEF Fill, NeedsBytes, machine, driver, server, past
  <2>3. /\ buf' \in Seq(Tokens) /\ wire' \in Seq(Tokens)
        /\ Len(wire') <= Len(wire) /\ Len(wire') \in Nat /\ Len(wire) \in Nat
    BY <2>1, <2>2, QueueFilled, QueueShape, LenProperties
  <2>4. TypeOK' /\ Sending' /\ Kept' /\ UploadsFramed'
    BY <1>1, <2>2, <2>3 DEF TypeOK, Sending, Kept, UploadsFramed, KeepsAlive
  <2>5. Types'
    BY <2>2, <2>3 DEF Types
  <2>6. Framed'
    BY <2>2, FramedKept DEF Mid
  <2> QED
    BY <2>4, <2>5, <2>6
<1>5. CASE SkipInformational \/ ReadPiece
  <2>1. /\ buf # <<>> /\ buf' = Tail(buf)
        /\ informational' = informational \/ (informational' = informational + 1 /\ ~TooMany)
        /\ read' = read \/ read' = [read EXCEPT ![k] = @ + 1]
        /\ reader' \in {reader, "complete"}
        /\ UNCHANGED <<state, pending, keepAlive, upgraded, streamOpen, pc, k, kind, wire,
                       toServer, serverClosed, wants, serving, stage, reply, answer, verdict, sent,
                       misread>>
    BY <1>5 DEF SkipInformational, ReadPiece, driver, server, past
  <2>2. informational' \in 0..MaxInformational
    BY <1>1, <2>1 DEF TooMany
  <2>3. TypeOK' /\ Sending' /\ Kept' /\ UploadsFramed'
    BY <1>1, <2>1, <2>2 DEF TypeOK, Sending, Kept, UploadsFramed, KeepsAlive
  <2>4. buf' \in Seq(Tokens)
    BY <2>1, QueueTaken
  <2>5. read' \in [1..Requests -> Nat] /\ reader' \in Framings \cup {"complete"}
    <3>1. read \in [1..Requests -> Nat] /\ reader \in Framings \cup {"complete"}
      BY DEF Types
    <3> QED
      BY <2>1, <3>1
  <2>6. Types'
    BY <2>1, <2>4, <2>5 DEF Types
  <2>7. Framed'
    BY <2>1, FramedKept DEF Mid
  <2> QED
    BY <2>3, <2>6, <2>7
<1>6. CASE EndBody
  <2>1. /\ pc = "body" /\ reader' = "none" /\ streamOpen' = keepAlive
        /\ state' = (IF keepAlive THEN "DONE" ELSE "CLOSED")
        /\ pc' = (IF keepAlive THEN "idle" ELSE "ended")
        /\ verdict' = [verdict EXCEPT ![k] = "whole"]
        /\ UNCHANGED <<pending, keepAlive, informational, upgraded, buf, k, kind, toServer, wire,
                       serverClosed, wants, serving, stage, reply, answer, sent, read, misread>>
        /\ pending = NoToken
    BY <1>6 DEF EndBody, server, TypeOK
  <2>2. k \in 1..Requests /\ keepAlive \in BOOLEAN
    BY <1>1, <2>1 DEF Kept, Types
  <2>3. verdict'[k] = "whole" /\ verdict' \in [1..Requests -> {"none", "whole", "failed"}]
    BY <2>1, <2>2 DEF Types
  <2>4. TypeOK' /\ Sending' /\ UploadsFramed'
    BY <2>1, <2>2 DEF TypeOK, Sending, UploadsFramed
  <2>5. Kept'
    BY <2>1, <2>2, <2>3 DEF Kept, KeepsAlive
  <2>6. Types'
    BY <2>1, <2>2, <2>3 DEF Types, Framings
  <2>7. Framed'
    BY <2>1, FramedKept DEF Mid
  <2> QED
    BY <2>4, <2>5, <2>6, <2>7
<1> QED
  BY <1>2, <1>3, <1>4, <1>5, <1>6 DEF Client, Failing

LEMMA GroundServerReads ==
    ASSUME Ground, ServerReads
    PROVE  Ground'
<1> USE DEF Ground
<1>1. toServer \in Seq(Parts) /\ toServer # <<>> /\ Len(toServer) \in Nat /\ Len(toServer) > 0
  BY LenProperties, EmptySeq DEF Types, ServerReads
<1>2. /\ Head(toServer) = toServer[1] /\ Tail(toServer) \in Seq(Parts)
      /\ Len(Tail(toServer)) = Len(toServer) - 1
      /\ \A i \in 1..(Len(toServer) - 1) : Tail(toServer)[i] = toServer[i + 1]
  BY <1>1, HeadTailProperties
<1>3. /\ toServer' \in Seq(Parts) /\ Len(toServer') = Len(toServer) - 1
      /\ \A i \in 1..(Len(toServer) - 1) : toServer'[i] = toServer[i + 1]
      /\ UNCHANGED <<state, pending, reader, keepAlive, informational, upgraded, streamOpen, pc, k, kind,
                     buf, wire, serverClosed, reply, answer, verdict, sent, read>>
  BY <1>2 DEF ServerReads, machine, driver
<1>4. toServer[1] \in Parts
  BY <1>1, ElementOfSeq
<1>5. \/ /\ wants = "head" /\ serving' = toServer[1].of /\ stage' = "owes"
         /\ wants' = (IF HasBody(toServer[1].kind) THEN toServer[1].kind ELSE "head")
         /\ misread' = misread
      \/ /\ wants # "head" /\ serving' = serving /\ stage' = stage
         /\ wants' = (IF toServer[1].part = "short" THEN "short" ELSE "head")
         /\ misread' = IF misread = "none" THEN Misreading(toServer[1].part) ELSE misread
  BY <1>2 DEF ServerReads
<1>6. TypeOK' /\ Sending' /\ Kept'
  BY <1>3 DEF TypeOK, Sending, Kept, KeepsAlive
<1>7. Types'
  <2>1. /\ wants' \in Wanted /\ stage' \in {"idle", "owes", "sending"}
        /\ misread' \in Misreadings
    BY <1>5 DEF Types, HasBody, Wanted, Misreadings, Misreading
  <2>2. serving' \in 0..Requests
    <3>1. toServer[1].of \in 0..Requests
      BY <1>4, H1Assumption DEF Parts
    <3> QED
      BY <1>5, <3>1 DEF Types
  <2> QED
    BY <1>3, <2>1, <2>2 DEF Types
<1>8. UploadsFramed'
  <2>1. misread = "none" /\ wants = "post" => toServer[1].part # "head"
    BY <1>1 DEF Framed
  <2> QED
    BY <1>5, <2>1 DEF UploadsFramed, Misreading
<1>9. Framed'
  <2>1. SUFFICES ASSUME misread' = "none" PROVE Framed'
    BY DEF Framed
  <2>2. misread = "none" /\ (wants # "head" => toServer[1].part # "head")
    BY <1>4, <1>5, <2>1 DEF Types, Parts, Misreading, Misreadings, Wanted
  <2>3. wants = "head" => toServer[1].part = "head"
    BY <1>1, <2>2 DEF Framed
  <2>4. ASSUME NEW i \in 1..(Len(toServer') - 1) PROVE Follows(toServer'[i], toServer'[i + 1])
    <3>1. /\ i \in 1..(Len(toServer) - 1) /\ i + 1 \in 1..(Len(toServer) - 1)
      BY <1>1, <1>3
    <3>2. toServer'[i] = toServer[i + 1] /\ toServer'[i + 1] = toServer[(i + 1) + 1]
      BY <1>3, <3>1
    <3> QED
      BY <2>2, <3>1, <3>2 DEF Framed
  <2>5. CASE Len(toServer) = 1
    <3>1. Len(toServer') = 0 /\ ~(Len(toServer') > 0)
      BY <1>3, <2>5
    <3>2. toServer[Len(toServer)] = toServer[1]
      BY <2>5
    <3>3. wants' = "post" => pc \in {"sending", "ended"}
      BY <1>1, <1>5, <2>2, <2>3, <3>2 DEF Framed
    <3>4. Mid => wants' = IF HasBody(kind) THEN kind ELSE "head"
      BY <1>1, <1>5, <2>2, <2>3, <3>2 DEF Framed
    <3>5. Mid' = Mid
      BY <1>3 DEF Mid
    <3> QED
      BY <1>3, <2>4, <3>1, <3>3, <3>4, <3>5 DEF Framed
  <2>6. CASE Len(toServer) # 1
    <3>1. 1 \in 1..(Len(toServer) - 1) /\ Len(toServer) - 1 \in 1..(Len(toServer) - 1)
      <4> DEFINE n == Len(toServer)
      <4>1. n \in Nat /\ n > 0 /\ n # 1
        BY <1>1, <2>6
      <4> HIDE DEF n
      <4>2. 1 \in 1..(n - 1) /\ n - 1 \in 1..(n - 1)
        BY <4>1
      <4> QED
        BY <4>2 DEF n
    <3>2. toServer'[1] = toServer[2] /\ Follows(toServer[1], toServer[2])
      <4>1. 1 + 1 = 2
        OBVIOUS
      <4> QED
        BY <1>3, <2>2, <3>1, <4>1 DEF Framed
    <3>3. toServer'[Len(toServer')] = toServer[Len(toServer)] /\ Len(toServer') # 0
      <4>1. (Len(toServer) - 1) + 1 = Len(toServer)
        BY <1>1
      <4> QED
        BY <1>1, <1>3, <2>6, <3>1, <4>1
    <3>4. /\ wants' = "head" => toServer'[1].part = "head"
          /\ wants' = "post" => toServer'[1].part # "head"
      BY <1>5, <2>2, <2>3, <3>2 DEF Follows, HasBody
    <3>5. Mid' = Mid
      BY <1>3 DEF Mid
    <3> QED
      BY <1>1, <1>3, <2>2, <2>4, <3>3, <3>4, <3>5 DEF Framed
  <2> QED
    BY <2>5, <2>6
<1> QED
  BY <1>6, <1>7, <1>8, <1>9

\* The rest of what the server does reads nothing.
LEMMA GroundServer ==
    ASSUME Ground, Server \/ UNCHANGED vars, ~ServerReads
    PROVE  Ground'
<1> USE DEF Ground
<1>1. UNCHANGED <<state, pending, reader, keepAlive, informational, upgraded, streamOpen, pc, k, kind,
                  buf, toServer, wants, serving, answer, verdict, read, misread>>
  BY DEF Server, ServerInterim, ServerAnswers, ServerSwitches, ServerSends, ServerStrays,
     ServerCloses, vars, machine, driver, server, past
<1>2. serverClosed' \in BOOLEAN /\ stage' \in {"idle", "owes", "sending"}
  BY DEF Server, ServerInterim, ServerAnswers, ServerSwitches, ServerSends, ServerStrays,
     ServerCloses, vars, server, Types
<1>3. serving \in 0..Requests /\ Requests \in Nat
  BY H1Assumption DEF Types
<1>4. wire' = wire \/ \E t \in Tokens : Post(t)
  <2>1. /\ Token("info", serving, "none", TRUE) \in Tokens
        /\ Token("continue", serving, "none", TRUE) \in Tokens
        /\ Token("switch", serving, "none", TRUE) \in Tokens
        /\ Token("data", serving, "none", TRUE) \in Tokens
        /\ Token("last", serving, "none", TRUE) \in Tokens
        /\ Token("head", Nobody, "none", TRUE) \in Tokens
        /\ \A framing \in Framings, keep \in BOOLEAN : Token("head", serving, framing, keep) \in Tokens
    BY <1>3 DEF Token, Tokens, Framings, Nobody
  <2> QED
    BY <2>1 DEF Server, ServerInterim, ServerAnswers, ServerSwitches, ServerSends, ServerStrays,
       ServerCloses, vars, server
<1>5. wire' \in Seq(Tokens) /\ Len(wire') <= MaxWire
  BY <1>1, <1>4, QueuePosted DEF Types, TypeOK
<1>6. reply' \in [framing : Framings, keep : BOOLEAN]
  <2>1. CASE reply' = reply
    BY <2>1 DEF Types
  <2>2. CASE \E framing \in Framings, keep \in BOOLEAN : reply' = [framing |-> framing, keep |-> keep]
    BY <2>2
  <2> QED
    BY <2>1, <2>2 DEF Server, ServerInterim, ServerAnswers, ServerSwitches, ServerSends,
       ServerStrays, ServerCloses, vars, server
<1>7. sent' \in [1..Requests -> Counts]
  <2>1. sent' = sent => sent' \in [1..Requests -> Counts]
    BY DEF Types
  <2>2. ASSUME NEW e \in BOOLEAN, sent' = [sent EXCEPT ![serving].ended = e]
        PROVE  sent' \in [1..Requests -> Counts]
    BY <2>2 DEF Types, Counts
  <2>3. ASSUME NEW e \in BOOLEAN,
               sent' = [sent EXCEPT ![serving] = [data |-> @.data + 1, ended |-> e]]
        PROVE  sent' \in [1..Requests -> Counts]
    <3>1. CASE serving \in 1..Requests
      <4>1. sent[serving].data \in Nat
        BY <3>1 DEF Types, Counts
      <4>2. [data |-> sent[serving].data + 1, ended |-> e] \in Counts
        BY <4>1 DEF Counts
      <4> QED
        BY <2>3, <4>2 DEF Types
    <3>2. CASE serving \notin 1..Requests
      <4>1. sent' = sent
        BY <2>3, <3>2 DEF Types
      <4> QED
        BY <2>1, <4>1
    <3> QED
      BY <3>1, <3>2
  <2>4. CASE \E framing \in Framings, keep \in BOOLEAN : ServerAnswers(framing, keep)
    <3>1. PICK e \in BOOLEAN : sent' = [sent EXCEPT ![serving].ended = e]
      BY <2>4 DEF ServerAnswers
    <3> QED
      BY <2>2, <3>1
  <2>5. CASE \E what \in {"data", "last"} : ServerSends(what)
    <3>1. PICK e \in BOOLEAN :
            sent' = [sent EXCEPT ![serving] = [data |-> @.data + 1, ended |-> e]]
      <4>1. PICK what \in {"data", "last"} : ServerSends(what)
        BY <2>5
      <4> QED
        BY <4>1 DEF ServerSends
    <3> QED
      BY <2>3, <3>1
  <2>6. CASE ~(\E framing \in Framings, keep \in BOOLEAN : ServerAnswers(framing, keep))
             /\ ~(\E what \in {"data", "last"} : ServerSends(what))
    BY <2>1, <2>6 DEF Server, ServerInterim, ServerSwitches, ServerStrays, ServerCloses, vars, past
  <2> QED
    BY <2>4, <2>5, <2>6
<1>8. TypeOK' /\ Sending' /\ Kept' /\ UploadsFramed'
  BY <1>1, <1>5 DEF TypeOK, Sending, Kept, KeepsAlive, UploadsFramed
<1>9. Types'
  BY <1>1, <1>2, <1>5, <1>6, <1>7 DEF Types
<1>10. Framed'
  BY <1>1, FramedKept DEF Mid
<1> QED
  BY <1>8, <1>9, <1>10

LEMMA GroundNext ==
    ASSUME Ground, [Next]_vars
    PROVE  Ground'
<1>1. CASE \E body \in Bodies : SendBody(body)
  BY <1>1, GroundSendBody
<1>2. CASE ParkedHeadArrives
  <2>1. /\ pc = "head" /\ pending \in Tokens /\ pending' = NoToken /\ buf' \in Seq(Tokens)
        /\ TakeHead(pending)
    BY <1>2 DEF ParkedHeadArrives, Ground, Types
  <2> QED
    BY <2>1, GroundTakeHead
<1>3. CASE HeadArrives
  <2>1. /\ pc = "head" /\ pending' = NoToken /\ buf # <<>> /\ buf' = Tail(buf) /\ wire' = wire
        /\ TakeHead(Head(buf))
    BY <1>3 DEF HeadArrives, TakeHead
  <2>2. buf' \in Seq(Tokens) /\ Head(buf) \in Tokens
    BY <2>1, QueueShape, QueueTaken DEF Ground
  <2> QED
    BY <2>1, <2>2, GroundTakeHead
<1>4. CASE /\ Client \/ Discard
           /\ ~(\E body \in Bodies : SendBody(body)) /\ ~ParkedHeadArrives /\ ~HeadArrives
  BY <1>4, GroundClient
<1>5. CASE \E what \in Kinds : Send(what)
  BY <1>5, GroundSend
<1>6. CASE ServerReads
  BY <1>6, GroundServerReads
<1>7. CASE (Server \/ UNCHANGED vars) /\ ~ServerReads
  BY <1>7, GroundServer
<1> QED
  BY <1>1, <1>2, <1>3, <1>4, <1>5, <1>6, <1>7 DEF Next, Program

LEMMA GroundHolds == Spec => []Ground
<1>1. Init => Ground
  BY GroundInit
<1>2. Ground /\ [Next]_vars => Ground'
  BY GroundNext
<1> QED
  BY <1>1, <1>2, PTL DEF Spec

\* The states of the machine go with the driver's position (H1Machine,
\* H1Connection).
THEOREM TypeCorrect == Spec => []TypeOK
<1>1. Ground => TypeOK
  BY DEF Ground
<1> QED
  BY <1>1, GroundHolds, PTL

\* An upload whose source raised or whose write failed half way is followed by
\* nothing, whether or not the bodies sent keep the length they declare: that is
\* never why the server takes a head for a body (send_request, _pump).
THEOREM UploadsKeptFramed == Spec => []UploadsFramed
<1>1. Ground => UploadsFramed
  BY DEF Ground
<1> QED
  BY <1>1, GroundHolds, PTL

\* A request follows only an exchange that ended the way it said it would, the
\* server having agreed to go on (is_reusable, _end_body).
THEOREM NothingAfterClose == Spec => NoSendAfterClose
<1> DEFINE Step == k' # k /\ k > 0 =>
                     /\ verdict[k] = "whole"
                     /\ answer[k].keep /\ answer[k].framing # "until_close"
<1>1. Ground /\ [Next]_vars => [Step]_vars
  <2> SUFFICES ASSUME Ground, [Next]_vars PROVE [Step]_vars
    OBVIOUS
  <2>1. CASE \E what \in Kinds : Send(what)
    <3>1. pc = "idle"
      BY <2>1 DEF Send
    <3> QED
      BY <3>1 DEF Ground, Kept
  <2>2. CASE Client \/ Discard \/ Server
    <3>1. k' = k
      BY <2>2 DEF Client, Discard, Server, SendBody, SendFails, Fail, ContinueAnswered,
         ContinueTimesOut, Fill, EofTooEarly, ReadTimesOut, SkipInformational,
         NothingButInformational, ParkedHeadArrives, HeadArrives, TakeHead, ReadPiece, EndBody,
         Abandon, ServerReads, ServerInterim, ServerAnswers, ServerSwitches, ServerSends,
         ServerStrays, ServerCloses, driver
    <3> QED
      BY <3>1
  <2> QED
    BY <2>1, <2>2 DEF Next, Program
<1> QED
  BY <1>1, GroundHolds, PTL DEF Spec, NoSendAfterClose

===============================================================================
