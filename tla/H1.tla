--------------------------------- MODULE H1 ---------------------------------
(***************************************************************************)
(* One HTTP/1.1 connection carrying several exchanges in turn: H1Machine   *)
(* (httpx/_proto/h1/machine.mojo) driven by H1Connection                   *)
(* (httpx/_proto/h1/connection.mojo), and a server at the other end.       *)
(*                                                                         *)
(* A message is a few tokens, each parsed whole: a head, interim heads     *)
(* before it, pieces of body after it.  Every token the server sends names *)
(* the request it answers; the client cannot see that name, and the        *)
(* properties compare it with the request the token was taken for.  Bytes  *)
(* are read in batches of any size, so a read may carry the end of one     *)
(* message and the beginning of what follows it.                           *)
(***************************************************************************)
EXTENDS Integers, Sequences, FiniteSets

CONSTANTS
    Requests,         \* bound: the requests sent on the connection
    Kinds,            \* which of AllKinds the program sends
    MaxInformational, \* MAX_INFORMATIONAL
    MaxData,          \* bound: pieces of one body before the last
    MaxWire,          \* bound: tokens in flight to the client
    Interim,          \* the kinds of request it answers with 102 and 103 first
    Misdeclared,      \* how a streamed body may differ from the length declared
    Stray             \* after which responses, by what they said of keeping the
                      \* connection, it may send a head nobody asked for

AllKinds == {"get", "head", "post", "expect", "upgrade"}
HasBody(kind) == kind \in {"post", "expect"}

ASSUME H1Assumption ==
    /\ Requests \in Nat \ {0} /\ MaxInformational \in Nat
    /\ MaxData \in Nat /\ MaxWire \in Nat \ {0}
    /\ Kinds \subseteq AllKinds /\ Misdeclared \subseteq {"short", "over"}
    /\ Interim \subseteq AllKinds /\ Stray \subseteq BOOLEAN

VARIABLES
    \* H1Machine
    state, pending, reader, keepAlive, informational, upgraded, buf,
    \* H1Connection and the call that drives it
    streamOpen, pc, k, kind,
    \* the server, and the two directions of the connection
    toServer, wire, serverClosed, wants, serving, stage, reply,
    \* history: what each request was answered with, and how that ended
    answer, verdict, sent, read, misread

machine == <<state, pending, reader, keepAlive, informational, upgraded>>
driver  == <<streamOpen, pc, k, kind>>
server  == <<serverClosed, wants, serving, stage, reply>>
past    == <<answer, verdict, sent, read, misread>>
vars    == <<machine, buf, driver, toServer, wire, server, past>>

Nobody == 0

\* A token from the server.  An interim head carries no body either way.
Token(what, by, framing, keep) ==
    [what |-> what, by |-> by, framing |-> framing, keep |-> keep]

NoToken == Token("none", Nobody, "none", FALSE)

Framings == {"none", "sized", "until_close"}

Init ==
    /\ state = "IDLE" /\ pending = NoToken /\ reader = "none"
    /\ keepAlive = FALSE /\ informational = 0 /\ upgraded = FALSE
    /\ buf = <<>>
    /\ streamOpen = TRUE /\ pc = "idle" /\ k = 0 /\ kind = "get"
    /\ toServer = <<>> /\ wire = <<>>
    /\ serverClosed = FALSE /\ wants = "head" /\ serving = Nobody
    /\ stage = "idle" /\ reply = [framing |-> "none", keep |-> TRUE]
    /\ answer = [r \in 1..Requests |-> NoToken]
    /\ verdict = [r \in 1..Requests |-> "none"]
    /\ sent = [r \in 1..Requests |-> [data |-> 0, ended |-> FALSE]]
    /\ read = [r \in 1..Requests |-> 0]
    /\ misread = "none"

-----------------------------------------------------------------------------
(* The connection between exchanges.                                       *)

\* H1Connection.is_reusable.  What waits in buf is not looked at.
IsReusable ==
    /\ state \in {"DONE", "IDLE"} /\ ~upgraded /\ streamOpen
    /\ wire = <<>> /\ ~serverClosed

\* start_send clears what the last exchange left, all but buf; then the head
\* goes out.
Send(what) ==
    /\ pc = "idle" /\ k < Requests /\ IsReusable
    /\ k' = k + 1 /\ kind' = what
    /\ state' = "SEND_BODY"
    /\ pending' = NoToken /\ reader' = "none" /\ informational' = 0
    /\ toServer' = Append(toServer, [part |-> "head", kind |-> what, of |-> k + 1])
    /\ pc' = IF what = "expect" THEN "expecting" ELSE "sending"
    /\ UNCHANGED <<keepAlive, upgraded, buf, streamOpen, wire, server, past>>

\* The machine and the stream are closed, and the request has its error.
Fail ==
    /\ state' = "CLOSED" /\ streamOpen' = FALSE /\ pc' = "ended"
    /\ verdict' = [verdict EXCEPT ![k] = "failed"]
    /\ UNCHANGED <<pending, reader, keepAlive, informational, upgraded, k, kind,
                   toServer, server, answer, sent, read, misread>>

\* The pool asks before each reuse, and closes what is not fit.
Discard ==
    /\ pc = "idle" /\ ~IsReusable
    /\ state' = "CLOSED" /\ streamOpen' = FALSE /\ pc' = "ended"
    /\ UNCHANGED <<pending, reader, keepAlive, informational, upgraded, buf, k,
                   kind, toServer, wire, server, past>>

-----------------------------------------------------------------------------
(* send_request: the body, at once or when the server has said so.         *)

\* What a body may come to.  Under a Content-Length the caller gave, a stream
\* is written until it runs out (_pump) and nobody counts: it may end short of
\* the length in the head, or go on over it.
Bodies == {"body"} \cup Misdeclared

SendBody(body) ==
    /\ pc = "sending"
    /\ toServer' = IF HasBody(kind)
                   THEN Append(toServer, [part |-> body, kind |-> kind, of |-> k])
                   ELSE toServer
    /\ state' = "WAIT_RESPONSE" /\ pc' = "head"
    /\ UNCHANGED <<pending, reader, keepAlive, informational, upgraded, buf,
                   streamOpen, k, kind, wire, server, past>>

\* Faulty: a body whose source raised leaves the connection for the next.
SendFailsKept ==
    /\ pc = "sending" /\ (serverClosed \/ HasBody(kind))
    /\ state' = "DONE" /\ pc' = "idle"
    /\ verdict' = [verdict EXCEPT ![k] = "failed"]
    /\ UNCHANGED <<pending, reader, keepAlive, informational, upgraded, streamOpen,
                   k, kind, buf, toServer, wire, server, answer, sent, read, misread>>

\* The write fails, or a streamed body raises half way (_pump).
SendFails ==
    /\ pc = "sending" /\ (serverClosed \/ HasBody(kind))
    /\ Fail
    /\ UNCHANGED <<buf, wire>>

\* poll_continue, with a head in the buffer.  Only a 100 lets the body go.
ContinueAnswered ==
    /\ pc = "expecting" /\ buf # <<>>
    /\ buf' = Tail(buf)
    /\ IF Head(buf).what = "continue"
       THEN pc' = "sending" /\ UNCHANGED <<pending, state>>
       ELSE pc' = "head" /\ pending' = Head(buf) /\ state' = "WAIT_RESPONSE"
    /\ UNCHANGED <<reader, keepAlive, informational, upgraded, streamOpen, k,
                   kind, toServer, wire, server, past>>

\* A second has gone by: the body goes without leave.
ContinueTimesOut ==
    /\ pc = "expecting" /\ buf = <<>>
    /\ pc' = "sending"
    /\ UNCHANGED <<machine, buf, streamOpen, k, kind, toServer, wire, server, past>>

-----------------------------------------------------------------------------
(* Reading.                                                                *)

NeedsBytes ==
    \/ pc = "expecting" /\ buf = <<>>
    \/ pc = "head" /\ buf = <<>> /\ pending = NoToken
    \/ pc = "body" /\ buf = <<>> /\ reader \in {"sized", "until_close"}

Fill(n) ==
    /\ NeedsBytes /\ n \in 1..Len(wire)
    /\ buf' = SubSeq(wire, 1, n)
    /\ wire' = SubSeq(wire, n + 1, Len(wire))
    /\ UNCHANGED <<machine, driver, toServer, server, past>>

Eof == NeedsBytes /\ wire = <<>> /\ serverClosed

\* A close before the head, or in a body that says where it ends.
EofTooEarly ==
    /\ Eof /\ (pc = "body" => reader = "sized")
    /\ Fail
    /\ UNCHANGED <<buf, wire>>

ReadTimesOut ==
    /\ NeedsBytes /\ pc \in {"head", "body"}
    /\ Fail
    /\ UNCHANGED <<buf, wire>>

IsInterim(t) == t.what \in {"info", "continue"}

\* Faulty: the run of interim heads is not counted.
TooManyNever == FALSE

TooMany == informational + 1 > MaxInformational

\* Faulty: the counter stays where it was.
SkipInformationalUncounted ==
    /\ pc = "head" /\ pending = NoToken /\ buf # <<>>
    /\ IsInterim(Head(buf)) /\ ~TooMany
    /\ buf' = Tail(buf)
    /\ UNCHANGED <<machine, driver, toServer, wire, server, past>>

SkipInformational ==
    /\ pc = "head" /\ pending = NoToken /\ buf # <<>>
    /\ IsInterim(Head(buf)) /\ ~TooMany
    /\ buf' = Tail(buf) /\ informational' = informational + 1
    /\ UNCHANGED <<state, pending, reader, keepAlive, upgraded, driver, toServer,
                   wire, server, past>>

NothingButInformational ==
    /\ pc = "head" /\ pending = NoToken /\ buf # <<>>
    /\ IsInterim(Head(buf)) /\ TooMany
    /\ Fail
    /\ UNCHANGED <<buf, wire>>

\* Faulty: the connection is kept whatever the Connection header says.
KeepsAliveRegardless(t) == t.framing # "until_close"

KeepsAlive(t) == t.framing # "until_close" /\ t.keep

\* head_received.  After a 101 there is no body, and the stream is closed.
TakeHead(t) ==
    /\ answer' = [answer EXCEPT ![k] = t]
    /\ IF t.what = "switch"
       THEN /\ upgraded' = TRUE /\ state' = "CLOSED" /\ reader' = "none"
            /\ keepAlive' = FALSE /\ streamOpen' = FALSE /\ pc' = "ended"
       ELSE /\ state' = "RECV_BODY" /\ reader' = t.framing
            /\ keepAlive' = KeepsAlive(t) /\ pc' = "body"
            /\ UNCHANGED <<upgraded, streamOpen>>
    /\ UNCHANGED <<informational, k, kind, toServer, wire, server, verdict, sent,
                   read, misread>>

ParkedHeadArrives ==
    /\ pc = "head" /\ pending # NoToken
    /\ pending' = NoToken
    /\ TakeHead(pending)
    /\ UNCHANGED buf

HeadArrives ==
    /\ pc = "head" /\ pending = NoToken /\ buf # <<>> /\ ~IsInterim(Head(buf))
    /\ buf' = Tail(buf)
    /\ TakeHead(Head(buf))
    /\ UNCHANGED pending

\* read_chunk: a piece of the body, the last one ending a body that has an end.
ReadPiece ==
    /\ pc = "body" /\ reader \in {"sized", "until_close"} /\ buf # <<>>
    /\ buf' = Tail(buf)
    /\ read' = [read EXCEPT ![k] = @ + 1]
    /\ reader' = IF Head(buf).what = "last" THEN "complete" ELSE reader
    /\ UNCHANGED <<state, pending, keepAlive, informational, upgraded, driver,
                   toServer, wire, server, answer, verdict, sent, misread>>

\* Faulty: a close is taken for the end of any body.
EndBodyAtAnyClose ==
    /\ pc = "body"
    /\ reader \in {"none", "complete"} \/ Eof
    /\ reader' = "none"
    /\ state' = IF keepAlive THEN "DONE" ELSE "CLOSED"
    /\ streamOpen' = keepAlive
    /\ pc' = IF keepAlive THEN "idle" ELSE "ended"
    /\ verdict' = [verdict EXCEPT ![k] = "whole"]
    /\ UNCHANGED <<pending, keepAlive, informational, upgraded, buf, k, kind,
                   toServer, wire, server, answer, sent, read, misread>>

\* _end_body: the connection is kept or closed as the head said.
EndBody ==
    /\ pc = "body"
    /\ reader \in {"none", "complete"} \/ (Eof /\ reader = "until_close")
    /\ reader' = "none"
    /\ state' = IF keepAlive THEN "DONE" ELSE "CLOSED"
    /\ streamOpen' = keepAlive
    /\ pc' = IF keepAlive THEN "idle" ELSE "ended"
    /\ verdict' = [verdict EXCEPT ![k] = "whole"]
    /\ UNCHANGED <<pending, keepAlive, informational, upgraded, buf, k, kind,
                   toServer, wire, server, answer, sent, read, misread>>

\* Faulty: what is left of the body is left on the wire.
AbandonKept ==
    /\ pc = "body"
    /\ state' = "DONE" /\ pc' = "idle" /\ reader' = "none"
    /\ verdict' = [verdict EXCEPT ![k] = "failed"]
    /\ UNCHANGED <<pending, keepAlive, informational, upgraded, streamOpen, k,
                   kind, buf, toServer, wire, server, answer, sent, read, misread>>

\* The program gives up a streamed response.
Abandon ==
    /\ pc = "body"
    /\ Fail
    /\ UNCHANGED <<buf, wire>>

-----------------------------------------------------------------------------
(* The server: one request at a time, framed by what its head declares.    *)

Post(t) == Len(wire) < MaxWire /\ wire' = Append(wire, t)

\* What the server takes for something else when it reads this part where it
\* wants a body: the head after a body that is not all there, or the end of one
\* that goes on over its length, which it reads as a head.  (What it answers
\* that with is a head nobody asked for, as in ServerStrays.)
Misreading(part) ==
    CASE part = "head" -> wants [] part = "over" -> part [] OTHER -> "none"

\* After a short body it still wants the rest.
ServerReads ==
    /\ toServer # <<>> /\ ~serverClosed
    /\ wants = "head" => stage = "idle"
    /\ LET t == Head(toServer)
       IN  IF wants = "head"
           THEN /\ serving' = t.of /\ stage' = "owes"
                /\ wants' = IF HasBody(t.kind) THEN t.kind ELSE "head"
                /\ UNCHANGED misread
           ELSE /\ wants' = IF t.part = "short" THEN t.part ELSE "head"
                /\ misread' = IF misread = "none" THEN Misreading(t.part) ELSE misread
                /\ UNCHANGED <<serving, stage>>
    /\ toServer' = Tail(toServer)
    /\ UNCHANGED <<machine, buf, driver, wire, serverClosed, reply, answer,
                   verdict, sent, read>>

ServerInterim ==
    /\ stage = "owes" /\ ~serverClosed
    /\ \/ kind \in Interim /\ Post(Token("info", serving, "none", TRUE))
       \/ kind = "expect" /\ serving = k /\ wants = "expect"
            /\ Post(Token("continue", serving, "none", TRUE))
    /\ UNCHANGED <<machine, buf, driver, toServer, server, past>>

\* A final response needs no body of the request to have been read.
ServerAnswers(framing, keep) ==
    /\ stage = "owes" /\ ~serverClosed
    /\ kind = "head" => framing = "none"
    /\ Post(Token("head", serving, framing, keep))
    /\ reply' = [framing |-> framing, keep |-> keep]
    /\ stage' = IF framing = "none" THEN "idle" ELSE "sending"
    /\ sent' = [sent EXCEPT ![serving].ended = (framing = "none")]
    /\ UNCHANGED <<machine, buf, driver, toServer, serverClosed, wants, serving,
                   answer, verdict, read, misread>>

ServerSwitches ==
    /\ stage = "owes" /\ ~serverClosed /\ kind = "upgrade"
    /\ Post(Token("switch", serving, "none", TRUE))
    /\ stage' = "idle"
    /\ UNCHANGED <<machine, buf, driver, toServer, serverClosed, wants, serving,
                   reply, past>>

ServerSends(what) ==
    /\ stage = "sending" /\ ~serverClosed
    /\ what = "last" => reply.framing = "sized"
    /\ what = "data" => sent[serving].data < MaxData
    /\ Post(Token(what, serving, "none", TRUE))
    /\ sent' = [sent EXCEPT ![serving] =
                  [data |-> @.data + 1, ended |-> (what = "last")]]
    /\ stage' = IF what = "last" THEN "idle" ELSE stage
    /\ UNCHANGED <<machine, buf, driver, toServer, serverClosed, wants, serving,
                   reply, answer, verdict, read, misread>>

ServerStrays ==
    /\ stage = "idle" /\ serving # Nobody /\ reply.keep \in Stray /\ ~serverClosed
    /\ Post(Token("head", Nobody, "none", TRUE))
    /\ UNCHANGED <<machine, buf, driver, toServer, server, past>>

ServerCloses ==
    /\ ~serverClosed
    /\ serverClosed' = TRUE
    /\ UNCHANGED <<machine, buf, driver, toServer, wire, wants, serving, stage,
                   reply, past>>

-----------------------------------------------------------------------------

Client ==
    \/ \E body \in Bodies : SendBody(body)
    \/ SendFails \/ ContinueAnswered \/ ContinueTimesOut
    \/ \E n \in 1..MaxWire : Fill(n)
    \/ EofTooEarly \/ ReadTimesOut \/ SkipInformational
    \/ NothingButInformational \/ ParkedHeadArrives \/ HeadArrives
    \/ ReadPiece \/ EndBody \/ Abandon

Server ==
    \/ ServerReads \/ ServerInterim
    \/ \E framing \in Framings, keep \in BOOLEAN : ServerAnswers(framing, keep)
    \/ ServerSwitches
    \/ \E what \in {"data", "last"} : ServerSends(what)
    \/ ServerStrays \/ ServerCloses

Program == Discard \/ \E what \in Kinds : Send(what)

Next == Client \/ Program \/ Server

\* The client's call runs on, each of its reads ending by its deadline.
Spec == Init /\ [][Next]_vars /\ WF_vars(Client)

-----------------------------------------------------------------------------
(* What the connection promises.                                           *)

\* The states of the machine, and how they go with the driver's position.
TypeOK ==
    /\ state \in {"IDLE", "SEND_BODY", "WAIT_RESPONSE", "RECV_BODY", "DONE", "CLOSED"}
    /\ pc = "idle" <=> state \in {"IDLE", "DONE"}
    /\ pc \in {"expecting", "sending"} <=> state = "SEND_BODY"
    /\ pc = "head" <=> state = "WAIT_RESPONSE"
    /\ pc = "body" <=> state = "RECV_BODY"
    /\ pc = "ended" <=> state = "CLOSED"
    /\ streamOpen <=> state # "CLOSED"
    /\ informational \in 0..MaxInformational
    /\ Len(wire) <= MaxWire /\ k \in 0..Requests
    /\ pending # NoToken => state = "WAIT_RESPONSE"

\* "A response matched to the wrong request" (machine.mojo): the head a request
\* was answered with is one the server sent in answer to that request.
AnswerIsForRequest ==
    \A r \in 1..Requests : answer[r] # NoToken => answer[r].by = r

\* A response handed over as whole is all of what the server sent for it: a
\* close, a timeout or a batch of bytes that ends early never passes for the end
\* of a body that says where it ends.
WholeIsWhole ==
    \A r \in 1..Requests :
        verdict[r] = "whole" /\ answer[r].framing # "until_close" =>
            sent[r].ended /\ read[r] = sent[r].data

\* Nothing is sent after the server said it would close, after a body that only
\* a close could end, or after a body that was given up.
NoSendAfterClose ==
    [][k' # k /\ k > 0 =>
         /\ verdict[k] = "whole"
         /\ answer[k].keep /\ answer[k].framing # "until_close"]_vars

\* A connection is reusable only after an exchange that "ended the way it said
\* it would" (is_reusable): the server never reads the head of a request where
\* it awaits the body of the one before, nor the end of a body as a head.
RequestsFramed == misread = "none"

\* An upload whose source raised or whose write failed half way is followed by
\* nothing, also where other bodies are held back or do not keep their length.
\* (misread says why the server first lost its place: "post" for such an upload,
\* "expect" for a body held back, "short" and "over" for a length not kept.)
UploadsFramed == misread # "post"

\* Every request is answered or fails, whatever interim heads keep coming.
ExchangesEnd == pc \notin {"idle", "ended"} ~> pc \in {"idle", "ended"}

\* "The first head that is not informational" (poll_head): no 1xx head is given
\* to the program as the response.
AnswerIsFinal ==
    \A r \in 1..Requests : ~IsInterim(answer[r])

=============================================================================
