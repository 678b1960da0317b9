--------------------------------- MODULE H2 ---------------------------------
(***************************************************************************)
(* One HTTP/2 connection carrying several exchanges in turn: H2Connection  *)
(* (httpx/_proto/h2/connection.mojo) with its streams and windows, driven  *)
(* by H2Driver (httpx/_proto/h2/driver.mojo), and a server.                *)
(*                                                                         *)
(* Frames are read whole and one at a time; a header block is one frame    *)
(* here.  Stream i is the i-th the client opens (2i - 1 on the wire), and  *)
(* so also the i-th request.  The pool closes a connection whose exchange  *)
(* raised, so after a failure nothing on it matters any more: neither its  *)
(* windows nor the RST_STREAM or GOAWAY sent on the way out.               *)
(*                                                                         *)
(* The server keeps its own ledger of both windows, as flow control has    *)
(* it: what it granted and has not received, and what it was granted and   *)
(* has not sent.  The properties compare the two ends.                     *)
(***************************************************************************)
EXTENDS Integers, Sequences, FiniteSets, SequencesExt

CONSTANTS
    Requests,         \* bound: the streams opened, standing for MAX_STREAM_ID
    Posts,            \* the requests that have a body to send
    BodySize,         \* and how many octets it has
    MaxFrame,         \* the peer's max_frame_size
    OurStreams,       \* DEFAULT_MAX_CONCURRENT_STREAMS
    ConnWindow,       \* the connection window the server starts with
    StreamWindow,     \* the peer's initial_window_size before it says otherwise
    Settings,         \* the [window, streams] its SETTINGS may announce
    RecvCapacity,     \* the initial_window_size we advertise
    MaxInformational, \* MAX_INFORMATIONAL
    MaxBlocks,        \* MAX_HEADER_BLOCKS
    MaxResets,        \* DEFAULT_MAX_CONSECUTIVE_RESETS
    MaxData,          \* bound: DATA frames of one response
    MaxWire,          \* bound: frames in flight to the client
    MaxPipe,          \* bound: frames in flight to the server before a write blocks
    MaxChatter,       \* bound: what the server does besides answering and granting
    Rude              \* whether the server may break the rules of framing

ASSUME H2Assumption ==
    /\ Requests \in Nat \ {0} /\ Posts \subseteq 1..Requests /\ BodySize \in Nat /\ MaxFrame \in Nat \ {0}
    /\ OurStreams \in Nat \ {0} /\ ConnWindow \in Nat /\ StreamWindow \in Nat
    /\ Settings \subseteq [window : Nat, streams : 0..OurStreams]
    /\ RecvCapacity \in Nat \ {0} /\ Rude \in BOOLEAN
    /\ MaxInformational \in Nat /\ MaxBlocks \in Nat /\ MaxResets \in Nat

VARIABLES
    \* H2Connection
    sendWindow,   \* send_window.available
    recvWindow,   \* recv_window: [allowed, pending]
    streams,      \* the live streams: [state, send, allowed, pending, blocks]
    peer,         \* peer_settings: [window, streams]
    goaway,       \* the last stream a GOAWAY named, or Nothing
    resets,       \* resets._consecutive
    \* H2Driver
    streamOpen,   \* whether the socket is open
    pc,           \* where the exchange has got to
    highest,      \* ids.highest(): the current stream, if there is one
    left,         \* octets of the body still to be sent
    ended,        \* _ended
    interim,      \* interim heads seen by start_response
    \* the two directions of the connection, and the server
    toServer, wire, serverClosed,
    srvRecv, srvSend, \* its ledger of the connection windows
    srvWindow,        \* the initial window of its streams, once acknowledged
    unacked,          \* the windows of SETTINGS not acknowledged yet
    srvStreams,       \* what it knows of each stream: [stage, recv, send, whole]
    srvLast,          \* the last stream its GOAWAY named, or Nothing
    chatter,
    \* history
    verdict,  \* how the last exchange ended
    answer,   \* the stream whose head the current exchange was given
    read,     \* octets of body handed over in it
    sent,     \* the DATA frames of its response, and the octets in them
    wasted,   \* whether any came on this connection that were not
    overrun   \* whether the server found the client over a window

conn    == <<sendWindow, recvWindow, streams, peer, goaway, resets>>
driver  == <<streamOpen, pc, highest, left, ended, interim>>
server  == <<serverClosed, srvRecv, srvSend, srvWindow, unacked, srvStreams,
             srvLast, chatter>>
past    == <<verdict, answer, read, sent, wasted, overrun>>
vars    == <<conn, driver, toServer, wire, server, past>>

Nothing == -1
Ids == 1..Requests
OnConnection == 0
NoBody == [frames |-> 0, octets |-> 0]

Init ==
    /\ sendWindow = ConnWindow
    /\ recvWindow = [allowed |-> RecvCapacity, pending |-> 0]
    /\ streams = << >>
    /\ peer = [window |-> StreamWindow, streams |-> OurStreams]
    /\ goaway = Nothing /\ resets = 0
    /\ streamOpen = TRUE /\ pc = "idle" /\ highest = 0 /\ left = 0
    /\ ended = FALSE /\ interim = 0
    /\ toServer = <<>> /\ wire = <<>> /\ serverClosed = FALSE
    /\ srvRecv = ConnWindow /\ srvSend = RecvCapacity /\ srvWindow = StreamWindow
    /\ unacked = <<>> /\ srvStreams = << >> /\ srvLast = Nothing /\ chatter = 0
    /\ verdict = "none" /\ answer = Nothing /\ read = 0 /\ sent = NoBody
    /\ wasted = FALSE /\ overrun = FALSE

-----------------------------------------------------------------------------
(* Windows and streams.                                                    *)

\* SendWindow.allows: nothing out of a window that is shut or owes.
Allows(window) == IF window > 0 THEN window ELSE 0

\* Faulty: only the stream's own window is asked.
RoomOfStream == Min({left, MaxFrame, Allows(streams[highest].send)})

\* What send_data would let out now.
Room == Min({left, MaxFrame, Allows(sendWindow), Allows(streams[highest].send)})

\* Faulty: nothing is given back before the window is empty.
DueWhenEmpty(pending) == IF pending < RecvCapacity THEN 0 ELSE pending

\* ReceiveWindow.restore: what is given back, once half the window is owed.
Due(pending) == IF pending * 2 < RecvCapacity THEN 0 ELSE pending

Consumed(w, n) ==
    LET owed == w.pending + n
    IN  [w EXCEPT !.allowed = @ + Due(owed), !.pending = owed - Due(owed)]

\* A WINDOW_UPDATE, if anything is due.
Grant(id, n) == IF n = 0 THEN <<>> ELSE <<[kind |-> "grant", id |-> id, size |-> n]>>

\* H2Connection.concurrency.
Concurrency ==
    LET limit == Min({OurStreams, peer.streams})
        live == Cardinality(DOMAIN streams)
    IN  IF limit > live THEN limit - live ELSE 0

\* Faulty: a stream that is closed is kept.
ClosedRemoteKept(id, s) ==
    [streams EXCEPT ![id] = [s EXCEPT !.state =
        IF s.state = "HALF_CLOSED_LOCAL" THEN "CLOSED" ELSE "HALF_CLOSED_REMOTE"]]

\* _close_remote and _reap: a stream closed at both ends is dropped.
ClosedRemote(id, s) ==
    IF s.state = "HALF_CLOSED_LOCAL" THEN Restrict(streams, DOMAIN streams \ {id})
    ELSE [streams EXCEPT ![id] = [s EXCEPT !.state = "HALF_CLOSED_REMOTE"]]

-----------------------------------------------------------------------------
(* The connection between exchanges.                                       *)

\* is_reusable.  A close behind unread bytes may or may not be visible.
IsReusable ==
    /\ streamOpen /\ goaway = Nothing /\ highest < Requests
    /\ ~(serverClosed /\ wire = <<>>)

\* A write blocks when the peer reads nothing.
CanWrite == Len(toServer) < MaxPipe

Busy == pc \in {"sending", "head", "body"}

\* The pool closes the connection and drops it: what either end kept of it, and
\* what was on its way, is gone.
Drop ==
    /\ streamOpen' = FALSE /\ pc' = "ended"
    /\ streams' = << >> /\ srvStreams' = << >> /\ toServer' = <<>> /\ wire' = <<>>
    /\ recvWindow' = [allowed |-> RecvCapacity, pending |-> 0]
    /\ sendWindow' = 0 /\ srvRecv' = 0 /\ srvSend' = 0
    /\ peer' = [window |-> StreamWindow, streams |-> OurStreams]
    /\ srvWindow' = StreamWindow /\ unacked' = <<>>
    /\ goaway' = Nothing /\ srvLast' = Nothing /\ resets' = 0
    /\ left' = 0 /\ ended' = FALSE /\ interim' = 0
    /\ serverClosed' = TRUE
    /\ UNCHANGED <<highest, chatter>>

\* The exchange raises.
Fail(why) ==
    /\ Drop
    /\ verdict' = why
    /\ answer' = Nothing /\ read' = 0 /\ sent' = NoBody
    /\ UNCHANGED <<wasted, overrun>>

Discard ==
    /\ pc = "idle" /\ (~IsReusable \/ serverClosed)
    /\ Drop /\ UNCHANGED past

-----------------------------------------------------------------------------
(* send_request.                                                           *)

\* The head goes out on a stream of its own.
Send ==
    /\ pc = "idle" /\ IsReusable /\ Concurrency > 0 /\ CanWrite
    /\ LET id == highest + 1
           state == IF id \in Posts THEN "OPEN" ELSE "HALF_CLOSED_LOCAL"
       IN  /\ highest' = id
           /\ streams' = [i \in DOMAIN streams \cup {id} |->
                            IF i \in DOMAIN streams THEN streams[i]
                            ELSE [state |-> state, send |-> peer.window,
                                  allowed |-> RecvCapacity, pending |-> 0,
                                  blocks |-> 0]]
           /\ toServer' = Append(toServer,
                            [kind |-> "head", id |-> id, end |-> id \notin Posts])
           /\ pc' = IF id \in Posts THEN "sending" ELSE "head"
           /\ left' = IF id \in Posts THEN BodySize ELSE 0
    /\ ended' = FALSE /\ interim' = 0
    /\ UNCHANGED <<streamOpen, sendWindow, recvWindow, peer, goaway, resets, wire,
                   server, past>>

\* is_reusable did not ask whether a stream may be opened: send_headers does.
NoRoomForStream ==
    /\ pc = "idle" /\ IsReusable /\ Concurrency = 0
    /\ Fail("no_room")

WritePiece ==
    /\ CanWrite /\ pc = "sending" /\ left > 0 /\ Room > 0 /\ streams[highest].state = "OPEN"
    /\ sendWindow' = sendWindow - Room
    /\ streams' = [streams EXCEPT ![highest].send = @ - Room]
    /\ toServer' = Append(toServer,
                     [kind |-> "data", id |-> highest, size |-> Room, pad |-> 0, end |-> FALSE])
    /\ left' = left - Room
    /\ UNCHANGED <<recvWindow, peer, goaway, resets, streamOpen, pc, highest, ended,
                   interim, wire, server, past>>

\* _end_body: an empty frame, whatever the windows say.
EndUpload ==
    /\ CanWrite /\ pc = "sending" /\ left = 0 /\ streams[highest].state = "OPEN"
    /\ streams' = [streams EXCEPT ![highest].state = "HALF_CLOSED_LOCAL"]
    /\ toServer' = Append(toServer,
                     [kind |-> "data", id |-> highest, size |-> 0, pad |-> 0, end |-> TRUE])
    /\ pc' = "head"
    /\ UNCHANGED <<sendWindow, recvWindow, peer, goaway, resets, streamOpen, highest,
                   left, ended, interim, wire, server, past>>

\* H2Stream.send_data: the server has ended the stream before the upload did.
UploadRefused ==
    /\ pc = "sending" /\ (left = 0 \/ Room > 0) /\ streams[highest].state # "OPEN"
    /\ Fail("send_refused")

-----------------------------------------------------------------------------
(* _pump: one frame, read, interpreted and answered.  An upload that finds *)
(* no window pumps one frame and throws away what it says.                 *)

Awaits ==
    \/ pc = "sending" /\ left > 0 /\ Room = 0
    \/ pc = "head"
    \/ pc = "body" /\ ~ended

Held(f) == f.id \in DOMAIN streams

\* What flow control refuses: more than the window we gave.
OverWindow(f) ==
    /\ f.kind = "data"
    /\ \/ f.size + f.pad > recvWindow.allowed
       \/ Held(f) /\ f.size + f.pad > streams[f.id].allowed

\* What receive_frame refuses besides.
OutOfOrder(f) ==
    \/ f.kind = "bad"
    \/ f.kind \in {"data", "headers"} /\ Held(f)
         /\ streams[f.id].state = "HALF_CLOSED_REMOTE"
    \/ f.kind = "headers" /\ Held(f) /\ streams[f.id].blocks + 1 > MaxBlocks
    \/ f.kind = "reset" /\ resets + 1 > MaxResets

Arrives(kind) ==
    /\ Awaits /\ CanWrite /\ wire # <<>> /\ Head(wire).kind = kind
    /\ ~OverWindow(Head(wire)) /\ ~OutOfOrder(Head(wire))

\* receive_frame raised: a GOAWAY, and the socket is closed.
FrameRefused ==
    /\ Awaits /\ wire # <<>>
    /\ OverWindow(Head(wire)) \/ OutOfOrder(Head(wire))
    /\ Fail(IF OverWindow(Head(wire)) THEN "over_window" ELSE "refused")

\* Faulty: a frame of any live stream is taken for this one's.
MineIfHeld(f) == Held(f)

\* Whether the driver looks at what this frame says.
Mine(f) == Held(f) /\ f.id = highest

\* Faulty: what is charged is what is kept.
ChargeContent(f) == f.size

\* Both windows are charged with the frame, padding included.
Charge(f) == f.size + f.pad

\* _data, and read_chunk handing the octets on: they are given back to both
\* windows if the stream is still held, to the connection's in any case.
DataArrives ==
    /\ Arrives("data")
    /\ LET f == Head(wire)
           taken == IF pc = "body" /\ Mine(f) THEN f.size ELSE 0
           charged == [recvWindow EXCEPT !.allowed = @ - Charge(f)]
           s == [streams[f.id] EXCEPT !.allowed = @ - Charge(f)]
           due == IF taken = 0 THEN 0 ELSE Due(recvWindow.pending + taken)
           streamDue == IF taken = 0 \/ f.end THEN 0 ELSE Due(s.pending + taken)
       IN  /\ ~(pc = "head" /\ Mine(f))
           /\ recvWindow' = IF taken = 0 THEN charged ELSE Consumed(charged, taken)
           /\ streams' = IF ~Held(f) THEN streams
                         ELSE IF f.end THEN ClosedRemote(f.id, s)
                         ELSE [streams EXCEPT ![f.id] =
                                 IF taken = 0 THEN s ELSE Consumed(s, taken)]
           /\ resets' = IF Held(f) /\ f.end THEN 0 ELSE resets
           /\ toServer' = toServer \o Grant(OnConnection, due) \o Grant(f.id, streamDue)
           /\ ended' = (ended \/ (pc = "body" /\ Mine(f) /\ f.end))
           /\ read' = read + taken
           /\ wasted' = (wasted \/ f.size + f.pad > taken)
    /\ wire' = Tail(wire)
    /\ UNCHANGED <<sendWindow, peer, goaway, streamOpen, pc, highest, left, interim,
                   server, verdict, answer, sent, overrun>>

BodyBeforeHead ==
    /\ Arrives("data") /\ pc = "head" /\ Mine(Head(wire))
    /\ Fail("body_before_head")

\* _finish_block: what a header block does to the stream it is on.
TakeBlock(f) ==
    LET s == [streams[f.id] EXCEPT !.blocks = @ + 1]
    IN  /\ streams' = IF f.end THEN ClosedRemote(f.id, s)
                      ELSE [streams EXCEPT ![f.id] = s]
        /\ resets' = IF f.end THEN 0 ELSE resets
        /\ wire' = Tail(wire)
        /\ UNCHANGED <<sendWindow, recvWindow, peer, goaway, streamOpen, highest,
                       left, toServer, server, verdict, read, sent, wasted, overrun>>

\* start_response has its head.
HeadArrives ==
    /\ Arrives("headers") /\ pc = "head" /\ Mine(Head(wire))
    /\ Head(wire).status = "final"
    /\ answer' = Head(wire).id
    /\ pc' = "body" /\ ended' = Head(wire).end
    /\ TakeBlock(Head(wire))
    /\ UNCHANGED interim

SkipInformational ==
    /\ Arrives("headers") /\ pc = "head" /\ Mine(Head(wire))
    /\ Head(wire).status = "interim" /\ ~Head(wire).end
    /\ interim + 1 <= MaxInformational
    /\ interim' = interim + 1
    /\ TakeBlock(Head(wire))
    /\ UNCHANGED <<pc, ended, answer>>

\* Trailers end the body whatever their flags say.
TrailersArrive ==
    /\ Arrives("headers") /\ pc = "body" /\ Mine(Head(wire))
    /\ Head(wire).status = "none"
    /\ ended' = TRUE
    /\ TakeBlock(Head(wire))
    /\ UNCHANGED <<pc, interim, answer>>

\* A head that ends in a 1xx, one interim head too many, a block without a
\* status for a head or with one for trailers.
HeadersUnusable ==
    /\ Arrives("headers") /\ pc # "sending" /\ Mine(Head(wire))
    /\ LET f == Head(wire)
       IN  \/ pc = "head" /\ f.status = "none"
           \/ pc = "head" /\ f.status = "interim"
                /\ (f.end \/ interim + 1 > MaxInformational)
           \/ pc = "body" /\ f.status # "none"
    /\ Fail("unusable")

\* A block for another stream, or one that came while the body was going out.
HeadersPassedOver ==
    /\ Arrives("headers") /\ (pc = "sending" \/ ~Mine(Head(wire)))
    /\ IF Held(Head(wire)) THEN TakeBlock(Head(wire))
       ELSE /\ wire' = Tail(wire)
            /\ UNCHANGED <<conn, streamOpen, highest, left, toServer, server, verdict,
                           read, sent, wasted, overrun>>
    /\ UNCHANGED <<pc, ended, interim, answer>>

\* Faulty: streams already open keep the window they were given.
ResizedNever(delta) == streams

\* SendWindow.resize on every live stream.
Resized(delta) == [i \in DOMAIN streams |-> [streams[i] EXCEPT !.send = @ + delta]]

SettingsArrive ==
    /\ Arrives("settings")
    /\ peer' = Head(wire).values
    /\ streams' = Resized(peer'.window - peer.window)
    /\ toServer' = Append(toServer, [kind |-> "ack"])
    /\ wire' = Tail(wire)
    /\ UNCHANGED <<sendWindow, recvWindow, goaway, resets, driver, server, past>>

GrantArrives ==
    /\ Arrives("grant")
    /\ LET f == Head(wire)
       IN  /\ sendWindow' = sendWindow + (IF f.id = OnConnection THEN f.size ELSE 0)
           /\ streams' = IF Held(f) THEN [streams EXCEPT ![f.id].send = @ + f.size]
                         ELSE streams
    /\ wire' = Tail(wire)
    /\ UNCHANGED <<recvWindow, peer, goaway, resets, driver, toServer, server, past>>

PingArrives ==
    /\ Arrives("ping")
    /\ toServer' = Append(toServer, [kind |-> "pong"])
    /\ wire' = Tail(wire)
    /\ UNCHANGED <<conn, driver, server, past>>

ResetArrives ==
    /\ Arrives("reset")
    /\ IF Head(wire).id = highest
       THEN Fail("reset")
       ELSE /\ streams' = Restrict(streams, DOMAIN streams \ {Head(wire).id})
            /\ resets' = resets + 1
            /\ wire' = Tail(wire)
            /\ UNCHANGED <<sendWindow, recvWindow, peer, goaway, driver, toServer,
                           server, past>>

\* A GOAWAY ends the exchange only if it leaves this stream out.
GoawayArrives ==
    /\ Arrives("goaway")
    /\ IF Head(wire).last < highest
       THEN Fail("going_away")
       ELSE /\ goaway' = Head(wire).last
            /\ wire' = Tail(wire)
            /\ UNCHANGED <<sendWindow, recvWindow, streams, peer, resets, driver,
                           toServer, server, past>>

\* Faulty: an upload that waits for a window waits without a deadline.
TimesOutReading ==
    /\ pc \in {"head", "body"}
    /\ Fail("timeout")

\* A read or a write, or the wait for a window, passes its deadline.
TimesOut ==
    /\ Busy
    /\ Fail("timeout")

\* The end of file, or a write to a socket the peer has closed.
PeerGone ==
    /\ serverClosed /\ (pc = "sending" \/ (Awaits /\ wire = <<>>))
    /\ Fail("closed")

\* read_chunk says the body is over: _finish.
Finish ==
    /\ pc = "body" /\ ended
    /\ pc' = "idle" /\ ended' = FALSE
    /\ verdict' = "whole" /\ answer' = Nothing /\ read' = 0 /\ sent' = NoBody
    /\ UNCHANGED <<conn, streamOpen, highest, left, interim, toServer, wire, server,
                   wasted, overrun>>

\* A streamed request body raises, or a streamed response is given up.
Abandon ==
    /\ pc \in {"sending", "body"}
    /\ Fail("given_up")

-----------------------------------------------------------------------------
(* The server.                                                             *)

Post(f) == Len(wire) < MaxWire /\ ~serverClosed /\ wire' = Append(wire, f)

Known == DOMAIN srvStreams
AtStage(id, stage) == id \in Known /\ srvStreams[id].stage = stage

\* What the server does to one stream and a frame about it.
Says(id, f, s) ==
    /\ Post(f)
    /\ srvStreams' = [srvStreams EXCEPT ![id] = s]
    /\ UNCHANGED <<conn, driver, toServer, serverClosed, srvRecv, srvWindow, unacked,
                   srvLast, verdict, answer, read, wasted, overrun>>

\* What is not part of an answer: bounded.
Chatter == chatter < MaxChatter /\ chatter' = chatter + 1

\* A head above the stream its GOAWAY named is not answered.
ServerReadsHead(f) ==
    /\ f.kind = "head"
    /\ LET stage == IF srvLast # Nothing /\ f.id > srvLast THEN "done" ELSE "asked"
           s == [stage |-> stage, recv |-> srvWindow, send |-> RecvCapacity,
                 whole |-> f.end]
       IN  srvStreams' = [i \in Known \cup {f.id} |->
                            IF i = f.id THEN s ELSE srvStreams[i]]
    /\ UNCHANGED <<srvRecv, srvSend, srvWindow, unacked, overrun>>

ServerReadsData(f) ==
    /\ f.kind = "data"
    /\ srvRecv' = srvRecv - f.size
    /\ srvStreams' = [srvStreams EXCEPT ![f.id] =
                        [srvStreams[f.id] EXCEPT !.recv = @ - f.size, !.whole = f.end]]
    /\ overrun' = (overrun \/ (f.size > 0 /\ (f.size > srvRecv
                                            \/ f.size > srvStreams[f.id].recv)))
    /\ UNCHANGED <<srvSend, srvWindow, unacked>>

ServerReadsGrant(f) ==
    /\ f.kind = "grant"
    /\ srvSend' = srvSend + (IF f.id = OnConnection THEN f.size ELSE 0)
    /\ srvStreams' = IF f.id = OnConnection THEN srvStreams
                     ELSE [srvStreams EXCEPT ![f.id].send = @ + f.size]
    /\ UNCHANGED <<srvRecv, srvWindow, unacked, overrun>>

\* Its SETTINGS hold for what comes after their acknowledgement.
ServerReadsAck(f) ==
    /\ f.kind = "ack"
    /\ LET delta == Head(unacked) - srvWindow
       IN  srvStreams' = [i \in Known |-> [srvStreams[i] EXCEPT !.recv = @ + delta]]
    /\ srvWindow' = Head(unacked) /\ unacked' = Tail(unacked)
    /\ UNCHANGED <<srvRecv, srvSend, overrun>>

ServerReadsPong(f) ==
    /\ f.kind = "pong"
    /\ UNCHANGED <<srvStreams, srvRecv, srvSend, srvWindow, unacked, overrun>>

ServerReads ==
    /\ toServer # <<>> /\ ~serverClosed /\ streamOpen
    /\ LET f == Head(toServer)
       IN  \/ ServerReadsHead(f) \/ ServerReadsData(f) \/ ServerReadsGrant(f)
           \/ ServerReadsAck(f) \/ ServerReadsPong(f)
    /\ toServer' = Tail(toServer)
    /\ UNCHANGED <<conn, driver, wire, serverClosed, srvLast, chatter, verdict, answer,
                   read, sent, wasted>>

ServerInterim(id) ==
    /\ AtStage(id, "asked")
    /\ \E end \in {FALSE, Rude} :
         Says(id, [kind |-> "headers", id |-> id, status |-> "interim", end |-> end],
              srvStreams[id])
    /\ UNCHANGED <<srvSend, chatter, sent>>

\* A response may begin before the request has ended.
ServerAnswers(id, end) ==
    /\ AtStage(id, "asked")
    /\ Says(id, [kind |-> "headers", id |-> id, status |-> "final", end |-> end],
            [srvStreams[id] EXCEPT !.stage = IF end THEN "done" ELSE "headed"])
    /\ UNCHANGED <<srvSend, chatter, sent>>

\* A piece of body and its padding, as far as both windows allow.
ServerSends(id, size, pad, end) ==
    /\ AtStage(id, "headed") /\ sent.frames < MaxData
    /\ size + pad <= Min({srvSend, srvStreams[id].send})
    /\ Says(id, [kind |-> "data", id |-> id, size |-> size, pad |-> pad, end |-> end],
            [srvStreams[id] EXCEPT !.send = @ - (size + pad),
                                   !.stage = IF end THEN "done" ELSE "headed"])
    /\ srvSend' = srvSend - (size + pad)
    /\ sent' = [frames |-> sent.frames + 1, octets |-> sent.octets + size]
    /\ UNCHANGED chatter

\* Trailers; a rude server leaves the stream open behind them.
ServerEnds(id, end) ==
    /\ AtStage(id, "headed") /\ (end \/ Rude)
    /\ Says(id, [kind |-> "headers", id |-> id, status |-> "none", end |-> end],
            [srvStreams[id] EXCEPT !.stage = IF end THEN "done" ELSE "trailed"])
    /\ UNCHANGED <<srvSend, chatter, sent>>

ServerResets(id) ==
    /\ id \in Known /\ (srvStreams[id].stage # "done" \/ ~srvStreams[id].whole)
    /\ Chatter
    /\ Says(id, [kind |-> "reset", id |-> id],
            [srvStreams[id] EXCEPT !.stage = "done", !.whole = TRUE])
    /\ UNCHANGED <<srvSend, sent>>

\* Body where none belongs, before the head, after trailers or after the end,
\* or a block behind a stream that has ended.
ServerStrays(id) ==
    /\ Rude /\ id \in Known /\ srvStreams[id].stage # "headed" /\ Chatter
    /\ \/ /\ Min({srvSend, srvStreams[id].send}) > 0
          /\ Says(id, [kind |-> "data", id |-> id, size |-> 1, pad |-> 0, end |-> FALSE],
                  [srvStreams[id] EXCEPT !.send = @ - 1])
          /\ srvSend' = srvSend - 1
       \/ /\ srvStreams[id].stage = "done"
          /\ Says(id, [kind |-> "headers", id |-> id, status |-> "final", end |-> TRUE],
                  srvStreams[id])
          /\ UNCHANGED srvSend
    /\ UNCHANGED sent

\* A frame that receive_frame refuses for its type, length, flags or stream.
ServerBlunders ==
    /\ Rude /\ Chatter /\ Post([kind |-> "bad", id |-> OnConnection])
    /\ UNCHANGED <<conn, driver, toServer, serverClosed, srvRecv, srvSend, srvWindow,
                   unacked, srvStreams, srvLast, past>>

\* All it has received and not granted again, on the connection or a stream.
ServerGrants(id) ==
    /\ \/ /\ id = OnConnection /\ srvRecv < ConnWindow
          /\ Post([kind |-> "grant", id |-> id, size |-> ConnWindow - srvRecv])
          /\ srvRecv' = ConnWindow /\ UNCHANGED srvStreams
       \/ /\ id \in Known /\ srvStreams[id].recv < srvWindow
          /\ Post([kind |-> "grant", id |-> id, size |-> srvWindow - srvStreams[id].recv])
          /\ srvStreams' = [srvStreams EXCEPT ![id].recv = srvWindow] /\ UNCHANGED srvRecv
    /\ UNCHANGED <<conn, driver, toServer, serverClosed, srvSend, srvWindow, unacked,
                   srvLast, chatter, past>>

ServerChatters ==
    /\ Chatter
    /\ \/ \E v \in Settings :
            /\ Post([kind |-> "settings", id |-> OnConnection, values |-> v])
            /\ unacked' = Append(unacked, v.window)
       \/ Post([kind |-> "ping", id |-> OnConnection]) /\ UNCHANGED unacked
    /\ UNCHANGED <<conn, driver, toServer, serverClosed, srvRecv, srvSend, srvWindow,
                   srvStreams, srvLast, past>>

ServerGoesAway ==
    /\ srvLast = Nothing /\ Chatter
    /\ srvLast' = Cardinality(Known)
    /\ Post([kind |-> "goaway", id |-> OnConnection, last |-> srvLast'])
    /\ UNCHANGED <<conn, driver, toServer, serverClosed, srvRecv, srvSend, srvWindow,
                   unacked, srvStreams, past>>

ServerCloses ==
    /\ ~serverClosed /\ serverClosed' = TRUE /\ Chatter
    /\ UNCHANGED <<conn, driver, toServer, wire, srvRecv, srvSend, srvWindow, unacked,
                   srvStreams, srvLast, past>>

-----------------------------------------------------------------------------

Client ==
    \/ WritePiece \/ EndUpload \/ UploadRefused
    \/ FrameRefused \/ DataArrives \/ BodyBeforeHead
    \/ HeadArrives \/ SkipInformational \/ TrailersArrive
    \/ HeadersUnusable \/ HeadersPassedOver
    \/ SettingsArrive \/ GrantArrives \/ PingArrives
    \/ ResetArrives \/ GoawayArrives
    \/ TimesOut \/ PeerGone \/ Finish

Program == Send \/ Discard \/ NoRoomForStream \/ Abandon

\* A connection the client has closed is of no more interest.
Server ==
    streamOpen /\
    (\/ ServerReads \/ ServerBlunders \/ ServerChatters \/ ServerGoesAway \/ ServerCloses
     \/ \E id \in {OnConnection} \cup Ids : ServerGrants(id)
     \/ \E id \in Ids : ServerInterim(id) \/ ServerResets(id) \/ ServerStrays(id)
     \/ \E id \in Ids, end \in BOOLEAN : ServerAnswers(id, end) \/ ServerEnds(id, end)
     \/ \E id \in Ids, size \in 0..1, pad \in 0..1, end \in BOOLEAN :
          ServerSends(id, size, pad, end))

Next == Client \/ Program \/ Server

\* The client's call runs on, each wait ending by its deadline.
Spec == Init /\ [][Next]_vars /\ WF_vars(Client)

-----------------------------------------------------------------------------
(* What the connection promises.                                           *)

\* The sum of the first n amounts.
Total(amounts, n) ==
    LET upTo[m \in 0..n] == IF m = 0 THEN 0 ELSE upTo[m - 1] + amounts[m]
    IN  upTo[n]

\* The octets of body in each frame, padding included, of one stream or of all.
Sizes(frames, id) ==
    [i \in 1..Len(frames) |->
       IF frames[i].kind = "data" /\ id \in {OnConnection, frames[i].id}
       THEN frames[i].size + frames[i].pad ELSE 0]

\* The octets each frame grants to a stream, or to the connection.
Grants(frames, id) ==
    [i \in 1..Len(frames) |->
       IF frames[i].kind = "grant" /\ frames[i].id = id THEN frames[i].size ELSE 0]

Charged(frames, id) == Total(Sizes(frames, id), Len(frames))
Granted(frames, id) == Total(Grants(frames, id), Len(frames))

\* The types of the state, and how streams go with the position of the driver.
TypeOK ==
    /\ recvWindow.allowed \in 0..RecvCapacity
    /\ 2 * recvWindow.pending < RecvCapacity
    /\ DOMAIN streams \subseteq 1..highest
    /\ Cardinality(DOMAIN streams) <= OurStreams
    /\ \A i \in DOMAIN streams :
         /\ streams[i].state \in {"OPEN", "HALF_CLOSED_LOCAL", "HALF_CLOSED_REMOTE"}
         /\ streams[i].allowed \in 0..RecvCapacity
         /\ streams[i].blocks <= MaxBlocks
    /\ pc = "ended" <=> ~streamOpen
    /\ (pc \in {"sending", "head"} \/ (pc = "body" /\ ~ended)) => highest \in DOMAIN streams
    /\ pc = "head" => streams[highest].state = "HALF_CLOSED_LOCAL"
    /\ resets <= MaxResets /\ interim <= MaxInformational

\* "A receiver that charged only what it kept would drift a little further from
\* the sender with every padded frame" (_data): what each end thinks of the two
\* connection windows differs by what is on its way and by nothing else.
WindowsInStep ==
    streamOpen =>
        /\ srvRecv =
             sendWindow + Charged(toServer, OnConnection) + Granted(wire, OnConnection)
        /\ recvWindow.allowed =
             srvSend + Charged(wire, OnConnection) + Granted(toServer, OnConnection)

\* Neither end ever finds the other over a window, the connection's or a
\* stream's, while SETTINGS move the windows of streams under a body half sent.
NeverOverrun ==
    /\ ~overrun
    /\ verdict # "over_window"

\* "The peer always has at least half a window in hand" (restore): once all it
\* sent has been read, and all it was granted has arrived, the server is never
\* out of window, but for octets that were padding or that nobody read.
WindowInHand ==
    streamOpen /\ ~wasted /\ wire = <<>> /\ toServer = <<>> =>
        /\ 2 * srvSend > RecvCapacity
        /\ \A i \in Known \cap DOMAIN streams : 2 * srvStreams[i].send > RecvCapacity

\* A response handed over as whole has the head and every octet the server
\* sent on that stream, and none of another, up to where the server ended it.
WholeIsWhole ==
    [][pc = "body" /\ pc' = "idle" =>
         /\ answer = highest
         /\ srvStreams[highest].stage \in {"done", "trailed"}
         /\ read = sent.octets]_vars

\* Every exchange ends, with a server that falls silent or never opens a window.
ExchangesEnd == Busy ~> ~Busy

\* A server may answer before the upload is done, "which is normal for a
\* rejection" (StreamState): a request is never failed for a body before its
\* head, or for a stream closed under its upload, by what the client dropped.
EarlyAnswerIsHeard == verdict \notin {"body_before_head", "send_refused"}

=============================================================================
