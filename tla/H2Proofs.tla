------------------------------- MODULE H2Proofs -------------------------------

(***************************************************************************)
(* Proofs that the two ends of an HTTP/2 connection agree on its windows   *)
(* and on those of its streams, so that neither overruns the other, for    *)
(* any windows, SETTINGS, bodies and number of streams.                    *)
(***************************************************************************)
EXTENDS H2, SeqLemmas

\* The frames of either direction.
ToServer ==
    [kind : {"head"}, id : Ids, end : BOOLEAN]
    \cup [kind : {"data"}, id : Ids, size : Nat, pad : {0}, end : BOOLEAN]
    \cup [kind : {"grant"}, id : 0..Requests, size : Nat]
    \cup [kind : {"ack", "pong"}]

Announcements == [window : Nat, streams : 0..OurStreams]

ToClient ==
    [kind : {"data"}, id : Ids, size : Nat, pad : Nat, end : BOOLEAN]
    \cup [kind : {"headers"}, id : Ids, status : {"interim", "final", "none"}, end : BOOLEAN]
    \cup [kind : {"reset"}, id : Ids]
    \cup [kind : {"bad", "ping"}, id : {OnConnection}]
    \cup [kind : {"settings"}, id : {OnConnection}, values : Announcements]
    \cup [kind : {"grant"}, id : 0..Requests, size : Nat]
    \cup [kind : {"goaway"}, id : {OnConnection}, last : Nat]

ClientStream ==
    [state : {"OPEN", "HALF_CLOSED_LOCAL", "HALF_CLOSED_REMOTE"}, send : Int,
     allowed : Nat, pending : Nat, blocks : Nat]

ServerStream ==
    [stage : {"asked", "headed", "trailed", "done"}, recv : Int, send : Nat, whole : BOOLEAN]

Live == DOMAIN streams

Types ==
    /\ sendWindow \in Nat /\ recvWindow \in [allowed : Nat, pending : Nat]
    /\ Live \subseteq Ids /\ streams \in [Live -> ClientStream]
    /\ peer \in Announcements
    /\ streamOpen \in BOOLEAN /\ pc \in {"idle", "sending", "head", "body", "ended"}
    /\ highest \in 0..Requests /\ left \in Nat /\ ended \in BOOLEAN
    /\ toServer \in Seq(ToServer) /\ wire \in Seq(ToClient)
    /\ srvRecv \in Int /\ srvSend \in Nat /\ srvWindow \in Nat /\ unacked \in Seq(Nat)
    /\ Known \subseteq Ids /\ srvStreams \in [Known -> ServerStream]
    /\ wasted \in BOOLEAN /\ overrun \in BOOLEAN

-----------------------------------------------------------------------------

(* What the two ends know of the streams.                                  *)

\* A stream is first heard of in the head of its request, and everything else
\* about it comes behind.
Introduced ==
    /\ Live \subseteq 1..highest /\ Known \subseteq 1..highest
    /\ \A p \in 1..Len(toServer) :
         /\ toServer[p].kind = "head" =>
              /\ toServer[p].id \in 1..highest /\ toServer[p].id \notin Known
              /\ \A q \in 1..(p - 1) :
                   toServer[q].kind = "head" => toServer[q].id # toServer[p].id
         /\ toServer[p].kind = "data" =>
              /\ toServer[p].id \in 1..highest
              /\ \/ toServer[p].id \in Known
                 \/ \E q \in 1..(p - 1) :
                      toServer[q].kind = "head" /\ toServer[q].id = toServer[p].id
         /\ toServer[p].kind = "grant" => toServer[p].id \in {OnConnection} \cup Known
    /\ \A p \in 1..Len(wire) :
         wire[p].kind \in {"data", "grant"} => wire[p].id \in {OnConnection} \cup Known
    /\ \A i \in Live : i \in Known \/ \E p \in 1..Len(toServer) :
         toServer[p].kind = "head" /\ toServer[p].id = i

\* The windows of a stream as the server has them, or will when it hears of it.
SrvRecv(id) == IF id \in Known THEN srvStreams[id].recv ELSE srvWindow
SrvSend(id) == IF id \in Known THEN srvStreams[id].send ELSE RecvCapacity

-----------------------------------------------------------------------------

(* The order of SETTINGS, their acknowledgements and the body sent.        *)

Marks(frames, kind) == [i \in 1..Len(frames) |-> IF frames[i].kind = kind THEN 1 ELSE 0]
Acked(n) == Total(Marks(toServer, "ack"), n)
Asked(n) == Total(Marks(wire, "settings"), n)
InAcks == Acked(Len(toServer))

\* The initial window of streams once the server has read n acknowledgements.
WindowAfter(n) == IF n = 0 THEN srvWindow ELSE unacked[n]

AcksInOrder ==
    /\ InAcks + Asked(Len(wire)) = Len(unacked)
    /\ peer.window = WindowAfter(InAcks)
    /\ \A q \in 1..Len(wire) :
         wire[q].kind = "settings" => wire[q].values.window = unacked[InAcks + Asked(q)]

\* What the server will have of its window for a stream when it has read n frames.
Level(id, n) == SrvRecv(id) + WindowAfter(Acked(n)) - srvWindow - Total(Sizes(toServer, id), n)

\* The two ends differ by what is on its way, and no body went out of a window
\* that was not there.
UploadLedger ==
    /\ \A id \in Live : Level(id, Len(toServer)) = streams[id].send + Granted(wire, id)
    /\ \A p \in 1..Len(toServer) :
         toServer[p].kind = "data" /\ toServer[p].size > 0 => Level(toServer[p].id, p) >= 0

-----------------------------------------------------------------------------

(* The windows of the client.                                              *)

DownloadLedger ==
    \A id \in Live :
        streams[id].allowed = SrvSend(id) + Charged(wire, id) + Granted(toServer, id)

\* What is held back is less than half, and all the rest the client has given,
\* unless octets were wasted.
Bounded(w) ==
    /\ 2 * w.pending < RecvCapacity /\ w.allowed + w.pending <= RecvCapacity
    /\ ~wasted => w.allowed + w.pending = RecvCapacity

InHand ==
    /\ Bounded(recvWindow)
    /\ \A id \in Live : Bounded(streams[id])

\* Which ends of the current stream are closed, as the exchange goes on.
Halves ==
    /\ pc = "sending" => highest \in Live /\ streams[highest].state # "HALF_CLOSED_LOCAL"
    /\ pc = "head" \/ (pc = "body" /\ ~ended) => highest \in Live
    /\ pc \in {"head", "body"} /\ highest \in Live => streams[highest].state = "HALF_CLOSED_LOCAL"

Flow == Introduced /\ AcksInOrder /\ UploadLedger /\ DownloadLedger /\ InHand /\ Halves

Inv ==
    /\ Types /\ NeverOverrun /\ WindowsInStep
    /\ streamOpen => Flow
    /\ pc = "ended" <=> ~streamOpen

-----------------------------------------------------------------------------

(* Sums.                                                                   *)

\* The sums of the first amounts, one after the other.
LEMMA TotalBuilt ==
    ASSUME NEW N \in Nat, NEW s \in [1..N -> Int]
    PROVE  \E f \in [0..N -> Int] :
             /\ f[0] = 0 /\ \A i \in 1..N : f[i] = f[i - 1] + s[i]
             /\ \A n \in 0..N : Total(s, n) = f[n]
<1> DEFINE step == [i \in 1..N |-> [x \in Int |-> x + s[i]]]
<1>1. \E f \in [0..N -> Int] : f[0] = 0 /\ \A i \in 1..N : f[i] = step[i][f[i - 1]]
  <2>1. step \in [1..N -> [Int -> Int]]
    OBVIOUS
  <2> HIDE DEF step
  <2> QED
    BY <2>1, NumbersExist
<1>2. PICK f \in [0..N -> Int] : f[0] = 0 /\ \A i \in 1..N : f[i] = f[i - 1] + s[i]
  <2>1. PICK f \in [0..N -> Int] : f[0] = 0 /\ \A i \in 1..N : f[i] = step[i][f[i - 1]]
    BY <1>1
  <2>2. ASSUME NEW i \in 1..N PROVE f[i] = f[i - 1] + s[i]
    <3>1. i - 1 \in 0..N
      OBVIOUS
    <3>2. f[i - 1] \in Int
      BY <3>1
    <3> QED
      BY <2>1, <3>2
  <2> QED
    BY <2>1, <2>2
<1>3. ASSUME NEW n \in 0..N PROVE Total(s, n) = f[n]
  <2> DEFINE Def(g) == [m \in 0..n |-> IF m = 0 THEN 0 ELSE g[m - 1] + s[m]]
             upTo == CHOOSE g : g = Def(g)
             h == [m \in 0..n |-> f[m]]
  <2>1. Total(s, n) = upTo[n]
    BY DEF Total
  <2>2. h = Def(h)
    <3>1. ASSUME NEW m \in 0..n PROVE h[m] = IF m = 0 THEN 0 ELSE h[m - 1] + s[m]
      <4>1. CASE m = 0
        BY <1>2, <4>1
      <4>2. CASE m # 0
        <5>1. m \in 1..N /\ m - 1 \in 0..n
          BY <4>2
        <5> QED
          BY <1>2, <4>2, <5>1
      <4> QED
        BY <4>1, <4>2
    <3> QED
      BY <3>1
  <2>3. upTo = Def(upTo)
    <3> HIDE DEF h
    <3> QED
      BY <2>2
  <2> HIDE DEF upTo
  <2>4. upTo[0] = 0 /\ \A m \in 1..n : upTo[m] = upTo[m - 1] + s[m]
    <3>1. \A m \in 0..n : upTo[m] = IF m = 0 THEN 0 ELSE upTo[m - 1] + s[m]
      BY <2>3
    <3> QED
      BY <3>1
  <2> DEFINE P == {m \in 0..n : upTo[m] = f[m]}
  <2>5. P \in SUBSET (0..n) /\ 0 \in P
    BY <1>2, <2>4
  <2>6. ASSUME NEW m \in 1..n, m - 1 \in P PROVE m \in P
    BY <1>2, <2>4, <2>6
  <2>7. P = 0..n
    <3> HIDE DEF P
    <3> QED
      BY <2>5, <2>6, UpToInduction
  <2> QED
    BY <2>1, <2>7
<1> QED
  BY <1>2, <1>3

LEMMA TotalStep ==
    ASSUME NEW N \in Nat, NEW s \in [1..N -> Int]
    PROVE  /\ Total(s, 0) = 0 /\ \A n \in 0..N : Total(s, n) \in Int
           /\ \A n \in 1..N : Total(s, n) = Total(s, n - 1) + s[n]
<1>1. PICK f \in [0..N -> Int] :
        /\ f[0] = 0 /\ \A i \in 1..N : f[i] = f[i - 1] + s[i]
        /\ \A n \in 0..N : Total(s, n) = f[n]
  BY TotalBuilt
<1>2. \A n \in 1..N : n \in 0..N /\ n - 1 \in 0..N
  OBVIOUS
<1> QED
  BY <1>1, <1>2

\* The sum of no more than what two lists share.
LEMMA TotalSame ==
    ASSUME NEW N \in Nat, NEW s \in [1..N -> Int], NEW M \in Nat, NEW t \in [1..M -> Int],
           NEW n \in 0..N, n <= M, \A i \in 1..n : t[i] = s[i]
    PROVE  Total(t, n) = Total(s, n)
<1> DEFINE P == {m \in 0..n : Total(t, m) = Total(s, m)}
<1>1. P \in SUBSET (0..n) /\ 0 \in P
  BY TotalStep
<1>2. ASSUME NEW m \in 1..n, m - 1 \in P PROVE m \in P
  <2>1. m \in 1..N /\ m \in 1..M /\ t[m] = s[m]
    OBVIOUS
  <2>2. Total(t, m) = Total(t, m - 1) + t[m] /\ Total(s, m) = Total(s, m - 1) + s[m]
    BY <2>1, TotalStep
  <2> QED
    BY <1>2, <2>1, <2>2
<1>3. P = 0..n
  <2> HIDE DEF P
  <2> QED
    BY <1>1, <1>2, UpToInduction
<1> QED
  BY <1>3

\* The sum without the first amount.
LEMMA TotalShifted ==
    ASSUME NEW N \in Nat, NEW s \in [1..N -> Int], NEW M \in Nat, NEW t \in [1..M -> Int],
           N = M + 1, \A i \in 1..M : t[i] = s[i + 1]
    PROVE  \A n \in 0..M : Total(t, n) = Total(s, n + 1) - s[1]
<1> DEFINE P == {n \in 0..M : Total(t, n) = Total(s, n + 1) - s[1]}
<1>0. s[1] \in Int /\ 1 \in 1..N /\ 1 - 1 = 0 /\ 0 + 1 = 1
  OBVIOUS
<1>1. P \in SUBSET (0..M) /\ 0 \in P
  <2>1. Total(t, 0) = 0 /\ Total(s, 0) = 0 /\ Total(s, 1) = Total(s, 1 - 1) + s[1]
    BY <1>0, TotalStep
  <2> QED
    BY <1>0, <2>1
<1>2. ASSUME NEW m \in 1..M, m - 1 \in P PROVE m \in P
  <2>1. m + 1 \in 1..N /\ t[m] = s[m + 1] /\ (m - 1) + 1 = m /\ (m + 1) - 1 = m /\ m \in 0..N
    OBVIOUS
  <2>2. Total(t, m) = Total(t, m - 1) + t[m] /\ Total(s, m + 1) = Total(s, m) + s[m + 1]
    BY <2>1, TotalStep
  <2>3. Total(s, m) \in Int /\ s[m + 1] \in Int
    BY <2>1, TotalStep
  <2>4. Total(t, m - 1) = Total(s, m) - s[1]
    BY <1>2, <2>1
  <2> QED
    BY <1>0, <2>1, <2>2, <2>3, <2>4
<1>3. P = 0..M
  <2> HIDE DEF P
  <2> QED
    BY <1>1, <1>2, UpToInduction
<1> QED
  BY <1>3

\* No amount is more than the sum.
LEMMA TotalBounds ==
    ASSUME NEW N \in Nat, NEW s \in [1..N -> Nat], NEW n \in 0..N
    PROVE  Total(s, n) \in Nat /\ \A i \in 1..n : s[i] <= Total(s, n)
<1> DEFINE P == {m \in 0..n : Total(s, m) \in Nat /\ \A i \in 1..m : s[i] <= Total(s, m)}
<1>0. s \in [1..N -> Int]
  OBVIOUS
<1>1. P \in SUBSET (0..n) /\ 0 \in P
  <2>1. Total(s, 0) = 0
    BY <1>0, TotalStep
  <2> QED
    BY <2>1
<1>2. ASSUME NEW m \in 1..n, m - 1 \in P PROVE m \in P
  <2>1. m \in 1..N /\ s[m] \in Nat
    OBVIOUS
  <2>2. Total(s, m) = Total(s, m - 1) + s[m]
    BY <1>0, <2>1, TotalStep
  <2>3. Total(s, m - 1) \in Nat /\ \A i \in 1..(m - 1) : s[i] <= Total(s, m - 1)
    BY <1>2
  <2>4. ASSUME NEW i \in 1..m PROVE s[i] <= Total(s, m)
    <3>1. CASE i = m
      BY <2>1, <2>2, <2>3, <3>1
    <3>2. CASE i # m
      <4>1. i \in 1..(m - 1) /\ s[i] \in Nat
        BY <3>2
      <4>2. s[i] <= Total(s, m - 1)
        BY <2>3, <4>1
      <4> QED
        BY <2>1, <2>2, <2>3, <4>1, <4>2
    <3> QED
      BY <3>1, <3>2
  <2> QED
    BY <2>1, <2>2, <2>3, <2>4
<1>3. P = 0..n
  <2> HIDE DEF P
  <2> QED
    BY <1>1, <1>2, UpToInduction
<1> QED
  BY <1>3

LEMMA TotalGrows ==
    ASSUME NEW N \in Nat, NEW s \in [1..N -> Nat], NEW m \in 0..N
    PROVE  \A n \in m..N : Total(s, m) <= Total(s, n)
<1> DEFINE P == {d \in 0..(N - m) : Total(s, m) <= Total(s, m + d)}
<1>0. s \in [1..N -> Int]
  OBVIOUS
<1>1. P \in SUBSET (0..(N - m)) /\ 0 \in P
  <2>1. Total(s, m) \in Int /\ m + 0 = m
    BY <1>0, TotalStep
  <2> QED
    BY <2>1
<1>2. ASSUME NEW d \in 1..(N - m), d - 1 \in P PROVE d \in P
  <2>1. m + d \in 1..N /\ (m + d) - 1 = m + (d - 1) /\ m + (d - 1) \in 0..N /\ s[m + d] \in Nat
    OBVIOUS
  <2>2. Total(s, m + d) = Total(s, m + (d - 1)) + s[m + d]
    BY <1>0, <2>1, TotalStep
  <2>3. Total(s, m) \in Int /\ Total(s, m + (d - 1)) \in Int
    BY <1>0, <2>1, TotalStep
  <2> QED
    BY <1>2, <2>1, <2>2, <2>3
<1>3. P = 0..(N - m)
  <2>1. N - m \in Nat
    OBVIOUS
  <2> HIDE DEF P
  <2> QED
    BY <1>1, <1>2, <2>1, UpToInduction
<1> QED
  <2>1. ASSUME NEW n \in m..N PROVE Total(s, m) <= Total(s, n)
    <3>1. n - m \in 0..(N - m) /\ m + (n - m) = n
      OBVIOUS
    <3>2. n - m \in P
      BY <1>3, <3>1
    <3> QED
      BY <3>1, <3>2
  <2> QED
    BY <2>1

\* What is nothing each time is nothing together.
LEMMA TotalOfNothing ==
    ASSUME NEW N \in Nat, NEW s \in [1..N -> Int], NEW n \in 0..N, \A i \in 1..n : s[i] = 0
    PROVE  Total(s, n) = 0
<1> DEFINE P == {m \in 0..n : Total(s, m) = 0}
<1>1. P \in SUBSET (0..n) /\ 0 \in P
  BY TotalStep
<1>2. ASSUME NEW m \in 1..n, m - 1 \in P PROVE m \in P
  <2>1. m \in 1..N
    OBVIOUS
  <2>2. Total(s, m) = Total(s, m - 1) + s[m]
    BY <2>1, TotalStep
  <2> QED
    BY <1>2, <2>2
<1>3. P = 0..n
  <2> HIDE DEF P
  <2> QED
    BY <1>1, <1>2, UpToInduction
<1> QED
  BY <1>3

-----------------------------------------------------------------------------

(* Frames on their way.                                                    *)

Frame == ToServer \cup ToClient
SizeOf(f, id) == IF f.kind = "data" /\ id \in {OnConnection, f.id} THEN f.size + f.pad ELSE 0
GrantOf(f, id) == IF f.kind = "grant" /\ f.id = id THEN f.size ELSE 0
MarkOf(f, kind) == IF f.kind = kind THEN 1 ELSE 0

LEMMA FrameShape ==
    ASSUME NEW f \in Frame
    PROVE  /\ f.kind = "data" => f.id \in Ids /\ f.size \in Nat /\ f.pad \in Nat /\ f.end \in BOOLEAN
           /\ f.kind = "grant" => f.id \in 0..Requests /\ f.size \in Nat
           /\ f.kind = "head" => f.id \in Ids /\ f.end \in BOOLEAN
           /\ f.kind \in {"headers", "reset"} => f.id \in Ids
           /\ f.kind = "headers" => f.end \in BOOLEAN
           /\ f.kind = "settings" => f.values \in Announcements
           /\ f.kind = "goaway" => f.last \in Nat
BY DEF Frame, ToServer, ToClient

LEMMA Measured ==
    ASSUME NEW f \in Frame, NEW id, NEW kind
    PROVE  SizeOf(f, id) \in Nat /\ GrantOf(f, id) \in Nat /\ MarkOf(f, kind) \in {0, 1}
BY FrameShape DEF SizeOf, GrantOf, MarkOf

\* What is measured of frames, one by one.
LEMMA Measures ==
    ASSUME NEW s, Len(s) \in Nat, \A i \in 1..Len(s) : s[i] \in Frame, NEW id, NEW kind
    PROVE  /\ Sizes(s, id) \in [1..Len(s) -> Nat] /\ Grants(s, id) \in [1..Len(s) -> Nat]
           /\ Marks(s, kind) \in [1..Len(s) -> Nat]
           /\ \A i \in 1..Len(s) : /\ Sizes(s, id)[i] = SizeOf(s[i], id)
                                   /\ Grants(s, id)[i] = GrantOf(s[i], id)
                                   /\ Marks(s, kind)[i] = MarkOf(s[i], kind)
<1>1. \A i \in 1..Len(s) : /\ SizeOf(s[i], id) \in Nat /\ GrantOf(s[i], id) \in Nat
                           /\ MarkOf(s[i], kind) \in {0, 1}
  BY Measured
<1>2. /\ Sizes(s, id) = [i \in 1..Len(s) |-> SizeOf(s[i], id)]
      /\ Grants(s, id) = [i \in 1..Len(s) |-> GrantOf(s[i], id)]
      /\ Marks(s, kind) = [i \in 1..Len(s) |-> MarkOf(s[i], kind)]
  BY DEF Sizes, Grants, Marks, SizeOf, GrantOf, MarkOf
<1> QED
  BY <1>1, <1>2

LEMMA FramesTyped ==
    ASSUME NEW S \in SUBSET Frame, NEW s \in Seq(S)
    PROVE  Len(s) \in Nat /\ \A i \in 1..Len(s) : s[i] \in Frame
BY LenProperties, ElementOfSeq

\* The measures of frames are natural numbers, and no frame has more than all.
LEMMA ChargeBounds ==
    ASSUME NEW S \in SUBSET Frame, NEW s \in Seq(S), NEW id, NEW kind, NEW n \in 0..Len(s)
    PROVE  /\ Charged(s, id) \in Nat /\ Granted(s, id) \in Nat
           /\ Total(Sizes(s, id), n) \in Nat /\ Total(Marks(s, kind), n) \in Nat
           /\ \A i \in 1..Len(s) : SizeOf(s[i], id) <= Charged(s, id)
           /\ \A i \in 1..n : MarkOf(s[i], kind) <= Total(Marks(s, kind), n)
           /\ Total(Sizes(s, id), 0) = 0 /\ Total(Marks(s, kind), 0) = 0
<1>1. Len(s) \in Nat /\ (\A i \in 1..Len(s) : s[i] \in Frame) /\ Len(s) \in 0..Len(s)
  BY FramesTyped
<1>2. /\ Sizes(s, id) \in [1..Len(s) -> Nat] /\ Grants(s, id) \in [1..Len(s) -> Nat]
      /\ Marks(s, kind) \in [1..Len(s) -> Nat]
      /\ \A i \in 1..Len(s) : /\ Sizes(s, id)[i] = SizeOf(s[i], id)
                              /\ Marks(s, kind)[i] = MarkOf(s[i], kind)
  BY <1>1, Measures
<1>3. /\ Total(Sizes(s, id), n) \in Nat /\ Charged(s, id) \in Nat /\ Granted(s, id) \in Nat
      /\ Total(Marks(s, kind), n) \in Nat
      /\ \A i \in 1..Len(s) : Sizes(s, id)[i] <= Charged(s, id)
      /\ \A i \in 1..n : Marks(s, kind)[i] <= Total(Marks(s, kind), n)
  BY <1>1, <1>2, TotalBounds DEF Charged, Granted
<1>4. Total(Sizes(s, id), 0) = 0 /\ Total(Marks(s, kind), 0) = 0
  <2>1. Sizes(s, id) \in [1..Len(s) -> Int] /\ Marks(s, kind) \in [1..Len(s) -> Int]
    BY <1>2
  <2> QED
    BY <1>1, <2>1, TotalStep
<1> QED
  BY <1>1, <1>2, <1>3, <1>4

\* A frame more.
LEMMA Appended ==
    ASSUME NEW S \in SUBSET Frame, NEW s \in Seq(S), NEW f \in S, NEW id, NEW kind
    PROVE  /\ Append(s, f) \in Seq(S) /\ Len(Append(s, f)) = Len(s) + 1 /\ Len(s) \in Nat
           /\ Append(s, f)[Len(s) + 1] = f /\ \A i \in 1..Len(s) : Append(s, f)[i] = s[i]
           /\ Charged(Append(s, f), id) = Charged(s, id) + SizeOf(f, id)
           /\ Granted(Append(s, f), id) = Granted(s, id) + GrantOf(f, id)
           /\ \A n \in 0..Len(s) : /\ Total(Sizes(Append(s, f), id), n) = Total(Sizes(s, id), n)
                                   /\ Total(Marks(Append(s, f), kind), n) = Total(Marks(s, kind), n)
           /\ Total(Marks(Append(s, f), kind), Len(s) + 1) =
                Total(Marks(s, kind), Len(s)) + MarkOf(f, kind)
<1> DEFINE t == Append(s, f)
           N == Len(s)
<1>1. N \in Nat /\ \A i \in 1..N : s[i] \in Frame
  BY FramesTyped
<1>2. t \in Seq(S) /\ Len(t) = N + 1 /\ t[N + 1] = f /\ \A i \in 1..N : t[i] = s[i]
  BY AppendProperties
<1> HIDE DEF t, N
<1>3. \A i \in 1..(N + 1) : t[i] \in Frame
  BY <1>2, FramesTyped
<1>4. /\ Sizes(s, id) \in [1..N -> Nat] /\ Grants(s, id) \in [1..N -> Nat]
      /\ Marks(s, kind) \in [1..N -> Nat]
      /\ \A i \in 1..N : /\ Sizes(s, id)[i] = SizeOf(s[i], id) /\ Grants(s, id)[i] = GrantOf(s[i], id)
                         /\ Marks(s, kind)[i] = MarkOf(s[i], kind)
  BY <1>1, Measures DEF N
<1>5. /\ Sizes(t, id) \in [1..(N + 1) -> Nat] /\ Grants(t, id) \in [1..(N + 1) -> Nat]
      /\ Marks(t, kind) \in [1..(N + 1) -> Nat]
      /\ \A i \in 1..(N + 1) : /\ Sizes(t, id)[i] = SizeOf(t[i], id)
                               /\ Grants(t, id)[i] = GrantOf(t[i], id)
                               /\ Marks(t, kind)[i] = MarkOf(t[i], kind)
  <2>1. Len(t) \in Nat /\ \A i \in 1..Len(t) : t[i] \in Frame
    BY <1>1, <1>2, <1>3
  <2> DEFINE M == Len(t)
  <2>2. /\ Sizes(t, id) \in [1..M -> Nat] /\ Grants(t, id) \in [1..M -> Nat]
        /\ Marks(t, kind) \in [1..M -> Nat]
        /\ \A i \in 1..M : /\ Sizes(t, id)[i] = SizeOf(t[i], id)
                          /\ Grants(t, id)[i] = GrantOf(t[i], id)
                          /\ Marks(t, kind)[i] = MarkOf(t[i], kind)
    BY <2>1, Measures
  <2>3. M = N + 1
    BY <1>2
  <2> HIDE DEF M
  <2> QED
    BY <2>2, <2>3
<1>6. ASSUME NEW a \in [1..N -> Nat], NEW b \in [1..(N + 1) -> Nat], \A i \in 1..N : b[i] = a[i]
      PROVE  /\ \A n \in 0..N : Total(b, n) = Total(a, n)
             /\ Total(b, N + 1) = Total(a, N) + b[N + 1]
  <2>1. a \in [1..N -> Int] /\ b \in [1..(N + 1) -> Int] /\ N + 1 \in Nat
    BY <1>1
  <2>2. ASSUME NEW n \in 0..N PROVE Total(b, n) = Total(a, n)
    <3>1. n <= N + 1 /\ \A i \in 1..n : b[i] = a[i]
      BY <1>1, <1>6
    <3> QED
      BY <1>1, <2>1, <3>1, TotalSame
  <2>3. Total(b, N + 1) = Total(b, (N + 1) - 1) + b[N + 1]
    <3>1. N + 1 \in 1..(N + 1)
      BY <1>1
    <3> QED
      BY <2>1, <3>1, TotalStep
  <2>4. (N + 1) - 1 = N /\ N \in 0..N
    BY <1>1
  <2> QED
    BY <2>2, <2>3, <2>4
<1>7. N \in 0..N /\ N + 1 \in 1..(N + 1) /\ \A i \in 1..N : i \in 1..(N + 1)
  BY <1>1
<1>8. /\ \A n \in 0..N : Total(Sizes(t, id), n) = Total(Sizes(s, id), n)
      /\ Total(Sizes(t, id), N + 1) = Total(Sizes(s, id), N) + SizeOf(f, id)
  <2>1. \A i \in 1..N : Sizes(t, id)[i] = Sizes(s, id)[i]
    BY <1>2, <1>4, <1>5, <1>7
  <2> DEFINE a == Sizes(s, id)
             b == Sizes(t, id)
  <2>2. /\ a \in [1..N -> Nat] /\ b \in [1..(N + 1) -> Nat]
        /\ \A i \in 1..N : b[i] = a[i]
        /\ b[N + 1] = SizeOf(f, id)
    BY <1>2, <1>4, <1>5, <1>7, <2>1
  <2> HIDE DEF a, b
  <2>3. (\A n \in 0..N : Total(b, n) = Total(a, n)) /\ Total(b, N + 1) = Total(a, N) + b[N + 1]
    BY <1>6, <2>2
  <2> QED
    BY <2>2, <2>3 DEF a, b
<1>9. Total(Grants(t, id), N + 1) = Total(Grants(s, id), N) + GrantOf(f, id)
  <2>1. \A i \in 1..N : Grants(t, id)[i] = Grants(s, id)[i]
    BY <1>2, <1>4, <1>5, <1>7
  <2> DEFINE a == Grants(s, id)
             b == Grants(t, id)
  <2>2. /\ a \in [1..N -> Nat] /\ b \in [1..(N + 1) -> Nat]
        /\ \A i \in 1..N : b[i] = a[i]
        /\ b[N + 1] = GrantOf(f, id)
    BY <1>2, <1>4, <1>5, <1>7, <2>1
  <2> HIDE DEF a, b
  <2>3. (\A n \in 0..N : Total(b, n) = Total(a, n)) /\ Total(b, N + 1) = Total(a, N) + b[N + 1]
    BY <1>6, <2>2
  <2> QED
    BY <2>2, <2>3 DEF a, b
<1>10. /\ \A n \in 0..N : Total(Marks(t, kind), n) = Total(Marks(s, kind), n)
       /\ Total(Marks(t, kind), N + 1) = Total(Marks(s, kind), N) + MarkOf(f, kind)
  <2>1. \A i \in 1..N : Marks(t, kind)[i] = Marks(s, kind)[i]
    BY <1>2, <1>4, <1>5, <1>7
  <2> DEFINE a == Marks(s, kind)
             b == Marks(t, kind)
  <2>2. /\ a \in [1..N -> Nat] /\ b \in [1..(N + 1) -> Nat]
        /\ \A i \in 1..N : b[i] = a[i]
        /\ b[N + 1] = MarkOf(f, kind)
    BY <1>2, <1>4, <1>5, <1>7, <2>1
  <2> HIDE DEF a, b
  <2>3. (\A n \in 0..N : Total(b, n) = Total(a, n)) /\ Total(b, N + 1) = Total(a, N) + b[N + 1]
    BY <1>6, <2>2
  <2> QED
    BY <2>2, <2>3 DEF a, b
<1> QED
  BY <1>1, <1>2, <1>8, <1>9, <1>10 DEF Charged, Granted, t, N

\* A frame less.
LEMMA Dropped ==
    ASSUME NEW S \in SUBSET Frame, NEW s \in Seq(S), s # <<>>, NEW id, NEW kind
    PROVE  /\ s[1] \in S /\ Head(s) = s[1] /\ Len(s) \in Nat \ {0}
           /\ Tail(s) \in Seq(S) /\ Len(Tail(s)) = Len(s) - 1
           /\ \A i \in 1..(Len(s) - 1) : Tail(s)[i] = s[i + 1]
           /\ Charged(Tail(s), id) = Charged(s, id) - SizeOf(s[1], id)
           /\ Granted(Tail(s), id) = Granted(s, id) - GrantOf(s[1], id)
           /\ \A n \in 0..(Len(s) - 1) :
                /\ Total(Sizes(Tail(s), id), n) = Total(Sizes(s, id), n + 1) - SizeOf(s[1], id)
                /\ Total(Marks(Tail(s), kind), n) = Total(Marks(s, kind), n + 1) - MarkOf(s[1], kind)
<1> DEFINE t == Tail(s)
           N == Len(s)
           M == Len(t)
<1>1. N \in Nat /\ (\A i \in 1..N : s[i] \in Frame) /\ N # 0
  BY FramesTyped, EmptySeq
<1>2. t \in Seq(S) /\ M = N - 1 /\ \A i \in 1..M : t[i] = s[i + 1]
  BY HeadTailProperties
<1>3. s[1] \in S /\ Head(s) = s[1]
  BY <1>1, ElementOfSeq
<1>4. /\ Sizes(s, id) \in [1..N -> Nat] /\ Grants(s, id) \in [1..N -> Nat]
      /\ Marks(s, kind) \in [1..N -> Nat]
      /\ \A i \in 1..N : /\ Sizes(s, id)[i] = SizeOf(s[i], id) /\ Grants(s, id)[i] = GrantOf(s[i], id)
                         /\ Marks(s, kind)[i] = MarkOf(s[i], kind)
  BY <1>1, Measures
<1>5. M \in Nat /\ \A i \in 1..M : t[i] \in Frame
  BY <1>2, FramesTyped
<1>6. /\ Sizes(t, id) \in [1..M -> Nat] /\ Grants(t, id) \in [1..M -> Nat]
      /\ Marks(t, kind) \in [1..M -> Nat]
      /\ \A i \in 1..M : /\ Sizes(t, id)[i] = SizeOf(t[i], id) /\ Grants(t, id)[i] = GrantOf(t[i], id)
                         /\ Marks(t, kind)[i] = MarkOf(t[i], kind)
  BY <1>5, Measures
<1> HIDE DEF t, N, M
<1>7. ASSUME NEW a \in [1..N -> Nat], NEW b \in [1..M -> Nat], \A i \in 1..M : b[i] = a[i + 1]
      PROVE  \A n \in 0..M : Total(b, n) = Total(a, n + 1) - a[1]
  <2>1. a \in [1..N -> Int] /\ b \in [1..M -> Int] /\ N = M + 1
    BY <1>1, <1>2
  <2> QED
    BY <1>1, <1>5, <1>7, <2>1, TotalShifted
<1>8. \A i \in 1..M : i + 1 \in 1..N
  BY <1>1, <1>2
<1>9. M \in 0..M /\ M + 1 = N /\ 1 \in 1..N
  BY <1>1, <1>2, <1>5
<1>10. \A n \in 0..M : Total(Sizes(t, id), n) = Total(Sizes(s, id), n + 1) - SizeOf(s[1], id)
  <2>1. \A i \in 1..M : Sizes(t, id)[i] = Sizes(s, id)[i + 1]
    BY <1>2, <1>4, <1>6, <1>8
  <2>2. Sizes(s, id)[1] = SizeOf(s[1], id)
    BY <1>4, <1>9
  <2>3. \A n \in 0..M : Total(Sizes(t, id), n) = Total(Sizes(s, id), n + 1) - Sizes(s, id)[1]
    BY <1>4, <1>6, <1>7, <2>1
  <2> QED
    BY <2>2, <2>3
<1>11. \A n \in 0..M : Total(Grants(t, id), n) = Total(Grants(s, id), n + 1) - GrantOf(s[1], id)
  <2>1. \A i \in 1..M : Grants(t, id)[i] = Grants(s, id)[i + 1]
    BY <1>2, <1>4, <1>6, <1>8
  <2>2. Grants(s, id)[1] = GrantOf(s[1], id)
    BY <1>4, <1>9
  <2>3. \A n \in 0..M : Total(Grants(t, id), n) = Total(Grants(s, id), n + 1) - Grants(s, id)[1]
    BY <1>4, <1>6, <1>7, <2>1
  <2> QED
    BY <2>2, <2>3
<1>12. \A n \in 0..M : Total(Marks(t, kind), n) = Total(Marks(s, kind), n + 1) - MarkOf(s[1], kind)
  <2>1. \A i \in 1..M : Marks(t, kind)[i] = Marks(s, kind)[i + 1]
    BY <1>2, <1>4, <1>6, <1>8
  <2>2. Marks(s, kind)[1] = MarkOf(s[1], kind)
    BY <1>4, <1>9
  <2>3. \A n \in 0..M : Total(Marks(t, kind), n) = Total(Marks(s, kind), n + 1) - Marks(s, kind)[1]
    BY <1>4, <1>6, <1>7, <2>1
  <2> QED
    BY <2>2, <2>3
<1>13. /\ Charged(t, id) = Charged(s, id) - SizeOf(s[1], id)
       /\ Granted(t, id) = Granted(s, id) - GrantOf(s[1], id)
  BY <1>9, <1>10, <1>11 DEF Charged, Granted, N, M
<1> QED
  BY <1>1, <1>2, <1>3, <1>10, <1>12, <1>13 DEF t, N, M

\* What is known of frames in a list of them.
Summed(s) ==
    /\ Len(s) \in Nat
    /\ \A id : Charged(s, id) \in Nat /\ Granted(s, id) \in Nat
    /\ \A id : Total(Sizes(s, id), 0) = 0 /\ Total(Sizes(s, id), Len(s)) = Charged(s, id)
    /\ \A id : \A n \in 0..Len(s) : Total(Sizes(s, id), n) \in Nat
    /\ \A kind : Total(Marks(s, kind), 0) = 0
    /\ \A kind : \A n \in 0..Len(s) : Total(Marks(s, kind), n) \in Nat
    /\ \A kind : \A m \in 0..Len(s) : \A n \in m..Len(s) :
         Total(Marks(s, kind), m) <= Total(Marks(s, kind), n)
    /\ \A i \in 1..Len(s) : s[i] \in Frame

\* t is s and the frame f.
Extended(s, f, t) ==
    /\ Len(t) = Len(s) + 1 /\ t[Len(s) + 1] = f /\ \A i \in 1..Len(s) : t[i] = s[i]
    /\ \A id : /\ Charged(t, id) = Charged(s, id) + SizeOf(f, id)
               /\ Granted(t, id) = Granted(s, id) + GrantOf(f, id)
    /\ \A id : \A n \in 0..Len(s) : Total(Sizes(t, id), n) = Total(Sizes(s, id), n)
    /\ \A kind : \A n \in 0..Len(s) : Total(Marks(t, kind), n) = Total(Marks(s, kind), n)
    /\ \A kind : Total(Marks(t, kind), Len(s) + 1) = Total(Marks(s, kind), Len(s)) + MarkOf(f, kind)

\* t is s without its first frame f.
Shortened(s, f, t) ==
    /\ f = s[1] /\ f = Head(s) /\ Len(s) # 0
    /\ Len(t) = Len(s) - 1 /\ \A i \in 1..(Len(s) - 1) : t[i] = s[i + 1]
    /\ \A id : /\ Charged(t, id) = Charged(s, id) - SizeOf(f, id)
               /\ Granted(t, id) = Granted(s, id) - GrantOf(f, id)
    /\ \A id : \A n \in 0..(Len(s) - 1) :
         Total(Sizes(t, id), n) = Total(Sizes(s, id), n + 1) - SizeOf(f, id)
    /\ \A kind : \A n \in 0..(Len(s) - 1) :
         Total(Marks(t, kind), n) = Total(Marks(s, kind), n + 1) - MarkOf(f, kind)

LEMMA FramesSummed ==
    ASSUME NEW S \in SUBSET Frame, NEW s \in Seq(S)
    PROVE  Summed(s)
<1>1. Len(s) \in Nat /\ 0 \in 0..Len(s) /\ \A i \in 1..Len(s) : s[i] \in Frame
  BY FramesTyped
<1>2. ASSUME NEW id, NEW kind, NEW n \in 0..Len(s)
      PROVE  /\ Charged(s, id) \in Nat /\ Granted(s, id) \in Nat
             /\ Total(Sizes(s, id), 0) = 0 /\ Total(Marks(s, kind), 0) = 0
             /\ Total(Sizes(s, id), n) \in Nat /\ Total(Marks(s, kind), n) \in Nat
  BY ChargeBounds
<1>3. \A id : Total(Sizes(s, id), Len(s)) = Charged(s, id)
  BY DEF Charged
<1>4. ASSUME NEW kind, NEW m \in 0..Len(s)
      PROVE  \A n \in m..Len(s) : Total(Marks(s, kind), m) <= Total(Marks(s, kind), n)
  <2>1. Marks(s, kind) \in [1..Len(s) -> Nat]
    BY <1>1, Measures
  <2> QED
    BY <1>1, <2>1, TotalGrows
<1> QED
  BY <1>1, <1>2, <1>3, <1>4 DEF Summed

\* A frame that is marked counts one more.
LEMMA MarkCounted ==
    ASSUME NEW S \in SUBSET Frame, NEW s \in Seq(S), NEW n \in 1..Len(s), NEW kind
    PROVE  /\ Total(Marks(s, kind), n) = Total(Marks(s, kind), n - 1) + MarkOf(s[n], kind)
           /\ Total(Marks(s, kind), n - 1) \in Nat
<1>1. Len(s) \in Nat /\ \A i \in 1..Len(s) : s[i] \in Frame
  BY FramesTyped
<1>2. Marks(s, kind) \in [1..Len(s) -> Nat] /\ Marks(s, kind)[n] = MarkOf(s[n], kind)
  BY <1>1, Measures
<1>3. Marks(s, kind) \in [1..Len(s) -> Int]
  BY <1>2
<1>4. n - 1 \in 0..Len(s)
  BY <1>1
<1>5. Total(Marks(s, kind), n) = Total(Marks(s, kind), n - 1) + MarkOf(s[n], kind)
  BY <1>1, <1>2, <1>3, TotalStep
<1> QED
  BY <1>1, <1>2, <1>4, <1>5, TotalBounds

LEMMA OneMore ==
    ASSUME NEW S \in SUBSET Frame, NEW s \in Seq(S), NEW f \in S, NEW t, t = Append(s, f)
    PROVE  t \in Seq(S) /\ Extended(s, f, t)
<1>1. ASSUME NEW id, NEW kind
      PROVE  /\ Charged(t, id) = Charged(s, id) + SizeOf(f, id)
             /\ Granted(t, id) = Granted(s, id) + GrantOf(f, id)
             /\ \A n \in 0..Len(s) : Total(Sizes(t, id), n) = Total(Sizes(s, id), n)
             /\ \A n \in 0..Len(s) : Total(Marks(t, kind), n) = Total(Marks(s, kind), n)
             /\ Total(Marks(t, kind), Len(s) + 1) = Total(Marks(s, kind), Len(s)) + MarkOf(f, kind)
  <2> DEFINE u == Append(s, f)
  <2>1. /\ Charged(u, id) = Charged(s, id) + SizeOf(f, id)
        /\ Granted(u, id) = Granted(s, id) + GrantOf(f, id)
        /\ \A n \in 0..Len(s) : /\ Total(Sizes(u, id), n) = Total(Sizes(s, id), n)
                                /\ Total(Marks(u, kind), n) = Total(Marks(s, kind), n)
        /\ Total(Marks(u, kind), Len(s) + 1) = Total(Marks(s, kind), Len(s)) + MarkOf(f, kind)
    BY Appended
  <2>2. t = u
    OBVIOUS
  <2> HIDE DEF u
  <2> QED
    BY <2>1, <2>2
<1>2. /\ t \in Seq(S) /\ Len(t) = Len(s) + 1 /\ t[Len(s) + 1] = f
      /\ \A i \in 1..Len(s) : t[i] = s[i]
  BY Appended
<1> QED
  BY <1>1, <1>2 DEF Extended

LEMMA OneLess ==
    ASSUME NEW S \in SUBSET Frame, NEW s \in Seq(S), s # <<>>, NEW t, t = Tail(s)
    PROVE  Head(s) \in S /\ t \in Seq(S) /\ Shortened(s, Head(s), t)
<1>1. ASSUME NEW id, NEW kind
      PROVE  /\ Charged(t, id) = Charged(s, id) - SizeOf(s[1], id)
             /\ Granted(t, id) = Granted(s, id) - GrantOf(s[1], id)
             /\ \A n \in 0..(Len(s) - 1) :
                  /\ Total(Sizes(t, id), n) = Total(Sizes(s, id), n + 1) - SizeOf(s[1], id)
                  /\ Total(Marks(t, kind), n) = Total(Marks(s, kind), n + 1) - MarkOf(s[1], kind)
  BY Dropped
<1>2. /\ s[1] \in S /\ Head(s) = s[1] /\ Len(s) \in Nat \ {0}
      /\ t \in Seq(S) /\ Len(t) = Len(s) - 1 /\ \A i \in 1..(Len(s) - 1) : t[i] = s[i + 1]
  BY Dropped
<1> QED
  BY <1>1, <1>2 DEF Shortened

\* A WINDOW_UPDATE that is sent only if it gives something.
LEMMA Restored ==
    ASSUME NEW S \in SUBSET Frame, NEW s \in Seq(S), NEW n \in Nat, NEW id \in 0..Requests,
           [kind |-> "grant", id |-> id, size |-> n] \in S
    PROVE  /\ s \o Grant(id, n) \in Seq(S)
           /\ \/ s \o Grant(id, n) = s /\ n = 0
              \/ s \o Grant(id, n) = Append(s, [kind |-> "grant", id |-> id, size |-> n])
<1>1. CASE n = 0
  BY <1>1, ConcatEmptySeq DEF Grant
<1>2. CASE n # 0
  <2> DEFINE g == [kind |-> "grant", id |-> id, size |-> n]
  <2>1. Grant(id, n) = <<g>>
    BY <1>2 DEF Grant
  <2> HIDE DEF g
  <2>2. s \o <<g>> = Append(s, g)
    OBVIOUS
  <2> QED
    BY <2>1, <2>2, AppendProperties DEF g
<1> QED
  BY <1>1, <1>2

LEMMA LeastOf ==
    ASSUME NEW S \in SUBSET Int, NEW x \in S, \A y \in S : x <= y
    PROVE  Min(S) = x
<1>1. Min(S) \in S /\ \A y \in S : Min(S) <= y
  BY DEF Min
<1>2. Min(S) \in Int /\ Min(S) <= x /\ x <= Min(S) /\ x \in Int
  BY <1>1
<1> QED
  BY <1>2

LEMMA PairLeast ==
    ASSUME NEW a \in Int, NEW b \in Int
    PROVE  Min({a, b}) = IF a <= b THEN a ELSE b
<1>1. {a, b} \in SUBSET Int /\ a \in {a, b} /\ b \in {a, b}
  OBVIOUS
<1>2. CASE a <= b
  <2>1. \A y \in {a, b} : a <= y
    BY <1>2
  <2> QED
    BY <1>1, <1>2, <2>1, LeastOf
<1>3. CASE ~(a <= b)
  <2>1. \A y \in {a, b} : b <= y
    BY <1>3
  <2> QED
    BY <1>1, <1>3, <2>1, LeastOf
<1> QED
  BY <1>2, <1>3

\* What is let out is left to be sent, and in both windows.
LEMMA RoomBounds ==
    ASSUME left \in Nat, MaxFrame \in Nat, sendWindow \in Int, streams[highest].send \in Int
    PROVE  /\ Room \in Nat /\ Room <= left
           /\ Room > 0 => Room <= sendWindow /\ Room <= streams[highest].send
<1> DEFINE c == Allows(sendWindow)
           d == Allows(streams[highest].send)
           S == {left, MaxFrame, c, d}
<1>1. c \in Nat /\ d \in Nat /\ (c > 0 => c <= sendWindow) /\ (d > 0 => d <= streams[highest].send)
  BY DEF Allows
<1> HIDE DEF c, d
<1>2. S \in SUBSET Int
  BY <1>1
<1>3. \E x \in S : \A y \in S : x <= y
  <2>1. PICK p \in {left, MaxFrame} : p <= left /\ p <= MaxFrame
    OBVIOUS
  <2>2. PICK q \in {c, d} : q <= c /\ q <= d
    BY <1>1
  <2> QED
    BY <1>1, <2>1, <2>2
<1>4. Min(S) \in S /\ \A y \in S : Min(S) <= y
  BY <1>2, <1>3, LeastOf
<1>5. Room = Min(S)
  BY DEF Room, S, c, d
<1> QED
  BY <1>1, <1>4, <1>5

-----------------------------------------------------------------------------

(* What each step does to the windows.                                     *)

\* What the windows of streams are made of.
LEMMA LevelTyped ==
    ASSUME Types, AcksInOrder, Summed(toServer), Summed(wire), NEW n \in 0..Len(toServer)
    PROVE  /\ Acked(n) \in 0..InAcks /\ InAcks \in 0..Len(unacked) /\ Len(unacked) \in Nat
           /\ WindowAfter(Acked(n)) \in Nat /\ srvWindow \in Nat
           /\ \A id \in Ids : /\ SrvRecv(id) \in Int /\ Total(Sizes(toServer, id), n) \in Nat
                              /\ Level(id, n) \in Int
<1>1. Len(toServer) \in Nat /\ Len(wire) \in Nat /\ Len(wire) \in 0..Len(wire)
      /\ Len(toServer) \in n..Len(toServer)
  BY DEF Summed
<1>2. Acked(n) \in Nat /\ InAcks \in Nat /\ Acked(n) <= InAcks /\ Asked(Len(wire)) \in Nat
  BY <1>1 DEF Summed, Acked, InAcks, Asked
<1>3. Len(unacked) \in Nat /\ InAcks + Asked(Len(wire)) = Len(unacked)
  BY DEF Types, AcksInOrder
<1>4. srvWindow \in Nat /\ unacked \in Seq(Nat)
  BY DEF Types
<1>5. WindowAfter(Acked(n)) \in Nat
  <2>1. Acked(n) # 0 => Acked(n) \in 1..Len(unacked)
    BY <1>2, <1>3
  <2> QED
    BY <1>4, <2>1, ElementOfSeq DEF WindowAfter
<1>6. ASSUME NEW id \in Ids
      PROVE  SrvRecv(id) \in Int /\ Total(Sizes(toServer, id), n) \in Nat
  <2>1. srvStreams \in [Known -> ServerStream]
    BY DEF Types
  <2>2. SrvRecv(id) \in Int
    BY <1>4, <2>1 DEF SrvRecv, ServerStream
  <2> QED
    BY <2>2 DEF Summed
<1>7. \A id \in Ids : Level(id, n) \in Int
  BY <1>4, <1>5, <1>6 DEF Level
<1> QED
  BY <1>2, <1>3, <1>4, <1>5, <1>6, <1>7

\* The server says something that is no SETTINGS: what does not depend on the windows.
LEMMA ServerPosts ==
    ASSUME Inv, streamOpen, NEW f \in ToClient, wire' = Append(wire, f),
           f.kind # "settings", f.kind \in {"data", "grant"} => f.id \in {OnConnection} \cup Known,
           UNCHANGED <<conn, driver, toServer, srvWindow, unacked, verdict, wasted, overrun>>,
           Known' = Known
    PROVE  /\ wire' \in Seq(ToClient) /\ Extended(wire, f, wire') /\ Summed(wire) /\ Summed(toServer)
           /\ Types /\ WindowsInStep /\ Flow /\ pc # "ended"
           /\ NeverOverrun' /\ Introduced' /\ AcksInOrder' /\ InHand' /\ Halves'
           /\ (pc = "ended" <=> ~streamOpen)'
<1>1. Types /\ NeverOverrun /\ WindowsInStep /\ Flow /\ pc # "ended"
  BY DEF Inv, Flow
<1>2. /\ recvWindow' = recvWindow /\ streams' = streams /\ peer' = peer /\ streamOpen' = streamOpen
      /\ pc' = pc /\ highest' = highest /\ ended' = ended /\ Live' = Live
  BY DEF conn, driver, Live
<1>3. ToClient \in SUBSET Frame /\ wire \in Seq(ToClient) /\ ToServer \in SUBSET Frame /\ toServer \in Seq(ToServer)
  BY <1>1 DEF Frame, Types
<1>4. wire' \in Seq(ToClient) /\ Extended(wire, f, wire') /\ Summed(wire) /\ Summed(toServer)
  BY <1>3, OneMore, FramesSummed
<1>5. NeverOverrun' /\ InHand' /\ Halves'
  BY <1>1, <1>2 DEF Flow, NeverOverrun, InHand, Bounded, Halves
<1>6. Introduced'
  <2>1. ASSUME NEW p \in 1..Len(wire'), wire'[p].kind \in {"data", "grant"}
        PROVE  wire'[p].id \in {OnConnection} \cup Known
    BY <1>1, <1>4, <2>1 DEF Extended, Summed, Flow, Introduced
  <2> QED
    BY <1>1, <1>2, <2>1 DEF Flow, Introduced
<1>7. AcksInOrder'
  <2>1. \A n \in 0..Len(wire) : Asked(n)' = Asked(n)
    BY <1>4 DEF Asked, Extended
  <2>2. Asked(Len(wire))' = Asked(Len(wire))
    BY <1>4 DEF Asked, MarkOf, Extended, Summed
  <2>3. InAcks' = InAcks /\ WindowAfter(InAcks)' = WindowAfter(InAcks)
    BY <1>2 DEF InAcks, Acked, WindowAfter
  <2>4. ASSUME NEW q \in 1..Len(wire'), wire'[q].kind = "settings"
        PROVE  wire'[q].values.window = unacked[InAcks + Asked(q)] /\ Asked(q)' = Asked(q)
    BY <1>1, <1>4, <2>1, <2>4 DEF Extended, Summed, Flow, AcksInOrder
  <2> QED
    BY <1>1, <1>2, <2>2, <2>3, <2>4 DEF Flow, AcksInOrder
<1> QED
  BY <1>1, <1>2, <1>4, <1>5, <1>6, <1>7

\* The server says something that is about no window.
LEMMA SaidNothing ==
    ASSUME Inv, streamOpen, NEW f \in ToClient, f.kind \notin {"data", "grant", "settings"},
           wire' = Append(wire, f),
           UNCHANGED <<conn, driver, toServer, srvRecv, srvSend, srvWindow, unacked, verdict,
                       wasted, overrun>>,
           srvStreams' \in [Known -> ServerStream],
           \A i \in Known : /\ srvStreams'[i].recv = srvStreams[i].recv
                            /\ srvStreams'[i].send = srvStreams[i].send
    PROVE  Inv'
<1>1. Known' = Known
  BY DEF Known
<1>2. /\ wire' \in Seq(ToClient) /\ Extended(wire, f, wire') /\ Summed(wire) /\ Summed(toServer)
      /\ Types /\ WindowsInStep /\ Flow
      /\ NeverOverrun' /\ Introduced' /\ AcksInOrder' /\ InHand' /\ Halves'
      /\ (pc = "ended" <=> ~streamOpen)'
  BY <1>1, ServerPosts
<1>3. /\ sendWindow' = sendWindow /\ recvWindow' = recvWindow /\ streams' = streams /\ peer' = peer
      /\ streamOpen' = streamOpen /\ pc' = pc /\ highest' = highest /\ left' = left /\ ended' = ended
      /\ Live' = Live
  BY DEF conn, driver, Live
<1>4. ASSUME NEW id PROVE Charged(wire', id) = Charged(wire, id) /\ Granted(wire', id) = Granted(wire, id)
  <2>1. SizeOf(f, id) = 0 /\ GrantOf(f, id) = 0
    BY DEF SizeOf, GrantOf
  <2> QED
    BY <1>2, <2>1 DEF Extended, Summed
<1>5. \A id : SrvRecv(id)' = SrvRecv(id) /\ SrvSend(id)' = SrvSend(id)
  BY <1>1 DEF SrvRecv, SrvSend
<1>6. Types' /\ WindowsInStep'
  BY <1>1, <1>2, <1>3, <1>4 DEF Types, WindowsInStep
<1>7. UploadLedger' /\ DownloadLedger'
  BY <1>2, <1>3, <1>4, <1>5 DEF Flow, UploadLedger, DownloadLedger, Level, WindowAfter, Acked
<1> QED
  BY <1>2, <1>6, <1>7 DEF Inv, Flow

\* A frame about no window has come, and been taken for what it is.
HeardNothing ==
    \/ wire' = wire
    \/ wire # <<>> /\ wire' = Tail(wire) /\ Head(wire).kind \notin {"data", "grant", "settings"}

LEMMA QuietWire ==
    ASSUME Types, HeardNothing
    PROVE  /\ wire' \in Seq(ToClient) /\ Summed(wire) /\ Summed(wire')
           /\ \A id : Charged(wire', id) = Charged(wire, id) /\ Granted(wire', id) = Granted(wire, id)
           /\ \E shift \in {0, 1} :
                /\ Len(wire') = Len(wire) - shift
                /\ \A i \in 1..Len(wire') : wire'[i] = wire[i + shift]
                /\ \A n \in 0..Len(wire') : Asked(n)' = Asked(n + shift)
<1>1. ToClient \in SUBSET Frame /\ wire \in Seq(ToClient)
  BY DEF Frame, Types
<1>2. Summed(wire)
  BY <1>1, FramesSummed
<1>3. CASE wire' = wire
  <2>1. \A i \in 1..Len(wire) : i + 0 = i
    BY <1>2 DEF Summed
  <2>2. \A n \in 0..Len(wire) : n + 0 = n /\ Asked(n)' = Asked(n)
    BY <1>2, <1>3 DEF Summed, Asked
  <2>3. Len(wire') = Len(wire) - 0
    BY <1>2, <1>3 DEF Summed
  <2> QED
    BY <1>1, <1>2, <1>3, <2>1, <2>2, <2>3
<1>4. CASE wire # <<>> /\ wire' = Tail(wire) /\ Head(wire).kind \notin {"data", "grant", "settings"}
  <2> DEFINE f == Head(wire)
  <2>1. wire' \in Seq(ToClient) /\ Shortened(wire, f, wire')
    BY <1>1, <1>4, OneLess
  <2>2. Summed(wire')
    BY <1>1, <2>1, FramesSummed
  <2>3. \A id : SizeOf(f, id) = 0 /\ GrantOf(f, id) = 0 /\ MarkOf(f, "settings") = 0
    BY <1>4 DEF SizeOf, GrantOf, MarkOf
  <2> HIDE DEF f
  <2>4. \A id : Charged(wire', id) = Charged(wire, id) /\ Granted(wire', id) = Granted(wire, id)
    BY <1>2, <2>1, <2>3 DEF Shortened, Summed
  <2>5. /\ Len(wire') = Len(wire) - 1
        /\ \A i \in 1..Len(wire') : wire'[i] = wire[i + 1]
    BY <2>1 DEF Shortened
  <2>6. ASSUME NEW n \in 0..Len(wire') PROVE Asked(n)' = Asked(n + 1)
    <3>1. n \in 0..(Len(wire) - 1) /\ n + 1 \in 0..Len(wire)
      BY <1>2, <2>5 DEF Summed
    <3>2. Asked(n)' = Asked(n + 1) - 0 /\ Asked(n + 1) \in Nat
      BY <1>2, <2>1, <2>3, <3>1 DEF Shortened, Summed, Asked
    <3> QED
      BY <3>2
  <2> QED
    BY <1>2, <2>1, <2>2, <2>4, <2>5, <2>6
<1> QED
  BY <1>3, <1>4 DEF HeardNothing

\* Nothing has been said, or something about no window.
SaidLittle ==
    \/ toServer' = toServer
    \/ \E f \in ToServer :
         /\ toServer' = Append(toServer, f)
         /\ f.kind = "pong" \/ (f.kind = "data" /\ f.size = 0 /\ f.id \in Live)

LEMMA QuietPipe ==
    ASSUME Types, SaidLittle
    PROVE  /\ toServer' \in Seq(ToServer) /\ Summed(toServer) /\ Summed(toServer')
           /\ Len(toServer') >= Len(toServer)
           /\ \A i \in 1..Len(toServer) : toServer'[i] = toServer[i]
           /\ \A i \in (Len(toServer) + 1)..Len(toServer') :
                \/ toServer'[i].kind = "pong"
                \/ /\ toServer'[i].kind = "data" /\ toServer'[i].size = 0 /\ toServer'[i].id \in Live
           /\ \A id : /\ Charged(toServer', id) = Charged(toServer, id)
                      /\ Granted(toServer', id) = Granted(toServer, id)
           /\ \A n \in 0..Len(toServer) : Acked(n)' = Acked(n)
           /\ \A id : \A n \in 0..Len(toServer) :
                Total(Sizes(toServer', id), n) = Total(Sizes(toServer, id), n)
           /\ InAcks' = InAcks
<1>1. ToServer \in SUBSET Frame /\ toServer \in Seq(ToServer)
  BY DEF Frame, Types
<1>2. Summed(toServer)
  BY <1>1, FramesSummed
<1>3. CASE toServer' = toServer
  <2>1. Len(toServer') >= Len(toServer) /\ (Len(toServer) + 1)..Len(toServer') = {}
    BY <1>2, <1>3 DEF Summed
  <2> QED
    BY <1>1, <1>2, <1>3, <2>1 DEF Acked, InAcks
<1>4. ASSUME NEW f \in ToServer, toServer' = Append(toServer, f),
             f.kind = "pong" \/ (f.kind = "data" /\ f.size = 0 /\ f.id \in Live)
      PROVE  /\ toServer' \in Seq(ToServer) /\ Summed(toServer')
             /\ Len(toServer') >= Len(toServer)
             /\ \A i \in 1..Len(toServer) : toServer'[i] = toServer[i]
             /\ \A i \in (Len(toServer) + 1)..Len(toServer') :
                  \/ toServer'[i].kind = "pong"
                  \/ /\ toServer'[i].kind = "data" /\ toServer'[i].size = 0 /\ toServer'[i].id \in Live
             /\ \A id : /\ Charged(toServer', id) = Charged(toServer, id)
                        /\ Granted(toServer', id) = Granted(toServer, id)
             /\ \A n \in 0..Len(toServer) : Acked(n)' = Acked(n)
             /\ \A id : \A n \in 0..Len(toServer) :
                  Total(Sizes(toServer', id), n) = Total(Sizes(toServer, id), n)
             /\ InAcks' = InAcks
  <2>1. toServer' \in Seq(ToServer) /\ Extended(toServer, f, toServer')
    BY <1>1, <1>4, OneMore
  <2>2. Summed(toServer')
    BY <1>1, <2>1, FramesSummed
  <2>3. f.kind = "data" => f.pad = 0
    BY DEF ToServer
  <2>4. \A id : SizeOf(f, id) = 0 /\ GrantOf(f, id) = 0 /\ MarkOf(f, "ack") = 0
    BY <1>4, <2>3 DEF SizeOf, GrantOf, MarkOf
  <2>5. \A id : /\ Charged(toServer', id) = Charged(toServer, id)
                /\ Granted(toServer', id) = Granted(toServer, id)
    BY <1>2, <2>1, <2>4 DEF Extended, Summed
  <2>6. /\ \A n \in 0..Len(toServer) : Acked(n)' = Acked(n)
        /\ \A id : \A n \in 0..Len(toServer) :
             Total(Sizes(toServer', id), n) = Total(Sizes(toServer, id), n)
    BY <2>1 DEF Extended, Acked
  <2>7. InAcks' = InAcks
    <3>1. InAcks \in Nat /\ InAcks' = InAcks + 0
      BY <1>2, <2>1, <2>4 DEF Extended, Summed, InAcks, Acked
    <3> QED
      BY <3>1
  <2>8. /\ Len(toServer') >= Len(toServer)
        /\ \A i \in 1..Len(toServer) : toServer'[i] = toServer[i]
        /\ \A i \in (Len(toServer) + 1)..Len(toServer') : toServer'[i] = f
    BY <1>2, <2>1 DEF Extended, Summed
  <2> QED
    BY <1>4, <2>1, <2>2, <2>5, <2>6, <2>7, <2>8
<1> QED
  BY <1>2, <1>3, <1>4 DEF SaidLittle

\* The client hears and says nothing of a window, and at most lets streams go.
LEMMA NothingMoved ==
    ASSUME Inv, streamOpen, streamOpen' = streamOpen, HeardNothing, SaidLittle,
           UNCHANGED <<sendWindow, recvWindow, peer, highest, srvRecv, srvSend, srvWindow, unacked,
                       srvStreams, wasted, overrun>>,
           Live' \subseteq Live, streams' \in [Live' -> ClientStream],
           \A i \in Live' : /\ streams'[i].send = streams[i].send
                            /\ streams'[i].allowed = streams[i].allowed
                            /\ streams'[i].pending = streams[i].pending,
           pc' \in {"idle", "sending", "head", "body"}, left' \in Nat, ended' \in BOOLEAN,
           Halves', verdict' # "over_window"
    PROVE  Inv'
<1>1. Types /\ NeverOverrun /\ WindowsInStep /\ Flow
  BY DEF Inv, Flow
<1> DEFINE P == Len(toServer)
<1>2. /\ wire' \in Seq(ToClient) /\ Summed(wire) /\ Summed(wire')
      /\ \A id : Charged(wire', id) = Charged(wire, id) /\ Granted(wire', id) = Granted(wire, id)
  BY <1>1, QuietWire
<1>3. PICK shift \in {0, 1} :
        /\ Len(wire') = Len(wire) - shift
        /\ \A i \in 1..Len(wire') : wire'[i] = wire[i + shift]
        /\ \A n \in 0..Len(wire') : Asked(n)' = Asked(n + shift)
  BY <1>1, QuietWire
<1>4. /\ toServer' \in Seq(ToServer) /\ Summed(toServer) /\ Summed(toServer') /\ Len(toServer') >= P
      /\ \A i \in 1..P : toServer'[i] = toServer[i]
      /\ \A i \in (P + 1)..Len(toServer') :
           \/ toServer'[i].kind = "pong"
           \/ /\ toServer'[i].kind = "data" /\ toServer'[i].size = 0 /\ toServer'[i].id \in Live
  BY <1>1, QuietPipe
<1>5. /\ \A id : /\ Charged(toServer', id) = Charged(toServer, id)
                 /\ Granted(toServer', id) = Granted(toServer, id)
      /\ \A n \in 0..P : Acked(n)' = Acked(n)
      /\ \A id : \A n \in 0..P : Total(Sizes(toServer', id), n) = Total(Sizes(toServer, id), n)
      /\ InAcks' = InAcks
  BY <1>1, QuietPipe
<1>6. /\ Known' = Known /\ P \in Nat /\ P \in 0..P /\ Len(toServer') \in Nat
      /\ \A id : SrvRecv(id)' = SrvRecv(id) /\ SrvSend(id)' = SrvSend(id)
      /\ \A n : WindowAfter(n)' = WindowAfter(n)
  BY <1>4 DEF Known, SrvRecv, SrvSend, WindowAfter, Summed
<1> HIDE DEF P
<1>7. Types'
  BY <1>1, <1>2, <1>4, <1>6 DEF Types
<1>8. NeverOverrun' /\ WindowsInStep'
  BY <1>1, <1>2, <1>5 DEF NeverOverrun, WindowsInStep
<1>9. InHand'
  BY <1>1 DEF Flow, InHand, Bounded, Live
<1>10. Introduced'
  <2>1. Live' \subseteq 1..highest /\ Known \subseteq 1..highest
    BY <1>1 DEF Flow, Introduced
  <2>2. ASSUME NEW p \in 1..Len(toServer'), p \in 1..P
        PROVE  /\ toServer'[p].kind = "head" =>
                    /\ toServer'[p].id \in 1..highest /\ toServer'[p].id \notin Known
                    /\ \A q \in 1..(p - 1) :
                         toServer'[q].kind = "head" => toServer'[q].id # toServer'[p].id
               /\ toServer'[p].kind = "data" =>
                    /\ toServer'[p].id \in 1..highest
                    /\ \/ toServer'[p].id \in Known
                       \/ \E q \in 1..(p - 1) :
                            toServer'[q].kind = "head" /\ toServer'[q].id = toServer'[p].id
               /\ toServer'[p].kind = "grant" => toServer'[p].id \in {OnConnection} \cup Known
    <3>1. toServer'[p] = toServer[p] /\ \A q \in 1..(p - 1) : toServer'[q] = toServer[q]
      BY <1>4, <1>6, <2>2
    <3>2. /\ toServer[p].kind = "head" =>
               /\ toServer[p].id \in 1..highest /\ toServer[p].id \notin Known
               /\ \A q \in 1..(p - 1) :
                    toServer[q].kind = "head" => toServer[q].id # toServer[p].id
          /\ toServer[p].kind = "data" =>
               /\ toServer[p].id \in 1..highest
               /\ \/ toServer[p].id \in Known
                  \/ \E q \in 1..(p - 1) :
                       toServer[q].kind = "head" /\ toServer[q].id = toServer[p].id
          /\ toServer[p].kind = "grant" => toServer[p].id \in {OnConnection} \cup Known
      BY <1>1, <2>2 DEF Flow, Introduced, P
    <3> QED
      BY <3>1, <3>2
  <2>3. ASSUME NEW i \in Live
        PROVE  i \in 1..highest /\ (i \in Known \/ \E q \in 1..P : toServer'[q].kind = "head" /\ toServer'[q].id = i)
    BY <1>1, <1>4 DEF Flow, Introduced, P
  <2>4. ASSUME NEW p \in 1..Len(toServer'), p \notin 1..P
        PROVE  /\ toServer'[p].kind \in {"data", "pong"}
               /\ toServer'[p].kind = "data" =>
                    /\ toServer'[p].id \in 1..highest
                    /\ \/ toServer'[p].id \in Known
                       \/ \E q \in 1..(p - 1) :
                            toServer'[q].kind = "head" /\ toServer'[q].id = toServer'[p].id
    <3>1. p \in (P + 1)..Len(toServer') /\ \A q \in 1..P : q \in 1..(p - 1)
      BY <1>6, <2>4
    <3> QED
      BY <1>4, <2>3, <3>1
  <2>5. ASSUME NEW p \in 1..Len(wire'), wire'[p].kind \in {"data", "grant"}
        PROVE  wire'[p].id \in {OnConnection} \cup Known
    <3>0. Len(wire) \in Nat
      BY <1>2 DEF Summed
    <3>1. p + shift \in 1..Len(wire) /\ wire'[p] = wire[p + shift]
      BY <1>3, <3>0
    <3> QED
      BY <1>1, <2>5, <3>1 DEF Flow, Introduced
  <2>6. ASSUME NEW i \in Live'
        PROVE  i \in Known \/ \E q \in 1..Len(toServer') : toServer'[q].kind = "head" /\ toServer'[q].id = i
    <3>1. \A q \in 1..P : q \in 1..Len(toServer')
      BY <1>4, <1>6
    <3> QED
      BY <2>3, <3>1
  <2> QED
    BY <1>6, <2>1, <2>2, <2>4, <2>5, <2>6 DEF Introduced
<1>11. AcksInOrder'
  <2>1. Asked(Len(wire))' = Asked(Len(wire))
    <3>1. Len(wire') \in 0..Len(wire') /\ Len(wire') + shift = Len(wire)
      BY <1>2, <1>3 DEF Summed
    <3> DEFINE n == Len(wire')
    <3>2. Asked(Len(wire))' = Total(Marks(wire', "settings"), n)
      BY DEF Asked
    <3>3. Total(Marks(wire', "settings"), n) = Asked(n + shift)
      BY <1>3, <3>1 DEF Asked
    <3> QED
      BY <3>1, <3>2, <3>3
  <2>2. ASSUME NEW q \in 1..Len(wire'), wire'[q].kind = "settings"
        PROVE  wire'[q].values.window = unacked[InAcks + Asked(q)']
    <3>1. q + shift \in 1..Len(wire) /\ wire'[q] = wire[q + shift] /\ Asked(q)' = Asked(q + shift)
      BY <1>2, <1>3 DEF Summed
    <3> QED
      BY <1>1, <2>2, <3>1 DEF Flow, AcksInOrder
  <2> QED
    BY <1>1, <1>5, <1>6, <2>1, <2>2 DEF Flow, AcksInOrder
<1>12. UploadLedger' /\ DownloadLedger'
  <2>1. \A id : \A n \in 0..P : Level(id, n)' = Level(id, n)
    BY <1>5, <1>6 DEF Level
  <2>2. \A id : Level(id, Len(toServer))' = Level(id, Len(toServer))
    BY <1>4, <1>5, <1>6 DEF Level, InAcks, Summed
  <2>3. ASSUME NEW p \in 1..Len(toServer'), NEW id,
               toServer'[p].kind = "data", toServer'[p].size > 0, toServer'[p].id = id
        PROVE  Level(id, p)' >= 0
    <3>1. p \in 1..P
      BY <1>4, <1>6, <2>3
    <3>2. Level(id, p) >= 0 /\ p \in 0..P
      BY <1>1, <1>4, <1>6, <2>3, <3>1 DEF Flow, UploadLedger, P
    <3> QED
      BY <2>1, <3>2
  <2> QED
    BY <1>1, <1>2, <1>5, <1>6, <2>2, <2>3 DEF Flow, UploadLedger, DownloadLedger
<1> QED
  BY <1>1, <1>7, <1>8, <1>9, <1>10, <1>11, <1>12 DEF Inv, Flow

\* A connection that is closed has no windows to keep.
LEMMA Closing ==
    ASSUME Inv, Drop, verdict' # "over_window", overrun' = overrun, wasted' = wasted
    PROVE  Inv'
<1>1. Types /\ ~overrun
  BY DEF Inv, NeverOverrun
<1>2. streamOpen' = FALSE /\ pc' = "ended"
  BY DEF Drop
<1>3. Live' = {} /\ streams' \in [{} -> ClientStream] /\ Known' = {} /\ srvStreams' \in [{} -> ServerStream]
  BY DEF Drop, Live, Known
<1>4. toServer' \in Seq(ToServer) /\ wire' \in Seq(ToClient) /\ unacked' \in Seq(Nat)
  BY DEF Drop
<1>5. recvWindow' \in [allowed : Nat, pending : Nat] /\ peer' \in Announcements
  BY H2Assumption DEF Drop, Announcements
<1>6. Types'
  <2>1. /\ sendWindow' \in Nat /\ left' \in Nat /\ srvRecv' \in Int /\ srvSend' \in Nat
        /\ srvWindow' \in Nat /\ highest' \in 0..Requests
    <3>1. sendWindow' = 0 /\ left' = 0 /\ srvRecv' = 0 /\ srvSend' = 0
          /\ srvWindow' = StreamWindow /\ highest' = highest
      BY DEF Drop
    <3>2. StreamWindow \in Nat /\ highest \in 0..Requests
      BY <1>1, H2Assumption DEF Types
    <3> QED
      BY <3>1, <3>2
  <2>3. ended' \in BOOLEAN /\ wasted' \in BOOLEAN /\ overrun' \in BOOLEAN
    <3>1. ended' = FALSE
      BY DEF Drop
    <3> QED
      BY <1>1, <3>1 DEF Types
  <2>2. Live' \subseteq Ids /\ Known' \subseteq Ids
    BY <1>3
  <2> QED
    BY <1>2, <1>3, <1>4, <1>5, <2>1, <2>2, <2>3 DEF Types
<1>7. NeverOverrun' /\ WindowsInStep'
  BY <1>1, <1>2 DEF NeverOverrun, WindowsInStep
<1> QED
  BY <1>2, <1>6, <1>7 DEF Inv

\* An exchange that raises takes the connection with it.
LEMMA Failing ==
    ASSUME Inv, NEW why, why # "over_window", Fail(why)
    PROVE  Inv'
BY Closing DEF Fail

\* The frame read is charged to windows that have room for it.
LEMMA WithinWindows ==
    ASSUME Inv, streamOpen, wire # <<>>
    PROVE  /\ ~OverWindow(Head(wire)) /\ Head(wire) \in ToClient /\ Head(wire) = wire[1]
           /\ toServer \in Seq(ToServer) /\ wire \in Seq(ToClient)
           /\ Summed(wire) /\ Summed(toServer) /\ 1 \in 1..Len(wire)
<1> DEFINE f == Head(wire)
<1>1. Types /\ WindowsInStep /\ DownloadLedger
  BY DEF Inv, Flow
<1>2. ToClient \in SUBSET Frame /\ wire \in Seq(ToClient) /\ ToServer \in SUBSET Frame /\ toServer \in Seq(ToServer)
  BY <1>1 DEF Frame, Types
<1>3. f \in ToClient /\ Shortened(wire, f, Tail(wire)) /\ Tail(wire) \in Seq(ToClient)
  BY <1>2, OneLess
<1>4. Summed(wire) /\ Summed(toServer) /\ Summed(Tail(wire))
  BY <1>2, <1>3, FramesSummed
<1>5. f = wire[1] /\ 1 \in 1..Len(wire)
  BY <1>3, <1>4 DEF Shortened, Summed
<1>6. ASSUME NEW id PROVE SizeOf(f, id) <= Charged(wire, id) /\ Charged(wire, id) \in Nat
  <2>1. SizeOf(f, id) \in Nat
    BY <1>2, <1>3, Measured
  <2>2. /\ Charged(Tail(wire), id) = Charged(wire, id) - SizeOf(f, id)
        /\ Charged(Tail(wire), id) \in Nat /\ Charged(wire, id) \in Nat
    BY <1>3, <1>4 DEF Shortened, Summed
  <2> HIDE DEF f
  <2> QED
    BY <2>1, <2>2
<1>7. \A id : Granted(toServer, id) \in Nat
  BY <1>4 DEF Summed
<1>8. ASSUME f.kind = "data"
      PROVE  /\ f.size + f.pad <= recvWindow.allowed
             /\ f.id \in Live => f.size + f.pad <= streams[f.id].allowed
  <2>1. f.size \in Nat /\ f.pad \in Nat /\ SizeOf(f, OnConnection) = f.size + f.pad
        /\ SizeOf(f, f.id) = f.size + f.pad
    BY <1>3, <1>8 DEF ToClient, SizeOf
  <2>2. /\ recvWindow.allowed = srvSend + Charged(wire, OnConnection) + Granted(toServer, OnConnection)
        /\ srvSend \in Nat /\ recvWindow.allowed \in Nat
    BY <1>1 DEF WindowsInStep, Types
  <2>3. f.id \in Live =>
          /\ streams[f.id].allowed = SrvSend(f.id) + Charged(wire, f.id) + Granted(toServer, f.id)
          /\ SrvSend(f.id) \in Nat /\ streams[f.id].allowed \in Nat
    BY <1>1, H2Assumption DEF DownloadLedger, Types, SrvSend, ServerStream, ClientStream
  <2>4. /\ SizeOf(f, OnConnection) <= Charged(wire, OnConnection)
        /\ Charged(wire, OnConnection) \in Nat /\ Granted(toServer, OnConnection) \in Nat
        /\ SizeOf(f, f.id) <= Charged(wire, f.id)
        /\ Charged(wire, f.id) \in Nat /\ Granted(toServer, f.id) \in Nat
    BY <1>6, <1>7
  <2> HIDE DEF f
  <2> QED
    BY <2>1, <2>2, <2>3, <2>4
<1>9. ~OverWindow(f)
  <2>1. recvWindow.allowed \in Nat /\ \A i \in Live : streams[i].allowed \in Nat
    BY <1>1 DEF Types, ClientStream
  <2>2. f.kind = "data" => f.size + f.pad \in Nat
    BY <1>3 DEF ToClient
  <2> HIDE DEF f
  <2> QED
    BY <1>8, <2>1, <2>2 DEF OverWindow, Held, Live
<1> QED
  BY <1>2, <1>3, <1>4, <1>5, <1>9

\* A header block, on a stream that is live or on one that is not.
LEMMA BlockTaken ==
    ASSUME Inv, streamOpen, wire # <<>>, Head(wire).kind = "headers", TakeBlock(Head(wire)),
           Held(Head(wire)), pc' \in {"idle", "sending", "head", "body"}, ended' \in BOOLEAN,
           \/ pc' = pc /\ ended' = ended /\ (pc = "sending" \/ Head(wire).id # highest)
           \/ pc = "head" /\ pc' = "head" /\ ~Head(wire).end
           \/ pc \in {"head", "body"} /\ pc' = "body" /\ (Head(wire).end => ended')
    PROVE  Inv'
<1> DEFINE f == Head(wire)
           s == [streams[f.id] EXCEPT !.blocks = @ + 1]
<1>1. Types /\ Halves /\ f.id \in Live /\ streams[f.id] \in ClientStream
  BY DEF Inv, Flow, Held, Live, Types
<1>2. /\ s \in ClientStream /\ s.send = streams[f.id].send /\ s.allowed = streams[f.id].allowed
      /\ s.pending = streams[f.id].pending /\ s.state = streams[f.id].state
  BY <1>1 DEF ClientStream
<1>3. /\ streams' = IF f.end THEN ClosedRemote(f.id, s) ELSE [streams EXCEPT ![f.id] = s]
      /\ wire' = Tail(wire) /\ f.kind = "headers"
      /\ UNCHANGED <<sendWindow, recvWindow, peer, highest, srvRecv, srvSend, srvWindow, unacked,
                       srvStreams, wasted, overrun, streamOpen, toServer, left, verdict>>
  BY DEF TakeBlock, server
<1> HIDE DEF f, s
<1>4. /\ Live' \subseteq Live /\ streams' \in [Live' -> ClientStream]
      /\ \A i \in Live' : /\ streams'[i].send = streams[i].send
                          /\ streams'[i].allowed = streams[i].allowed
                          /\ streams'[i].pending = streams[i].pending
                          /\ \/ streams'[i].state = streams[i].state
                             \/ /\ streams[i].state # "HALF_CLOSED_LOCAL"
                                /\ streams'[i].state = "HALF_CLOSED_REMOTE"
      /\ \A i \in Live \ Live' : i = f.id /\ f.end /\ streams[i].state = "HALF_CLOSED_LOCAL"
  <2>1. CASE f.end /\ s.state = "HALF_CLOSED_LOCAL"
    <3>1. streams' = [i \in Live \ {f.id} |-> streams[i]]
      BY <1>3, <2>1 DEF ClosedRemote, Restrict, Live
    <3>2. Live' = Live \ {f.id} /\ \A i \in Live' : streams'[i] = streams[i]
      BY <3>1 DEF Live
    <3> QED
      BY <1>1, <1>2, <2>1, <3>1, <3>2 DEF Types
  <2>2. CASE f.end /\ s.state # "HALF_CLOSED_LOCAL"
    <3> DEFINE r == [s EXCEPT !.state = "HALF_CLOSED_REMOTE"]
    <3>1. r \in ClientStream /\ r.send = s.send /\ r.allowed = s.allowed /\ r.pending = s.pending
          /\ r.state = "HALF_CLOSED_REMOTE"
      BY <1>2 DEF ClientStream
    <3>2. streams' = [streams EXCEPT ![f.id] = r]
      BY <1>3, <2>2 DEF ClosedRemote
    <3> HIDE DEF r
    <3>3. Live' = Live
      BY <3>2 DEF Live
    <3> QED
      BY <1>1, <1>2, <2>2, <3>1, <3>2, <3>3 DEF Types
  <2>3. CASE ~f.end
    <3>1. streams' = [streams EXCEPT ![f.id] = s]
      BY <1>3, <2>3
    <3> QED
      BY <1>1, <1>2, <3>1 DEF Types, Live
  <2> QED
    BY <2>1, <2>2, <2>3
<1>5. HeardNothing /\ SaidLittle
  BY <1>3 DEF HeardNothing, SaidLittle, f
<1>6. Halves'
  <2>3. CASE pc' = pc /\ ended' = ended /\ (pc = "sending" \/ f.id # highest)
    BY <1>1, <1>3, <1>4, <2>3 DEF Halves
  <2>4. CASE pc = "head" /\ pc' = "head" /\ ~f.end
    BY <1>1, <1>3, <1>4, <2>4 DEF Halves
  <2>5. CASE pc \in {"head", "body"} /\ pc' = "body" /\ (f.end => ended')
    BY <1>1, <1>3, <1>4, <2>5, ZenonT(60) DEF Halves
  <2> QED
    BY <2>3, <2>4, <2>5 DEF f
<1>7. left' \in Nat /\ verdict' # "over_window"
  BY <1>1, <1>3 DEF Types, Inv, NeverOverrun
<1> QED
  BY <1>3, <1>4, <1>5, <1>6, <1>7, NothingMoved

LEMMA EndUploadQuiet ==
    ASSUME Inv, streamOpen, EndUpload
    PROVE  Inv'
<1> DEFINE f == [kind |-> "data", id |-> highest, size |-> 0, pad |-> 0, end |-> TRUE]
           s == [streams[highest] EXCEPT !.state = "HALF_CLOSED_LOCAL"]
<1>1. Types /\ Halves /\ verdict # "over_window" /\ pc = "sending" /\ highest \in Live
  BY DEF Inv, NeverOverrun, Flow, Halves, EndUpload
<1>2. f \in ToServer /\ f.kind = "data" /\ f.size = 0 /\ f.id \in Live
  BY <1>1 DEF ToServer, Types
<1>3. /\ toServer' = Append(toServer, f) /\ streams' = [streams EXCEPT ![highest] = s]
      /\ pc' = "head" /\ wire' = wire /\ left' = left /\ ended' = ended /\ streamOpen' = streamOpen
      /\ UNCHANGED <<sendWindow, recvWindow, peer, highest, srvRecv, srvSend, srvWindow, unacked,
                     srvStreams, wasted, overrun, verdict>>
  BY DEF EndUpload, server, past
<1>4. streams \in [Live -> ClientStream] /\ streams[highest] \in ClientStream
  BY <1>1 DEF Types
<1>5. s \in ClientStream /\ s.send = streams[highest].send /\ s.allowed = streams[highest].allowed
      /\ s.pending = streams[highest].pending /\ s.state = "HALF_CLOSED_LOCAL"
  BY <1>4 DEF ClientStream
<1> HIDE DEF f, s
<1>6. SaidLittle /\ HeardNothing
  BY <1>2, <1>3 DEF SaidLittle, HeardNothing
<1>7. /\ Live' = Live /\ streams' \in [Live' -> ClientStream]
      /\ \A i \in Live' : /\ streams'[i].send = streams[i].send
                          /\ streams'[i].allowed = streams[i].allowed
                          /\ streams'[i].pending = streams[i].pending
      /\ streams'[highest].state = "HALF_CLOSED_LOCAL"
  BY <1>1, <1>3, <1>4, <1>5 DEF Live
<1>8. Halves'
  BY <1>1, <1>3, <1>7 DEF Halves
<1>9. left' \in Nat /\ ended' \in BOOLEAN /\ verdict' # "over_window"
  BY <1>1, <1>3 DEF Types
<1> QED
  BY <1>3, <1>6, <1>7, <1>8, <1>9, NothingMoved

LEMMA ResetQuiet ==
    ASSUME Inv, streamOpen, ResetArrives
    PROVE  Inv'
<1>1. CASE Head(wire).id = highest
  BY <1>1, Failing DEF ResetArrives
<1>2. CASE Head(wire).id # highest
  <2> DEFINE id == Head(wire).id
  <2>1. Types /\ Halves /\ verdict # "over_window" /\ pc # "ended"
    BY DEF Inv, NeverOverrun, Flow
  <2>2. /\ streams' = [i \in Live \ {id} |-> streams[i]] /\ wire' = Tail(wire)
        /\ wire # <<>> /\ Head(wire).kind = "reset"
        /\ UNCHANGED <<sendWindow, recvWindow, peer, highest, srvRecv, srvSend, srvWindow, unacked,
                       srvStreams, wasted, overrun, verdict, toServer, left, ended, streamOpen, pc>>
    BY <1>2 DEF ResetArrives, Arrives, driver, server, past, Restrict, Live
  <2>3. HeardNothing /\ SaidLittle
    BY <2>2 DEF HeardNothing, SaidLittle
  <2> HIDE DEF id
  <2>4. /\ Live' = Live \ {id} /\ streams' \in [Live' -> ClientStream]
        /\ \A i \in Live' : streams'[i] = streams[i]
    BY <2>1, <2>2 DEF Types, Live
  <2>5. Halves'
    BY <1>2, <2>1, <2>2, <2>4 DEF Halves, id
  <2>6. left' \in Nat /\ ended' \in BOOLEAN /\ verdict' # "over_window" /\ pc' \in {"idle", "sending", "head", "body"}
    BY <2>1, <2>2 DEF Types
  <2> QED
    BY <2>2, <2>3, <2>4, <2>5, <2>6, NothingMoved
<1> QED
  BY <1>1, <1>2

\* What else the client does or hears that leaves its streams alone.
LEMMA StreamsAlone ==
    ASSUME Inv, streamOpen, streamOpen' = streamOpen, HeardNothing, SaidLittle,
           UNCHANGED <<sendWindow, recvWindow, streams, peer, highest, left, srvRecv, srvSend,
                       srvWindow, unacked, srvStreams, wasted, overrun>>,
           \/ pc' = pc /\ ended' = ended
           \/ pc = "body" /\ ended /\ pc' = "idle" /\ ended' = FALSE,
           verdict' # "over_window"
    PROVE  Inv'
<1>1. Types /\ Halves /\ pc # "ended"
  BY DEF Inv, Flow
<1>2. Live' = Live /\ streams' \in [Live' -> ClientStream]
  BY <1>1 DEF Types, Live
<1>3. Halves' /\ pc' \in {"idle", "sending", "head", "body"}
  BY <1>1, <1>2 DEF Halves, Types
<1>4. left' \in Nat /\ ended' \in BOOLEAN
  BY <1>1 DEF Types
<1> QED
  BY <1>2, <1>3, <1>4, NothingMoved

\* What the client does that is about no window.
LEMMA QuietSteps ==
    ASSUME Inv, streamOpen,
           \/ EndUpload \/ PingArrives \/ ResetArrives \/ GoawayArrives \/ Finish
           \/ HeadArrives \/ SkipInformational \/ TrailersArrive \/ HeadersPassedOver
    PROVE  Inv'
<1>1. Types /\ Halves /\ verdict # "over_window" /\ pc # "ended"
  BY DEF Inv, NeverOverrun, Flow
<1>2. CASE PingArrives
  <2> DEFINE f == [kind |-> "pong"]
  <2>1. f \in ToServer /\ f.kind = "pong" /\ toServer' = Append(toServer, f)
    BY <1>2 DEF PingArrives, ToServer
  <2> HIDE DEF f
  <2>2. HeardNothing /\ SaidLittle
    BY <1>2, <2>1 DEF PingArrives, Arrives, HeardNothing, SaidLittle
  <2> QED
    BY <1>1, <1>2, <2>2, StreamsAlone DEF PingArrives, conn, driver, server, past
<1>3. CASE GoawayArrives
  <2>1. CASE Head(wire).last < highest
    BY <1>3, <2>1, Failing DEF GoawayArrives
  <2>2. CASE ~(Head(wire).last < highest)
    <3>1. HeardNothing /\ SaidLittle
      BY <1>3, <2>2 DEF GoawayArrives, Arrives, HeardNothing, SaidLittle
    <3> QED
      BY <1>1, <1>3, <2>2, <3>1, StreamsAlone DEF GoawayArrives, driver, server, past
  <2> QED
    BY <2>1, <2>2
<1>4. CASE Finish
  <2>1. HeardNothing /\ SaidLittle
    BY <1>4 DEF Finish, HeardNothing, SaidLittle
  <2> QED
    BY <1>1, <1>4, <2>1, StreamsAlone DEF Finish, conn, server
<1>5. CASE HeadersPassedOver /\ ~Held(Head(wire))
  <2>1. HeardNothing /\ SaidLittle
    BY <1>5 DEF HeadersPassedOver, Arrives, HeardNothing, SaidLittle
  <2> QED
    BY <1>1, <1>5, <2>1, StreamsAlone DEF HeadersPassedOver, conn, server
<1>6. CASE HeadArrives \/ SkipInformational \/ TrailersArrive \/ (HeadersPassedOver /\ Held(Head(wire)))
  <2>1. wire # <<>> /\ Head(wire).kind = "headers" /\ TakeBlock(Head(wire)) /\ Held(Head(wire))
    BY <1>6 DEF HeadArrives, SkipInformational, TrailersArrive, HeadersPassedOver, Arrives, Mine
  <2>2. Head(wire).end \in BOOLEAN
    BY <2>1, WithinWindows DEF ToClient
  <2>3. pc' \in {"idle", "sending", "head", "body"} /\ ended' \in BOOLEAN
    BY <1>1, <1>6, <2>2 DEF HeadArrives, SkipInformational, TrailersArrive, HeadersPassedOver, Types
  <2>4. \/ pc' = pc /\ ended' = ended /\ (pc = "sending" \/ Head(wire).id # highest)
        \/ pc = "head" /\ pc' = "head" /\ ~Head(wire).end
        \/ pc \in {"head", "body"} /\ pc' = "body" /\ (Head(wire).end => ended')
    BY <1>6 DEF HeadArrives, SkipInformational, TrailersArrive, HeadersPassedOver, Mine
  <2> QED
    BY <2>1, <2>3, <2>4, BlockTaken
<1> QED
  BY <1>2, <1>3, <1>4, <1>5, <1>6, EndUploadQuiet, ResetQuiet

LEMMA SaysQuietly ==
    ASSUME Inv, streamOpen, NEW id \in Known, NEW f \in ToClient, NEW s,
           f.kind \notin {"data", "grant", "settings"}, s \in ServerStream,
           s.recv = srvStreams[id].recv, s.send = srvStreams[id].send,
           Says(id, f, s), srvSend' = srvSend
    PROVE  Inv'
<1>1. srvStreams \in [Known -> ServerStream]
  BY DEF Inv, Types
<1>2. /\ wire' = Append(wire, f) /\ srvStreams' = [srvStreams EXCEPT ![id] = s]
      /\ UNCHANGED <<conn, driver, toServer, srvRecv, srvSend, srvWindow, unacked, verdict,
                     wasted, overrun>>
  BY DEF Says, Post
<1>3. /\ srvStreams' \in [Known -> ServerStream]
      /\ \A i \in Known : /\ srvStreams'[i].recv = srvStreams[i].recv
                          /\ srvStreams'[i].send = srvStreams[i].send
  BY <1>1, <1>2
<1> QED
  BY <1>2, <1>3, SaidNothing

\* What the server does that is about no window.
LEMMA QuietAnswers ==
    ASSUME Inv, streamOpen, NEW id \in Ids, NEW end \in BOOLEAN,
           \/ ServerInterim(id) \/ ServerResets(id) \/ ServerAnswers(id, end) \/ ServerEnds(id, end)
    PROVE  Inv'
<1> DEFINE o == srvStreams[id]
<1>1. id \in Known /\ o \in ServerStream
  BY DEF ServerInterim, ServerResets, ServerAnswers, ServerEnds, AtStage, Inv, Types
<1>2. CASE ServerInterim(id)
  <2>1. PICK e \in {FALSE, Rude} :
          Says(id, [kind |-> "headers", id |-> id, status |-> "interim", end |-> e], o)
    BY <1>2 DEF ServerInterim
  <2> DEFINE f == [kind |-> "headers", id |-> id, status |-> "interim", end |-> e]
  <2>2. f \in ToClient /\ f.kind = "headers"
    BY H2Assumption DEF ToClient
  <2>3. srvSend' = srvSend
    BY <1>2 DEF ServerInterim
  <2>4. Says(id, f, o)
    BY <2>1
  <2> HIDE DEF f
  <2> QED
    BY <1>1, <2>2, <2>3, <2>4, SaysQuietly
<1>3. CASE ServerResets(id)
  <2> DEFINE f == [kind |-> "reset", id |-> id]
             s == [o EXCEPT !.stage = "done", !.whole = TRUE]
  <2>1. f \in ToClient /\ f.kind = "reset"
    BY DEF ToClient
  <2>2. s \in ServerStream /\ s.recv = o.recv /\ s.send = o.send
    BY <1>1 DEF ServerStream
  <2>3. Says(id, f, s) /\ srvSend' = srvSend
    BY <1>3 DEF ServerResets
  <2> HIDE DEF f, s
  <2> QED
    BY <1>1, <2>1, <2>2, <2>3, SaysQuietly
<1>4. CASE ServerAnswers(id, end)
  <2> DEFINE f == [kind |-> "headers", id |-> id, status |-> "final", end |-> end]
             s == [o EXCEPT !.stage = IF end THEN "done" ELSE "headed"]
  <2>1. f \in ToClient /\ f.kind = "headers"
    BY DEF ToClient
  <2>2. s \in ServerStream /\ s.recv = o.recv /\ s.send = o.send
    BY <1>1 DEF ServerStream
  <2>3. Says(id, f, s) /\ srvSend' = srvSend
    BY <1>4 DEF ServerAnswers
  <2> HIDE DEF f, s
  <2> QED
    BY <1>1, <2>1, <2>2, <2>3, SaysQuietly
<1>5. CASE ServerEnds(id, end)
  <2> DEFINE f == [kind |-> "headers", id |-> id, status |-> "none", end |-> end]
             s == [o EXCEPT !.stage = IF end THEN "done" ELSE "trailed"]
  <2>1. f \in ToClient /\ f.kind = "headers"
    BY DEF ToClient
  <2>2. s \in ServerStream /\ s.recv = o.recv /\ s.send = o.send
    BY <1>1 DEF ServerStream
  <2>3. Says(id, f, s) /\ srvSend' = srvSend
    BY <1>5 DEF ServerEnds
  <2> HIDE DEF f, s
  <2> QED
    BY <1>1, <2>1, <2>2, <2>3, SaysQuietly
<1> QED
  BY <1>2, <1>3, <1>4, <1>5

LEMMA QuietChatter ==
    ASSUME Inv, streamOpen, NEW f \in ToClient, f.kind \in {"bad", "ping", "goaway"}, Post(f),
           UNCHANGED <<conn, driver, toServer, srvRecv, srvSend, srvWindow, unacked, srvStreams, past>>
    PROVE  Inv'
<1>1. srvStreams' \in [Known -> ServerStream]
  BY DEF Inv, Types
<1>2. wire' = Append(wire, f) /\ UNCHANGED <<verdict, wasted, overrun>>
  BY DEF Post, past
<1> QED
  BY <1>1, <1>2, SaidNothing

LEMMA QuietServer ==
    ASSUME Inv, streamOpen, ServerBlunders \/ ServerGoesAway \/ ServerCloses
    PROVE  Inv'
<1>1. Types /\ verdict # "over_window"
  BY DEF Inv, NeverOverrun
<1>2. CASE ServerBlunders
  <2> DEFINE f == [kind |-> "bad", id |-> OnConnection]
  <2>1. f \in ToClient /\ f.kind = "bad"
    BY DEF ToClient
  <2>2. /\ Post(f)
        /\ UNCHANGED <<conn, driver, toServer, srvRecv, srvSend, srvWindow, unacked, srvStreams, past>>
    BY <1>2 DEF ServerBlunders
  <2> HIDE DEF f
  <2> QED
    BY <2>1, <2>2, QuietChatter
<1>3. CASE ServerGoesAway
  <2> DEFINE f == [kind |-> "goaway", id |-> OnConnection, last |-> srvLast']
  <2>1. srvLast' \in Nat
    <3>1. IsFiniteSet(Ids) /\ Known \subseteq Ids
      <4>1. 1 \in Int /\ Requests \in Int /\ Ids = 1..Requests
        BY H2Assumption DEF Ids
      <4> HIDE DEF Ids
      <4> QED
        BY <1>1, <4>1, FS_Interval DEF Types
    <3>2. Cardinality(Known) \in Nat
      BY <3>1, FS_Subset, FS_CardinalityType
    <3> QED
      BY <1>3, <3>2 DEF ServerGoesAway
  <2>2. f \in ToClient /\ f.kind = "goaway"
    BY <2>1 DEF ToClient
  <2>3. /\ Post(f)
        /\ UNCHANGED <<conn, driver, toServer, srvRecv, srvSend, srvWindow, unacked, srvStreams, past>>
    BY <1>3 DEF ServerGoesAway
  <2> HIDE DEF f
  <2> QED
    BY <2>2, <2>3, QuietChatter
<1>4. CASE ServerCloses
  <2>1. HeardNothing /\ SaidLittle
    BY <1>4 DEF ServerCloses, HeardNothing, SaidLittle
  <2> QED
    BY <1>1, <1>4, <2>1, StreamsAlone DEF ServerCloses, conn, driver, past
<1> QED
  BY <1>2, <1>3, <1>4

\* Some body, as much as the server was granted.
LEMMA BodySent ==
    ASSUME Inv, streamOpen, NEW id \in Known, NEW size \in Nat, NEW pad \in Nat, NEW end \in BOOLEAN,
           NEW s \in ServerStream,
           s.recv = srvStreams[id].recv, s.send = srvStreams[id].send - (size + pad),
           Says(id, [kind |-> "data", id |-> id, size |-> size, pad |-> pad, end |-> end], s),
           srvSend' = srvSend - (size + pad), srvSend' \in Nat
    PROVE  Inv'
<1> DEFINE f == [kind |-> "data", id |-> id, size |-> size, pad |-> pad, end |-> end]
           c == size + pad
<1>0. Types
  BY DEF Inv
<1>1. /\ f \in ToClient /\ f.kind = "data" /\ f.id = id /\ id \in Ids /\ id # OnConnection
      /\ SizeOf(f, OnConnection) = c /\ SizeOf(f, id) = c
      /\ \A i \in Ids \ {id} : SizeOf(f, i) = 0
      /\ \A i : GrantOf(f, i) = 0
  BY <1>0 DEF Types, ToClient, SizeOf, GrantOf, Ids, OnConnection
<1>2. /\ wire' = Append(wire, f) /\ srvStreams' = [srvStreams EXCEPT ![id] = s]
      /\ UNCHANGED <<conn, driver, toServer, srvRecv, srvWindow, unacked, verdict, wasted, overrun>>
  BY DEF Says, Post
<1>3. Known' = Known /\ srvStreams' \in [Known -> ServerStream] /\ c \in Nat
  BY <1>0, <1>2 DEF Known, Types
<1> HIDE DEF f, c
<1>4. /\ wire' \in Seq(ToClient) /\ Extended(wire, f, wire') /\ Summed(wire) /\ Summed(toServer)
      /\ Types /\ WindowsInStep /\ Flow
      /\ NeverOverrun' /\ Introduced' /\ AcksInOrder' /\ InHand' /\ Halves'
      /\ (pc = "ended" <=> ~streamOpen)'
  BY <1>1, <1>2, <1>3, ServerPosts
<1>5. /\ sendWindow' = sendWindow /\ recvWindow' = recvWindow /\ streams' = streams /\ peer' = peer
      /\ streamOpen' = streamOpen /\ pc' = pc /\ highest' = highest /\ left' = left /\ ended' = ended
      /\ Live' = Live
  BY <1>2 DEF conn, driver, Live
<1>6. /\ \A i : Granted(wire', i) = Granted(wire, i)
      /\ Charged(wire', OnConnection) = Charged(wire, OnConnection) + c
      /\ Charged(wire', id) = Charged(wire, id) + c
      /\ \A i \in Ids \ {id} : Charged(wire', i) = Charged(wire, i)
  BY <1>1, <1>4 DEF Extended, Summed
<1>7. /\ \A i \in Ids : SrvRecv(i)' = SrvRecv(i)
      /\ \A i \in Ids \ {id} : SrvSend(i)' = SrvSend(i)
      /\ SrvSend(id)' = SrvSend(id) - c
  BY <1>2, <1>3, <1>4 DEF SrvRecv, SrvSend, Types, c
<1>8. Types'
  BY <1>2, <1>3, <1>4, <1>5 DEF Types
<1>9. WindowsInStep'
  <2>1. srvSend \in Nat /\ srvSend' = srvSend - c
    BY <1>0 DEF Types, c
  <2>2. Charged(wire, OnConnection) \in Nat /\ Granted(toServer, OnConnection) \in Nat
    BY <1>4 DEF Summed
  <2>3. /\ srvRecv = sendWindow + Charged(toServer, OnConnection) + Granted(wire, OnConnection)
        /\ recvWindow.allowed = srvSend + Charged(wire, OnConnection) + Granted(toServer, OnConnection)
    BY <1>4 DEF WindowsInStep
  <2>4. recvWindow.allowed = (srvSend - c) + (Charged(wire, OnConnection) + c) + Granted(toServer, OnConnection)
    BY <1>3, <2>1, <2>2, <2>3
  <2> QED
    BY <1>2, <1>5, <1>6, <2>1, <2>3, <2>4 DEF WindowsInStep
<1>10. UploadLedger'
  <2>1. \A i \in Ids : \A n : Level(i, n)' = Level(i, n)
    BY <1>2, <1>7 DEF Level, WindowAfter, Acked
  <2>2. \A p \in 1..Len(toServer) : toServer[p].kind = "data" => toServer[p].id \in Ids
    BY <1>4, FrameShape DEF Summed
  <2>3. Live \subseteq Ids
    BY <1>0 DEF Types
  <2> QED
    BY <1>2, <1>4, <1>5, <1>6, <2>1, <2>2, <2>3 DEF Flow, UploadLedger
<1>11. DownloadLedger'
  <2>1. \A i \in Ids : SrvSend(i) \in Int /\ Charged(wire, i) \in Nat /\ Granted(toServer, i) \in Nat
    BY <1>0, <1>4, H2Assumption DEF Types, Summed, SrvSend, ServerStream
  <2>2. \A i \in Live : i \in Ids /\ streams[i].allowed = SrvSend(i) + Charged(wire, i) + Granted(toServer, i)
    BY <1>0, <1>4 DEF Types, Flow, DownloadLedger
  <2>3. \A i \in Live : streams[i].allowed = SrvSend(i)' + Charged(wire', i) + Granted(toServer, i)
    BY <1>1, <1>3, <1>6, <1>7, <2>1, <2>2
  <2> QED
    BY <1>2, <1>5, <2>3 DEF DownloadLedger
<1> QED
  BY <1>4, <1>8, <1>9, <1>10, <1>11 DEF Inv, Flow

LEMMA BodyServed ==
    ASSUME Inv, streamOpen, NEW id \in Ids, NEW size \in 0..1, NEW pad \in 0..1, NEW end \in BOOLEAN,
           ServerSends(id, size, pad, end) \/ ServerStrays(id)
    PROVE  Inv'
<1> DEFINE o == srvStreams[id]
<1>1. id \in Known /\ o \in ServerStream /\ srvSend \in Nat /\ o.send \in Nat
  <2>1. id \in Known /\ srvStreams \in [Known -> ServerStream] /\ srvSend \in Nat
    BY DEF ServerSends, ServerStrays, AtStage, Inv, Types
  <2> QED
    BY <2>1 DEF ServerStream
<1>2. Min({srvSend, o.send}) \in Nat /\ Min({srvSend, o.send}) <= srvSend /\ Min({srvSend, o.send}) <= o.send
  BY <1>1, PairLeast
<1>3. CASE ServerSends(id, size, pad, end)
  <2> DEFINE s == [o EXCEPT !.send = @ - (size + pad), !.stage = IF end THEN "done" ELSE "headed"]
  <2>1. size + pad \in Nat /\ size + pad <= srvSend /\ size + pad <= o.send
    BY <1>1, <1>2, <1>3 DEF ServerSends
  <2>2. s \in ServerStream /\ s.recv = o.recv /\ s.send = o.send - (size + pad)
    <3> DEFINE c == size + pad
    <3>1. o.send - c \in Nat /\ s = [o EXCEPT !.send = @ - c, !.stage = IF end THEN "done" ELSE "headed"]
      BY <1>1, <2>1
    <3> HIDE DEF c
    <3>2. s \in ServerStream /\ s.recv = o.recv /\ s.send = o.send - c
      BY <1>1, <3>1 DEF ServerStream
    <3> QED
      BY <3>2 DEF c
  <2>3. /\ Says(id, [kind |-> "data", id |-> id, size |-> size, pad |-> pad, end |-> end], s)
        /\ srvSend' = srvSend - (size + pad) /\ srvSend' \in Nat
    BY <1>1, <1>3, <2>1 DEF ServerSends
  <2> HIDE DEF s
  <2> QED
    BY <1>1, <2>2, <2>3, BodySent
<1>4. CASE ServerStrays(id)
  <2>1. CASE Says(id, [kind |-> "headers", id |-> id, status |-> "final", end |-> TRUE], o) /\ srvSend' = srvSend
    <3> DEFINE f == [kind |-> "headers", id |-> id, status |-> "final", end |-> TRUE]
    <3>1. f \in ToClient /\ f.kind = "headers" /\ Says(id, f, o)
      BY <2>1 DEF ToClient
    <3> HIDE DEF f
    <3> QED
      BY <1>1, <2>1, <3>1, SaysQuietly
  <2>2. CASE /\ Min({srvSend, o.send}) > 0
             /\ Says(id, [kind |-> "data", id |-> id, size |-> 1, pad |-> 0, end |-> FALSE],
                     [o EXCEPT !.send = @ - 1])
             /\ srvSend' = srvSend - 1
    <3> DEFINE s == [o EXCEPT !.send = @ - 1]
    <3>1. s \in ServerStream /\ s.recv = o.recv /\ s.send = o.send - (1 + 0)
      BY <1>1, <1>2, <2>2 DEF ServerStream
    <3>2. srvSend' = srvSend - (1 + 0) /\ srvSend' \in Nat
      BY <1>1, <1>2, <2>2
    <3>3. Says(id, [kind |-> "data", id |-> id, size |-> 1, pad |-> 0, end |-> FALSE], s)
      BY <2>2
    <3> HIDE DEF s
    <3> QED
      BY <1>1, <3>1, <3>2, <3>3, BodySent
  <2> QED
    BY <1>4, <2>1, <2>2 DEF ServerStrays
<1> QED
  BY <1>3, <1>4

\* The server gives back what it has received.
LEMMA WindowServed ==
    ASSUME Inv, streamOpen, NEW id \in {OnConnection} \cup Ids, ServerGrants(id)
    PROVE  Inv'
<1>0. Types /\ srvRecv \in Int /\ srvWindow \in Nat /\ srvStreams \in [Known -> ServerStream]
  BY DEF Inv, Types
<1>1. PICK n \in Nat :
        /\ Post([kind |-> "grant", id |-> id, size |-> n])
        /\ \/ id = OnConnection /\ srvRecv' = srvRecv + n /\ UNCHANGED srvStreams
           \/ /\ id \in Known /\ srvWindow = srvStreams[id].recv + n
              /\ srvStreams' = [srvStreams EXCEPT ![id].recv = srvWindow] /\ UNCHANGED srvRecv
  <2>1. CASE /\ id = OnConnection /\ srvRecv < ConnWindow
             /\ Post([kind |-> "grant", id |-> id, size |-> ConnWindow - srvRecv])
             /\ srvRecv' = ConnWindow /\ UNCHANGED srvStreams
    <3>1. ConnWindow - srvRecv \in Nat /\ ConnWindow = srvRecv + (ConnWindow - srvRecv)
      BY <1>0, <2>1, H2Assumption
    <3> QED
      BY <2>1, <3>1
  <2>2. CASE /\ id \in Known /\ srvStreams[id].recv < srvWindow
             /\ Post([kind |-> "grant", id |-> id, size |-> srvWindow - srvStreams[id].recv])
             /\ srvStreams' = [srvStreams EXCEPT ![id].recv = srvWindow] /\ UNCHANGED srvRecv
    <3>1. srvStreams[id].recv \in Int
      BY <1>0, <2>2 DEF ServerStream
    <3>2. srvWindow - srvStreams[id].recv \in Nat /\ srvWindow = srvStreams[id].recv + (srvWindow - srvStreams[id].recv)
      BY <1>0, <2>2, <3>1
    <3> QED
      BY <2>2, <3>2
  <2> QED
    BY <2>1, <2>2 DEF ServerGrants
<1> DEFINE f == [kind |-> "grant", id |-> id, size |-> n]
<1>2. /\ f \in ToClient /\ f.kind = "grant" /\ f.id = id
      /\ \A i : SizeOf(f, i) = 0 /\ GrantOf(f, i) = IF i = id THEN n ELSE 0
  <2>1. id \in 0..Requests
    BY H2Assumption DEF Ids, OnConnection
  <2> QED
    BY <2>1 DEF ToClient, SizeOf, GrantOf
<1>3. /\ wire' = Append(wire, f)
      /\ UNCHANGED <<conn, driver, toServer, srvSend, srvWindow, unacked, verdict, wasted, overrun>>
  BY <1>1 DEF Post, ServerGrants, past
<1> HIDE DEF f
<1>4. /\ Known' = Known /\ srvStreams' \in [Known -> ServerStream] /\ srvRecv' \in Int
      /\ \A i \in Known : srvStreams'[i].send = srvStreams[i].send
  <2>1. CASE id = OnConnection /\ srvRecv' = srvRecv + n /\ UNCHANGED srvStreams
    BY <1>0, <2>1 DEF Known
  <2>2. CASE /\ id \in Known /\ srvWindow = srvStreams[id].recv + n
             /\ srvStreams' = [srvStreams EXCEPT ![id].recv = srvWindow] /\ UNCHANGED srvRecv
    <3> DEFINE s == [srvStreams[id] EXCEPT !.recv = srvWindow]
    <3>1. s \in ServerStream /\ s.send = srvStreams[id].send
      BY <1>0, <2>2 DEF ServerStream
    <3>2. srvStreams' = [srvStreams EXCEPT ![id] = s]
      BY <2>2
    <3> HIDE DEF s
    <3> QED
      BY <1>0, <2>2, <3>1, <3>2 DEF Known
  <2> QED
    BY <1>1, <2>1, <2>2
<1>5. /\ wire' \in Seq(ToClient) /\ Extended(wire, f, wire') /\ Summed(wire) /\ Summed(toServer)
      /\ Types /\ WindowsInStep /\ Flow
      /\ NeverOverrun' /\ Introduced' /\ AcksInOrder' /\ InHand' /\ Halves'
      /\ (pc = "ended" <=> ~streamOpen)'
  <2>1. id \in {OnConnection} \cup Known
    BY <1>1
  <2> QED
    BY <1>2, <1>3, <1>4, <2>1, ServerPosts
<1>6. /\ sendWindow' = sendWindow /\ recvWindow' = recvWindow /\ streams' = streams /\ peer' = peer
      /\ streamOpen' = streamOpen /\ pc' = pc /\ highest' = highest /\ left' = left /\ ended' = ended
      /\ Live' = Live
  BY <1>3 DEF conn, driver, Live
<1>7. /\ \A i : Charged(wire', i) = Charged(wire, i)
      /\ Granted(wire', id) = Granted(wire, id) + n
      /\ \A i : i # id => Granted(wire', i) = Granted(wire, i)
  BY <1>2, <1>5 DEF Extended, Summed
<1>8. /\ \A i \in Ids : SrvSend(i)' = SrvSend(i)
      /\ \A i \in Ids : i # id => SrvRecv(i)' = SrvRecv(i)
      /\ id \in Ids => SrvRecv(id)' = SrvRecv(id) + n
  <2>1. id \in Ids => id # OnConnection
    BY DEF Ids, OnConnection
  <2> QED
    <3>1. \A i \in Ids : SrvSend(i)' = SrvSend(i)
      BY <1>4 DEF SrvSend
    <3>2. srvWindow' = srvWindow
      BY <1>3
    <3>3. CASE id = OnConnection
      BY <1>1, <1>0, <1>4, <2>1, <3>1, <3>2, <3>3 DEF SrvRecv, Types
    <3>4. CASE /\ id \in Known /\ srvWindow = srvStreams[id].recv + n
               /\ srvStreams' = [srvStreams EXCEPT ![id].recv = srvWindow]
      <4>1. srvStreams'[id].recv = srvWindow /\ \A i \in Known : i # id => srvStreams'[i] = srvStreams[i]
        BY <1>0, <3>4 DEF ServerStream
      <4> QED
        BY <1>4, <3>1, <3>2, <3>4, <4>1 DEF SrvRecv
    <3> QED
      BY <1>1, <3>3, <3>4
<1>9. Types'
  BY <1>3, <1>4, <1>5, <1>6 DEF Types
<1>10. WindowsInStep'
  <2>1. /\ srvRecv = sendWindow + Charged(toServer, OnConnection) + Granted(wire, OnConnection)
        /\ recvWindow.allowed = srvSend + Charged(wire, OnConnection) + Granted(toServer, OnConnection)
        /\ sendWindow \in Nat
    BY <1>5 DEF WindowsInStep, Types
  <2>2. Charged(toServer, OnConnection) \in Nat /\ Granted(wire, OnConnection) \in Nat
    BY <1>5 DEF Summed
  <2>3. CASE id = OnConnection
    <3>1. srvRecv' = srvRecv + n
      BY <1>0, <1>1, <2>3 DEF OnConnection, Types, Ids
    <3>2. srvRecv' = sendWindow + Charged(toServer, OnConnection) + (Granted(wire, OnConnection) + n)
      BY <2>1, <2>2, <3>1
    <3> QED
      BY <1>3, <1>6, <1>7, <2>1, <2>3, <3>2 DEF WindowsInStep
  <2>4. CASE id # OnConnection
    BY <1>1, <1>3, <1>6, <1>7, <2>1, <2>4 DEF WindowsInStep
  <2> QED
    BY <2>3, <2>4
<1>11. UploadLedger'
  <2>1. /\ \A i \in Ids : i # id => \A m : Level(i, m)' = Level(i, m)
        /\ id \in Ids => \A m \in 0..Len(toServer) : Level(id, m)' = Level(id, m) + n
    <3>1. \A m : /\ WindowAfter(Acked(m))' = WindowAfter(Acked(m)) /\ srvWindow' = srvWindow
                 /\ \A i : Total(Sizes(toServer', i), m) = Total(Sizes(toServer, i), m)
      BY <1>3 DEF WindowAfter, Acked
    <3>2. \A i \in Ids : i # id => \A m : Level(i, m)' = Level(i, m)
      BY <1>8, <3>1 DEF Level
    <3>3. ASSUME id \in Ids, NEW m \in 0..Len(toServer) PROVE Level(id, m)' = Level(id, m) + n
      <4>1. /\ SrvRecv(id) \in Int /\ WindowAfter(Acked(m)) \in Nat /\ srvWindow \in Nat
            /\ Total(Sizes(toServer, id), m) \in Nat /\ SrvRecv(id)' = SrvRecv(id) + n
        BY <1>5, <1>8, <3>3, LevelTyped DEF Flow
      <4>2. Level(id, m)' = SrvRecv(id)' + WindowAfter(Acked(m)) - srvWindow - Total(Sizes(toServer, id), m)
        BY <3>1 DEF Level
      <4> QED
        BY <4>1, <4>2 DEF Level
    <3> QED
      BY <3>2, <3>3
  <2>2. \A p \in 1..Len(toServer) : toServer[p].kind = "data" => toServer[p].id \in Ids
    BY <1>5, FrameShape DEF Summed
  <2>3. Live \subseteq Ids /\ \A i \in Live : streams[i].send \in Int /\ Granted(wire, i) \in Nat
    BY <1>0, <1>5 DEF Types, ClientStream, Summed
  <2>4. \A i \in Ids : \A m \in 0..Len(toServer) : Level(i, m) \in Int
    BY <1>5, LevelTyped DEF Flow
  <2>5. Len(toServer) \in 0..Len(toServer) /\ \A p \in 1..Len(toServer) : p \in 0..Len(toServer)
    BY <1>5 DEF Summed
  <2>6. ASSUME NEW i \in Live PROVE Level(i, Len(toServer))' = streams[i].send + Granted(wire', i)
    <3>1. Level(i, Len(toServer)) = streams[i].send + Granted(wire, i)
      BY <1>5 DEF Flow, UploadLedger
    <3>2. Level(i, Len(toServer))' = IF i = id THEN Level(i, Len(toServer)) + n ELSE Level(i, Len(toServer))
      BY <1>3, <2>1, <2>3, <2>5
    <3> QED
      BY <1>7, <2>3, <3>1, <3>2
  <2>7. ASSUME NEW p \in 1..Len(toServer), NEW i,
               toServer[p].kind = "data", toServer[p].size > 0, toServer[p].id = i
        PROVE  Level(i, p)' >= 0
    <3>1. i \in Ids /\ Level(i, p) >= 0 /\ Level(i, p) \in Int
      BY <1>5, <2>2, <2>4, <2>5, <2>7 DEF Flow, UploadLedger
    <3>2. Level(i, p)' = IF i = id THEN Level(i, p) + n ELSE Level(i, p)
      BY <2>1, <2>5, <3>1
    <3> QED
      BY <3>1, <3>2
  <2> QED
    BY <1>3, <1>6, <2>6, <2>7 DEF UploadLedger
<1>12. DownloadLedger'
  BY <1>0, <1>3, <1>5, <1>6, <1>7, <1>8 DEF DownloadLedger, Flow, Types
<1> QED
  BY <1>5, <1>9, <1>10, <1>11, <1>12 DEF Inv, Flow

\* The server announces other windows for its streams.
LEMMA SettingsServed ==
    ASSUME Inv, streamOpen, NEW v \in Settings,
           Post([kind |-> "settings", id |-> OnConnection, values |-> v]),
           unacked' = Append(unacked, v.window),
           UNCHANGED <<conn, driver, toServer, srvRecv, srvSend, srvWindow, srvStreams, past>>
    PROVE  Inv'
<1> DEFINE f == [kind |-> "settings", id |-> OnConnection, values |-> v]
           W == Len(wire)
           U == Len(unacked)
<1>1. Types /\ WindowsInStep /\ NeverOverrun /\ Flow /\ pc # "ended"
  BY DEF Inv, Flow
<1>2. v \in Announcements /\ v.window \in Nat
  BY H2Assumption DEF Announcements
<1>3. /\ f \in ToClient /\ f.kind = "settings" /\ f.values = v
      /\ \A i : SizeOf(f, i) = 0 /\ GrantOf(f, i) = 0 /\ MarkOf(f, "settings") = 1
  BY <1>2 DEF ToClient, SizeOf, GrantOf, MarkOf
<1>4. wire' = Append(wire, f)
  BY DEF Post
<1> HIDE DEF f
<1>5. /\ sendWindow' = sendWindow /\ recvWindow' = recvWindow /\ streams' = streams /\ peer' = peer
      /\ streamOpen' = streamOpen /\ pc' = pc /\ highest' = highest /\ left' = left /\ ended' = ended
      /\ Live' = Live /\ Known' = Known /\ UNCHANGED <<wasted, overrun, verdict>>
  BY DEF conn, driver, past, Live, Known
<1>6. ToClient \in SUBSET Frame /\ wire \in Seq(ToClient) /\ ToServer \in SUBSET Frame /\ toServer \in Seq(ToServer)
  BY <1>1 DEF Frame, Types
<1>7. wire' \in Seq(ToClient) /\ Extended(wire, f, wire') /\ Summed(wire) /\ Summed(toServer)
  BY <1>3, <1>4, <1>6, OneMore, FramesSummed
<1>8. unacked' \in Seq(Nat) /\ Len(unacked') = U + 1 /\ unacked'[U + 1] = v.window
      /\ \A n \in 1..U : unacked'[n] = unacked[n]
  BY <1>1, <1>2, AppendProperties DEF Types
<1>9. \A i : Charged(wire', i) = Charged(wire, i) /\ Granted(wire', i) = Granted(wire, i)
  BY <1>3, <1>7 DEF Extended, Summed
<1>10. W \in Nat /\ U \in Nat /\ Len(toServer) \in Nat
       /\ \A n \in 0..Len(toServer) : Acked(n) \in 0..InAcks /\ InAcks \in 0..U
  BY <1>1, <1>7, LevelTyped DEF Flow, Summed
<1>11. Types'
  BY <1>1, <1>5, <1>7, <1>8 DEF Types
<1>12. NeverOverrun' /\ WindowsInStep' /\ InHand' /\ Halves'
  BY <1>1, <1>5, <1>9 DEF Flow, NeverOverrun, WindowsInStep, InHand, Bounded, Halves
<1>13. Introduced'
  <2>1. ASSUME NEW p \in 1..Len(wire'), wire'[p].kind \in {"data", "grant"}
        PROVE  wire'[p].id \in {OnConnection} \cup Known
    <3>1. /\ Len(wire') = W + 1 /\ wire'[W + 1] = f /\ W \in Nat
          /\ \A q \in 1..W : wire'[q] = wire[q]
      BY <1>7 DEF Extended, Summed
    <3>2. \A q \in 1..W : wire[q].kind \in {"data", "grant"} => wire[q].id \in {OnConnection} \cup Known
      BY <1>1 DEF Flow, Introduced
    <3>3. p # W + 1 /\ p \in 1..W
      BY <1>3, <2>1, <3>1
    <3> QED
      BY <2>1, <3>1, <3>2, <3>3
  <2> QED
    BY <1>1, <1>5, <2>1 DEF Flow, Introduced
<1>14. \A n \in 0..Len(toServer) : Acked(n)' = Acked(n) /\ WindowAfter(Acked(n))' = WindowAfter(Acked(n))
  <2>1. ASSUME NEW n \in 0..U PROVE WindowAfter(n)' = WindowAfter(n)
    BY <1>8, <1>10 DEF WindowAfter
  <2>2. ASSUME NEW n \in 0..Len(toServer)
        PROVE  Acked(n)' = Acked(n) /\ Acked(n) \in 0..U
    BY <1>10 DEF Acked
  <2> QED
    BY <2>1, <2>2 DEF WindowAfter
<1>15. AcksInOrder'
  <2>1. \A n \in 0..W : Asked(n)' = Asked(n) /\ Asked(n) \in Nat
    BY <1>7 DEF Asked, Extended, Summed
  <2>2. Asked(Len(wire))' = Asked(W) + 1 /\ Asked(W) \in Nat /\ Len(wire') = W + 1
    BY <1>3, <1>7 DEF Asked, Extended, Summed
  <2>3. InAcks' = InAcks /\ WindowAfter(InAcks)' = WindowAfter(InAcks) /\ InAcks \in Nat
    BY <1>10, <1>14 DEF InAcks
  <2>4. InAcks + Asked(W) = U /\ peer.window = WindowAfter(InAcks)
    BY <1>1 DEF Flow, AcksInOrder
  <2>5. InAcks' + Asked(Len(wire))' = Len(unacked')
    <3> DEFINE a == Asked(W)
               b == InAcks
    <3>1. a \in Nat /\ b \in Nat /\ b + a = U /\ U \in Nat
      BY <1>10, <2>2, <2>3, <2>4
    <3>2. Asked(Len(wire))' = a + 1 /\ InAcks' = b /\ Len(unacked') = U + 1
      BY <1>8, <2>2, <2>3
    <3> HIDE DEF a, b, U
    <3> QED
      BY <3>1, <3>2
  <2>6. ASSUME NEW q \in 1..Len(wire'), wire'[q].kind = "settings"
        PROVE  wire'[q].values.window = unacked'[InAcks + Asked(q)']
    <3>1. CASE q \in 1..W
      <4>1. Asked(q)' = Asked(q) /\ Asked(q) \in Nat /\ Asked(q) <= Asked(W) /\ wire'[q] = wire[q]
        BY <1>7, <1>10, <2>1, <3>1 DEF Summed, Extended, Asked
      <4>2. Asked(q) >= 1
        <5>1. MarkOf(wire[q], "settings") = 1 /\ q \in 1..Len(wire)
          BY <2>6, <3>1, <4>1 DEF MarkOf
        <5>2. /\ Asked(q) = Asked(q - 1) + MarkOf(wire[q], "settings")
              /\ Asked(q - 1) \in Nat
          BY <1>6, <5>1, MarkCounted DEF Asked
        <5> QED
          BY <5>1, <5>2
      <4>3. wire[q].values.window = unacked[InAcks + Asked(q)]
        BY <1>1, <2>6, <3>1, <4>1 DEF Flow, AcksInOrder
      <4>4. InAcks + Asked(q) \in 1..U
        BY <1>10, <2>2, <2>3, <2>4, <4>1, <4>2
      <4> QED
        BY <1>8, <4>1, <4>3, <4>4
    <3>2. CASE q = W + 1
      <4>1. Asked(q)' = Asked(W) + 1 /\ wire'[q] = f
        BY <1>3, <1>7, <3>2 DEF Asked, Extended
      <4> DEFINE a == Asked(W)
                 b == InAcks
                 c == Asked(q)'
      <4>2. a \in Nat /\ b \in Nat /\ b + a = U /\ U \in Nat /\ c = a + 1
        BY <1>10, <2>2, <2>3, <2>4, <4>1
      <4>3. wire'[q].values.window = unacked'[U + 1]
        BY <1>3, <1>8, <4>1
      <4>4. unacked'[b + c] = unacked'[U + 1]
        <5> HIDE DEF a, b, c, U
        <5>1. b + c = U + 1
          BY <4>2
        <5> QED
          BY <5>1
      <4> QED
        BY <4>3, <4>4
    <3>3. q \in 1..W \/ q = W + 1
      BY <1>10, <2>2
    <3> QED
      BY <3>1, <3>2, <3>3
  <2> QED
    BY <1>5, <2>3, <2>4, <2>5, <2>6 DEF AcksInOrder
<1>16. UploadLedger' /\ DownloadLedger'
  <2>1. \A i : SrvRecv(i)' = SrvRecv(i) /\ SrvSend(i)' = SrvSend(i)
    BY <1>5 DEF SrvRecv, SrvSend
  <2>2. \A i : \A n \in 0..Len(toServer) : Level(i, n)' = Level(i, n)
    BY <1>14, <2>1 DEF Level
  <2>3. Len(toServer) \in 0..Len(toServer) /\ \A p \in 1..Len(toServer) : p \in 0..Len(toServer)
    BY <1>10
  <2>4. \A i : Level(i, Len(toServer))' = Level(i, Len(toServer))
    BY <2>2, <2>3
  <2> QED
    BY <1>1, <1>5, <1>9, <2>1, <2>2, <2>3, <2>4 DEF Flow, UploadLedger, DownloadLedger
<1> QED
  BY <1>1, <1>5, <1>11, <1>12, <1>13, <1>15, <1>16 DEF Inv, Flow

LEMMA ChatterServed ==
    ASSUME Inv, streamOpen, ServerChatters
    PROVE  Inv'
<1>1. UNCHANGED <<conn, driver, toServer, srvRecv, srvSend, srvWindow, srvStreams, past>>
  BY DEF ServerChatters
<1>2. CASE \E v \in Settings :
             /\ Post([kind |-> "settings", id |-> OnConnection, values |-> v])
             /\ unacked' = Append(unacked, v.window)
  BY <1>1, <1>2, SettingsServed
<1>3. CASE Post([kind |-> "ping", id |-> OnConnection]) /\ UNCHANGED unacked
  <2> DEFINE f == [kind |-> "ping", id |-> OnConnection]
  <2>1. f \in ToClient /\ f.kind = "ping" /\ Post(f)
    BY <1>3 DEF ToClient
  <2> HIDE DEF f
  <2> QED
    BY <1>1, <1>3, <2>1, QuietChatter
<1> QED
  BY <1>2, <1>3 DEF ServerChatters

\* The server takes the next frame: what does not depend on which it is.
LEMMA ServerTakes ==
    ASSUME Inv, streamOpen, NEW f, f = Head(toServer), toServer # <<>>, toServer' = Tail(toServer),
           UNCHANGED <<conn, driver, wire, verdict, wasted>>,
           Known' = IF f.kind = "head" THEN Known \cup {f.id} ELSE Known
    PROVE  /\ Types /\ WindowsInStep /\ NeverOverrun /\ Flow
           /\ f \in ToServer /\ toServer' \in Seq(ToServer) /\ Shortened(toServer, f, toServer')
           /\ Summed(toServer) /\ Summed(toServer') /\ Summed(wire) /\ 1 \in 1..Len(toServer)
           /\ InHand' /\ Halves' /\ Introduced' /\ (pc = "ended" <=> ~streamOpen)'
           /\ (\A id \in Ids : \A n \in 0..(Len(toServer) - 1) : Level(id, n)' = Level(id, n + 1))
                => UploadLedger'
<1>1. Types /\ WindowsInStep /\ NeverOverrun /\ Flow /\ pc # "ended"
  BY DEF Inv, Flow
<1>2. /\ sendWindow' = sendWindow /\ recvWindow' = recvWindow /\ streams' = streams /\ peer' = peer
      /\ streamOpen' = streamOpen /\ pc' = pc /\ highest' = highest /\ ended' = ended /\ Live' = Live
  BY DEF conn, driver, Live
<1>3. ToClient \in SUBSET Frame /\ wire \in Seq(ToClient) /\ ToServer \in SUBSET Frame /\ toServer \in Seq(ToServer)
  BY <1>1 DEF Frame, Types
<1>4. f \in ToServer /\ toServer' \in Seq(ToServer) /\ Shortened(toServer, f, toServer')
  BY <1>3, OneLess
<1>5. Summed(toServer) /\ Summed(toServer') /\ Summed(wire)
  BY <1>3, <1>4, FramesSummed
<1> DEFINE P == Len(toServer)
<1>6. /\ P \in Nat /\ P # 0 /\ 1 \in 1..P /\ Len(toServer') = P - 1 /\ toServer[1] = f
      /\ \A p \in 1..(P - 1) : p + 1 \in 1..P /\ toServer'[p] = toServer[p + 1]
  BY <1>4, <1>5 DEF Summed, Shortened
<1>7. InHand' /\ Halves'
  BY <1>1, <1>2 DEF Flow, InHand, Bounded, Halves
<1>8. Introduced'
  <2>1. Introduced
    BY <1>1 DEF Flow
  <2>2. Known \subseteq Known' /\ Known' \subseteq 1..highest
    <3>1. Known \subseteq 1..highest /\ (f.kind = "head" => f.id \in 1..highest)
      BY <1>6, <2>1 DEF Introduced
    <3> QED
      BY <3>1
  <2>3. ASSUME NEW p \in 1..Len(toServer')
        PROVE  /\ toServer'[p].kind = "head" =>
                    /\ toServer'[p].id \in 1..highest /\ toServer'[p].id \notin Known'
                    /\ \A q \in 1..(p - 1) :
                         toServer'[q].kind = "head" => toServer'[q].id # toServer'[p].id
               /\ toServer'[p].kind = "data" =>
                    /\ toServer'[p].id \in 1..highest
                    /\ \/ toServer'[p].id \in Known'
                       \/ \E q \in 1..(p - 1) :
                            toServer'[q].kind = "head" /\ toServer'[q].id = toServer'[p].id
               /\ toServer'[p].kind = "grant" => toServer'[p].id \in {OnConnection} \cup Known'
    <3> DEFINE g == toServer[p + 1]
    <3>1. toServer'[p] = g /\ p + 1 \in 1..P /\ p \in 1..(P - 1)
      BY <1>6
    <3>2. /\ g.kind = "head" =>
               /\ g.id \in 1..highest /\ g.id \notin Known
               /\ \A q \in 1..p : toServer[q].kind = "head" => toServer[q].id # g.id
          /\ g.kind = "data" =>
               /\ g.id \in 1..highest
               /\ \/ g.id \in Known
                  \/ \E q \in 1..p : toServer[q].kind = "head" /\ toServer[q].id = g.id
          /\ g.kind = "grant" => g.id \in {OnConnection} \cup Known
      <4>1. (p + 1) - 1 = p
        OBVIOUS
      <4> QED
        BY <2>1, <3>1, <4>1 DEF Introduced
    <3>3. 1 \in 1..p /\ \A q \in 1..(p - 1) : q + 1 \in 1..p /\ toServer'[q] = toServer[q + 1]
      BY <1>6, <3>1
    <3>4. \A q \in 1..p : q = 1 \/ (q - 1 \in 1..(p - 1) /\ (q - 1) + 1 = q)
      BY <3>1
    <3> HIDE DEF g
    <3>5. g.kind = "head" => /\ g.id \in 1..highest /\ g.id \notin Known'
                             /\ \A q \in 1..(p - 1) : toServer'[q].kind = "head" => toServer'[q].id # g.id
      BY <1>6, <3>2, <3>3
    <3>6. ASSUME g.kind = "data"
          PROVE  /\ g.id \in 1..highest
                 /\ \/ g.id \in Known'
                    \/ \E q \in 1..(p - 1) : toServer'[q].kind = "head" /\ toServer'[q].id = g.id
      <4>1. CASE g.id \in Known
        BY <2>2, <3>2, <3>6, <4>1
      <4>2. CASE \E q \in 1..p : toServer[q].kind = "head" /\ toServer[q].id = g.id
        <5>1. PICK q \in 1..p : toServer[q].kind = "head" /\ toServer[q].id = g.id
          BY <4>2
        <5>2. CASE q = 1
          BY <1>6, <3>2, <3>6, <5>1, <5>2
        <5>3. CASE q - 1 \in 1..(p - 1) /\ (q - 1) + 1 = q
          <6>1. toServer'[q - 1] = toServer[q]
            BY <3>3, <5>3
          <6> QED
            BY <3>2, <3>6, <5>1, <5>3, <6>1
        <5> QED
          BY <3>4, <5>2, <5>3
      <4> QED
        BY <3>2, <3>6, <4>1, <4>2
    <3> QED
      BY <2>2, <3>1, <3>2, <3>5, <3>6
  <2>4. \A p \in 1..Len(wire) : wire[p].kind \in {"data", "grant"} => wire[p].id \in {OnConnection} \cup Known'
    BY <2>1, <2>2 DEF Introduced
  <2>5. ASSUME NEW i \in Live
        PROVE  i \in Known' \/ \E p \in 1..Len(toServer') : toServer'[p].kind = "head" /\ toServer'[p].id = i
    <3>1. CASE i \in Known
      BY <2>2, <3>1
    <3>2. CASE \E p \in 1..P : toServer[p].kind = "head" /\ toServer[p].id = i
      <4>1. PICK p \in 1..P : toServer[p].kind = "head" /\ toServer[p].id = i
        BY <3>2
      <4>2. CASE p = 1
        BY <1>6, <4>1, <4>2
      <4>3. CASE p # 1
        <5>1. p - 1 \in 1..(P - 1) /\ (p - 1) + 1 = p
          BY <1>6, <4>3
        <5>2. toServer'[p - 1] = toServer[p] /\ p - 1 \in 1..Len(toServer')
          BY <1>6, <5>1
        <5> QED
          BY <4>1, <5>2
      <4> QED
        BY <4>2, <4>3
    <3> QED
      BY <2>1, <3>1, <3>2 DEF Introduced
  <2>6. Live \subseteq 1..highest
    BY <2>1 DEF Introduced
  <2> QED
    BY <1>2, <2>2, <2>3, <2>4, <2>5, <2>6 DEF Introduced
<1>9. ASSUME \A id \in Ids : \A n \in 0..(P - 1) : Level(id, n)' = Level(id, n + 1)
      PROVE  UploadLedger'
  <2>1. Live \subseteq Ids /\ P - 1 \in 0..(P - 1) /\ (P - 1) + 1 = P
    BY <1>1, <1>6 DEF Types
  <2>2. ASSUME NEW i \in Live PROVE Level(i, Len(toServer))' = streams[i].send + Granted(wire, i)
    <3>1. Level(i, P) = streams[i].send + Granted(wire, i)
      BY <1>1 DEF Flow, UploadLedger
    <3>2. Level(i, Len(toServer))' = Level(i, P)
      BY <1>6, <1>9, <2>1
    <3> QED
      BY <3>1, <3>2
  <2>3. ASSUME NEW p \in 1..Len(toServer'), NEW i,
               toServer'[p].kind = "data", toServer'[p].size > 0, toServer'[p].id = i
        PROVE  Level(i, p)' >= 0
    <3>1. p \in 0..(P - 1) /\ p + 1 \in 1..P /\ toServer'[p] = toServer[p + 1]
      BY <1>6
    <3>2. i \in Ids
      BY <1>5, <2>3, <3>1, FrameShape DEF Summed
    <3>3. Level(i, p + 1) >= 0
      BY <1>1, <2>3, <3>1 DEF Flow, UploadLedger
    <3> QED
      BY <1>9, <3>1, <3>2, <3>3
  <2> QED
    BY <1>2, <2>2, <2>3 DEF UploadLedger
<1> QED
  BY <1>1, <1>2, <1>4, <1>5, <1>6, <1>7, <1>8, <1>9

\* The server takes what is no acknowledgement.
LEMMA OrderKept ==
    ASSUME Inv, streamOpen, NEW f, f = Head(toServer), toServer # <<>>, toServer' = Tail(toServer),
           f.kind # "ack", UNCHANGED <<conn, wire, srvWindow, unacked>>
    PROVE  /\ AcksInOrder'
           /\ \A n \in 0..(Len(toServer) - 1) : WindowAfter(Acked(n))' = WindowAfter(Acked(n + 1))
           /\ (\A id \in Ids : SrvRecv(id)' = SrvRecv(id) - SizeOf(f, id)) =>
                \A id \in Ids : \A n \in 0..(Len(toServer) - 1) : Level(id, n)' = Level(id, n + 1)
<1> DEFINE P == Len(toServer)
<1>1. Types /\ AcksInOrder /\ peer' = peer
  BY DEF Inv, Flow, conn
<1>2. ToServer \in SUBSET Frame /\ toServer \in Seq(ToServer) /\ ToClient \in SUBSET Frame /\ wire \in Seq(ToClient)
  BY <1>1 DEF Types, Frame
<1>3. f \in ToServer /\ Shortened(toServer, f, toServer') /\ toServer' \in Seq(ToServer)
  BY <1>2, OneLess
<1>4. Summed(toServer) /\ Summed(toServer') /\ Summed(wire)
  BY <1>2, <1>3, FramesSummed
<1>5. /\ P \in Nat /\ P # 0 /\ Len(toServer') = P - 1 /\ MarkOf(f, "ack") = 0
      /\ P - 1 \in 0..(P - 1) /\ (P - 1) + 1 = P /\ \A n \in 0..(P - 1) : n + 1 \in 0..P
  BY <1>3, <1>4 DEF Summed, Shortened, MarkOf
<1>6. ASSUME NEW n \in 0..(P - 1)
      PROVE  Acked(n)' = Acked(n + 1) /\ Acked(n + 1) \in Nat
  <2>1. /\ Total(Marks(toServer', "ack"), n) = Total(Marks(toServer, "ack"), n + 1) - MarkOf(f, "ack")
        /\ Total(Marks(toServer, "ack"), n + 1) \in Nat
    BY <1>3, <1>4, <1>5 DEF Shortened, Summed
  <2> QED
    BY <1>5, <2>1 DEF Acked
<1>7. InAcks' = InAcks
  <2>1. Total(Marks(toServer', "ack"), P - 1) = Acked(P)
    BY <1>5, <1>6 DEF Acked
  <2> QED
    BY <1>5, <2>1 DEF InAcks, Acked
<1>8. \A n \in 0..(P - 1) : WindowAfter(Acked(n))' = WindowAfter(Acked(n + 1))
  BY <1>6 DEF WindowAfter
<1>9. AcksInOrder'
  BY <1>1, <1>7 DEF AcksInOrder, Asked, WindowAfter
<1>10. ASSUME \A id \in Ids : SrvRecv(id)' = SrvRecv(id) - SizeOf(f, id), NEW id \in Ids, NEW n \in 0..(P - 1)
       PROVE  Level(id, n)' = Level(id, n + 1)
  <2>1. /\ Total(Sizes(toServer', id), n) = Total(Sizes(toServer, id), n + 1) - SizeOf(f, id)
        /\ SizeOf(f, id) \in Nat
    BY <1>2, <1>3, Measured DEF Shortened
  <2>2. /\ WindowAfter(Acked(n + 1)) \in Nat /\ srvWindow \in Nat /\ SrvRecv(id) \in Int
        /\ Total(Sizes(toServer, id), n + 1) \in Nat
    BY <1>1, <1>4, <1>5, LevelTyped
  <2>3. Level(id, n)' = SrvRecv(id)' + WindowAfter(Acked(n))' - srvWindow - Total(Sizes(toServer', id), n)
    BY DEF Level
  <2>4. Level(id, n + 1) = SrvRecv(id) + WindowAfter(Acked(n + 1)) - srvWindow - Total(Sizes(toServer, id), n + 1)
    BY DEF Level
  <2>5. WindowAfter(Acked(n))' = WindowAfter(Acked(n + 1)) /\ SrvRecv(id)' = SrvRecv(id) - SizeOf(f, id)
    BY <1>8, <1>10
  <2> QED
    BY <2>1, <2>2, <2>3, <2>4, <2>5
<1> QED
  BY <1>8, <1>9, <1>10

LEMMA HeadServed ==
    ASSUME Inv, streamOpen, ServerReads, ServerReadsHead(Head(toServer))
    PROVE  Inv'
<1> DEFINE f == Head(toServer)
           s == [stage |-> IF srvLast # Nothing /\ f.id > srvLast THEN "done" ELSE "asked",
                 recv |-> srvWindow, send |-> RecvCapacity, whole |-> f.end]
<1>1. /\ toServer # <<>> /\ toServer' = Tail(toServer) /\ f.kind = "head"
      /\ srvStreams' = [i \in Known \cup {f.id} |-> IF i = f.id THEN s ELSE srvStreams[i]]
      /\ UNCHANGED <<conn, driver, wire, verdict, wasted, srvRecv, srvSend, srvWindow, unacked, overrun>>
  BY DEF ServerReads, ServerReadsHead
<1>2. Known' = IF f.kind = "head" THEN Known \cup {f.id} ELSE Known
  BY <1>1 DEF Known
<1>3. /\ Types /\ WindowsInStep /\ NeverOverrun /\ Flow
      /\ f \in ToServer /\ toServer' \in Seq(ToServer) /\ Shortened(toServer, f, toServer')
      /\ Summed(toServer) /\ 1 \in 1..Len(toServer)
      /\ InHand' /\ Halves' /\ Introduced' /\ (pc = "ended" <=> ~streamOpen)'
      /\ (\A id \in Ids : \A n \in 0..(Len(toServer) - 1) : Level(id, n)' = Level(id, n + 1))
                => UploadLedger'
  BY <1>1, <1>2, ServerTakes
<1>4. f.id \in Ids /\ f.end \in BOOLEAN /\ f.id \notin Known
  <2>1. f.id \in Ids /\ f.end \in BOOLEAN
    BY <1>1, <1>3 DEF ToServer
  <2>2. f = toServer[1] /\ Introduced
    BY <1>3 DEF Shortened, Flow
  <2> QED
    BY <1>1, <1>3, <2>1, <2>2 DEF Introduced
<1>5. s \in ServerStream /\ s.recv = srvWindow /\ s.send = RecvCapacity
  BY <1>3, <1>4, H2Assumption DEF ServerStream, Types
<1> HIDE DEF f, s
<1>6. /\ sendWindow' = sendWindow /\ recvWindow' = recvWindow /\ streams' = streams /\ peer' = peer
      /\ streamOpen' = streamOpen /\ pc' = pc /\ highest' = highest /\ left' = left /\ ended' = ended
      /\ Live' = Live
  BY <1>1 DEF conn, driver, Live
<1>7. /\ \A i : SizeOf(f, i) = 0 /\ GrantOf(f, i) = 0
      /\ \A i : Charged(toServer', i) = Charged(toServer, i) /\ Granted(toServer', i) = Granted(toServer, i)
  <2>1. \A i : SizeOf(f, i) = 0 /\ GrantOf(f, i) = 0
    BY <1>1 DEF SizeOf, GrantOf
  <2> QED
    BY <1>3, <2>1 DEF Shortened, Summed
<1>8. \A i \in Ids : SrvRecv(i)' = SrvRecv(i) /\ SrvSend(i)' = SrvSend(i)
  BY <1>1, <1>2, <1>4, <1>5 DEF SrvRecv, SrvSend
<1>9. AcksInOrder' /\ UploadLedger'
  <2>1. \A i \in Ids : SrvRecv(i) \in Int
    BY <1>3 DEF Types, SrvRecv, ServerStream
  <2>2. \A i \in Ids : SrvRecv(i)' = SrvRecv(i) - SizeOf(f, i)
    BY <1>7, <1>8, <2>1
  <2>3. f.kind # "ack"
    BY <1>1
  <2> QED
    BY <1>1, <1>3, <2>2, <2>3, OrderKept DEF f
<1>10. Types'
  <2>1. Known' \subseteq Ids /\ srvStreams' \in [Known' -> ServerStream]
    BY <1>1, <1>2, <1>3, <1>4, <1>5 DEF Types
  <2> QED
    BY <1>1, <1>3, <1>6, <2>1 DEF Types
<1>11. WindowsInStep' /\ NeverOverrun'
  BY <1>1, <1>3, <1>6, <1>7 DEF WindowsInStep, NeverOverrun
<1>12. DownloadLedger'
  BY <1>1, <1>3, <1>6, <1>7, <1>8 DEF DownloadLedger, Flow, Types
<1> QED
  BY <1>3, <1>9, <1>10, <1>11, <1>12 DEF Inv, Flow

LEMMA DataServed ==
    ASSUME Inv, streamOpen, ServerReads, ServerReadsData(Head(toServer))
    PROVE  Inv'
<1> DEFINE f == Head(toServer)
           o == srvStreams[f.id]
           s == [o EXCEPT !.recv = @ - f.size, !.whole = f.end]
<1>1. /\ toServer # <<>> /\ toServer' = Tail(toServer) /\ f.kind = "data"
      /\ srvStreams' = [srvStreams EXCEPT ![f.id] = s] /\ srvRecv' = srvRecv - f.size
      /\ overrun' = (overrun \/ (f.size > 0 /\ (f.size > srvRecv \/ f.size > o.recv)))
      /\ UNCHANGED <<conn, driver, wire, verdict, wasted, srvSend, srvWindow, unacked>>
  <2>1. ServerReadsData(f) /\ toServer # <<>> /\ toServer' = Tail(toServer)
        /\ UNCHANGED <<conn, driver, wire, verdict, wasted>>
    BY DEF ServerReads
  <2>3. srvStreams' = [srvStreams EXCEPT ![f.id] = s]
    BY <2>1 DEF ServerReadsData
  <2>4. overrun' = (overrun \/ (f.size > 0 /\ (f.size > srvRecv \/ f.size > o.recv)))
    BY <2>1 DEF ServerReadsData
  <2>5. f.kind = "data" /\ srvRecv' = srvRecv - f.size /\ UNCHANGED <<srvSend, srvWindow, unacked>>
    BY <2>1 DEF ServerReadsData
  <2> HIDE DEF f, o, s
  <2> QED
    BY <2>1, <2>3, <2>4, <2>5
<1>2. Known' = IF f.kind = "head" THEN Known \cup {f.id} ELSE Known
  BY <1>1 DEF Known
<1>3. /\ Types /\ WindowsInStep /\ NeverOverrun /\ Flow
      /\ f \in ToServer /\ toServer' \in Seq(ToServer) /\ Shortened(toServer, f, toServer')
      /\ Summed(toServer) /\ Summed(toServer') /\ Summed(wire) /\ 1 \in 1..Len(toServer)
      /\ InHand' /\ Halves' /\ Introduced' /\ (pc = "ended" <=> ~streamOpen)'
      /\ (\A id \in Ids : \A n \in 0..(Len(toServer) - 1) : Level(id, n)' = Level(id, n + 1))
                => UploadLedger'
  BY <1>1, <1>2, ServerTakes
<1>4. f.id \in Ids /\ f.end \in BOOLEAN /\ f.size \in Nat /\ f.pad = 0 /\ f.id # OnConnection
  BY <1>1, <1>3 DEF ToServer, Ids, OnConnection
<1>5. f = toServer[1] /\ Len(toServer) \in Nat
  BY <1>3 DEF Shortened, Summed
<1>6. f.id \in Known
  <2>1. Introduced /\ 1..(1 - 1) = {}
    BY <1>3 DEF Flow
  <2> QED
    BY <1>1, <1>3, <1>5, <2>1 DEF Introduced
<1>7. o \in ServerStream /\ o.recv \in Int /\ s \in ServerStream
      /\ s.recv = o.recv - f.size /\ s.send = o.send
  <2>1. o \in ServerStream /\ o.recv \in Int
    BY <1>3, <1>6 DEF Types, ServerStream
  <2> DEFINE r == o.recv - f.size
  <2>2. r \in Int /\ s = [o EXCEPT !.recv = r, !.whole = f.end]
    BY <1>4, <2>1
  <2> HIDE DEF r, o, f
  <2>3. s \in ServerStream /\ s.recv = r /\ s.send = o.send
    BY <1>4, <2>1, <2>2 DEF ServerStream
  <2> QED
    BY <2>1, <2>3 DEF r
<1> HIDE DEF f, s, o
<1>8. /\ sendWindow' = sendWindow /\ recvWindow' = recvWindow /\ streams' = streams /\ peer' = peer
      /\ streamOpen' = streamOpen /\ pc' = pc /\ highest' = highest /\ left' = left /\ ended' = ended
      /\ Live' = Live
  BY <1>1 DEF conn, driver, Live
<1>9. /\ SizeOf(f, f.id) = f.size /\ SizeOf(f, OnConnection) = f.size
      /\ \A i \in Ids : i # f.id => SizeOf(f, i) = 0
      /\ \A i : GrantOf(f, i) = 0
  BY <1>1, <1>4 DEF SizeOf, GrantOf, Ids, OnConnection
<1>10. /\ Charged(toServer', OnConnection) = Charged(toServer, OnConnection) - f.size
       /\ \A i : Granted(toServer', i) = Granted(toServer, i)
  <2>1. \A i : /\ Charged(toServer', i) = Charged(toServer, i) - SizeOf(f, i)
               /\ Granted(toServer', i) = Granted(toServer, i) - GrantOf(f, i)
    BY <1>3 DEF Shortened
  <2>2. \A i : Granted(toServer, i) \in Nat
    BY <1>3 DEF Summed
  <2> QED
    BY <1>9, <2>1, <2>2
<1>11. /\ \A i \in Ids : SrvRecv(i)' = SrvRecv(i) - SizeOf(f, i) /\ SrvSend(i)' = SrvSend(i)
  <2>1. \A i \in Ids : SrvRecv(i) \in Int
    BY <1>3 DEF Types, SrvRecv, ServerStream
  <2>2. \A i \in Known : i # f.id => srvStreams'[i] = srvStreams[i]
    BY <1>1, <1>3 DEF Types
  <2>3. srvStreams'[f.id] = s
    BY <1>1, <1>3, <1>6 DEF Types
  <2>4. ASSUME NEW i \in Ids, i = f.id
        PROVE  SrvRecv(i)' = SrvRecv(i) - SizeOf(f, i) /\ SrvSend(i)' = SrvSend(i)
    <3>1. i \in Known /\ i \in Known' /\ srvStreams'[i] = s /\ o = srvStreams[i] /\ SizeOf(f, i) = f.size
      BY <1>1, <1>2, <1>6, <1>9, <2>3, <2>4 DEF o
    <3> QED
      BY <1>7, <3>1 DEF SrvRecv, SrvSend
  <2>5. ASSUME NEW i \in Ids, i # f.id
        PROVE  SrvRecv(i)' = SrvRecv(i) - SizeOf(f, i) /\ SrvSend(i)' = SrvSend(i)
    <3>1. SrvRecv(i)' = SrvRecv(i) /\ SrvSend(i)' = SrvSend(i)
      BY <1>1, <1>2, <2>2, <2>5 DEF SrvRecv, SrvSend
    <3> QED
      BY <1>9, <2>1, <2>5, <3>1
  <2> QED
    BY <1>4, <2>4, <2>5
<1>12. AcksInOrder' /\ UploadLedger'
  <2>1. f.kind # "ack"
    BY <1>1
  <2> QED
    BY <1>1, <1>3, <1>11, <2>1, OrderKept DEF f
<1>13. ~(f.size > 0 /\ (f.size > srvRecv \/ f.size > o.recv))
  <2>1. srvRecv = sendWindow + Charged(toServer, OnConnection) + Granted(wire, OnConnection)
        /\ srvRecv \in Int /\ sendWindow \in Nat
    BY <1>3 DEF WindowsInStep, Types
  <2>2. Charged(toServer, OnConnection) \in Nat /\ Charged(toServer', OnConnection) \in Nat
        /\ Granted(wire, OnConnection) \in Nat
    BY <1>3 DEF Summed
  <2>3. f.size <= srvRecv
    BY <1>4, <1>10, <2>1, <2>2
  <2>4. ASSUME f.size > 0 PROVE f.size <= o.recv
    <3>1. Level(f.id, 1) >= 0
      BY <1>1, <1>3, <1>5, <2>4 DEF Flow, UploadLedger
    <3>2. Acked(1) = 0
      <4>1. MarkOf(toServer[1], "ack") = 0 /\ ToServer \in SUBSET Frame /\ toServer \in Seq(ToServer)
        BY <1>1, <1>3, <1>5 DEF MarkOf, Types, Frame
      <4>2. Total(Marks(toServer, "ack"), 1) = Total(Marks(toServer, "ack"), 1 - 1) + 0
        BY <1>3, <4>1, MarkCounted
      <4>3. Total(Marks(toServer, "ack"), 0) = 0
        BY <1>3 DEF Summed
      <4> QED
        BY <4>2, <4>3 DEF Acked
    <3>3. Total(Sizes(toServer, f.id), 1) = f.size
      <4>1. 0 \in 0..(Len(toServer) - 1) /\ 0 + 1 = 1 /\ 1 \in 0..Len(toServer) /\ 0 \in 0..Len(toServer')
        BY <1>3, <1>5 DEF Summed
      <4>2. Total(Sizes(toServer', f.id), 0) = Total(Sizes(toServer, f.id), 1) - SizeOf(f, f.id)
        BY <1>3, <4>1 DEF Shortened
      <4>3. Total(Sizes(toServer', f.id), 0) = 0 /\ Total(Sizes(toServer, f.id), 1) \in Nat
        BY <1>3, <4>1 DEF Summed
      <4> QED
        BY <1>4, <1>9, <4>2, <4>3
    <3>4. Level(f.id, 1) = o.recv - f.size
      <4>1. SrvRecv(f.id) = o.recv /\ WindowAfter(Acked(1)) = srvWindow /\ srvWindow \in Nat
        BY <1>3, <1>6, <3>2 DEF SrvRecv, o, WindowAfter, Types
      <4> QED
        BY <1>4, <1>7, <3>3, <4>1 DEF Level
    <3> QED
      BY <1>4, <1>7, <3>1, <3>4
  <2> QED
    BY <1>4, <1>7, <2>1, <2>3, <2>4
<1>14. NeverOverrun' /\ overrun' \in BOOLEAN
  BY <1>1, <1>3, <1>13 DEF NeverOverrun
<1>15. Types'
  <2>1. Known' = Known /\ srvStreams' \in [Known -> ServerStream]
    BY <1>1, <1>2, <1>3, <1>6, <1>7 DEF Types
  <2>2. srvRecv' \in Int
    BY <1>1, <1>3, <1>4 DEF Types
  <2> QED
    BY <1>1, <1>3, <1>8, <1>14, <2>1, <2>2 DEF Types
<1>16. WindowsInStep'
  <2>1. /\ srvRecv = sendWindow + Charged(toServer, OnConnection) + Granted(wire, OnConnection)
        /\ recvWindow.allowed = srvSend + Charged(wire, OnConnection) + Granted(toServer, OnConnection)
        /\ sendWindow \in Nat
    BY <1>3 DEF WindowsInStep, Types
  <2>2. Charged(toServer, OnConnection) \in Nat /\ Granted(wire, OnConnection) \in Nat
    BY <1>3 DEF Summed
  <2>3. srvRecv' = sendWindow + Charged(toServer', OnConnection) + Granted(wire, OnConnection)
    BY <1>1, <1>4, <1>10, <2>1, <2>2
  <2> QED
    BY <1>1, <1>8, <1>10, <2>1, <2>3 DEF WindowsInStep
<1>17. DownloadLedger'
  BY <1>1, <1>3, <1>8, <1>10, <1>11 DEF DownloadLedger, Flow, Types
<1> QED
  BY <1>3, <1>12, <1>14, <1>15, <1>16, <1>17 DEF Inv, Flow

LEMMA GrantServed ==
    ASSUME Inv, streamOpen, ServerReads, ServerReadsGrant(Head(toServer))
    PROVE  Inv'
<1> DEFINE f == Head(toServer)
<1>1. /\ toServer # <<>> /\ toServer' = Tail(toServer) /\ f.kind = "grant"
      /\ srvSend' = srvSend + (IF f.id = OnConnection THEN f.size ELSE 0)
      /\ srvStreams' = IF f.id = OnConnection THEN srvStreams
                       ELSE [srvStreams EXCEPT ![f.id].send = @ + f.size]
      /\ UNCHANGED <<conn, driver, wire, verdict, wasted, srvRecv, srvWindow, unacked, overrun>>
  BY DEF ServerReads, ServerReadsGrant
<1>2. Known' = Known /\ Known' = IF f.kind = "head" THEN Known \cup {f.id} ELSE Known
  BY <1>1 DEF Known
<1>3. /\ Types /\ WindowsInStep /\ NeverOverrun /\ Flow
      /\ f \in ToServer /\ toServer' \in Seq(ToServer) /\ Shortened(toServer, f, toServer')
      /\ Summed(toServer) /\ Summed(toServer') /\ Summed(wire) /\ 1 \in 1..Len(toServer)
      /\ InHand' /\ Halves' /\ Introduced' /\ (pc = "ended" <=> ~streamOpen)'
      /\ (\A id \in Ids : \A n \in 0..(Len(toServer) - 1) : Level(id, n)' = Level(id, n + 1))
                => UploadLedger'
  BY <1>1, <1>2, ServerTakes
<1>4. f.id \in 0..Requests /\ f.size \in Nat /\ f.id \in {OnConnection} \cup Known
  <2>1. f.id \in 0..Requests /\ f.size \in Nat
    BY <1>1, <1>3 DEF ToServer
  <2>2. f = toServer[1] /\ Introduced
    BY <1>3 DEF Shortened, Flow
  <2> QED
    BY <1>1, <1>3, <2>1, <2>2 DEF Introduced
<1> HIDE DEF f
<1>5. /\ srvStreams' \in [Known -> ServerStream] /\ srvSend' \in Nat
      /\ \A i \in Known : srvStreams'[i].recv = srvStreams[i].recv
      /\ \A i \in Known : srvStreams'[i].send = srvStreams[i].send + (IF i = f.id THEN f.size ELSE 0)
  <2>1. srvStreams \in [Known -> ServerStream] /\ srvSend \in Nat /\ OnConnection \notin Known
        /\ \A i \in Known : srvStreams[i].send \in Nat
    BY <1>3 DEF Types, Ids, OnConnection, ServerStream
  <2>2. CASE f.id = OnConnection
    BY <1>1, <1>4, <2>1, <2>2
  <2>3. CASE f.id # OnConnection
    <3> DEFINE n == srvStreams[f.id].send + f.size
               s == [srvStreams[f.id] EXCEPT !.send = n]
    <3>1. f.id \in Known /\ n \in Nat
      BY <1>4, <2>1, <2>3
    <3>2. srvStreams' = [srvStreams EXCEPT ![f.id] = s]
      BY <1>1, <2>3
    <3>3. s \in ServerStream /\ s.recv = srvStreams[f.id].recv /\ s.send = n
      <4> HIDE DEF n
      <4> QED
        BY <2>1, <3>1 DEF ServerStream
    <3> HIDE DEF s
    <3>4. srvSend' = srvSend
      BY <1>1, <2>1, <2>3
    <3> QED
      BY <2>1, <3>1, <3>2, <3>3, <3>4
  <2> QED
    BY <2>2, <2>3
<1>6. /\ sendWindow' = sendWindow /\ recvWindow' = recvWindow /\ streams' = streams /\ peer' = peer
      /\ streamOpen' = streamOpen /\ pc' = pc /\ highest' = highest /\ left' = left /\ ended' = ended
      /\ Live' = Live
  BY <1>1 DEF conn, driver, Live
<1>7. \A i : SizeOf(f, i) = 0 /\ GrantOf(f, i) = IF i = f.id THEN f.size ELSE 0
  BY <1>1 DEF SizeOf, GrantOf
<1>8. /\ \A i : Charged(toServer', i) = Charged(toServer, i)
      /\ \A i : Granted(toServer', i) = Granted(toServer, i) - (IF i = f.id THEN f.size ELSE 0)
  BY <1>3, <1>7 DEF Shortened, Summed
<1>9. \A i \in Live : i \in Known \/ i # f.id
  BY <1>3, <1>4 DEF Types, Ids, OnConnection
<1>10. AcksInOrder' /\ UploadLedger'
  <2>1. ASSUME NEW i \in Ids PROVE SrvRecv(i) \in Int /\ SrvRecv(i)' = SrvRecv(i)
    <3>1. CASE i \in Known
      <4>1. srvStreams[i] \in ServerStream
        BY <1>3, <3>1 DEF Types
      <4>2. srvStreams'[i].recv = srvStreams[i].recv /\ srvStreams[i].recv \in Int
        BY <1>1, <3>1, <4>1 DEF ServerStream, Known
      <4> QED
        BY <1>2, <3>1, <4>2 DEF SrvRecv
    <3>2. CASE i \notin Known
      <4>1. srvWindow' = srvWindow /\ srvWindow \in Int
        BY <1>1, <1>3 DEF Types
      <4> QED
        BY <1>2, <3>2, <4>1 DEF SrvRecv
    <3> QED
      BY <3>1, <3>2
  <2>2. \A i \in Ids : SrvRecv(i)' = SrvRecv(i) - SizeOf(f, i)
    BY <1>7, <2>1
  <2>3. f.kind # "ack"
    BY <1>1
  <2> QED
    BY <1>1, <1>3, <2>2, <2>3, OrderKept DEF f
<1>11. Types'
  BY <1>1, <1>2, <1>3, <1>5, <1>6 DEF Types
<1>12. NeverOverrun' /\ WindowsInStep'
  <2>1. /\ srvRecv = sendWindow + Charged(toServer, OnConnection) + Granted(wire, OnConnection)
        /\ recvWindow.allowed = srvSend + Charged(wire, OnConnection) + Granted(toServer, OnConnection)
        /\ srvSend \in Nat
    BY <1>3 DEF WindowsInStep, Types
  <2>2. Charged(wire, OnConnection) \in Nat /\ Granted(toServer, OnConnection) \in Nat
    BY <1>3 DEF Summed
  <2>3. recvWindow.allowed = srvSend' + Charged(wire, OnConnection) + Granted(toServer', OnConnection)
    <3> DEFINE n == IF f.id = OnConnection THEN f.size ELSE 0
    <3>1. n \in Nat /\ srvSend' = srvSend + n
          /\ Granted(toServer', OnConnection) = Granted(toServer, OnConnection) - n
      BY <1>1, <1>4, <1>8
    <3> HIDE DEF n
    <3> QED
      BY <2>1, <2>2, <3>1
  <2> QED
    BY <1>1, <1>3, <1>6, <1>8, <2>1, <2>3 DEF WindowsInStep, NeverOverrun
<1>13. DownloadLedger'
  <2>1. ASSUME NEW i \in Live
        PROVE  streams[i].allowed = SrvSend(i)' + Charged(wire, i) + Granted(toServer', i)
    <3>1. streams[i].allowed = SrvSend(i) + Charged(wire, i) + Granted(toServer, i)
      BY <1>3 DEF Flow, DownloadLedger
    <3>2. SrvSend(i) \in Int /\ Charged(wire, i) \in Nat /\ Granted(toServer, i) \in Nat
      BY <1>3, H2Assumption DEF Types, Summed, SrvSend, ServerStream
    <3> DEFINE n == IF i = f.id THEN f.size ELSE 0
    <3>3. n \in Nat /\ Granted(toServer', i) = Granted(toServer, i) - n
      BY <1>4, <1>8
    <3>4. SrvSend(i)' = SrvSend(i) + n
      <4>1. CASE i \in Known
        BY <1>2, <1>5, <4>1 DEF SrvSend
      <4>2. CASE i \notin Known
        BY <1>2, <1>9, <3>2, <4>2 DEF SrvSend
      <4> QED
        BY <4>1, <4>2
    <3> HIDE DEF n
    <3> QED
      BY <3>1, <3>2, <3>3, <3>4
  <2> QED
    BY <1>1, <1>6, <2>1 DEF DownloadLedger
<1> QED
  BY <1>3, <1>10, <1>11, <1>12, <1>13 DEF Inv, Flow

LEMMA PongServed ==
    ASSUME Inv, streamOpen, ServerReads, ServerReadsPong(Head(toServer))
    PROVE  Inv'
<1> DEFINE f == Head(toServer)
<1>1. /\ toServer # <<>> /\ toServer' = Tail(toServer) /\ f.kind = "pong"
      /\ UNCHANGED <<conn, driver, wire, verdict, wasted, srvRecv, srvSend, srvStreams, srvWindow,
                     unacked, overrun>>
  BY DEF ServerReads, ServerReadsPong
<1>2. Known' = Known /\ Known' = IF f.kind = "head" THEN Known \cup {f.id} ELSE Known
  BY <1>1 DEF Known
<1>3. /\ Types /\ WindowsInStep /\ NeverOverrun /\ Flow
      /\ f \in ToServer /\ toServer' \in Seq(ToServer) /\ Shortened(toServer, f, toServer')
      /\ Summed(toServer) /\ InHand' /\ Halves' /\ Introduced' /\ (pc = "ended" <=> ~streamOpen)'
      /\ (\A id \in Ids : \A n \in 0..(Len(toServer) - 1) : Level(id, n)' = Level(id, n + 1))
                => UploadLedger'
  BY <1>1, <1>2, ServerTakes
<1> HIDE DEF f
<1>4. /\ sendWindow' = sendWindow /\ recvWindow' = recvWindow /\ streams' = streams /\ peer' = peer
      /\ streamOpen' = streamOpen /\ pc' = pc /\ highest' = highest /\ left' = left /\ ended' = ended
      /\ Live' = Live
  BY <1>1 DEF conn, driver, Live
<1>5. \A i : SizeOf(f, i) = 0 /\ GrantOf(f, i) = 0
  BY <1>1 DEF SizeOf, GrantOf
<1>6. \A i : Charged(toServer', i) = Charged(toServer, i) /\ Granted(toServer', i) = Granted(toServer, i)
  BY <1>3, <1>5 DEF Shortened, Summed
<1>7. \A i : SrvRecv(i)' = SrvRecv(i) /\ SrvSend(i)' = SrvSend(i)
  BY <1>1, <1>2 DEF SrvRecv, SrvSend
<1>8. AcksInOrder' /\ UploadLedger'
  <2>1. \A i \in Ids : SrvRecv(i) \in Int
    BY <1>3 DEF Types, SrvRecv, ServerStream
  <2>2. \A i \in Ids : SrvRecv(i)' = SrvRecv(i) - SizeOf(f, i)
    BY <1>5, <1>7, <2>1
  <2>3. f.kind # "ack"
    BY <1>1
  <2> QED
    BY <1>1, <1>3, <2>2, <2>3, OrderKept DEF f
<1>9. Types' /\ NeverOverrun' /\ WindowsInStep' /\ DownloadLedger'
  BY <1>1, <1>2, <1>3, <1>4, <1>6, <1>7 DEF Types, NeverOverrun, WindowsInStep, DownloadLedger, Flow
<1> QED
  BY <1>3, <1>8, <1>9 DEF Inv, Flow

\* The server takes an acknowledgement of the oldest of its SETTINGS.
LEMMA AckServed ==
    ASSUME Inv, streamOpen, ServerReads, ServerReadsAck(Head(toServer))
    PROVE  Inv'
<1> DEFINE f == Head(toServer)
           P == Len(toServer)
           U == Len(unacked)
           delta == Head(unacked) - srvWindow
<1>1. /\ toServer # <<>> /\ toServer' = Tail(toServer) /\ f.kind = "ack"
      /\ srvStreams' = [i \in Known |-> [srvStreams[i] EXCEPT !.recv = @ + delta]]
      /\ srvWindow' = Head(unacked) /\ unacked' = Tail(unacked)
      /\ UNCHANGED <<conn, driver, wire, verdict, wasted, srvRecv, srvSend, overrun>>
  BY DEF ServerReads, ServerReadsAck
<1>2. Known' = Known /\ Known' = IF f.kind = "head" THEN Known \cup {f.id} ELSE Known
  BY <1>1 DEF Known
<1>3. /\ Types /\ WindowsInStep /\ NeverOverrun /\ Flow
      /\ f \in ToServer /\ toServer' \in Seq(ToServer) /\ Shortened(toServer, f, toServer')
      /\ Summed(toServer) /\ Summed(toServer') /\ Summed(wire) /\ 1 \in 1..Len(toServer)
      /\ InHand' /\ Halves' /\ Introduced' /\ (pc = "ended" <=> ~streamOpen)'
      /\ (\A id \in Ids : \A n \in 0..(Len(toServer) - 1) : Level(id, n)' = Level(id, n + 1))
                => UploadLedger'
  BY <1>1, <1>2, ServerTakes
<1>4. ToServer \in SUBSET Frame /\ toServer \in Seq(ToServer) /\ ToClient \in SUBSET Frame /\ wire \in Seq(ToClient)
  BY <1>3 DEF Types, Frame
<1>5. f = toServer[1] /\ MarkOf(f, "ack") = 1
  BY <1>1, <1>3 DEF Shortened, MarkOf
<1> HIDE DEF f, delta
<1>6. P \in Nat /\ P # 0 /\ Len(toServer') = P - 1
      /\ P - 1 \in 0..(P - 1) /\ (P - 1) + 1 = P /\ \A n \in 0..(P - 1) : n + 1 \in 1..P
  BY <1>3 DEF Shortened, Summed
<1>7. \A n \in 0..P : Acked(n) \in 0..InAcks /\ InAcks \in 0..U /\ U \in Nat
  BY <1>3, LevelTyped DEF Flow
<1>8. ASSUME NEW n \in 1..P PROVE Acked(n) \in 1..InAcks
  <2>1. 1 \in 0..P /\ n \in 1..P /\ 1 - 1 = 0 /\ n \in 0..P
    BY <1>6
  <2>2. Acked(1) = 1
    <3>1. Total(Marks(toServer, "ack"), 1) = Total(Marks(toServer, "ack"), 1 - 1) + MarkOf(toServer[1], "ack")
      BY <1>3, <1>4, MarkCounted
    <3>2. Total(Marks(toServer, "ack"), 0) = 0
      BY <1>3 DEF Summed
    <3> QED
      BY <1>5, <2>1, <3>1, <3>2 DEF Acked
  <2>3. Acked(1) <= Acked(n)
    <3>1. 1 \in 0..P /\ n \in 1..P
      BY <2>1
    <3> QED
      BY <1>3, <3>1 DEF Summed, Acked
  <2>4. Acked(n) \in 0..InAcks
    BY <1>7, <2>1
  <2> QED
    BY <2>2, <2>3, <2>4
<1>9. InAcks \in 1..U
  BY <1>6, <1>7, <1>8 DEF InAcks
<1>10. /\ unacked \in Seq(Nat) /\ unacked # <<>> /\ Head(unacked) = unacked[1] /\ Head(unacked) \in Nat
       /\ unacked' \in Seq(Nat) /\ Len(unacked') = U - 1
       /\ \A n \in 1..(U - 1) : unacked'[n] = unacked[n + 1]
  <2>1. unacked \in Seq(Nat) /\ U # 0
    BY <1>3, <1>9 DEF Types
  <2>2. unacked # <<>>
    BY <2>1, EmptySeq
  <2> QED
    BY <1>1, <2>1, <2>2, HeadTailProperties, ElementOfSeq
<1>11. ASSUME NEW n \in 0..(P - 1) PROVE Acked(n)' = Acked(n + 1) - 1
  <2>1. Total(Marks(toServer', "ack"), n) = Total(Marks(toServer, "ack"), n + 1) - MarkOf(f, "ack")
    BY <1>3 DEF Shortened
  <2> QED
    BY <1>5, <2>1 DEF Acked
<1>12. ASSUME NEW n \in 1..U PROVE WindowAfter(n - 1)' = WindowAfter(n)
  <2>1. CASE n = 1
    BY <1>1, <1>10, <2>1 DEF WindowAfter
  <2>2. CASE n # 1
    <3>1. n - 1 \in 1..(U - 1) /\ (n - 1) + 1 = n /\ n - 1 # 0 /\ n # 0
      BY <1>7, <2>2
    <3>2. unacked'[n - 1] = unacked[n]
      BY <1>10, <3>1
    <3> QED
      BY <3>1, <3>2 DEF WindowAfter
  <2> QED
    BY <2>1, <2>2
<1>13. ASSUME NEW n \in 0..(P - 1) PROVE WindowAfter(Acked(n))' = WindowAfter(Acked(n + 1))
  <2>1. Acked(n + 1) \in 1..U
    BY <1>6, <1>7, <1>8
  <2>2. PICK m \in 1..U : m = Acked(n + 1)
    BY <2>1
  <2>3. Acked(n)' = m - 1
    BY <1>11, <2>2
  <2>4. WindowAfter(Acked(n))' = WindowAfter(m - 1)'
    BY <2>3 DEF WindowAfter
  <2> QED
    BY <1>12, <2>2, <2>4
<1>14. InAcks' = InAcks - 1
  <2>1. Total(Marks(toServer', "ack"), P - 1) = Acked((P - 1) + 1) - 1
    BY <1>6, <1>11 DEF Acked
  <2> QED
    BY <1>6, <2>1 DEF InAcks, Acked
<1>15. /\ sendWindow' = sendWindow /\ recvWindow' = recvWindow /\ streams' = streams /\ peer' = peer
       /\ streamOpen' = streamOpen /\ pc' = pc /\ highest' = highest /\ left' = left /\ ended' = ended
       /\ Live' = Live
  BY <1>1 DEF conn, driver, Live
<1>16. AcksInOrder'
  <2>1. /\ InAcks + Asked(Len(wire)) = U /\ peer.window = WindowAfter(InAcks)
        /\ \A q \in 1..Len(wire) :
             wire[q].kind = "settings" => wire[q].values.window = unacked[InAcks + Asked(q)]
    BY <1>3 DEF Flow, AcksInOrder
  <2>2. \A n : Asked(n)' = Asked(n)
    BY <1>1 DEF Asked
  <2>3. Asked(Len(wire)) \in Nat
    BY <1>3 DEF Summed, Asked
  <2>4. InAcks' + Asked(Len(wire))' = Len(unacked')
    <3> DEFINE a == InAcks
               b == Asked(Len(wire))
    <3>1. a \in Nat /\ b \in Nat /\ a + b = U /\ InAcks' = a - 1 /\ Len(unacked') = U - 1
          /\ Asked(Len(wire))' = b
      BY <1>1, <1>9, <1>10, <1>14, <2>1, <2>2, <2>3
    <3> HIDE DEF a, b, U
    <3> QED
      BY <3>1
  <2>5. peer.window = WindowAfter(InAcks)'
    <3>1. PICK a \in 1..U : a = InAcks
      BY <1>9
    <3>2. InAcks' = a - 1 /\ peer.window = WindowAfter(a)
      BY <1>14, <2>1, <3>1
    <3>3. WindowAfter(InAcks)' = WindowAfter(a - 1)'
      BY <3>2 DEF WindowAfter
    <3> QED
      BY <1>12, <3>2, <3>3
  <2>6. ASSUME NEW q \in 1..Len(wire), wire[q].kind = "settings"
        PROVE  wire[q].values.window = unacked'[InAcks' + Asked(q)]
    <3> DEFINE a == InAcks
               b == Asked(q)
               c == Asked(Len(wire))
    <3>1. b \in Nat /\ b >= 1 /\ b <= c
      <4>0. Len(wire) \in Nat /\ q \in 0..Len(wire) /\ Len(wire) \in q..Len(wire)
        BY <1>3 DEF Summed
      <4>1. b <= c /\ b \in Nat
        BY <1>3, <4>0 DEF Summed, Asked
      <4>2. b = Asked(q - 1) + MarkOf(wire[q], "settings") /\ Asked(q - 1) \in Nat
        BY <1>4, MarkCounted DEF Asked
      <4>3. MarkOf(wire[q], "settings") = 1
        BY <2>6 DEF MarkOf
      <4> QED
        BY <4>1, <4>2, <4>3
    <3>2. a \in 1..U /\ c \in Nat /\ a + c = U /\ InAcks' = a - 1 /\ U \in Nat
      BY <1>7, <1>9, <1>14, <2>1, <2>3, <1>6
    <3>3. wire[q].values.window = unacked[a + b]
      BY <2>1, <2>6
    <3>4. unacked'[InAcks' + b] = unacked'[(a - 1) + b]
      BY <3>2
    <3> HIDE DEF a, b, c, U
    <3>5. (a - 1) + b \in 1..(U - 1) /\ ((a - 1) + b) + 1 = a + b
      BY <3>1, <3>2
    <3>6. unacked'[(a - 1) + b] = unacked[a + b]
      BY <1>10, <3>5
    <3> QED
      BY <3>3, <3>4, <3>6 DEF b
  <2> QED
    BY <1>1, <1>15, <2>2, <2>4, <2>5, <2>6 DEF AcksInOrder
<1>17. /\ delta \in Int /\ srvWindow \in Nat /\ srvWindow' \in Nat /\ srvWindow' = srvWindow + delta
       /\ srvStreams' \in [Known -> ServerStream]
       /\ \A i \in Ids : /\ SrvRecv(i) \in Int /\ SrvRecv(i)' = SrvRecv(i) + delta
                         /\ SrvSend(i)' = SrvSend(i)
  <2>1. srvWindow \in Nat /\ srvStreams \in [Known -> ServerStream]
    BY <1>3 DEF Types
  <2>2. delta \in Int /\ srvWindow' \in Nat /\ srvWindow' = srvWindow + delta
    BY <1>1, <1>10, <2>1 DEF delta
  <2>3. ASSUME NEW i \in Known
        PROVE  /\ srvStreams'[i] \in ServerStream /\ srvStreams[i].recv \in Int
               /\ srvStreams'[i].recv = srvStreams[i].recv + delta
               /\ srvStreams'[i].send = srvStreams[i].send
    <3> DEFINE o == srvStreams[i]
               n == o.recv + delta
    <3>1. o \in ServerStream /\ o.recv \in Int
      BY <2>1 DEF ServerStream
    <3>2. n \in Int /\ srvStreams'[i] = [o EXCEPT !.recv = n]
      BY <1>1, <2>2, <3>1
    <3> HIDE DEF o, n
    <3>3. srvStreams'[i] \in ServerStream /\ srvStreams'[i].recv = n /\ srvStreams'[i].send = o.send
      BY <3>1, <3>2 DEF ServerStream
    <3> QED
      BY <3>1, <3>3 DEF n, o
  <2>4. srvStreams' \in [Known -> ServerStream]
    BY <1>1, <2>3
  <2>5. ASSUME NEW i \in Ids
        PROVE  SrvRecv(i) \in Int /\ SrvRecv(i)' = SrvRecv(i) + delta /\ SrvSend(i)' = SrvSend(i)
    <3>1. CASE i \in Known
      BY <1>2, <2>3, <3>1 DEF SrvRecv, SrvSend
    <3>2. CASE i \notin Known
      BY <1>2, <2>1, <2>2, <3>2 DEF SrvRecv, SrvSend
    <3> QED
      BY <3>1, <3>2
  <2> QED
    BY <2>1, <2>2, <2>4, <2>5
<1>18. UploadLedger'
  <2>1. ASSUME NEW i \in Ids, NEW n \in 0..(P - 1) PROVE Level(i, n)' = Level(i, n + 1)
    <3> DEFINE r == SrvRecv(i)
               w == WindowAfter(Acked(n + 1))
               t == Total(Sizes(toServer, i), n + 1)
    <3>1. r \in Int /\ w \in Nat /\ t \in Nat
      BY <1>3, <1>6, <1>17, LevelTyped DEF Flow
    <3>2. Level(i, n + 1) = r + w - srvWindow - t
      BY DEF Level
    <3>3. Total(Sizes(toServer', i), n) = t
      <4>1. SizeOf(f, i) = 0
        BY <1>1 DEF SizeOf
      <4>2. Total(Sizes(toServer', i), n) = t - SizeOf(f, i)
        BY <1>3 DEF Shortened
      <4> QED
        BY <3>1, <4>1, <4>2
    <3>4. Level(i, n)' = (r + delta) + w - (srvWindow + delta) - t
      BY <1>13, <1>17, <3>3 DEF Level
    <3> HIDE DEF r, w, t
    <3> QED
      BY <1>17, <3>1, <3>2, <3>4
  <2> QED
    BY <1>3, <2>1
<1>19. \A i : Charged(toServer', i) = Charged(toServer, i) /\ Granted(toServer', i) = Granted(toServer, i)
  <2>1. \A i : SizeOf(f, i) = 0 /\ GrantOf(f, i) = 0
    BY <1>1 DEF SizeOf, GrantOf
  <2> QED
    BY <1>3, <2>1 DEF Shortened, Summed
<1>20. Types'
  BY <1>1, <1>2, <1>3, <1>10, <1>15, <1>17 DEF Types
<1>21. NeverOverrun' /\ WindowsInStep'
  BY <1>1, <1>3, <1>15, <1>19 DEF NeverOverrun, WindowsInStep
<1>22. DownloadLedger'
  BY <1>1, <1>3, <1>15, <1>17, <1>19 DEF DownloadLedger, Flow, Types
<1> QED
  BY <1>3, <1>16, <1>18, <1>20, <1>21, <1>22 DEF Inv, Flow

\* The client says something that is no acknowledgement.
LEMMA Said ==
    ASSUME Types, AcksInOrder, NEW f \in ToServer, toServer' = Append(toServer, f), f.kind # "ack",
           UNCHANGED <<srvWindow, unacked>>
    PROVE  /\ toServer' \in Seq(ToServer) /\ Extended(toServer, f, toServer')
           /\ Summed(toServer) /\ Summed(toServer') /\ Summed(wire) /\ Len(toServer) \in Nat
           /\ InAcks' = InAcks /\ WindowAfter(InAcks)' = WindowAfter(InAcks)
           /\ \A id : UNCHANGED SrvRecv(id) =>
                /\ \A n \in 0..Len(toServer) : Level(id, n)' = Level(id, n)
                /\ id \in Ids =>
                     Level(id, Len(toServer))' = Level(id, Len(toServer)) - SizeOf(f, id)
<1> DEFINE P == Len(toServer)
<1>1. ToServer \in SUBSET Frame /\ toServer \in Seq(ToServer) /\ ToClient \in SUBSET Frame /\ wire \in Seq(ToClient)
  BY DEF Frame, Types
<1>2. toServer' \in Seq(ToServer) /\ Extended(toServer, f, toServer')
  BY <1>1, OneMore
<1>3. Summed(toServer) /\ Summed(toServer') /\ Summed(wire)
  BY <1>1, <1>2, FramesSummed
<1>4. P \in Nat /\ P \in 0..P /\ Len(toServer') = P + 1 /\ MarkOf(f, "ack") = 0
  BY <1>2, <1>3 DEF Summed, Extended, MarkOf
<1>5. \A n \in 0..P : Acked(n)' = Acked(n)
  BY <1>2 DEF Extended, Acked
<1>6. Acked(P) \in Nat /\ InAcks' = InAcks
  <2>1. Total(Marks(toServer', "ack"), P + 1) = Total(Marks(toServer, "ack"), P) + MarkOf(f, "ack")
        /\ Total(Marks(toServer, "ack"), P) \in Nat
    BY <1>2, <1>3, <1>4 DEF Extended, Summed
  <2> QED
    BY <1>4, <2>1 DEF InAcks, Acked
<1>7. WindowAfter(InAcks)' = WindowAfter(InAcks)
  BY <1>6 DEF WindowAfter
<1>8. ASSUME NEW id, UNCHANGED SrvRecv(id)
      PROVE  /\ \A n \in 0..P : Level(id, n)' = Level(id, n)
             /\ id \in Ids => Level(id, Len(toServer))' = Level(id, P) - SizeOf(f, id)
  <2>1. \A n \in 0..P : Total(Sizes(toServer', id), n) = Total(Sizes(toServer, id), n)
    BY <1>2 DEF Extended
  <2>2. \A n \in 0..P : Level(id, n)' = Level(id, n)
    BY <1>5, <1>8, <2>1 DEF Level, WindowAfter
  <2>3. ASSUME id \in Ids PROVE Level(id, Len(toServer))' = Level(id, P) - SizeOf(f, id)
    <3> DEFINE r == SrvRecv(id)
               w == WindowAfter(InAcks)
               c == Charged(toServer, id)
               z == SizeOf(f, id)
    <3>1. r \in Int /\ w \in Nat /\ c \in Nat /\ srvWindow \in Nat
      BY <1>3, <1>4, <2>3, LevelTyped DEF InAcks, Summed
    <3>2. z \in Nat
      BY <1>1, Measured
    <3>3. Charged(toServer', id) = c + z
      BY <1>2 DEF Extended
    <3>4. Level(id, P) = r + w - srvWindow - c
      BY DEF Level, InAcks, Charged
    <3>5. Level(id, Len(toServer))' = r + w - srvWindow - (c + z)
      BY <1>7, <1>8, <3>3 DEF Level, InAcks, Charged
    <3> HIDE DEF r, w, c, z
    <3> QED
      BY <3>1, <3>2, <3>4, <3>5 DEF z
  <2> QED
    BY <1>4, <2>2, <2>3
<1> QED
  BY <1>2, <1>3, <1>4, <1>6, <1>7, <1>8

\* What the client says of streams it has spoken of before.
LEMMA Presented ==
    ASSUME Introduced, Len(toServer) \in Nat, Len(toServer') \in Nat, Len(toServer') >= Len(toServer),
           \A i \in 1..Len(toServer) : toServer'[i] = toServer[i],
           \A i \in (Len(toServer) + 1)..Len(toServer') :
             /\ toServer'[i].kind # "head" /\ (toServer'[i].kind = "data" => toServer'[i].id \in Live)
             /\ toServer'[i].kind = "grant" => toServer'[i].id \in {OnConnection} \cup Known,
           \A i \in 1..Len(wire') : \E j \in 1..Len(wire) : wire'[i] = wire[j],
           Known' = Known, highest' = highest, Live' \subseteq Live
    PROVE  Introduced'
<1> DEFINE P == Len(toServer)
<1>1. ASSUME NEW p \in 1..Len(toServer'), p \in 1..P
      PROVE  /\ toServer'[p].kind = "head" =>
                  /\ toServer'[p].id \in 1..highest /\ toServer'[p].id \notin Known
                  /\ \A q \in 1..(p - 1) :
                       toServer'[q].kind = "head" => toServer'[q].id # toServer'[p].id
             /\ toServer'[p].kind = "data" =>
                  /\ toServer'[p].id \in 1..highest
                  /\ \/ toServer'[p].id \in Known
                     \/ \E q \in 1..(p - 1) :
                          toServer'[q].kind = "head" /\ toServer'[q].id = toServer'[p].id
             /\ toServer'[p].kind = "grant" => toServer'[p].id \in {OnConnection} \cup Known
  <2>1. toServer'[p] = toServer[p] /\ \A q \in 1..(p - 1) : toServer'[q] = toServer[q]
    BY <1>1
  <2>2. /\ toServer[p].kind = "head" =>
             /\ toServer[p].id \in 1..highest /\ toServer[p].id \notin Known
             /\ \A q \in 1..(p - 1) :
                  toServer[q].kind = "head" => toServer[q].id # toServer[p].id
        /\ toServer[p].kind = "data" =>
             /\ toServer[p].id \in 1..highest
             /\ \/ toServer[p].id \in Known
                \/ \E q \in 1..(p - 1) :
                     toServer[q].kind = "head" /\ toServer[q].id = toServer[p].id
        /\ toServer[p].kind = "grant" => toServer[p].id \in {OnConnection} \cup Known
    BY <1>1 DEF Introduced
  <2> QED
    BY <2>1, <2>2
<1>2. ASSUME NEW i \in Live
      PROVE  i \in 1..highest /\ (i \in Known \/ \E q \in 1..P : toServer'[q].kind = "head" /\ toServer'[q].id = i)
  <2>1. i \in 1..highest /\ (i \in Known \/ \E q \in 1..P : toServer[q].kind = "head" /\ toServer[q].id = i)
    BY DEF Introduced
  <2>2. \A q \in 1..P : toServer'[q] = toServer[q]
    OBVIOUS
  <2> HIDE DEF P
  <2> QED
    BY <2>1, <2>2
<1>3. ASSUME NEW p \in 1..Len(toServer'), p \notin 1..P
      PROVE  /\ toServer'[p].kind # "head"
             /\ toServer'[p].kind = "data" =>
                  /\ toServer'[p].id \in 1..highest
                  /\ \/ toServer'[p].id \in Known
                     \/ \E q \in 1..(p - 1) :
                          toServer'[q].kind = "head" /\ toServer'[q].id = toServer'[p].id
             /\ toServer'[p].kind = "grant" => toServer'[p].id \in {OnConnection} \cup Known
  <2>1. p \in (P + 1)..Len(toServer') /\ \A q \in 1..P : q \in 1..(p - 1)
    BY <1>3
  <2> QED
    BY <1>2, <2>1
<1>4. ASSUME NEW i \in Live'
      PROVE  i \in Known \/ \E q \in 1..Len(toServer') : toServer'[q].kind = "head" /\ toServer'[q].id = i
  <2>1. i \in Live /\ \A q \in 1..P : q \in 1..Len(toServer')
    OBVIOUS
  <2> QED
    BY <1>2, <2>1
<1>5. ASSUME NEW p \in 1..Len(wire'), wire'[p].kind \in {"data", "grant"}
      PROVE  wire'[p].id \in {OnConnection} \cup Known
  BY <1>5 DEF Introduced
<1>6. Live' \subseteq 1..highest /\ Known \subseteq 1..highest
  BY DEF Introduced
<1> QED
  BY <1>1, <1>3, <1>4, <1>5, <1>6 DEF Introduced

\* A piece of body goes out of windows that have room for it.
LEMMA PieceSent ==
    ASSUME Inv, streamOpen, WritePiece
    PROVE  Inv'
<1> DEFINE n == Room
           f == [kind |-> "data", id |-> highest, size |-> n, pad |-> 0, end |-> FALSE]
           old == streams[highest]
           m == old.send - n
           s == [old EXCEPT !.send = m]
           P == Len(toServer)
<1>1. Types /\ WindowsInStep /\ NeverOverrun /\ Flow /\ pc # "ended" /\ pc = "sending" /\ highest \in Live
  BY DEF Inv, Flow, Halves, WritePiece
<1>2. /\ sendWindow' = sendWindow - n /\ streams' = [streams EXCEPT ![highest] = s]
      /\ toServer' = Append(toServer, f) /\ left' = left - n /\ n > 0
      /\ UNCHANGED <<recvWindow, peer, streamOpen, pc, highest, ended, wire, srvRecv, srvSend,
                     srvWindow, unacked, srvStreams, verdict, wasted, overrun>>
  BY DEF WritePiece, server, past
<1>3. /\ left \in Nat /\ sendWindow \in Nat /\ old \in ClientStream /\ old.send \in Int
      /\ highest \in Ids /\ highest # OnConnection
  BY <1>1 DEF Types, ClientStream, Ids, OnConnection
<1>4. n \in Nat /\ n <= left /\ n <= sendWindow /\ n <= old.send
  BY <1>2, <1>3, H2Assumption, RoomBounds
<1> HIDE DEF n
<1>5. /\ f \in ToServer /\ f.kind = "data" /\ f.id = highest /\ f.size = n /\ f.pad = 0
      /\ m \in Nat
  BY <1>3, <1>4 DEF ToServer
<1>6. /\ SizeOf(f, highest) = n /\ SizeOf(f, OnConnection) = n
      /\ \A i : i # highest /\ i # OnConnection => SizeOf(f, i) = 0
      /\ \A i : GrantOf(f, i) = 0
  BY <1>3, <1>4 DEF SizeOf, GrantOf, OnConnection
<1> HIDE DEF f, m
<1>7. s \in ClientStream /\ s.send = m /\ s.allowed = old.allowed /\ s.pending = old.pending
      /\ s.state = old.state
  BY <1>3, <1>5 DEF ClientStream
<1> HIDE DEF s, old
<1>8. /\ Live' = Live /\ streams' \in [Live -> ClientStream] /\ streams'[highest] = s
      /\ \A i \in Live : i # highest => streams'[i] = streams[i]
  BY <1>1, <1>2, <1>7 DEF Types, Live
<1>9. /\ toServer' \in Seq(ToServer) /\ Extended(toServer, f, toServer')
      /\ Summed(toServer) /\ Summed(toServer') /\ Summed(wire) /\ P \in Nat
      /\ InAcks' = InAcks /\ WindowAfter(InAcks)' = WindowAfter(InAcks)
      /\ \A id : UNCHANGED SrvRecv(id) =>
                /\ \A k \in 0..P : Level(id, k)' = Level(id, k)
                /\ id \in Ids => Level(id, Len(toServer))' = Level(id, P) - SizeOf(f, id)
  <2>1. f.kind # "ack"
    BY <1>5
  <2> QED
    BY <1>1, <1>2, <1>5, <2>1, Said DEF Flow
<1>10. Known' = Known /\ \A i : SrvRecv(i)' = SrvRecv(i) /\ SrvSend(i)' = SrvSend(i)
  BY <1>2 DEF Known, SrvRecv, SrvSend
<1>11. Types'
  <2>1. sendWindow' \in Nat /\ left' \in Nat
    BY <1>2, <1>3, <1>4
  <2> QED
    BY <1>1, <1>2, <1>8, <1>9, <1>10, <2>1 DEF Types
<1>12. NeverOverrun' /\ WindowsInStep'
  <2>1. /\ srvRecv = sendWindow + Charged(toServer, OnConnection) + Granted(wire, OnConnection)
        /\ recvWindow.allowed = srvSend + Charged(wire, OnConnection) + Granted(toServer, OnConnection)
    BY <1>1, <1>2 DEF WindowsInStep
  <2>2. Charged(toServer, OnConnection) \in Nat /\ Granted(wire, OnConnection) \in Nat
        /\ Granted(toServer, OnConnection) \in Nat
    BY <1>9 DEF Summed
  <2>3. Charged(toServer', OnConnection) = Charged(toServer, OnConnection) + n
        /\ Granted(toServer', OnConnection) = Granted(toServer, OnConnection)
    BY <1>6, <1>9, <2>2 DEF Extended
  <2>4. srvRecv = sendWindow' + Charged(toServer', OnConnection) + Granted(wire, OnConnection)
    BY <1>2, <1>3, <1>4, <2>1, <2>2, <2>3
  <2> QED
    BY <1>1, <1>2, <2>1, <2>3, <2>4 DEF WindowsInStep, NeverOverrun
<1>13. Introduced'
  <2>1. /\ Len(toServer') = P + 1 /\ Len(toServer') >= P /\ (\A i \in 1..P : toServer'[i] = toServer[i])
        /\ \A i \in (P + 1)..Len(toServer') : toServer'[i] = f
    BY <1>9 DEF Extended
  <2>2. \A i \in (P + 1)..Len(toServer') :
             /\ toServer'[i].kind # "head" /\ (toServer'[i].kind = "data" => toServer'[i].id \in Live)
             /\ toServer'[i].kind = "grant" => toServer'[i].id \in {OnConnection} \cup Known
    BY <1>1, <1>5, <2>1
  <2>3. \A i \in 1..Len(wire') : \E j \in 1..Len(wire) : wire'[i] = wire[j]
    BY <1>2
  <2>4. Len(toServer') \in Nat
    BY <1>9 DEF Summed
  <2> QED
    BY <1>1, <1>2, <1>8, <1>9, <1>10, <2>1, <2>2, <2>3, <2>4, Presented DEF Flow
<1>14. AcksInOrder'
  BY <1>1, <1>2, <1>9 DEF Flow, AcksInOrder, Asked
<1>15. UploadLedger'
  <2>1. ASSUME NEW i \in Live
        PROVE  Level(i, Len(toServer))' = streams'[i].send + Granted(wire, i)
    <3>1. Level(i, P) = streams[i].send + Granted(wire, i) /\ i \in Ids
      BY <1>1 DEF Flow, UploadLedger, Types
    <3>2. Level(i, Len(toServer))' = Level(i, P) - SizeOf(f, i)
      BY <1>9, <1>10, <3>1
    <3>3. streams[i].send \in Int /\ Granted(wire, i) \in Nat
      BY <1>1, <1>9 DEF Types, ClientStream, Summed
    <3>4. CASE i = highest
      BY <1>3, <1>4, <1>6, <1>7, <1>8, <3>1, <3>2, <3>3, <3>4 DEF m, old
    <3>5. CASE i # highest
      <4>1. SizeOf(f, i) = 0
        BY <1>6, <3>1, <3>5 DEF Ids, OnConnection
      <4> QED
        BY <1>8, <3>1, <3>2, <3>3, <3>5, <4>1
    <3> QED
      BY <3>4, <3>5
  <2>2. ASSUME NEW i \in Live, i = highest PROVE Level(i, Len(toServer))' >= 0
    <3>1. Level(i, Len(toServer))' = m + Granted(wire, i) /\ Granted(wire, i) \in Nat
      BY <1>7, <1>8, <1>9, <2>1, <2>2 DEF Summed
    <3> QED
      BY <1>5, <3>1
  <2>3. ASSUME NEW p \in 1..Len(toServer'), NEW i,
               toServer'[p].kind = "data", toServer'[p].size > 0, toServer'[p].id = i
        PROVE  Level(i, p)' >= 0
    <3>1. CASE p \in 1..P
      <4>1. toServer'[p] = toServer[p] /\ p \in 0..P
        BY <1>9, <3>1 DEF Extended
      <4>2. Level(i, p) >= 0
        BY <1>1, <2>3, <3>1, <4>1 DEF Flow, UploadLedger
      <4> QED
        BY <1>9, <1>10, <4>1, <4>2
    <3>2. CASE p = P + 1
      <4>1. p = Len(toServer') /\ i = highest /\ i \in Live
        BY <1>1, <1>5, <1>9, <2>3, <3>2 DEF Extended
      <4> QED
        BY <2>2, <4>1
    <3>3. p \in 1..P \/ p = P + 1
      BY <1>9 DEF Extended
    <3> QED
      BY <3>1, <3>2, <3>3
  <2> QED
    BY <1>2, <1>8, <2>1, <2>3 DEF UploadLedger
<1>16. DownloadLedger'
  <2>1. \A i : Granted(toServer', i) = Granted(toServer, i)
    BY <1>6, <1>9 DEF Extended, Summed
  <2>2. \A i \in Live : streams'[i].allowed = streams[i].allowed
    BY <1>7, <1>8 DEF old
  <2> QED
    BY <1>1, <1>2, <1>8, <1>10, <2>1, <2>2 DEF Flow, DownloadLedger
<1>17. InHand' /\ Halves'
  <2>1. \A i \in Live : /\ streams'[i].allowed = streams[i].allowed /\ streams'[i].state = streams[i].state
                        /\ streams'[i].pending = streams[i].pending
    BY <1>7, <1>8 DEF old
  <2> QED
    BY <1>1, <1>2, <1>8, <2>1 DEF Flow, InHand, Bounded, Halves
<1> QED
  BY <1>1, <1>2, <1>11, <1>12, <1>13, <1>14, <1>15, <1>16, <1>17 DEF Inv, Flow

\* No octets of a stream that has not been opened are on their way.
LEMMA Unheard ==
    ASSUME Types, Introduced, NEW id \in Ids, id \notin 1..highest
    PROVE  /\ id \notin Known /\ id \notin Live
           /\ Charged(toServer, id) = 0 /\ Granted(toServer, id) = 0
           /\ Charged(wire, id) = 0 /\ Granted(wire, id) = 0
<1>1. id \notin Known /\ id \notin Live /\ id # OnConnection
  BY DEF Introduced, Ids, OnConnection
<1>2. ASSUME NEW s, Len(s) \in Nat, \A i \in 1..Len(s) : s[i] \in Frame,
             \A i \in 1..Len(s) : s[i].kind \in {"data", "grant"} => s[i].id # id
      PROVE  Charged(s, id) = 0 /\ Granted(s, id) = 0
  <2>1. /\ Sizes(s, id) \in [1..Len(s) -> Nat] /\ Grants(s, id) \in [1..Len(s) -> Nat]
        /\ Marks(s, "ack") \in [1..Len(s) -> Nat]
        /\ \A i \in 1..Len(s) : /\ Sizes(s, id)[i] = SizeOf(s[i], id)
                                /\ Grants(s, id)[i] = GrantOf(s[i], id)
                                /\ Marks(s, "ack")[i] = MarkOf(s[i], "ack")
    BY <1>2, Measures
  <2>2. \A i \in 1..Len(s) : Sizes(s, id)[i] = 0 /\ Grants(s, id)[i] = 0
    BY <1>1, <1>2, <2>1 DEF SizeOf, GrantOf
  <2>3. Sizes(s, id) \in [1..Len(s) -> Int] /\ Grants(s, id) \in [1..Len(s) -> Int] /\ Len(s) \in 0..Len(s)
    BY <1>2, <2>1
  <2> QED
    BY <1>2, <2>2, <2>3, TotalOfNothing DEF Charged, Granted
<1>3. ToServer \in SUBSET Frame /\ toServer \in Seq(ToServer) /\ ToClient \in SUBSET Frame /\ wire \in Seq(ToClient)
  BY DEF Frame, Types
<1>4. /\ Len(toServer) \in Nat /\ \A i \in 1..Len(toServer) : toServer[i] \in Frame
      /\ Len(wire) \in Nat /\ \A i \in 1..Len(wire) : wire[i] \in Frame
  BY <1>3, FramesTyped
<1>5. \A i \in 1..Len(toServer) : toServer[i].kind \in {"data", "grant"} => toServer[i].id # id
  BY <1>1 DEF Introduced
<1>6. \A i \in 1..Len(wire) : wire[i].kind \in {"data", "grant"} => wire[i].id # id
  BY <1>1 DEF Introduced
<1> QED
  BY <1>1, <1>2, <1>4, <1>5, <1>6

\* A request opens a stream with the windows both ends give to a new one.
LEMMA RequestSent ==
    ASSUME Inv, streamOpen, Send
    PROVE  Inv'
<1>1. Types /\ WindowsInStep /\ NeverOverrun /\ Flow /\ highest < Requests
  BY DEF Inv, Flow, Send, IsReusable
<1>2. PICK id \in Ids : id = highest + 1
  BY <1>1, H2Assumption DEF Types, Ids
<1> DEFINE P == Len(toServer)
           state == IF id \in Posts THEN "OPEN" ELSE "HALF_CLOSED_LOCAL"
           s == [state |-> state, send |-> peer.window, allowed |-> RecvCapacity, pending |-> 0,
                 blocks |-> 0]
           f == [kind |-> "head", id |-> id, end |-> id \notin Posts]
<1>3. /\ highest' = id /\ toServer' = Append(toServer, f)
      /\ streams' = [i \in Live \cup {id} |-> IF i \in Live THEN streams[i] ELSE s]
      /\ pc' = (IF id \in Posts THEN "sending" ELSE "head")
      /\ left' = (IF id \in Posts THEN BodySize ELSE 0) /\ ended' = FALSE
      /\ UNCHANGED <<streamOpen, sendWindow, recvWindow, peer, wire, srvRecv, srvSend, srvWindow,
                     unacked, srvStreams, verdict, wasted, overrun>>
  BY <1>2 DEF Send, server, past, Live
<1>4. highest \in Nat /\ id \notin 1..highest /\ id \in 1..id /\ \A i \in 1..highest : i \in 1..id /\ i # id
  BY <1>1, <1>2 DEF Types, Ids
<1>5. /\ id \notin Known /\ id \notin Live
      /\ Charged(toServer, id) = 0 /\ Granted(toServer, id) = 0
      /\ Charged(wire, id) = 0 /\ Granted(wire, id) = 0
  BY <1>1, <1>4, Unheard DEF Flow
<1>6. /\ s \in ClientStream /\ s.send = peer.window /\ s.allowed = RecvCapacity /\ s.pending = 0
      /\ s.state = state
  BY <1>1, H2Assumption DEF ClientStream, Types, Announcements
<1>7. /\ f \in ToServer /\ f.kind = "head" /\ f.id = id
      /\ \A i : SizeOf(f, i) = 0 /\ GrantOf(f, i) = 0
  BY DEF ToServer, SizeOf, GrantOf
<1> HIDE DEF s, f
<1>8. /\ Live' = Live \cup {id} /\ streams' \in [Live' -> ClientStream] /\ streams'[id] = s
      /\ \A i \in Live : i # id /\ streams'[i] = streams[i]
  BY <1>1, <1>3, <1>5, <1>6 DEF Types, Live
<1>9. /\ toServer' \in Seq(ToServer) /\ Extended(toServer, f, toServer')
      /\ Summed(toServer) /\ Summed(toServer') /\ Summed(wire) /\ P \in Nat
      /\ InAcks' = InAcks /\ WindowAfter(InAcks)' = WindowAfter(InAcks)
      /\ \A i : UNCHANGED SrvRecv(i) =>
                /\ \A k \in 0..P : Level(i, k)' = Level(i, k)
                /\ i \in Ids => Level(i, Len(toServer))' = Level(i, P) - SizeOf(f, i)
  <2>1. f.kind # "ack"
    BY <1>7
  <2> QED
    BY <1>1, <1>3, <1>7, <2>1, Said DEF Flow
<1>10. Known' = Known /\ \A i : SrvRecv(i)' = SrvRecv(i) /\ SrvSend(i)' = SrvSend(i)
  BY <1>3 DEF Known, SrvRecv, SrvSend
<1>11. \A i : Charged(toServer', i) = Charged(toServer, i) /\ Granted(toServer', i) = Granted(toServer, i)
  BY <1>7, <1>9 DEF Extended, Summed
<1>12. Types'
  <2>1. highest' \in 0..Requests /\ left' \in Nat /\ Live' \subseteq Ids
    <3>1. highest' \in 0..Requests
      BY <1>3, H2Assumption DEF Ids
    <3>2. left' \in Nat
      BY <1>3, H2Assumption
    <3>3. Live' \subseteq Ids
      BY <1>1, <1>8 DEF Types
    <3> QED
      BY <3>1, <3>2, <3>3
  <2> QED
    BY <1>1, <1>3, <1>8, <1>9, <1>10, <2>1 DEF Types
<1>13. NeverOverrun' /\ WindowsInStep'
  BY <1>1, <1>3, <1>11 DEF WindowsInStep, NeverOverrun
<1>14. Introduced'
  <2>1. Introduced
    BY <1>1 DEF Flow
  <2>2. /\ Len(toServer') = P + 1 /\ (\A i \in 1..P : toServer'[i] = toServer[i]) /\ toServer'[P + 1] = f
    BY <1>9 DEF Extended
  <2>3. ASSUME NEW p \in 1..P
        PROVE  /\ toServer'[p].kind = "head" =>
                    /\ toServer'[p].id \in 1..highest /\ toServer'[p].id \notin Known
                    /\ \A q \in 1..(p - 1) :
                         toServer'[q].kind = "head" => toServer'[q].id # toServer'[p].id
               /\ toServer'[p].kind = "data" =>
                    /\ toServer'[p].id \in 1..highest
                    /\ \/ toServer'[p].id \in Known
                       \/ \E q \in 1..(p - 1) :
                            toServer'[q].kind = "head" /\ toServer'[q].id = toServer'[p].id
               /\ toServer'[p].kind = "grant" => toServer'[p].id \in {OnConnection} \cup Known
    <3>1. toServer'[p] = toServer[p] /\ \A q \in 1..(p - 1) : toServer'[q] = toServer[q]
      BY <1>9, <2>2
    <3>2. /\ toServer[p].kind = "head" =>
               /\ toServer[p].id \in 1..highest /\ toServer[p].id \notin Known
               /\ \A q \in 1..(p - 1) :
                    toServer[q].kind = "head" => toServer[q].id # toServer[p].id
          /\ toServer[p].kind = "data" =>
               /\ toServer[p].id \in 1..highest
               /\ \/ toServer[p].id \in Known
                  \/ \E q \in 1..(p - 1) :
                       toServer[q].kind = "head" /\ toServer[q].id = toServer[p].id
          /\ toServer[p].kind = "grant" => toServer[p].id \in {OnConnection} \cup Known
      BY <2>1 DEF Introduced
    <3> QED
      BY <3>1, <3>2
  <2>4. \A q \in 1..P : toServer'[q].kind = "head" => toServer'[q].id # id
    BY <1>4, <2>3
  <2>5. ASSUME NEW p \in 1..Len(toServer')
        PROVE  /\ toServer'[p].kind = "head" =>
                    /\ toServer'[p].id \in 1..id /\ toServer'[p].id \notin Known
                    /\ \A q \in 1..(p - 1) :
                         toServer'[q].kind = "head" => toServer'[q].id # toServer'[p].id
               /\ toServer'[p].kind = "data" =>
                    /\ toServer'[p].id \in 1..id
                    /\ \/ toServer'[p].id \in Known
                       \/ \E q \in 1..(p - 1) :
                            toServer'[q].kind = "head" /\ toServer'[q].id = toServer'[p].id
               /\ toServer'[p].kind = "grant" => toServer'[p].id \in {OnConnection} \cup Known
    <3>1. CASE p \in 1..P
      BY <1>4, <2>3, <3>1
    <3>2. CASE p = P + 1
      <4>1. toServer'[p] = f /\ p - 1 = P
        BY <1>9, <2>2, <3>2
      <4> QED
        BY <1>4, <1>5, <1>7, <2>4, <4>1
    <3>3. p \in 1..P \/ p = P + 1
      BY <1>9, <2>2
    <3> QED
      BY <3>1, <3>2, <3>3
  <2>6. Live' \subseteq 1..id /\ Known \subseteq 1..id
    BY <1>4, <1>8, <2>1 DEF Introduced
  <2>7. ASSUME NEW i \in Live'
        PROVE  i \in Known \/ \E p \in 1..Len(toServer') : toServer'[p].kind = "head" /\ toServer'[p].id = i
    <3>1. CASE i \in Live
      <4>1. i \in Known \/ \E p \in 1..P : toServer[p].kind = "head" /\ toServer[p].id = i
        BY <2>1, <3>1 DEF Introduced
      <4>2. \A p \in 1..P : p \in 1..Len(toServer') /\ toServer'[p] = toServer[p]
        BY <1>9, <2>2
      <4> HIDE DEF P
      <4> QED
        BY <4>1, <4>2
    <3>2. CASE i = id
      <4>1. P + 1 \in 1..Len(toServer')
        BY <1>9, <2>2
      <4> QED
        BY <1>7, <2>2, <3>2, <4>1
    <3> QED
      BY <1>8, <3>1, <3>2
  <2>8. \A p \in 1..Len(wire) : wire[p].kind \in {"data", "grant"} => wire[p].id \in {OnConnection} \cup Known
    BY <2>1 DEF Introduced
  <2> QED
    BY <1>3, <1>10, <2>5, <2>6, <2>7, <2>8 DEF Introduced
<1>15. AcksInOrder'
  BY <1>1, <1>3, <1>9 DEF Flow, AcksInOrder, Asked
<1>16. UploadLedger'
  <2>1. ASSUME NEW i \in Live'
        PROVE  Level(i, Len(toServer))' = streams'[i].send + Granted(wire, i)
    <3>1. i \in Ids /\ Level(i, Len(toServer))' = Level(i, P) - 0 /\ Level(i, P) \in Int
      <4>1. i \in Ids /\ SizeOf(f, i) = 0 /\ UNCHANGED SrvRecv(i) /\ P \in 0..P
        BY <1>7, <1>9, <1>10, <1>12 DEF Types
      <4>2. Level(i, Len(toServer))' = Level(i, P) - SizeOf(f, i)
        BY <1>9, <4>1
      <4>3. Level(i, P) \in Int
        BY <1>1, <1>9, <4>1, LevelTyped DEF Flow
      <4> QED
        BY <4>1, <4>2, <4>3
    <3>2. CASE i \in Live
      <4>1. Level(i, P) = streams[i].send + Granted(wire, i)
        BY <1>1, <3>2 DEF Flow, UploadLedger
      <4> QED
        BY <1>8, <3>1, <3>2, <4>1
    <3>3. CASE i = id
      <4>1. SrvRecv(i) = srvWindow /\ peer.window = WindowAfter(InAcks) /\ Charged(toServer, i) = 0
            /\ Granted(wire, i) = 0 /\ streams'[i].send = peer.window
        BY <1>1, <1>5, <1>6, <1>8, <3>3 DEF SrvRecv, Flow, AcksInOrder
      <4>2. srvWindow \in Nat /\ peer.window \in Nat
        BY <1>1 DEF Types, Announcements
      <4>3. Level(i, P) = srvWindow + peer.window - srvWindow - 0
        BY <4>1 DEF Level, InAcks, Charged
      <4> QED
        BY <3>1, <4>1, <4>2, <4>3
    <3> QED
      BY <1>8, <3>2, <3>3
  <2>2. ASSUME NEW p \in 1..Len(toServer'), NEW i,
               toServer'[p].kind = "data", toServer'[p].size > 0, toServer'[p].id = i
        PROVE  Level(i, p)' >= 0
    <3>1. p \in 1..P \/ p = P + 1
      BY <1>9 DEF Extended
    <3>2. p \in 1..P /\ toServer'[p] = toServer[p] /\ p \in 0..P
      BY <1>7, <1>9, <2>2, <3>1 DEF Extended
    <3>3. Level(i, p) >= 0
      BY <1>1, <2>2, <3>2 DEF Flow, UploadLedger
    <3> QED
      BY <1>9, <1>10, <3>2, <3>3
  <2> QED
    BY <1>3, <2>1, <2>2 DEF UploadLedger
<1>17. DownloadLedger'
  <2>1. ASSUME NEW i \in Live'
        PROVE  streams'[i].allowed = SrvSend(i) + Charged(wire, i) + Granted(toServer, i)
    <3>1. CASE i \in Live
      BY <1>1, <1>8, <3>1 DEF Flow, DownloadLedger
    <3>2. CASE i = id
      BY <1>5, <1>6, <1>8, <3>2, H2Assumption DEF SrvSend
    <3> QED
      BY <1>8, <3>1, <3>2
  <2> QED
    BY <1>3, <1>10, <1>11, <2>1 DEF DownloadLedger
<1>18. InHand' /\ Halves'
  <2>1. Bounded(s)
    BY <1>6, H2Assumption DEF Bounded
  <2>2. \A i \in Live' : Bounded(streams'[i])
    BY <1>1, <1>8, <2>1 DEF Flow, InHand
  <2>3. InHand'
    BY <1>1, <1>3, <2>2 DEF Flow, InHand, Bounded
  <2>4. Halves'
    BY <1>3, <1>6, <1>8 DEF Halves
  <2> QED
    BY <2>3, <2>4
<1>19. (pc = "ended" <=> ~streamOpen)'
  BY <1>3
<1> QED
  BY <1>12, <1>13, <1>14, <1>15, <1>16, <1>17, <1>18, <1>19 DEF Inv, Flow

\* SETTINGS move the windows of the live streams as their acknowledgement will the server's.
LEMMA SettingsTaken ==
    ASSUME Inv, streamOpen, SettingsArrive
    PROVE  Inv'
<1> DEFINE f == Head(wire)
           g == [kind |-> "ack"]
           P == Len(toServer)
           W == Len(wire)
           v == f.values
           delta == v.window - peer.window
<1>1. Types /\ WindowsInStep /\ NeverOverrun /\ Flow /\ pc # "ended"
  BY DEF Inv, Flow
<1>2. /\ wire # <<>> /\ f.kind = "settings" /\ peer' = v /\ toServer' = Append(toServer, g)
      /\ wire' = Tail(wire) /\ streams' = [i \in Live |-> [streams[i] EXCEPT !.send = @ + delta]]
      /\ UNCHANGED <<sendWindow, recvWindow, streamOpen, pc, highest, left, ended, srvRecv, srvSend,
                     srvWindow, unacked, srvStreams, verdict, wasted, overrun>>
  <2>1. peer' = v /\ streams' = Resized(peer'.window - peer.window)
    BY DEF SettingsArrive
  <2>2. Resized(delta) = [i \in Live |-> [streams[i] EXCEPT !.send = @ + delta]]
    BY DEF Resized, Live
  <2>3. streams' = Resized(delta)
    BY <2>1
  <2> QED
    BY <2>1, <2>2, <2>3 DEF SettingsArrive, Arrives, driver, server, past
<1>3. ToServer \in SUBSET Frame /\ toServer \in Seq(ToServer) /\ ToClient \in SUBSET Frame /\ wire \in Seq(ToClient)
  BY <1>1 DEF Types, Frame
<1>4. f \in ToClient /\ wire' \in Seq(ToClient) /\ Shortened(wire, f, wire')
  BY <1>2, <1>3, OneLess
<1>5. g \in ToServer /\ g.kind = "ack"
  BY DEF ToServer
<1> HIDE DEF g
<1>6. toServer' \in Seq(ToServer) /\ Extended(toServer, g, toServer')
  BY <1>2, <1>3, <1>5, OneMore
<1>7. Summed(wire) /\ Summed(wire') /\ Summed(toServer) /\ Summed(toServer')
  BY <1>3, <1>4, <1>6, FramesSummed
<1>8. /\ \A i : SizeOf(f, i) = 0 /\ GrantOf(f, i) = 0 /\ SizeOf(g, i) = 0 /\ GrantOf(g, i) = 0
      /\ MarkOf(f, "settings") = 1 /\ MarkOf(g, "ack") = 1
  BY <1>2, <1>5 DEF SizeOf, GrantOf, MarkOf
<1>9. /\ v \in Announcements /\ v.window \in Nat /\ peer.window \in Nat /\ delta \in Int
      /\ peer.window + delta = v.window
  <2>1. v \in Announcements /\ peer \in Announcements
    BY <1>1, <1>2, <1>4 DEF ToClient, Types
  <2>2. v.window \in Nat /\ peer.window \in Nat
    BY <2>1 DEF Announcements
  <2> HIDE DEF v
  <2> QED
    BY <2>1, <2>2
<1>10. f = wire[1]
  BY <1>4 DEF Shortened
<1> HIDE DEF f, v, delta
<1>11. /\ P \in Nat /\ W \in Nat /\ W # 0 /\ Len(toServer') = P + 1 /\ Len(wire') = W - 1
       /\ P \in 0..P /\ W - 1 \in 0..(W - 1) /\ (W - 1) + 1 = W
       /\ 1 \in 1..W /\ 0 \in 0..(W - 1) /\ 0 + 1 = 1
  BY <1>4, <1>6, <1>7 DEF Shortened, Extended, Summed
<1>12. /\ \A i : Charged(wire', i) = Charged(wire, i) /\ Granted(wire', i) = Granted(wire, i)
       /\ \A i : Charged(toServer', i) = Charged(toServer, i) /\ Granted(toServer', i) = Granted(toServer, i)
  BY <1>4, <1>6, <1>7, <1>8 DEF Shortened, Extended, Summed
<1>13. Live' = Live /\ streams' \in [Live -> ClientStream]
       /\ \A i \in Live : /\ streams[i].send \in Int /\ streams'[i].send = streams[i].send + delta
                          /\ streams'[i].allowed = streams[i].allowed
                          /\ streams'[i].pending = streams[i].pending
                          /\ streams'[i].state = streams[i].state
  <2>1. ASSUME NEW i \in Live
        PROVE  /\ streams'[i] \in ClientStream /\ streams[i].send \in Int
               /\ streams'[i].send = streams[i].send + delta
               /\ streams'[i].allowed = streams[i].allowed
               /\ streams'[i].pending = streams[i].pending
               /\ streams'[i].state = streams[i].state
    <3> DEFINE o == streams[i]
               n == o.send + delta
    <3>1. o \in ClientStream /\ o.send \in Int
      BY <1>1 DEF Types, ClientStream
    <3>2. n \in Int /\ streams'[i] = [o EXCEPT !.send = n]
      BY <1>2, <1>9, <3>1
    <3> HIDE DEF o, n
    <3>3. /\ streams'[i] \in ClientStream /\ streams'[i].send = n /\ streams'[i].allowed = o.allowed
          /\ streams'[i].pending = o.pending /\ streams'[i].state = o.state
      BY <3>1, <3>2 DEF ClientStream
    <3> QED
      BY <3>1, <3>3 DEF n, o
  <2>2. Live' = Live
    BY <1>2 DEF Live
  <2>3. streams' \in [Live -> ClientStream]
    BY <1>2, <2>1
  <2> QED
    BY <2>1, <2>2, <2>3
<1>14. Known' = Known /\ \A i : SrvRecv(i)' = SrvRecv(i) /\ SrvSend(i)' = SrvSend(i)
  BY <1>2 DEF Known, SrvRecv, SrvSend
<1>15. /\ InAcks \in Nat /\ Asked(W) \in Nat /\ InAcks + Asked(W) = Len(unacked)
       /\ peer.window = WindowAfter(InAcks)
       /\ \A q \in 1..W : wire[q].kind = "settings" => wire[q].values.window = unacked[InAcks + Asked(q)]
  BY <1>1, <1>7, <1>11 DEF Flow, AcksInOrder, InAcks, Acked, Asked, Summed
<1>16. /\ InAcks' = InAcks + 1 /\ \A n \in 0..P : Acked(n)' = Acked(n)
  <2>1. Total(Marks(toServer', "ack"), P + 1) = Total(Marks(toServer, "ack"), P) + 1
    BY <1>6, <1>8 DEF Extended
  <2>2. \A n \in 0..P : Total(Marks(toServer', "ack"), n) = Total(Marks(toServer, "ack"), n)
    BY <1>6 DEF Extended
  <2> QED
    BY <1>11, <2>1, <2>2 DEF InAcks, Acked
<1>17. \A n \in 0..(W - 1) : Asked(n)' = Asked(n + 1) - 1 /\ Asked(n + 1) \in Nat
  <2>1. \A n \in 0..(W - 1) : n + 1 \in 0..W
    BY <1>11
  <2> QED
    BY <1>4, <1>7, <1>8, <2>1 DEF Shortened, Summed, Asked
<1>18. Asked(1) = 1
  <2>1. Asked(0)' = 0
    BY <1>7 DEF Summed, Asked
  <2> QED
    BY <1>11, <1>17, <2>1
<1>19. v.window = unacked[InAcks + 1] /\ WindowAfter(InAcks)' = v.window
  <2>1. v.window = unacked[InAcks + 1]
    BY <1>2, <1>10, <1>11, <1>15, <1>18 DEF v
  <2>2. InAcks' # 0
    BY <1>15, <1>16
  <2> QED
    BY <1>2, <1>16, <2>1, <2>2 DEF WindowAfter
<1>20. AcksInOrder'
  <2>1. Asked(Len(wire))' = Asked(W) - 1
    <3>1. Total(Marks(wire', "settings"), W - 1) = Asked((W - 1) + 1) - 1
      BY <1>11, <1>17 DEF Asked
    <3> QED
      BY <1>11, <3>1 DEF Asked
  <2>2. InAcks' + Asked(Len(wire))' = Len(unacked)
    <3> DEFINE a == InAcks
               b == Asked(W)
               u == Len(unacked)
    <3>1. a \in Nat /\ b \in Nat /\ a + b = u /\ InAcks' = a + 1 /\ Asked(Len(wire))' = b - 1
      BY <1>15, <1>16, <2>1
    <3> HIDE DEF a, b, u
    <3>2. InAcks' + Asked(Len(wire))' = u
      BY <3>1
    <3> QED
      BY <3>2 DEF u
  <2>3. ASSUME NEW q \in 1..Len(wire'), wire'[q].kind = "settings"
        PROVE  wire'[q].values.window = unacked[InAcks' + Asked(q)']
    <3>1. q \in 0..(W - 1) /\ q + 1 \in 1..W /\ wire'[q] = wire[q + 1]
      BY <1>4, <1>11 DEF Shortened
    <3> DEFINE a == InAcks
               b == Asked(q + 1)
    <3>2. a \in Nat /\ b \in Nat /\ InAcks' = a + 1 /\ Asked(q)' = b - 1
      BY <1>15, <1>16, <1>17, <3>1
    <3>3. wire'[q].values.window = unacked[a + b]
      BY <1>15, <2>3, <3>1
    <3> HIDE DEF a, b
    <3>4. InAcks' + Asked(q)' = a + b
      BY <3>2
    <3> QED
      BY <3>3, <3>4
  <2> QED
    BY <1>2, <1>19, <2>2, <2>3 DEF AcksInOrder
<1>21. Types'
  BY <1>1, <1>2, <1>4, <1>6, <1>9, <1>13, <1>14 DEF Types
<1>22. NeverOverrun' /\ WindowsInStep'
  BY <1>1, <1>2, <1>12 DEF NeverOverrun, WindowsInStep
<1>23. Introduced'
  <2>1. /\ Len(toServer') \in Nat /\ Len(toServer') >= P /\ (\A i \in 1..P : toServer'[i] = toServer[i])
        /\ \A i \in (P + 1)..Len(toServer') : toServer'[i] = g
    BY <1>6, <1>11 DEF Extended
  <2>2. \A i \in (P + 1)..Len(toServer') :
             /\ toServer'[i].kind # "head" /\ (toServer'[i].kind = "data" => toServer'[i].id \in Live)
             /\ toServer'[i].kind = "grant" => toServer'[i].id \in {OnConnection} \cup Known
    BY <1>5, <2>1
  <2>3. \A i \in 1..Len(wire') : i + 1 \in 1..Len(wire) /\ wire'[i] = wire[i + 1]
    BY <1>4, <1>11 DEF Shortened
  <2> QED
    BY <1>1, <1>2, <1>11, <1>13, <1>14, <2>1, <2>2, <2>3, Presented DEF Flow
<1>24. UploadLedger'
  <2>1. ASSUME NEW i \in Live
        PROVE  Level(i, Len(toServer))' = streams'[i].send + Granted(wire', i)
    <3>1. Level(i, P) = streams[i].send + Granted(wire, i) /\ i \in Ids
      BY <1>1 DEF Flow, UploadLedger, Types
    <3> DEFINE r == SrvRecv(i)
               w == peer.window
               c == Charged(toServer, i)
               o == Granted(wire, i)
               n == streams[i].send
    <3>2. r \in Int /\ c \in Nat /\ o \in Nat /\ n \in Int /\ w \in Nat /\ srvWindow \in Nat
      <4>1. r \in Int /\ srvWindow \in Nat
        BY <1>1, <1>7, <1>11, <3>1, LevelTyped DEF Flow
      <4>2. c \in Nat /\ o \in Nat
        BY <1>7 DEF Summed
      <4> QED
        BY <1>9, <1>13, <4>1, <4>2
    <3>3. Level(i, P) = r + w - srvWindow - c
      BY <1>15 DEF Level, InAcks, Charged
    <3>4. Level(i, Len(toServer))' = r + v.window - srvWindow - c
      BY <1>2, <1>12, <1>14, <1>19 DEF Level, InAcks, Charged
    <3>5. Level(i, P) = n + o /\ streams'[i].send = n + delta /\ Granted(wire', i) = o
          /\ v.window = w + delta /\ delta \in Int
      BY <1>9, <1>12, <1>13, <3>1
    <3> HIDE DEF r, w, c, o, n
    <3>6. r + w - srvWindow - c = n + o
      BY <3>3, <3>5
    <3>7. r + (w + delta) - srvWindow - c = (n + delta) + o
      BY <3>2, <3>5, <3>6
    <3> QED
      BY <3>4, <3>5, <3>7
  <2>2. ASSUME NEW p \in 1..Len(toServer'), NEW i,
               toServer'[p].kind = "data", toServer'[p].size > 0, toServer'[p].id = i
        PROVE  Level(i, p)' >= 0
    <3>1. p \in 1..P \/ p = P + 1
      BY <1>11
    <3>2. p \in 1..P /\ toServer'[p] = toServer[p] /\ p \in 0..P
      BY <1>5, <1>6, <1>11, <2>2, <3>1 DEF Extended
    <3>3. Level(i, p) >= 0
      BY <1>1, <2>2, <3>2 DEF Flow, UploadLedger
    <3>4. Total(Sizes(toServer', i), p) = Total(Sizes(toServer, i), p)
      BY <1>6, <3>2 DEF Extended
    <3>5. Level(i, p)' = Level(i, p)
      BY <1>2, <1>14, <1>16, <3>2, <3>4 DEF Level, WindowAfter
    <3> QED
      BY <3>3, <3>5
  <2> QED
    BY <1>13, <2>1, <2>2 DEF UploadLedger
<1>25. DownloadLedger' /\ InHand' /\ Halves'
  BY <1>1, <1>2, <1>12, <1>13, <1>14 DEF Flow, DownloadLedger, InHand, Bounded, Halves
<1> QED
  BY <1>1, <1>2, <1>20, <1>21, <1>22, <1>23, <1>24, <1>25 DEF Inv, Flow

\* The client hears what is no SETTINGS.
LEMMA Heard ==
    ASSUME Types, AcksInOrder, wire # <<>>, wire' = Tail(wire), Head(wire).kind # "settings",
           InAcks' = InAcks, WindowAfter(InAcks)' = WindowAfter(InAcks), UNCHANGED <<unacked, peer>>
    PROVE  /\ Head(wire) \in ToClient /\ Head(wire) = wire[1] /\ 1 \in 1..Len(wire)
           /\ wire' \in Seq(ToClient) /\ Shortened(wire, Head(wire), wire')
           /\ Summed(wire) /\ Summed(wire') /\ AcksInOrder'
           /\ \A i \in 1..Len(wire') : \E j \in 1..Len(wire) : wire'[i] = wire[j]
<1> DEFINE f == Head(wire)
           W == Len(wire)
<1>1. ToClient \in SUBSET Frame /\ wire \in Seq(ToClient)
  BY DEF Types, Frame
<1>2. f \in ToClient /\ wire' \in Seq(ToClient) /\ Shortened(wire, f, wire')
  BY <1>1, OneLess
<1>3. Summed(wire) /\ Summed(wire')
  BY <1>1, <1>2, FramesSummed
<1>4. f = wire[1] /\ MarkOf(f, "settings") = 0
  BY <1>2 DEF Shortened, MarkOf
<1> HIDE DEF f
<1>5. /\ W \in Nat /\ W # 0 /\ Len(wire') = W - 1 /\ 1 \in 1..W
      /\ W - 1 \in 0..(W - 1) /\ (W - 1) + 1 = W
      /\ \A i \in 1..(W - 1) : i \in 0..(W - 1) /\ i + 1 \in 1..W /\ wire'[i] = wire[i + 1]
  BY <1>2, <1>3 DEF Shortened, Summed
<1>6. \A n \in 0..(W - 1) : Asked(n)' = Asked(n + 1)
  <2>1. \A n \in 0..(W - 1) : n + 1 \in 0..W
    BY <1>5
  <2>2. \A n \in 0..(W - 1) : Asked(n)' = Asked(n + 1) - 0 /\ Asked(n + 1) \in Nat
    BY <1>2, <1>3, <1>4, <2>1 DEF Shortened, Summed, Asked
  <2> QED
    BY <2>2
<1>7. Asked(Len(wire))' = Asked(W)
  <2>1. Total(Marks(wire', "settings"), W - 1) = Asked((W - 1) + 1)
    BY <1>5, <1>6 DEF Asked
  <2> QED
    BY <1>5, <2>1 DEF Asked
<1>8. ASSUME NEW q \in 1..Len(wire'), wire'[q].kind = "settings"
      PROVE  wire'[q].values.window = unacked[InAcks + Asked(q)']
  <2>1. q \in 0..(W - 1) /\ q + 1 \in 1..W /\ wire'[q] = wire[q + 1] /\ Asked(q)' = Asked(q + 1)
    BY <1>5, <1>6
  <2> QED
    BY <1>8, <2>1 DEF AcksInOrder
<1>9. AcksInOrder'
  BY <1>7, <1>8 DEF AcksInOrder
<1>10. \A i \in 1..Len(wire') : \E j \in 1..W : wire'[i] = wire[j]
  BY <1>5
<1> QED
  BY <1>2, <1>3, <1>4, <1>5, <1>9, <1>10 DEF f

\* A WINDOW_UPDATE widens the window it is for, and no other.
LEMMA GrantTaken ==
    ASSUME Inv, streamOpen, GrantArrives
    PROVE  Inv'
<1> DEFINE f == Head(wire)
           P == Len(toServer)
<1>1. Types /\ WindowsInStep /\ NeverOverrun /\ Flow /\ pc # "ended"
  BY DEF Inv, Flow
<1>2. /\ wire # <<>> /\ f.kind = "grant" /\ wire' = Tail(wire)
      /\ sendWindow' = sendWindow + (IF f.id = OnConnection THEN f.size ELSE 0)
      /\ streams' = IF f.id \in Live THEN [streams EXCEPT ![f.id].send = @ + f.size] ELSE streams
      /\ UNCHANGED <<recvWindow, peer, streamOpen, pc, highest, left, ended, toServer, srvRecv, srvSend,
                     srvWindow, unacked, srvStreams, verdict, wasted, overrun>>
  BY DEF GrantArrives, Arrives, Held, Live, driver, server, past
<1>3. InAcks' = InAcks /\ WindowAfter(InAcks)' = WindowAfter(InAcks) /\ f.kind # "settings"
  BY <1>2 DEF InAcks, Acked, WindowAfter
<1>4. /\ f \in ToClient /\ f = wire[1] /\ 1 \in 1..Len(wire)
      /\ wire' \in Seq(ToClient) /\ Shortened(wire, f, wire')
      /\ Summed(wire) /\ Summed(wire') /\ AcksInOrder'
      /\ \A i \in 1..Len(wire') : \E j \in 1..Len(wire) : wire'[i] = wire[j]
  BY <1>1, <1>2, <1>3, Heard DEF Flow
<1>5. f.size \in Nat
  BY <1>2, <1>4 DEF ToClient
<1> HIDE DEF f
<1>6. \A i : SizeOf(f, i) = 0 /\ GrantOf(f, i) = IF i = f.id THEN f.size ELSE 0
  BY <1>2 DEF SizeOf, GrantOf
<1>7. /\ \A i : Charged(wire', i) = Charged(wire, i)
      /\ \A i : Granted(wire', i) = Granted(wire, i) - (IF i = f.id THEN f.size ELSE 0)
  BY <1>4, <1>6 DEF Shortened, Summed
<1>8. Live' = Live /\ streams' \in [Live -> ClientStream]
      /\ \A i \in Live : /\ streams[i].send \in Int
                         /\ streams'[i].send = streams[i].send + (IF i = f.id THEN f.size ELSE 0)
                         /\ streams'[i].allowed = streams[i].allowed
                         /\ streams'[i].pending = streams[i].pending
                         /\ streams'[i].state = streams[i].state
  <2>1. streams \in [Live -> ClientStream] /\ \A i \in Live : streams[i].send \in Int
    BY <1>1 DEF Types, ClientStream
  <2>2. CASE f.id \notin Live
    BY <1>2, <2>1, <2>2 DEF Live
  <2>3. CASE f.id \in Live
    <3> DEFINE n == streams[f.id].send + f.size
               s == [streams[f.id] EXCEPT !.send = n]
    <3>1. n \in Int
      BY <1>5, <2>1, <2>3
    <3>2. streams' = [streams EXCEPT ![f.id] = s]
      BY <1>2, <2>3
    <3>3. /\ s \in ClientStream /\ s.send = n /\ s.allowed = streams[f.id].allowed
          /\ s.pending = streams[f.id].pending /\ s.state = streams[f.id].state
      <4> HIDE DEF n
      <4> QED
        BY <2>1, <2>3, <3>1 DEF ClientStream
    <3> HIDE DEF s
    <3>4. Live' = Live
      BY <3>2 DEF Live
    <3> QED
      BY <2>1, <2>3, <3>2, <3>3, <3>4
  <2> QED
    BY <2>2, <2>3
<1>9. Known' = Known /\ \A i : SrvRecv(i)' = SrvRecv(i) /\ SrvSend(i)' = SrvSend(i)
  BY <1>2 DEF Known, SrvRecv, SrvSend
<1>10. Types'
  <2>1. sendWindow' \in Nat
    BY <1>1, <1>2, <1>5 DEF Types
  <2> QED
    BY <1>1, <1>2, <1>4, <1>8, <1>9, <2>1 DEF Types
<1>11. NeverOverrun' /\ WindowsInStep'
  <2>1. /\ srvRecv = sendWindow + Charged(toServer, OnConnection) + Granted(wire, OnConnection)
        /\ recvWindow.allowed = srvSend + Charged(wire, OnConnection) + Granted(toServer, OnConnection)
        /\ sendWindow \in Nat
    BY <1>1, <1>2 DEF WindowsInStep, Types
  <2>2. Charged(toServer, OnConnection) \in Nat /\ Granted(wire, OnConnection) \in Nat
    <3>1. Summed(toServer)
      BY <1>1, FramesSummed DEF Types, Frame
    <3> QED
      BY <1>4, <3>1 DEF Summed
  <2>3. srvRecv = sendWindow' + Charged(toServer, OnConnection) + Granted(wire', OnConnection)
    <3> DEFINE n == IF f.id = OnConnection THEN f.size ELSE 0
    <3>1. n \in Nat /\ sendWindow' = sendWindow + n
          /\ Granted(wire', OnConnection) = Granted(wire, OnConnection) - n
      BY <1>2, <1>5, <1>7
    <3> HIDE DEF n
    <3> QED
      BY <2>1, <2>2, <3>1
  <2> QED
    BY <1>1, <1>2, <1>7, <2>1, <2>3 DEF WindowsInStep, NeverOverrun
<1>12. Introduced'
  <2>1. Len(toServer) \in Nat /\ (Len(toServer) + 1)..Len(toServer) = {}
    BY <1>1 DEF Types
  <2> QED
    BY <1>1, <1>2, <1>4, <1>8, <1>9, <2>1, Presented DEF Flow
<1>13. UploadLedger'
  <2>1. \A i, n : Level(i, n)' = Level(i, n)
    BY <1>2, <1>9 DEF Level, WindowAfter, Acked
  <2>2. ASSUME NEW i \in Live
        PROVE  Level(i, Len(toServer))' = streams'[i].send + Granted(wire', i)
    <3>1. Level(i, P) = streams[i].send + Granted(wire, i)
      BY <1>1 DEF Flow, UploadLedger
    <3>2. Level(i, Len(toServer))' = Level(i, P)
      BY <1>2, <2>1
    <3> DEFINE n == IF i = f.id THEN f.size ELSE 0
    <3>3. /\ n \in Nat /\ streams[i].send \in Int /\ Granted(wire, i) \in Nat
          /\ streams'[i].send = streams[i].send + n
          /\ Granted(wire', i) = Granted(wire, i) - n
      BY <1>4, <1>5, <1>7, <1>8 DEF Summed
    <3> HIDE DEF n
    <3> QED
      BY <3>1, <3>2, <3>3
  <2>3. ASSUME NEW p \in 1..Len(toServer'), NEW i,
               toServer'[p].kind = "data", toServer'[p].size > 0, toServer'[p].id = i
        PROVE  Level(i, p)' >= 0
    BY <1>1, <1>2, <2>1, <2>3 DEF Flow, UploadLedger
  <2> QED
    BY <1>8, <2>2, <2>3 DEF UploadLedger
<1>14. DownloadLedger' /\ InHand' /\ Halves'
  BY <1>1, <1>2, <1>7, <1>8, <1>9 DEF Flow, DownloadLedger, InHand, Bounded, Halves
<1> QED
  BY <1>1, <1>2, <1>4, <1>10, <1>11, <1>12, <1>13, <1>14 DEF Inv, Flow

\* t is s and a WINDOW_UPDATE of n, if that is anything.
Widened(s, t, id, n) ==
    /\ Len(s) \in Nat /\ Len(t) \in Nat /\ Len(t) >= Len(s) /\ \A i \in 1..Len(s) : t[i] = s[i]
    /\ \A i \in (Len(s) + 1)..Len(t) : t[i].kind = "grant" /\ t[i].id = id
    /\ \A i : Charged(t, i) = Charged(s, i)
    /\ \A i : Granted(t, i) = Granted(s, i) + (IF i = id THEN n ELSE 0)
    /\ \A i : \A k \in 0..Len(s) : Total(Sizes(t, i), k) = Total(Sizes(s, i), k)
    /\ \A k \in 0..Len(s) : Total(Marks(t, "ack"), k) = Total(Marks(s, "ack"), k)
    /\ Total(Marks(t, "ack"), Len(t)) = Total(Marks(s, "ack"), Len(s))

LEMMA Widening ==
    ASSUME NEW s \in Seq(ToServer), NEW id \in 0..Requests, NEW n \in Nat, NEW t, t = s \o Grant(id, n)
    PROVE  t \in Seq(ToServer) /\ Widened(s, t, id, n)
<1> DEFINE g == [kind |-> "grant", id |-> id, size |-> n]
<1>1. ToServer \in SUBSET Frame /\ g \in ToServer
  BY DEF Frame, ToServer
<1>2. Summed(s)
  BY <1>1, FramesSummed
<1>3. t \in Seq(ToServer) /\ ((t = s /\ n = 0) \/ t = Append(s, g))
  BY <1>1, Restored
<1>4. CASE t = s /\ n = 0
  <2>1. Len(s) \in Nat /\ (Len(s) + 1)..Len(s) = {} /\ \A i : Granted(s, i) \in Nat
    BY <1>2 DEF Summed
  <2>2. \A i : Granted(s, i) = Granted(s, i) + (IF i = id THEN n ELSE 0)
    BY <1>4, <2>1
  <2> QED
    BY <1>3, <1>4, <2>1, <2>2 DEF Widened
<1>5. CASE t = Append(s, g)
  <2>1. Extended(s, g, t)
    BY <1>1, <1>5, OneMore
  <2>2. /\ g.kind = "grant" /\ g.id = id /\ MarkOf(g, "ack") = 0
        /\ \A i : SizeOf(g, i) = 0 /\ GrantOf(g, i) = IF i = id THEN n ELSE 0
    BY DEF SizeOf, GrantOf, MarkOf
  <2> HIDE DEF g
  <2>3. /\ Len(s) \in Nat /\ Len(t) = Len(s) + 1 /\ \A i \in 1..Len(s) : t[i] = s[i]
        /\ \A i \in (Len(s) + 1)..Len(t) : t[i] = g
    BY <1>2, <2>1 DEF Summed, Extended
  <2>4. \A i : Charged(t, i) = Charged(s, i)
    BY <1>2, <2>1, <2>2 DEF Summed, Extended
  <2>5. \A i : Granted(t, i) = Granted(s, i) + (IF i = id THEN n ELSE 0)
    BY <2>1, <2>2 DEF Extended
  <2>6. Total(Marks(t, "ack"), Len(t)) = Total(Marks(s, "ack"), Len(s))
    <3>1. Total(Marks(s, "ack"), Len(s)) \in Nat
      BY <1>2, <2>3 DEF Summed
    <3>2. Total(Marks(t, "ack"), Len(s) + 1) = Total(Marks(s, "ack"), Len(s)) + 0
      BY <2>1, <2>2 DEF Extended
    <3> QED
      BY <2>3, <3>1, <3>2
  <2>7. /\ \A i : \A k \in 0..Len(s) : Total(Sizes(t, i), k) = Total(Sizes(s, i), k)
        /\ \A k \in 0..Len(s) : Total(Marks(t, "ack"), k) = Total(Marks(s, "ack"), k)
    BY <2>1 DEF Extended
  <2>8. Len(t) \in Nat /\ Len(t) >= Len(s)
    BY <2>3
  <2>9. \A i \in (Len(s) + 1)..Len(t) : t[i].kind = "grant" /\ t[i].id = id
    BY <2>2, <2>3
  <2>10. Widened(s, t, id, n)
    BY <2>3, <2>4, <2>5, <2>6, <2>7, <2>8, <2>9, Zenon DEF Widened
  <2> QED
    BY <1>3, <2>10
<1> HIDE DEF g
<1> QED
  BY <1>3, <1>4, <1>5

\* Of a window [a, p], n octets have been handed on and d came with them for nothing:
\* what is held back stays below half the window, and only the d are lost.
Spared(a, p, n, d) ==
    /\ Due(p + n) \in Nat /\ (p + n) - Due(p + n) \in Nat
    /\ 2 * ((p + n) - Due(p + n)) < RecvCapacity
    /\ (a - (n + d)) + Due(p + n) \in Nat
    /\ ((a - (n + d)) + Due(p + n)) + ((p + n) - Due(p + n)) = (a + p) - d

LEMMA HeldBack ==
    ASSUME NEW a \in Nat, NEW p \in Nat, NEW n \in Nat, NEW d \in Nat,
           2 * p < RecvCapacity, a + p <= RecvCapacity, n + d <= a
    PROVE  Spared(a, p, n, d)
<1>1. RecvCapacity \in Nat /\ RecvCapacity > 0
  BY H2Assumption
<1>2. CASE (p + n) * 2 < RecvCapacity
  BY <1>1, <1>2 DEF Due, Spared
<1>3. CASE ~((p + n) * 2 < RecvCapacity)
  BY <1>1, <1>3 DEF Due, Spared
<1> QED
  BY <1>2, <1>3

\* The parts of a window some octets of which have been consumed.
LEMMA ConsumedParts ==
    ASSUME NEW w, NEW n \in Nat, NEW W \in {[allowed : Nat, pending : Nat], ClientStream}, w \in W,
           w.allowed + Due(w.pending + n) \in Nat, (w.pending + n) - Due(w.pending + n) \in Nat
    PROVE  /\ Consumed(w, n) \in W
           /\ Consumed(w, n).allowed = w.allowed + Due(w.pending + n)
           /\ Consumed(w, n).pending = (w.pending + n) - Due(w.pending + n)
           /\ W = ClientStream => Consumed(w, n).send = w.send /\ Consumed(w, n).state = w.state
<1> DEFINE a == w.allowed + Due(w.pending + n)
           p == (w.pending + n) - Due(w.pending + n)
<1>1. Consumed(w, n) = [w EXCEPT !.allowed = a, !.pending = p]
  <2>1. CASE W = ClientStream
    BY <2>1 DEF Consumed, ClientStream
  <2>2. CASE W = [allowed : Nat, pending : Nat]
    BY <2>2 DEF Consumed
  <2> QED
    BY <2>1, <2>2
<1>2. a \in Nat /\ p \in Nat
  OBVIOUS
<1> HIDE DEF a, p
<1>3. CASE W = ClientStream
  BY <1>1, <1>2, <1>3 DEF ClientStream, a, p
<1>4. CASE W = [allowed : Nat, pending : Nat]
  <2>1. Consumed(w, n) \in W /\ Consumed(w, n).allowed = a /\ Consumed(w, n).pending = p
    BY <1>1, <1>2, <1>4
  <2>2. W # ClientStream
    <3>1. [allowed |-> 0, pending |-> 0] \in W /\ [allowed |-> 0, pending |-> 0] \notin ClientStream
      BY <1>4 DEF ClientStream
    <3> QED
      BY <3>1
  <2> QED
    BY <2>1, <2>2 DEF a, p
<1> QED
  BY <1>3, <1>4

\* Body that comes is charged to both windows, and given back as it is handed on.
LEMMA DataTaken ==
    ASSUME Inv, streamOpen, DataArrives
    PROVE  Inv'
<1> DEFINE f == Head(wire)
           c == Charge(f)
           taken == IF pc = "body" /\ Mine(f) THEN f.size ELSE 0
           charged == [recvWindow EXCEPT !.allowed = @ - c]
           old == streams[f.id]
           s == [old EXCEPT !.allowed = @ - c]
           due == IF taken = 0 THEN 0 ELSE Due(recvWindow.pending + taken)
           streamDue == IF taken = 0 \/ f.end THEN 0 ELSE Due(s.pending + taken)
           t == toServer \o Grant(OnConnection, due)
           P == Len(toServer)
<1>1. Types /\ WindowsInStep /\ NeverOverrun /\ Flow /\ pc # "ended"
  BY DEF Inv, Flow
<1>2. /\ wire # <<>> /\ f.kind = "data" /\ wire' = Tail(wire) /\ ~(pc = "head" /\ Mine(f))
      /\ pc \in {"sending", "head"} \/ (pc = "body" /\ ~ended)
      /\ UNCHANGED <<sendWindow, peer, streamOpen, pc, highest, left, srvRecv, srvSend,
                     srvWindow, unacked, srvStreams, verdict, overrun>>
      /\ ended' = (ended \/ (pc = "body" /\ Mine(f) /\ f.end))
      /\ wasted' = (wasted \/ f.size + f.pad > taken)
  BY DEF DataArrives, Arrives, Awaits, server
<1>3. /\ recvWindow' = IF taken = 0 THEN charged ELSE Consumed(charged, taken)
      /\ streams' = IF ~Held(f) THEN streams
                    ELSE IF f.end THEN ClosedRemote(f.id, s)
                    ELSE [streams EXCEPT ![f.id] = IF taken = 0 THEN s ELSE Consumed(s, taken)]
      /\ toServer' = t \o Grant(f.id, streamDue)
  BY DEF DataArrives
<1>4. /\ f \in ToClient /\ f = wire[1] /\ 1 \in 1..Len(wire) /\ ~OverWindow(f)
      /\ Summed(toServer) /\ toServer \in Seq(ToServer)
  BY <1>1, <1>2, WithinWindows
<1> HIDE DEF charged, s, old, due, streamDue, t, taken, c, f
<1>5. /\ f.size \in Nat /\ f.pad \in Nat /\ f.id \in Ids /\ f.end \in BOOLEAN /\ f.id # OnConnection
      /\ f.id \in Known
  <2>1. f.size \in Nat /\ f.pad \in Nat /\ f.id \in Ids /\ f.end \in BOOLEAN
    BY <1>2, <1>4 DEF ToClient
  <2>2. f.id # OnConnection
    BY <2>1 DEF Ids, OnConnection
  <2>3. Introduced
    BY <1>1 DEF Flow
  <2> QED
    BY <1>2, <1>4, <2>1, <2>2, <2>3 DEF Introduced
<1>6. c \in Nat /\ c = f.size + f.pad
  BY <1>5 DEF c, Charge
<1>7. /\ taken = 0 \/ taken = f.size
      /\ taken \in Nat
      /\ taken # 0 => pc = "body" /\ f.id = highest /\ f.id \in Live /\ ~ended /\ taken = f.size
  BY <1>2, <1>5 DEF taken, Mine, Held, Live
<1>8. /\ recvWindow \in [allowed : Nat, pending : Nat] /\ c <= recvWindow.allowed
      /\ f.id \in Live => old \in ClientStream /\ c <= old.allowed
  <2>1. /\ recvWindow \in [allowed : Nat, pending : Nat] /\ recvWindow.allowed \in Nat
        /\ f.id \in Live => old \in ClientStream /\ old.allowed \in Nat
    BY <1>1 DEF old, Types, ClientStream
  <2>2. ~(c > recvWindow.allowed) /\ (f.id \in Live => ~(c > old.allowed))
    BY <1>2, <1>4, <1>6 DEF OverWindow, Held, Live, old
  <2> QED
    BY <1>6, <2>1, <2>2
<1>80. ~wasted' => ~wasted /\ ~(f.size + f.pad > taken)
  <2>1. wasted' = (wasted \/ f.size + f.pad > taken)
    BY <1>2
  <2> QED
    BY <2>1, Zenon
<1>9. /\ Bounded(recvWindow) /\ \A i \in Live : Bounded(streams[i])
      /\ highest \in Live \/ pc \notin {"sending", "head", "body"}
      /\ pc = "sending" => streams[highest].state # "HALF_CLOSED_LOCAL"
      /\ pc \in {"head", "body"} => streams[highest].state = "HALF_CLOSED_LOCAL"
  BY <1>1, <1>2 DEF Flow, InHand, Halves
<1>10. /\ charged \in [allowed : Nat, pending : Nat] /\ charged.allowed = recvWindow.allowed - c
       /\ charged.pending = recvWindow.pending
  <2> DEFINE a == recvWindow.allowed - c
  <2>1. a \in Nat /\ charged = [recvWindow EXCEPT !.allowed = a]
    BY <1>6, <1>8 DEF charged
  <2> HIDE DEF a
  <2>2. charged \in [allowed : Nat, pending : Nat] /\ charged.allowed = a
       /\ charged.pending = recvWindow.pending
    BY <1>8, <2>1
  <2> QED
    BY <2>2 DEF a
<1>11. ASSUME f.id \in Live
       PROVE  /\ s \in ClientStream /\ s.allowed = old.allowed - c /\ s.pending = old.pending
              /\ s.send = old.send /\ s.state = old.state
  <2> DEFINE a == old.allowed - c
  <2>1. a \in Nat /\ s = [old EXCEPT !.allowed = a] /\ old \in ClientStream
    BY <1>6, <1>8, <1>11 DEF s, ClientStream
  <2> HIDE DEF a
  <2>2. /\ s \in ClientStream /\ s.allowed = a /\ s.pending = old.pending
        /\ s.send = old.send /\ s.state = old.state
    BY <2>1 DEF ClientStream
  <2> QED
    BY <2>2 DEF a

\* The window of the connection.
<1>12. /\ recvWindow' \in [allowed : Nat, pending : Nat] /\ due \in Nat
       /\ recvWindow'.allowed = (recvWindow.allowed - c) + due
       /\ Bounded(recvWindow)'
  <2> DEFINE a == recvWindow.allowed
             p == recvWindow.pending
  <2>1. a \in Nat /\ p \in Nat /\ 2 * p < RecvCapacity /\ a + p <= RecvCapacity /\ c <= a
        /\ (~wasted => a + p = RecvCapacity)
    BY <1>8, <1>9 DEF Bounded
  <2>2. RecvCapacity \in Nat
    BY H2Assumption
  <2>3. CASE taken = 0
    <3>1. recvWindow' = charged /\ due = 0
      BY <1>3, <2>3 DEF due
    <3>2. ~wasted' => ~wasted /\ c = 0
      BY <1>5, <1>6, <1>80, <2>3
    <3>3. recvWindow'.allowed = a - c /\ recvWindow'.pending = p
      BY <1>10, <3>1
    <3> HIDE DEF a, p
    <3>4. Bounded(recvWindow)'
      BY <1>6, <2>1, <2>2, <3>2, <3>3 DEF Bounded
    <3> QED
      BY <1>6, <1>10, <2>1, <3>1, <3>3, <3>4 DEF a
  <2>4. CASE taken # 0
    <3>1. recvWindow' = Consumed(charged, taken) /\ due = Due(p + taken)
      BY <1>3, <2>4 DEF due
    <3>2. taken \in Nat /\ taken = f.size /\ taken + f.pad = c /\ f.pad \in Nat
          /\ taken + f.pad <= a
      BY <1>5, <1>6, <1>7, <2>1, <2>4
    <3>3. ~wasted' => ~wasted /\ f.pad = 0
      BY <1>5, <1>80, <3>2
    <3>4. charged.allowed = a - (taken + f.pad) /\ charged.pending = p
      BY <1>10, <3>2
    <3> HIDE DEF a, p
    <3>5. /\ Due(p + taken) \in Nat /\ (p + taken) - Due(p + taken) \in Nat
          /\ 2 * ((p + taken) - Due(p + taken)) < RecvCapacity
          /\ (a - (taken + f.pad)) + Due(p + taken) \in Nat
          /\ ((a - (taken + f.pad)) + Due(p + taken)) + ((p + taken) - Due(p + taken)) = (a + p) - f.pad
      <4>1. Spared(a, p, taken, f.pad)
        BY <2>1, <3>2, HeldBack
      <4> QED
        BY <4>1 DEF Spared
    <3>6. /\ recvWindow' \in [allowed : Nat, pending : Nat]
          /\ recvWindow'.allowed = (a - (taken + f.pad)) + Due(p + taken)
          /\ recvWindow'.pending = (p + taken) - Due(p + taken)
      BY <1>10, <3>1, <3>2, <3>4, <3>5, ConsumedParts
    <3>7. Bounded(recvWindow)'
      <4> DEFINE x == recvWindow'.allowed
                 y == recvWindow'.pending
      <4>1. 2 * y < RecvCapacity /\ x + y = (a + p) - f.pad
        BY <3>5, <3>6
      <4> HIDE DEF x, y
      <4>2. x + y <= RecvCapacity /\ (~wasted' => x + y = RecvCapacity)
        BY <2>1, <2>2, <3>2, <3>3, <4>1
      <4> QED
        BY <4>1, <4>2 DEF Bounded, x, y
    <3> QED
      BY <3>1, <3>2, <3>5, <3>6, <3>7 DEF a
  <2> QED
    BY <2>3, <2>4

\* The window of the stream.
<1> DEFINE streamKept == IF taken = 0 THEN 0 ELSE Due(s.pending + taken)
           u == IF taken = 0 THEN s ELSE Consumed(s, taken)
           Fits(x) == /\ 2 * x.pending < RecvCapacity /\ x.allowed + x.pending <= RecvCapacity
                      /\ ~wasted' => x.allowed + x.pending = RecvCapacity
<1>13. ASSUME f.id \in Live
       PROVE  /\ streamKept \in Nat /\ u \in ClientStream /\ u.allowed = (old.allowed - c) + streamKept
              /\ u.send = old.send /\ u.state = old.state /\ Fits(u)
  <2> DEFINE a == old.allowed
             p == old.pending
  <2>1. a \in Nat /\ p \in Nat /\ 2 * p < RecvCapacity /\ a + p <= RecvCapacity /\ c <= a
        /\ (~wasted => a + p = RecvCapacity)
    <3>1. Bounded(old)
      BY <1>9, <1>13 DEF old
    <3> QED
      BY <1>8, <1>13, <3>1 DEF Bounded, ClientStream
  <2>2. RecvCapacity \in Nat
    BY H2Assumption
  <2>3. s \in ClientStream /\ s.allowed = a - c /\ s.pending = p /\ s.send = old.send /\ s.state = old.state
    BY <1>11, <1>13
  <2>4. CASE taken = 0
    <3>1. u = s /\ streamKept = 0
      BY <2>4
    <3>2. ~wasted' => ~wasted /\ c = 0
      BY <1>5, <1>6, <1>80, <2>4
    <3> HIDE DEF a, p, u, streamKept
    <3>3. Fits(u)
      BY <1>6, <2>1, <2>2, <2>3, <3>1, <3>2
    <3>4. u.allowed = a - c /\ (a - c) + streamKept = a - c
      BY <1>6, <2>1, <2>3, <3>1
    <3> HIDE DEF Fits
    <3> QED
      BY <2>3, <3>1, <3>3, <3>4 DEF a
  <2>5. CASE taken # 0
    <3>1. u = Consumed(s, taken) /\ streamKept = Due(p + taken)
      BY <2>3, <2>5
    <3>2. taken \in Nat /\ taken = f.size /\ taken + f.pad = c /\ f.pad \in Nat
          /\ taken + f.pad <= a
      BY <1>5, <1>6, <1>7, <2>1, <2>5
    <3>3. ~wasted' => ~wasted /\ f.pad = 0
      BY <1>5, <1>80, <3>2
    <3>4. s.allowed = a - (taken + f.pad) /\ s.pending = p
      BY <2>3, <3>2
    <3> HIDE DEF a, p, u, streamKept, Fits
    <3>5. /\ Due(p + taken) \in Nat /\ (p + taken) - Due(p + taken) \in Nat
          /\ 2 * ((p + taken) - Due(p + taken)) < RecvCapacity
          /\ (a - (taken + f.pad)) + Due(p + taken) \in Nat
          /\ ((a - (taken + f.pad)) + Due(p + taken)) + ((p + taken) - Due(p + taken)) = (a + p) - f.pad
      <4>1. Spared(a, p, taken, f.pad)
        BY <2>1, <3>2, HeldBack
      <4> QED
        BY <4>1 DEF Spared
    <3>6. /\ u \in ClientStream
          /\ u.allowed = (a - (taken + f.pad)) + Due(p + taken)
          /\ u.pending = (p + taken) - Due(p + taken)
          /\ u.send = s.send /\ u.state = s.state
      BY <2>3, <3>1, <3>2, <3>4, <3>5, ConsumedParts
    <3>7. Fits(u)
      <4> DEFINE x == u.allowed
                 y == u.pending
      <4>1. 2 * y < RecvCapacity /\ x + y = (a + p) - f.pad
        BY <3>5, <3>6
      <4> HIDE DEF x, y
      <4>2. x + y <= RecvCapacity /\ (~wasted' => x + y = RecvCapacity)
        BY <2>1, <2>2, <3>2, <3>3, <4>1
      <4> QED
        BY <4>1, <4>2 DEF Fits, x, y
    <3>8. u.allowed = (a - c) + streamKept
      BY <3>1, <3>2, <3>6
    <3> QED
      BY <2>3, <3>1, <3>5, <3>6, <3>7, <3>8 DEF a
  <2> QED
    BY <2>4, <2>5
<1>14. /\ streamDue \in Nat /\ (streamDue # 0 => f.id \in Live)
       /\ Live' \subseteq Live /\ streams' \in [Live' -> ClientStream]
       /\ \A i \in Live' : i # f.id => streams'[i] = streams[i]
       /\ \A i \in Live \ Live' : i = f.id /\ f.end /\ old.state = "HALF_CLOSED_LOCAL"
       /\ f.id \in Live' =>
            /\ streams'[f.id].allowed = (old.allowed - c) + streamDue
            /\ streams'[f.id].send = old.send /\ Fits(streams'[f.id])
            /\ \/ /\ f.end /\ old.state # "HALF_CLOSED_LOCAL"
                  /\ streams'[f.id].state = "HALF_CLOSED_REMOTE"
               \/ ~f.end /\ streams'[f.id].state = old.state
  <2>1. streams \in [Live -> ClientStream]
    BY <1>1 DEF Types
  <2>2. CASE f.id \notin Live
    <3>1. taken = 0 /\ streamDue = 0 /\ streams' = streams /\ Live' = Live
      BY <1>3, <1>7, <2>2 DEF Held, Live, streamDue
    <3> QED
      BY <2>1, <2>2, <3>1
  <2>3. CASE f.id \in Live /\ f.end /\ s.state = "HALF_CLOSED_LOCAL"
    <3>1. streamDue = 0 /\ streams' = ClosedRemote(f.id, s)
      BY <1>3, <2>3 DEF Held, Live, streamDue
    <3>2. streams' = [i \in Live \ {f.id} |-> streams[i]]
      BY <2>3, <3>1 DEF ClosedRemote, Restrict, Live
    <3>3. Live' = Live \ {f.id} /\ streams' \in [Live' -> ClientStream]
          /\ \A i \in Live' : streams'[i] = streams[i]
      BY <2>1, <3>2 DEF Live
    <3> QED
      BY <1>11, <2>3, <3>1, <3>3
  <2>4. CASE f.id \in Live /\ f.end /\ s.state # "HALF_CLOSED_LOCAL"
    <3> DEFINE r == [s EXCEPT !.state = "HALF_CLOSED_REMOTE"]
    <3>1. s.state = old.state /\ taken = 0
      BY <1>7, <1>9, <1>11, <2>4 DEF old
    <3>2. streamDue = 0 /\ streams' = ClosedRemote(f.id, s) /\ streamKept = 0 /\ u = s
      BY <1>3, <2>4, <3>1 DEF Held, Live, streamDue
    <3> HIDE DEF u, streamKept, Fits
    <3>3. /\ s \in ClientStream /\ s.allowed = (old.allowed - c) + streamDue /\ s.send = old.send /\ Fits(s)
      BY <1>13, <2>4, <3>2
    <3>4. /\ r \in ClientStream /\ r.allowed = s.allowed /\ r.send = s.send /\ r.pending = s.pending
          /\ r.state = "HALF_CLOSED_REMOTE"
      BY <3>3 DEF ClientStream
    <3>5. streams' = [streams EXCEPT ![f.id] = r]
      BY <2>4, <3>2 DEF ClosedRemote
    <3> HIDE DEF r
    <3>6. Fits(r)
      BY <3>3, <3>4 DEF Fits
    <3>7. Live' = Live /\ streams' \in [Live' -> ClientStream] /\ streams'[f.id] = r
          /\ \A i \in Live : i # f.id => streams'[i] = streams[i]
      BY <2>1, <2>4, <3>4, <3>5 DEF Live
    <3> QED
      BY <2>4, <3>1, <3>2, <3>3, <3>4, <3>6, <3>7
  <2>5. CASE f.id \in Live /\ ~f.end
    <3>1. streamDue = streamKept /\ streams' = [streams EXCEPT ![f.id] = u]
      BY <1>3, <2>5 DEF Held, Live, streamDue
    <3> HIDE DEF u, streamKept, Fits
    <3>2. Live' = Live /\ streams' \in [Live' -> ClientStream] /\ streams'[f.id] = u
          /\ \A i \in Live : i # f.id => streams'[i] = streams[i]
      BY <1>13, <2>1, <2>5, <3>1 DEF Live
    <3> QED
      BY <1>13, <2>5, <3>1, <3>2
  <2> QED
    BY <1>5, <2>2, <2>3, <2>4, <2>5
<1> HIDE DEF u, streamKept

\* What is said of both.
<1>15. /\ toServer' \in Seq(ToServer) /\ Len(toServer') \in Nat /\ Len(toServer') >= P /\ P \in Nat
       /\ \A i \in 1..P : toServer'[i] = toServer[i]
       /\ \A i \in (P + 1)..Len(toServer') :
            toServer'[i].kind = "grant" /\ toServer'[i].id \in {OnConnection, f.id}
       /\ \A i : Charged(toServer', i) = Charged(toServer, i)
       /\ Granted(toServer', OnConnection) = Granted(toServer, OnConnection) + due
       /\ Granted(toServer', f.id) = Granted(toServer, f.id) + streamDue
       /\ \A i : i \notin {OnConnection, f.id} => Granted(toServer', i) = Granted(toServer, i)
       /\ \A i : \A n \in 0..P : Total(Sizes(toServer', i), n) = Total(Sizes(toServer, i), n)
       /\ \A n \in 0..P : Acked(n)' = Acked(n)
       /\ InAcks' = InAcks
  <2>1. OnConnection \in 0..Requests /\ f.id \in 0..Requests
    BY <1>5, H2Assumption DEF OnConnection, Ids
  <2>2. t \in Seq(ToServer) /\ Widened(toServer, t, OnConnection, due)
    BY <1>4, <1>12, <2>1, Widening DEF t
  <2>3. toServer' \in Seq(ToServer) /\ Widened(t, toServer', f.id, streamDue)
    BY <1>3, <1>14, <2>1, <2>2, Widening
  <2>4. /\ P \in Nat /\ Len(t) \in Nat /\ Len(toServer') \in Nat /\ Len(toServer') >= Len(t) /\ Len(t) >= P
        /\ \A i \in 1..P : t[i] = toServer[i]
        /\ \A i \in 1..Len(t) : toServer'[i] = t[i]
        /\ \A i \in (P + 1)..Len(t) : t[i].kind = "grant" /\ t[i].id = OnConnection
        /\ \A i \in (Len(t) + 1)..Len(toServer') : toServer'[i].kind = "grant" /\ toServer'[i].id = f.id
    BY <2>2, <2>3 DEF Widened
  <2>5. Len(toServer') >= P /\ \A i \in 1..P : toServer'[i] = toServer[i]
    BY <2>4
  <2>6. ASSUME NEW i \in (P + 1)..Len(toServer')
        PROVE  toServer'[i].kind = "grant" /\ toServer'[i].id \in {OnConnection, f.id}
    <3>1. i \in (P + 1)..Len(t) \/ i \in (Len(t) + 1)..Len(toServer')
      BY <2>4
    <3>2. ASSUME i \in (P + 1)..Len(t) PROVE toServer'[i] = t[i]
      BY <2>4, <3>2
    <3> QED
      BY <2>4, <3>1, <3>2
  <2>7. \A i : Charged(toServer', i) = Charged(toServer, i)
    BY <2>2, <2>3 DEF Widened
  <2>8. \A i : Granted(toServer, i) \in Nat
    BY <1>4 DEF Summed
  <2>9. /\ Granted(toServer', OnConnection) = Granted(toServer, OnConnection) + due
        /\ Granted(toServer', f.id) = Granted(toServer, f.id) + streamDue
        /\ \A i : i \notin {OnConnection, f.id} => Granted(toServer', i) = Granted(toServer, i)
    <3>1. \A i : /\ Granted(t, i) = Granted(toServer, i) + (IF i = OnConnection THEN due ELSE 0)
                 /\ Granted(toServer', i) = Granted(t, i) + (IF i = f.id THEN streamDue ELSE 0)
      BY <2>2, <2>3 DEF Widened
    <3>2. \A i : i # OnConnection => Granted(t, i) = Granted(toServer, i)
      BY <2>8, <3>1
    <3>3. Granted(t, OnConnection) = Granted(toServer, OnConnection) + due
          /\ Granted(t, OnConnection) \in Nat
      BY <1>12, <2>8, <3>1
    <3>4. Granted(toServer', OnConnection) = Granted(t, OnConnection)
      BY <1>5, <3>1, <3>3
    <3>5. Granted(toServer', f.id) = Granted(toServer, f.id) + streamDue
      BY <1>5, <3>1, <3>2
    <3>6. \A i : i \notin {OnConnection, f.id} => Granted(toServer', i) = Granted(toServer, i)
      BY <2>8, <3>1, <3>2
    <3> QED
      BY <3>3, <3>4, <3>5, <3>6
  <2>10. \A n \in 0..P : n \in 0..Len(t)
    BY <2>4
  <2>11. /\ \A i : \A n \in 0..P : Total(Sizes(toServer', i), n) = Total(Sizes(toServer, i), n)
         /\ \A n \in 0..P : Total(Marks(toServer', "ack"), n) = Total(Marks(toServer, "ack"), n)
         /\ Total(Marks(toServer', "ack"), Len(toServer')) = Total(Marks(toServer, "ack"), P)
    BY <2>2, <2>3, <2>10 DEF Widened
  <2> QED
    BY <2>3, <2>4, <2>5, <2>6, <2>7, <2>9, <2>11 DEF Acked, InAcks
<1> HIDE DEF Fits

\* What both ends have of the windows now.
<1>16. /\ Known' = Known /\ \A i : SrvRecv(i)' = SrvRecv(i) /\ SrvSend(i)' = SrvSend(i)
       /\ WindowAfter(InAcks)' = WindowAfter(InAcks)
  BY <1>2, <1>15 DEF Known, SrvRecv, SrvSend, WindowAfter
<1>17. /\ wire' \in Seq(ToClient) /\ Shortened(wire, f, wire')
       /\ Summed(wire) /\ Summed(wire') /\ AcksInOrder'
       /\ \A i \in 1..Len(wire') : \E j \in 1..Len(wire) : wire'[i] = wire[j]
  <2>1. f.kind # "settings" /\ f = Head(wire)
    BY <1>2 DEF f
  <2>2. Head(wire).kind # "settings"
    BY <2>1
  <2> QED
    BY <1>1, <1>2, <1>15, <1>16, <2>1, <2>2, Heard DEF Flow
<1>18. /\ \A i : Granted(wire', i) = Granted(wire, i)
       /\ Charged(wire', OnConnection) = Charged(wire, OnConnection) - c
       /\ Charged(wire', f.id) = Charged(wire, f.id) - c
       /\ \A i \in Ids : i # f.id => Charged(wire', i) = Charged(wire, i)
  <2>1. /\ SizeOf(f, OnConnection) = c /\ SizeOf(f, f.id) = c /\ \A i : GrantOf(f, i) = 0
        /\ \A i \in Ids : i # f.id => SizeOf(f, i) = 0
    BY <1>2, <1>6 DEF SizeOf, GrantOf, Ids, OnConnection
  <2> QED
    BY <1>17, <2>1 DEF Shortened, Summed
<1>19. Types'
  <2>1. ended' \in BOOLEAN /\ wasted' \in BOOLEAN
    BY <1>1, <1>2 DEF Types
  <2>2. Live' \subseteq Ids
    BY <1>1, <1>14 DEF Types
  <2> QED
    BY <1>1, <1>2, <1>12, <1>14, <1>15, <1>16, <1>17, <2>1, <2>2 DEF Types
<1>20. NeverOverrun' /\ WindowsInStep'
  <2>1. /\ srvRecv = sendWindow + Charged(toServer, OnConnection) + Granted(wire, OnConnection)
        /\ recvWindow.allowed = srvSend + Charged(wire, OnConnection) + Granted(toServer, OnConnection)
        /\ srvSend \in Nat /\ recvWindow.allowed \in Nat
    BY <1>1, <1>2, <1>8 DEF WindowsInStep, Types
  <2>2. Charged(wire, OnConnection) \in Nat /\ Granted(toServer, OnConnection) \in Nat
    BY <1>4, <1>17 DEF Summed
  <2>3. recvWindow'.allowed = srvSend + Charged(wire', OnConnection) + Granted(toServer', OnConnection)
    <3>1. /\ recvWindow'.allowed = (recvWindow.allowed - c) + due
          /\ Charged(wire', OnConnection) = Charged(wire, OnConnection) - c
          /\ Granted(toServer', OnConnection) = Granted(toServer, OnConnection) + due
          /\ due \in Nat
      BY <1>12, <1>15, <1>18
    <3> QED
      BY <1>6, <2>1, <2>2, <3>1
  <2>4. srvRecv = sendWindow + Charged(toServer', OnConnection) + Granted(wire', OnConnection)
    BY <1>15, <1>18, <2>1
  <2> QED
    BY <1>1, <1>2, <2>3, <2>4 DEF WindowsInStep, NeverOverrun
<1>21. Introduced'
  <2>1. \A i \in (P + 1)..Len(toServer') :
             /\ toServer'[i].kind # "head" /\ (toServer'[i].kind = "data" => toServer'[i].id \in Live)
             /\ toServer'[i].kind = "grant" => toServer'[i].id \in {OnConnection} \cup Known
    BY <1>5, <1>15
  <2> QED
    BY <1>1, <1>2, <1>14, <1>15, <1>16, <1>17, <2>1, Presented DEF Flow
<1>22. UploadLedger'
  <2>1. ASSUME NEW i, NEW n \in 0..P PROVE Level(i, n)' = Level(i, n)
    BY <1>2, <1>15, <1>16 DEF Level, WindowAfter
  <2>2. ASSUME NEW i \in Live'
        PROVE  Level(i, Len(toServer))' = streams'[i].send + Granted(wire', i)
    <3>1. i \in Live /\ Level(i, P) = streams[i].send + Granted(wire, i)
      BY <1>1, <1>14 DEF Flow, UploadLedger
    <3>2. Level(i, Len(toServer))' = Level(i, P)
      BY <1>2, <1>15, <1>16 DEF Level, InAcks, Charged
    <3>3. streams'[i].send = streams[i].send
      BY <1>14 DEF old
    <3> QED
      BY <1>18, <3>1, <3>2, <3>3
  <2>3. ASSUME NEW p \in 1..Len(toServer'), NEW i,
               toServer'[p].kind = "data", toServer'[p].size > 0, toServer'[p].id = i
        PROVE  Level(i, p)' >= 0
    <3>1. p \in 1..P \/ p \in (P + 1)..Len(toServer')
      BY <1>15
    <3>2. p \in 1..P /\ p \in 0..P /\ toServer'[p] = toServer[p]
      BY <1>15, <2>3, <3>1
    <3>3. Level(i, p) >= 0
      BY <1>1, <2>3, <3>2 DEF Flow, UploadLedger
    <3> QED
      BY <2>1, <3>2, <3>3
  <2> QED
    BY <2>2, <2>3 DEF UploadLedger
<1>23. DownloadLedger'
  <2>1. ASSUME NEW i \in Live'
        PROVE  streams'[i].allowed = SrvSend(i) + Charged(wire', i) + Granted(toServer', i)
    <3>1. i \in Live /\ i \in Ids /\ i # OnConnection
          /\ streams[i].allowed = SrvSend(i) + Charged(wire, i) + Granted(toServer, i)
      BY <1>1, <1>14 DEF Flow, DownloadLedger, Types, Ids, OnConnection
    <3>2. CASE i # f.id
      BY <1>14, <1>15, <1>18, <3>1, <3>2
    <3>3. CASE i = f.id
      <4>1. /\ streams'[i].allowed = (streams[i].allowed - c) + streamDue /\ streams[i].allowed \in Nat
            /\ Charged(wire', i) = Charged(wire, i) - c
            /\ Granted(toServer', i) = Granted(toServer, i) + streamDue
            /\ streamDue \in Nat
        BY <1>8, <1>14, <1>15, <1>18, <3>1, <3>3 DEF old, ClientStream
      <4>2. SrvSend(i) \in Nat /\ Charged(wire, i) \in Nat /\ Granted(toServer, i) \in Nat
        BY <1>1, <1>4, <1>17, H2Assumption DEF Types, Summed, SrvSend, ServerStream
      <4> DEFINE x == streams[i].allowed
                 y == streams'[i].allowed
                 a == SrvSend(i)
                 b == Charged(wire, i)
                 g == Granted(toServer, i)
      <4>3. /\ x \in Nat /\ a \in Nat /\ b \in Nat /\ g \in Nat /\ streamDue \in Nat
            /\ x = a + b + g /\ y = (x - c) + streamDue
            /\ Charged(wire', i) = b - c /\ Granted(toServer', i) = g + streamDue
        BY <3>1, <4>1, <4>2
      <4> HIDE DEF x, y, a, b, g
      <4>4. y = a + Charged(wire', i) + Granted(toServer', i)
        BY <1>6, <4>3
      <4> QED
        BY <4>4 DEF y, a
    <3> QED
      BY <3>2, <3>3
  <2> QED
    BY <1>16, <2>1 DEF DownloadLedger
<1>24. InHand'
  <2>1. ~wasted' => ~wasted
    BY <1>1, <1>2 DEF Types
  <2>2. ASSUME NEW i \in Live' PROVE Bounded(streams[i])'
    <3>1. CASE i # f.id
      BY <1>9, <1>14, <2>1, <3>1 DEF Bounded
    <3>2. CASE i = f.id
      BY <1>14, <3>2 DEF Bounded, Fits
    <3> QED
      BY <3>1, <3>2
  <2> QED
    BY <1>12, <2>2 DEF InHand
<1>25. Halves'
  <2>1. /\ pc = "sending" => highest \in Live' /\ streams'[highest].state # "HALF_CLOSED_LOCAL"
    <3>1. CASE highest = f.id
      BY <1>9, <1>14, <3>1 DEF old
    <3>2. CASE highest # f.id
      BY <1>9, <1>14, <3>2
    <3> QED
      BY <3>1, <3>2
  <2>2. pc = "head" => f.id # highest
    BY <1>2, <1>9 DEF Mine, Held, Live
  <2>3. pc = "head" => highest \in Live'
    BY <1>9, <1>14, <2>2
  <2>4. pc = "body" /\ ~ended' => highest \in Live'
    <3>1. ASSUME pc = "body", ~ended' PROVE ~(f.id = highest /\ f.end)
      BY <1>2, <1>9, <3>1 DEF Mine, Held, Live
    <3> QED
      BY <1>9, <1>14, <3>1
  <2>5. pc \in {"head", "body"} /\ highest \in Live' => streams'[highest].state = "HALF_CLOSED_LOCAL"
    <3>1. CASE highest = f.id
      BY <1>9, <1>14, <3>1 DEF old
    <3>2. CASE highest # f.id
      BY <1>9, <1>14, <3>2
    <3> QED
      BY <3>1, <3>2
  <2> QED
    BY <1>2, <2>1, <2>3, <2>4, <2>5 DEF Halves
<1> QED
  BY <1>1, <1>2, <1>17, <1>19, <1>20, <1>21, <1>22, <1>23, <1>24, <1>25 DEF Inv, Flow

-----------------------------------------------------------------------------

(* The steps together.                                                     *)

\* What an exchange that raises does, whatever raised.
LEMMA FailingSteps ==
    ASSUME Inv, streamOpen,
           \/ UploadRefused \/ FrameRefused \/ BodyBeforeHead \/ HeadersUnusable \/ TimesOut
           \/ PeerGone \/ Abandon \/ NoRoomForStream \/ Discard
    PROVE  Inv'
<1>1. CASE FrameRefused
  <2>1. wire # <<>>
    BY <1>1 DEF FrameRefused
  <2>2. ~OverWindow(Head(wire))
    BY <2>1, WithinWindows
  <2>3. Fail("refused")
    BY <1>1, <2>2 DEF FrameRefused
  <2> QED
    BY <2>3, Failing
<1>2. CASE Discard
  <2>1. Drop /\ verdict' = verdict /\ overrun' = overrun /\ wasted' = wasted
    BY <1>2 DEF Discard, past
  <2>2. verdict # "over_window"
    BY DEF Inv, NeverOverrun
  <2> QED
    BY <2>1, <2>2, Closing
<1>3. CASE \/ UploadRefused \/ BodyBeforeHead \/ HeadersUnusable \/ TimesOut
           \/ PeerGone \/ Abandon \/ NoRoomForStream
  <2>1. \E why \in {"send_refused", "body_before_head", "unusable", "timeout", "closed", "given_up",
                    "no_room"} : Fail(why)
    BY <1>3 DEF UploadRefused, BodyBeforeHead, HeadersUnusable, TimesOut, PeerGone, Abandon,
                NoRoomForStream
  <2> QED
    BY <2>1, Failing
<1> QED
  BY <1>1, <1>2, <1>3

\* One step of the client, of the program or of the server.
\* Nothing happens on a connection that has been dropped.
LEMMA OnlyOpen == Inv /\ Next => streamOpen
<1> SUFFICES ASSUME Inv, Next PROVE streamOpen
  OBVIOUS
<1>1. pc = "ended" <=> ~streamOpen
  BY DEF Inv
<1>2. ASSUME Client PROVE pc # "ended"
  BY <1>2 DEF Client, WritePiece, EndUpload, UploadRefused, FrameRefused, DataArrives,
       BodyBeforeHead, HeadArrives, SkipInformational, TrailersArrive, HeadersUnusable,
       HeadersPassedOver, SettingsArrive, GrantArrives, PingArrives, ResetArrives, GoawayArrives,
       TimesOut, PeerGone, Finish, Arrives, Awaits, Busy
<1>3. ASSUME Program PROVE pc # "ended"
  BY <1>3 DEF Program, Send, Discard, NoRoomForStream, Abandon
<1> QED
  BY <1>1, <1>2, <1>3 DEF Next, Server

LEMMA InvNext == Inv /\ [Next]_vars => Inv'
<1> SUFFICES ASSUME Inv, [Next]_vars PROVE Inv'
  OBVIOUS
<1>1. CASE UNCHANGED vars
  <2>1. Types' /\ NeverOverrun' /\ WindowsInStep'
    BY <1>1 DEF Inv, vars, conn, driver, server, past, Types, Live, Known, NeverOverrun, WindowsInStep
  <2>2. ASSUME streamOpen' PROVE Flow'
    <3>1. Flow /\ Inv /\ streamOpen /\ pc # "ended" /\ Types
      BY <1>1, <2>2 DEF Inv, vars, driver
    <3>2. HeardNothing /\ SaidLittle /\ verdict # "over_window"
      BY <1>1, <3>1 DEF vars, HeardNothing, SaidLittle, Inv, NeverOverrun
    <3>3. Inv'
      BY <1>1, <3>1, <3>2, StreamsAlone DEF vars, conn, driver, server, past
    <3> QED
      BY <2>2, <3>3 DEF Inv
  <2>3. (pc = "ended" <=> ~streamOpen)'
    BY <1>1 DEF Inv, vars, driver
  <2> QED
    BY <2>1, <2>2, <2>3 DEF Inv
<1>2. ASSUME Next PROVE streamOpen
  BY <1>2, OnlyOpen
<1>3. CASE Client
  <2>1. streamOpen
    BY <1>2, <1>3 DEF Next
  <2>2. CASE WritePiece
    BY <2>1, <2>2, PieceSent
  <2>3. CASE \/ EndUpload \/ PingArrives \/ ResetArrives \/ GoawayArrives \/ Finish
             \/ HeadArrives \/ SkipInformational \/ TrailersArrive \/ HeadersPassedOver
    BY <2>1, <2>3, QuietSteps
  <2>4. CASE \/ UploadRefused \/ FrameRefused \/ BodyBeforeHead \/ HeadersUnusable \/ TimesOut \/ PeerGone
    BY <2>1, <2>4, FailingSteps
  <2>5. CASE DataArrives
    BY <2>1, <2>5, DataTaken
  <2>6. CASE SettingsArrive
    BY <2>1, <2>6, SettingsTaken
  <2>7. CASE GrantArrives
    BY <2>1, <2>7, GrantTaken
  <2> QED
    BY <1>3, <2>2, <2>3, <2>4, <2>5, <2>6, <2>7 DEF Client
<1>4. CASE Program
  <2>1. streamOpen
    BY <1>2, <1>4 DEF Next
  <2>2. CASE Send
    BY <2>1, <2>2, RequestSent
  <2>3. CASE Discard \/ NoRoomForStream \/ Abandon
    BY <2>1, <2>3, FailingSteps
  <2> QED
    BY <1>4, <2>2, <2>3 DEF Program
<1>5. CASE Server
  <2>1. streamOpen
    BY <1>5 DEF Server
  <2>2. CASE ServerReads
    <3> DEFINE f == Head(toServer)
    <3>1. \/ ServerReadsHead(f) \/ ServerReadsData(f) \/ ServerReadsGrant(f)
          \/ ServerReadsAck(f) \/ ServerReadsPong(f)
      BY <2>2 DEF ServerReads
    <3> QED
      BY <2>1, <2>2, <3>1, HeadServed, DataServed, GrantServed, AckServed, PongServed
  <2>3. CASE ServerBlunders \/ ServerGoesAway \/ ServerCloses
    BY <2>1, <2>3, QuietServer
  <2>4. CASE ServerChatters
    BY <2>1, <2>4, ChatterServed
  <2>5. CASE \E id \in {OnConnection} \cup Ids : ServerGrants(id)
    BY <2>1, <2>5, WindowServed
  <2>6. ASSUME NEW id \in Ids, ServerInterim(id) \/ ServerResets(id) PROVE Inv'
    <3>1. FALSE \in BOOLEAN
      OBVIOUS
    <3> QED
      BY <2>1, <2>6, <3>1, QuietAnswers
  <2>7. ASSUME NEW id \in Ids, ServerStrays(id) PROVE Inv'
    <3>1. 0 \in 0..1 /\ FALSE \in BOOLEAN
      OBVIOUS
    <3> QED
      BY <2>1, <2>7, <3>1, BodyServed
  <2>8. ASSUME NEW id \in Ids, NEW end \in BOOLEAN, ServerAnswers(id, end) \/ ServerEnds(id, end)
        PROVE  Inv'
    BY <2>1, <2>8, QuietAnswers
  <2>9. ASSUME NEW id \in Ids, NEW size \in 0..1, NEW pad \in 0..1, NEW end \in BOOLEAN,
               ServerSends(id, size, pad, end)
        PROVE  Inv'
    BY <2>1, <2>9, BodyServed
  <2> QED
    BY <1>5, <2>2, <2>3, <2>4, <2>5, <2>6, <2>7, <2>8, <2>9 DEF Server
<1> QED
  BY <1>1, <1>3, <1>4, <1>5 DEF Next

\* Nothing is on its way.
LEMMA NothingSent ==
    ASSUME NEW s, s = <<>>
    PROVE  /\ Len(s) = 0 /\ \A id : Charged(s, id) = 0 /\ Granted(s, id) = 0
           /\ \A kind : Total(Marks(s, kind), 0) = 0
<1>1. Len(s) = 0 /\ 1..Len(s) = {} /\ s \in Seq(Frame)
  OBVIOUS
<1>2. ASSUME NEW id
      PROVE  Charged(s, id) = 0 /\ Granted(s, id) = 0
  <2>1. Sizes(s, id) \in [1..0 -> Int] /\ Grants(s, id) \in [1..0 -> Int]
    BY <1>1 DEF Sizes, Grants
  <2> QED
    BY <1>1, <2>1, TotalStep DEF Charged, Granted
<1>3. ASSUME NEW kind PROVE Total(Marks(s, kind), 0) = 0
  <2>1. Marks(s, kind) \in [1..0 -> Int]
    BY <1>1 DEF Marks
  <2> QED
    BY <2>1, TotalStep
<1> QED
  BY <1>1, <1>2, <1>3

LEMMA InvInit == Init => Inv
<1> SUFFICES ASSUME Init PROVE Inv
  OBVIOUS
<1>1. Live = {} /\ Known = {} /\ streams \in [Live -> ClientStream] /\ srvStreams \in [Known -> ServerStream]
  BY DEF Init, Live, Known
<1>2. toServer = <<>> /\ wire = <<>> /\ unacked = <<>>
  BY DEF Init
<1>3. /\ Len(toServer) = 0 /\ Len(wire) = 0 /\ Len(unacked) = 0
      /\ \A id : /\ Charged(toServer, id) = 0 /\ Granted(toServer, id) = 0
                 /\ Charged(wire, id) = 0 /\ Granted(wire, id) = 0
      /\ InAcks = 0 /\ Asked(0) = 0
  BY <1>2, NothingSent DEF InAcks, Acked, Asked
<1>4. Types
  <2>1. recvWindow \in [allowed : Nat, pending : Nat] /\ peer \in Announcements
    BY H2Assumption DEF Init, Announcements
  <2>2. toServer \in Seq(ToServer) /\ wire \in Seq(ToClient) /\ unacked \in Seq(Nat)
    BY <1>2
  <2>3. sendWindow \in Nat /\ left \in Nat /\ srvRecv \in Int /\ srvSend \in Nat /\ srvWindow \in Nat
        /\ highest \in 0..Requests
    BY H2Assumption DEF Init
  <2>4. streamOpen \in BOOLEAN /\ pc = "idle" /\ ended \in BOOLEAN /\ wasted \in BOOLEAN /\ overrun \in BOOLEAN
    BY DEF Init
  <2> QED
    BY <1>1, <2>1, <2>2, <2>3, <2>4 DEF Types
<1>5. NeverOverrun
  BY DEF Init, NeverOverrun
<1>6. WindowsInStep
  BY <1>3, H2Assumption DEF Init, WindowsInStep
<1>7. Introduced /\ UploadLedger /\ DownloadLedger
  BY <1>1, <1>3 DEF Introduced, UploadLedger, DownloadLedger
<1>8. AcksInOrder
  BY <1>3 DEF AcksInOrder, WindowAfter, Init
<1>9. InHand
  BY <1>1, H2Assumption DEF InHand, Bounded, Init
<1>10. Halves /\ pc # "ended" /\ streamOpen
  BY DEF Halves, Init
<1> QED
  BY <1>4, <1>5, <1>6, <1>7, <1>8, <1>9, <1>10 DEF Inv, Flow

\* The windows of H2Connection and its streams, the frames on their way, the order
\* of SETTINGS and their acknowledgements and the server's ledger go together in
\* every state: the inductive invariant.
THEOREM Invariance == Spec => []Inv
<1> QED
  BY InvInit, InvNext, PTL DEF Spec

\* What _data charges and restore gives back keeps the two ends in step: they differ
\* by what is on its way and by nothing else.
THEOREM WindowsAgree == Spec => []WindowsInStep
<1>1. Inv => WindowsInStep
  BY DEF Inv
<1> QED
  BY <1>1, Invariance, PTL

\* send_data never sends what the server has no window for, and _data never refuses a
\* server that keeps to its windows, while SETTINGS resize the streams.
THEOREM NobodyOverrun == Spec => []NeverOverrun
<1>1. Inv => NeverOverrun
  BY DEF Inv
<1> QED
  BY <1>1, Invariance, PTL

\* What restore holds back is always less than half a window, of the connection and
\* of every stream both ends still have.
THEOREM HalfInHand == Spec => []WindowInHand
<1>1. Inv => WindowInHand
  <2> SUFFICES ASSUME Inv, streamOpen, ~wasted, wire = <<>>, toServer = <<>>
               PROVE  /\ 2 * srvSend > RecvCapacity
                      /\ \A i \in Known \cap DOMAIN streams : 2 * srvStreams[i].send > RecvCapacity
    BY DEF WindowInHand
  <2>1. Types /\ WindowsInStep /\ DownloadLedger /\ InHand /\ RecvCapacity \in Nat
    BY H2Assumption DEF Inv, Flow
  <2>2. \A id : /\ Charged(toServer, id) = 0 /\ Granted(toServer, id) = 0
                /\ Charged(wire, id) = 0 /\ Granted(wire, id) = 0
    BY NothingSent
  <2>3. 2 * srvSend > RecvCapacity
    <3>1. recvWindow.allowed = srvSend + 0 + 0 /\ srvSend \in Nat
          /\ recvWindow.allowed \in Nat /\ recvWindow.pending \in Nat
      BY <2>1, <2>2 DEF WindowsInStep, Types
    <3>2. 2 * recvWindow.pending < RecvCapacity
          /\ recvWindow.allowed + recvWindow.pending = RecvCapacity
      BY <2>1 DEF InHand, Bounded
    <3> QED
      BY <2>1, <3>1, <3>2
  <2>4. ASSUME NEW i \in Known \cap Live PROVE 2 * srvStreams[i].send > RecvCapacity
    <3>1. /\ streams[i].allowed = srvStreams[i].send + 0 + 0 /\ srvStreams[i].send \in Nat
          /\ streams[i].allowed \in Nat /\ streams[i].pending \in Nat
      BY <2>1, <2>2 DEF DownloadLedger, SrvSend, Types, ClientStream, ServerStream
    <3>2. 2 * streams[i].pending < RecvCapacity
          /\ streams[i].allowed + streams[i].pending = RecvCapacity
      BY <2>1 DEF InHand, Bounded
    <3> QED
      BY <2>1, <3>1, <3>2
  <2> QED
    BY <2>3, <2>4 DEF Live
<1> QED
  BY <1>1, Invariance, PTL

-----------------------------------------------------------------------------

(* The counters of H2Connection and its driver, and the streams it holds.   *)

Limits ==
    /\ Cardinality(Live) <= OurStreams
    /\ \A i \in Live : streams[i].blocks <= MaxBlocks
    /\ resets \in 0..MaxResets /\ interim \in 0..MaxInformational
    /\ ~streamOpen => Live = {} /\ recvWindow = [allowed |-> RecvCapacity, pending |-> 0]

LEMMA LiveCounted ==
    ASSUME Types
    PROVE  /\ IsFiniteSet(Live) /\ Cardinality(Live) \in Nat
           /\ \A S \in SUBSET Live : Cardinality(S) <= Cardinality(Live)
<1>1. IsFiniteSet(Ids) /\ Live \subseteq Ids
  <2>1. 1 \in Int /\ Requests \in Int
    BY H2Assumption
  <2>2. IsFiniteSet(1..Requests)
    BY <2>1, FS_Interval
  <2> QED
    BY <2>2 DEF Types, Ids
<1>2. IsFiniteSet(Live)
  BY <1>1, FS_Subset
<1> QED
  BY <1>2, FS_CardinalityType, FS_Subset

\* A step that opens no stream and takes no header block.
LEMMA FewerStreams ==
    ASSUME Types, Limits, streamOpen', DOMAIN streams' \subseteq Live,
           \A i \in DOMAIN streams' : streams'[i].blocks <= MaxBlocks,
           resets' \in 0..MaxResets, interim' \in 0..MaxInformational
    PROVE  Limits'
<1> DEFINE D == DOMAIN streams'
<1>1. D \in SUBSET Live
  OBVIOUS
<1>2. Cardinality(D) <= Cardinality(Live) /\ D \subseteq Ids /\ IsFiniteSet(D)
  BY <1>1, LiveCounted, FS_Subset DEF Types
<1>3. Cardinality(D) \in Nat /\ Cardinality(Live) \in Nat /\ Cardinality(Live) <= OurStreams
  BY <1>2, LiveCounted, FS_CardinalityType DEF Limits
<1>4. Cardinality(D) <= OurStreams
  BY <1>2, <1>3, H2Assumption
<1> QED
  BY <1>4 DEF Limits, Live

\* A stream is closed at the server's end.
LEMMA ClosedRemoteShape ==
    ASSUME Types, NEW id \in Live, NEW s \in ClientStream, s.blocks <= MaxBlocks,
           \A i \in Live : streams[i].blocks <= MaxBlocks,
           NEW t, t = ClosedRemote(id, s) \/ t = [streams EXCEPT ![id] = s]
    PROVE  DOMAIN t \subseteq Live /\ \A i \in DOMAIN t : t[i].blocks <= MaxBlocks
<1>1. streams \in [Live -> ClientStream]
  BY DEF Types
<1>2. CASE t = [streams EXCEPT ![id] = s]
  BY <1>1, <1>2
<1>3. CASE t = Restrict(streams, Live \ {id})
  BY <1>1, <1>3 DEF Restrict
<1>4. CASE t = [streams EXCEPT ![id] = [s EXCEPT !.state = "HALF_CLOSED_REMOTE"]]
  <2>1. [s EXCEPT !.state = "HALF_CLOSED_REMOTE"].blocks = s.blocks
    BY DEF ClientStream
  <2> QED
    BY <1>1, <1>4, <2>1
<1> QED
  BY <1>2, <1>3, <1>4 DEF ClosedRemote, Live

\* A header block is counted, and one more than MAX_HEADER_BLOCKS is refused.
LEMMA BlockCounted ==
    ASSUME Inv, Limits, streamOpen, wire # <<>>, Arrives("headers"), TakeBlock(Head(wire)),
           Held(Head(wire)), interim' \in 0..MaxInformational
    PROVE  Limits'
<1> DEFINE f == Head(wire)
           s == [streams[f.id] EXCEPT !.blocks = @ + 1]
<1>1. Types /\ f.id \in Live /\ streams[f.id] \in ClientStream /\ f.kind = "headers"
  BY DEF Inv, Types, Held, Live, Arrives
<1>2. ~(streams[f.id].blocks + 1 > MaxBlocks)
  BY <1>1 DEF Arrives, OutOfOrder
<1>3. s \in ClientStream /\ s.blocks = streams[f.id].blocks + 1
  BY <1>1 DEF ClientStream
<1>4. s.blocks <= MaxBlocks
  <2>1. PICK n \in Nat : n = streams[f.id].blocks
    BY <1>1 DEF ClientStream
  <2> QED
    BY <1>2, <1>3, <2>1, H2Assumption, SMTT(30)
<1>5. /\ streams' = ClosedRemote(f.id, s) \/ streams' = [streams EXCEPT ![f.id] = s]
      /\ resets' = 0 \/ resets' = resets
      /\ streamOpen' = streamOpen
  BY DEF TakeBlock
<1> HIDE DEF s, f
<1>6. resets' \in 0..MaxResets
  BY <1>5, H2Assumption DEF Limits
<1>7. \A i \in Live : streams[i].blocks <= MaxBlocks
  BY DEF Limits
<1>8. PICK t : t = streams'
  OBVIOUS
<1>9. DOMAIN t \subseteq Live /\ \A i \in DOMAIN t : t[i].blocks <= MaxBlocks
  BY <1>1, <1>3, <1>4, <1>5, <1>7, <1>8, ClosedRemoteShape
<1> QED
  BY <1>1, <1>5, <1>6, <1>8, <1>9, FewerStreams

\* send_headers opens a stream only where one may be opened.
LEMMA StreamOpened ==
    ASSUME Inv, Limits, streamOpen, Send
    PROVE  Limits'
<1> DEFINE id == highest + 1
           limit == Min({OurStreams, peer.streams})
           live == Cardinality(Live)
<1>1. Types /\ Live \subseteq 1..highest /\ highest \in Nat /\ peer.streams \in Nat
  BY H2Assumption DEF Inv, Flow, Introduced, Types, Announcements
<1>2. id \notin Live /\ IsFiniteSet(Live) /\ live \in Nat
  BY <1>1, LiveCounted
<1>3. limit \in Nat /\ limit <= OurStreams
  BY <1>1, PairLeast, H2Assumption
<1> HIDE DEF limit
<1>4. live < limit
  <2>1. (IF limit > live THEN limit - live ELSE 0) > 0
    BY DEF Send, Concurrency, limit, Live
  <2> QED
    BY <1>2, <1>3, <2>1
<1>5. Cardinality(Live \cup {id}) = live + 1
  BY <1>2, FS_AddElement
<1>6. live + 1 <= OurStreams
  BY <1>2, <1>3, <1>4, H2Assumption
<1>7. DOMAIN streams' = Live \cup {id}
  BY DEF Send, Live
<1>8. \A i \in Live \cup {id} :
        streams'[i].blocks = IF i \in Live THEN streams[i].blocks ELSE 0
  BY DEF Send, Live
<1>9. \A i \in Live \cup {id} : streams'[i].blocks <= MaxBlocks
  BY <1>8, H2Assumption DEF Limits
<1>10. streamOpen' /\ resets' = resets /\ interim' = 0
  BY DEF Send
<1> HIDE DEF id, live
<1>11. PICK D : D = Live \cup {id}
  OBVIOUS
<1>12. Cardinality(D) <= OurStreams /\ DOMAIN streams' = D
  BY <1>5, <1>6, <1>7, <1>11 DEF live
<1> QED
  BY <1>9, <1>10, <1>11, <1>12, H2Assumption DEF Limits, Live

LEMMA LimitsNext == Inv /\ Limits /\ [Next]_vars => Limits'
<1> SUFFICES ASSUME Inv, Limits, [Next]_vars PROVE Limits'
  OBVIOUS
<1>1. Types /\ streams \in [Live -> ClientStream] /\ resets \in 0..MaxResets
      /\ interim \in 0..MaxInformational /\ \A i \in Live : streams[i].blocks <= MaxBlocks
  BY DEF Inv, Types, Limits
<1>2. CASE UNCHANGED <<conn, streamOpen, interim>>
  BY <1>2 DEF Limits, Live, conn
<1>3. ASSUME NEW why, Fail(why) PROVE Limits'
  BY <1>3, FS_EmptySet, H2Assumption DEF Fail, Drop, Limits, Live
<1>4. CASE Discard
  BY <1>4, FS_EmptySet, H2Assumption DEF Discard, Drop, Limits, Live
<1>5. ASSUME streamOpen, streamOpen' = streamOpen, UNCHANGED <<resets, interim>>,
             DOMAIN streams' \subseteq Live, \A i \in DOMAIN streams' : streams'[i].blocks = streams[i].blocks
      PROVE  Limits'
  <2>1. \A i \in DOMAIN streams' : streams'[i].blocks <= MaxBlocks
    BY <1>1, <1>5
  <2> QED
    BY <1>1, <1>5, <2>1, FewerStreams
<1>6. ASSUME Next PROVE streamOpen
  BY <1>6, OnlyOpen
<1>7. CASE Client
  <2>1. streamOpen
    BY <1>6, <1>7 DEF Next
  <2>2. CASE WritePiece \/ EndUpload
    <3>1. streamOpen' = streamOpen /\ UNCHANGED <<resets, interim>>
      BY <2>2 DEF WritePiece, EndUpload
    <3>2. \/ streams' = [streams EXCEPT ![highest].send = @ - Room]
          \/ streams' = [streams EXCEPT ![highest].state = "HALF_CLOSED_LOCAL"]
      BY <2>2 DEF WritePiece, EndUpload
    <3>3. DOMAIN streams' \subseteq Live /\ \A i \in DOMAIN streams' : streams'[i].blocks = streams[i].blocks
      BY <1>1, <3>2 DEF ClientStream
    <3> QED
      BY <1>5, <2>1, <3>1, <3>3
  <2>3. CASE \/ UploadRefused \/ FrameRefused \/ BodyBeforeHead \/ HeadersUnusable \/ TimesOut \/ PeerGone
    <3>1. PICK why \in {"send_refused", "over_window", "refused", "body_before_head", "unusable",
                        "timeout", "closed"} : Fail(why)
      BY <2>3 DEF UploadRefused, FrameRefused, BodyBeforeHead, HeadersUnusable, TimesOut, PeerGone
    <3> QED
      BY <3>1, <1>3
  <2>4. CASE DataArrives
    <3> DEFINE f == Head(wire)
               s == [streams[f.id] EXCEPT !.allowed = @ - Charge(f)]
               taken == IF pc = "body" /\ Mine(f) THEN f.size ELSE 0
    <3>1. /\ streamOpen' = streamOpen /\ interim' = interim /\ (resets' = 0 \/ resets' = resets)
          /\ streams' = IF ~Held(f) THEN streams
                         ELSE IF f.end THEN ClosedRemote(f.id, s)
                         ELSE [streams EXCEPT ![f.id] = IF taken = 0 THEN s ELSE Consumed(s, taken)]
      BY <2>4 DEF DataArrives
    <3>2. resets' \in 0..MaxResets
      BY <1>1, <3>1, H2Assumption
    <3>3. DOMAIN streams' \subseteq Live /\ \A i \in DOMAIN streams' : streams'[i].blocks = streams[i].blocks
      <4>1. CASE ~Held(f)
        BY <3>1, <4>1 DEF Live
      <4>2. ASSUME Held(f)
            PROVE  /\ f.id \in Live /\ s.blocks = streams[f.id].blocks
                   /\ Consumed(s, taken).blocks = streams[f.id].blocks
                   /\ [s EXCEPT !.state = "HALF_CLOSED_REMOTE"].blocks = streams[f.id].blocks
        BY <1>1, <4>2 DEF Held, Live, ClientStream, Consumed
      <4> HIDE DEF s, taken, f
      <4>3. ASSUME NEW r, r.blocks = streams[f.id].blocks, streams' = [streams EXCEPT ![f.id] = r]
            PROVE  DOMAIN streams' \subseteq Live
                   /\ \A i \in DOMAIN streams' : streams'[i].blocks = streams[i].blocks
        BY <1>1, <4>3
      <4>4. CASE Held(f) /\ streams' = Restrict(streams, Live \ {f.id})
        BY <1>1, <4>4 DEF Restrict
      <4> QED
        BY <3>1, <4>1, <4>2, <4>3, <4>4 DEF ClosedRemote, Live
    <3> QED
      <4>1. \A i \in DOMAIN streams' : streams'[i].blocks <= MaxBlocks
        BY <1>1, <3>3
      <4> QED
        BY <1>1, <2>1, <3>1, <3>2, <3>3, <4>1, FewerStreams
  <2>5. CASE HeadArrives \/ SkipInformational \/ TrailersArrive
    <3>1. /\ Arrives("headers") /\ TakeBlock(Head(wire)) /\ Held(Head(wire)) /\ wire # <<>>
          /\ interim' = interim \/ (interim + 1 <= MaxInformational /\ interim' = interim + 1)
      BY <2>5 DEF HeadArrives, SkipInformational, TrailersArrive, Arrives, Mine
    <3>2. interim' \in 0..MaxInformational
      BY <1>1, <3>1, H2Assumption
    <3> QED
      BY <2>1, <3>1, <3>2, BlockCounted
  <2>6. CASE HeadersPassedOver
    <3>1. CASE Held(Head(wire))
      BY <1>1, <2>1, <2>6, <3>1, BlockCounted DEF HeadersPassedOver, Arrives
    <3>2. CASE ~Held(Head(wire))
      BY <1>2, <2>6, <3>2 DEF HeadersPassedOver
    <3> QED
      BY <3>1, <3>2
  <2>7. CASE SettingsArrive \/ GrantArrives
    <3>1. streamOpen' = streamOpen /\ UNCHANGED <<resets, interim>>
      BY <2>7 DEF SettingsArrive, GrantArrives, driver
    <3>2. PICK d : \/ streams' = Resized(d) \/ streams' = streams
                   \/ streams' = [streams EXCEPT ![Head(wire).id].send = @ + Head(wire).size]
      BY <2>7 DEF SettingsArrive, GrantArrives
    <3>3. DOMAIN streams' \subseteq Live /\ \A i \in DOMAIN streams' : streams'[i].blocks = streams[i].blocks
      BY <1>1, <3>2 DEF ClientStream, Resized, Live
    <3> QED
      BY <1>5, <2>1, <3>1, <3>3
  <2>8. CASE ResetArrives
    <3>1. CASE Head(wire).id = highest
      BY <1>3, <2>8, <3>1 DEF ResetArrives
    <3>2. CASE Head(wire).id # highest
      <4>1. /\ streams' = Restrict(streams, Live \ {Head(wire).id}) /\ resets' = resets + 1
            /\ streamOpen' = streamOpen /\ interim' = interim
        BY <2>8, <3>2 DEF ResetArrives, driver, Live
      <4>2. ~(resets + 1 > MaxResets)
        BY <2>8 DEF ResetArrives, Arrives, OutOfOrder
      <4>3. resets' \in 0..MaxResets
        BY <1>1, <4>1, <4>2, H2Assumption
      <4>4. DOMAIN streams' \subseteq Live /\ \A i \in DOMAIN streams' : streams'[i].blocks <= MaxBlocks
        BY <1>1, <4>1 DEF Restrict
      <4> QED
        BY <1>1, <2>1, <4>1, <4>3, <4>4, FewerStreams
    <3> QED
      BY <3>1, <3>2
  <2>9. CASE PingArrives
    BY <1>2, <2>9 DEF PingArrives, driver
  <2>10. CASE GoawayArrives
    <3>1. CASE Head(wire).last < highest
      BY <1>3, <2>10, <3>1 DEF GoawayArrives
    <3>2. CASE ~(Head(wire).last < highest)
      <4>1. UNCHANGED <<streams, resets, driver>>
        BY <2>10, <3>2 DEF GoawayArrives
      <4> QED
        BY <1>5, <2>1, <4>1 DEF driver, Live
    <3> QED
      BY <3>1, <3>2
  <2>11. CASE Finish
    BY <1>2, <2>11 DEF Finish
  <2> QED
    BY <1>7, <2>2, <2>3, <2>4, <2>5, <2>6, <2>7, <2>8, <2>9, <2>10, <2>11 DEF Client
<1>8. CASE Program
  <2>1. streamOpen
    BY <1>6, <1>8 DEF Next
  <2>2. CASE Send
    BY <2>1, <2>2, StreamOpened
  <2>3. CASE Discard
    BY <1>4, <2>3
  <2>4. CASE NoRoomForStream \/ Abandon
    BY <1>3, <2>4 DEF NoRoomForStream, Abandon
  <2> QED
    BY <1>8, <2>2, <2>3, <2>4 DEF Program
<1>9. CASE Server
  BY <1>2, <1>9, ZenonT(60) DEF Server, ServerReads, ServerBlunders, ServerChatters, ServerGoesAway,
     ServerCloses, ServerGrants, ServerInterim, ServerResets, ServerStrays, ServerAnswers,
     ServerEnds, ServerSends, Says, driver
<1>10. CASE UNCHANGED vars
  BY <1>2, <1>10 DEF vars, driver
<1> QED
  BY <1>7, <1>8, <1>9, <1>10 DEF Next

\* What H2Connection and its driver count stays within what they allow: the streams
\* send_headers may open, the header blocks of a stream, the resets in a row and the
\* interim heads, and what restore holds back.
THEOREM TypeCorrect == Spec => []TypeOK
<1>1. Init => Limits
  BY FS_EmptySet, H2Assumption DEF Init, Limits, Live
<1>2. Inv /\ Limits => TypeOK
  <2> SUFFICES ASSUME Inv, Limits PROVE TypeOK
    OBVIOUS
  <2>1. Types /\ RecvCapacity \in Nat \ {0} /\ (pc = "ended" <=> ~streamOpen)
    BY H2Assumption DEF Inv
  <2>2. resets <= MaxResets /\ interim <= MaxInformational /\ Cardinality(DOMAIN streams) <= OurStreams
    BY H2Assumption DEF Limits, Live
  <2>3. CASE streamOpen
    <3>1. Introduced /\ InHand /\ Halves
      BY <2>3 DEF Inv, Flow
    <3>2. recvWindow.allowed \in 0..RecvCapacity /\ 2 * recvWindow.pending < RecvCapacity
      BY <2>1, <3>1 DEF InHand, Bounded, Types
    <3>3. ASSUME NEW i \in Live
          PROVE  /\ streams[i].state \in {"OPEN", "HALF_CLOSED_LOCAL", "HALF_CLOSED_REMOTE"}
                 /\ streams[i].allowed \in 0..RecvCapacity /\ streams[i].blocks <= MaxBlocks
      <4>1. streams[i] \in ClientStream /\ Bounded(streams[i]) /\ streams[i].blocks <= MaxBlocks
        BY <2>1, <3>1 DEF Types, InHand, Limits
      <4> QED
        BY <2>1, <4>1 DEF ClientStream, Bounded
    <3>4. Live \subseteq 1..highest
      BY <3>1 DEF Introduced
    <3>5. /\ (pc \in {"sending", "head"} \/ (pc = "body" /\ ~ended)) => highest \in Live
          /\ pc = "head" => streams[highest].state = "HALF_CLOSED_LOCAL"
      BY <3>1 DEF Halves
    <3> QED
      BY <2>1, <2>2, <3>2, <3>3, <3>4, <3>5 DEF TypeOK, Live
  <2>4. CASE ~streamOpen
    <3>1. Live = {} /\ recvWindow = [allowed |-> RecvCapacity, pending |-> 0] /\ pc = "ended"
      BY <2>1, <2>4 DEF Limits
    <3>2. recvWindow.allowed \in 0..RecvCapacity /\ 2 * recvWindow.pending < RecvCapacity
      BY <2>1, <3>1
    <3> QED
      BY <2>1, <2>2, <3>1, <3>2 DEF TypeOK, Live
  <2> QED
    BY <2>3, <2>4
<1> QED
  BY <1>1, <1>2, LimitsNext, Invariance, PTL DEF Spec

-----------------------------------------------------------------------------

(* What the server has said of the current stream, and what of it was heard. *)

\* The octets of body a frame has for a stream, without their padding, and those
\* of the first n frames.
BodyOf(f, id) == IF f.kind = "data" /\ f.id = id THEN f.size ELSE 0
Octets(frames, id, n) == Total([i \in 1..Len(frames) |-> BodyOf(frames[i], id)], n)

Final(f, id) == f.kind = "headers" /\ f.id = id /\ f.status = "final"

\* A frame at which a body ends, and one at which it ends or the exchange fails.
Ends(f, id) ==
    f.id = id /\ ((f.kind = "data" /\ f.end) \/ (f.kind = "headers" /\ f.status = "none"))
Stops(f, id) == f.id = id /\ (f.kind \in {"headers", "reset"} \/ (f.kind = "data" /\ f.end))

\* A frame that leaves nothing to be sent on the stream either.
Shuts(f, id) == f.id = id /\ (f.kind = "reset" \/ (f.kind \in {"data", "headers"} /\ f.end))

\* The body of a stream, of which heard octets were read and said octets sent, is
\* behind the first n frames, up to where it stops.
BodyAfter(frames, id, stage, heard, said, n) ==
    \/ /\ stage = "headed"
       /\ \A p \in (n + 1)..Len(frames) : ~Stops(frames[p], id)
       /\ said = heard + Octets(frames, id, Len(frames)) - Octets(frames, id, n)
    \/ /\ stage \in {"trailed", "done"}
       /\ \E e \in (n + 1)..Len(frames) :
            /\ Stops(frames[e], id) /\ \A p \in (n + 1)..(e - 1) : ~Stops(frames[p], id)
            /\ Ends(frames[e], id) =>
                 said = heard + Octets(frames, id, e) - Octets(frames, id, n)

\* The head was among frames that nobody looked at, and no other is taken for it.
MissedAfter(frames, id, stage, n) ==
    /\ stage # "asked"
    /\ \A p \in (n + 1)..Len(frames) :
         Final(frames[p], id) => \E q \in (n + 1)..(p - 1) : Shuts(frames[q], id)
    /\ stage = "done" => \E q \in (n + 1)..Len(frames) : Shuts(frames[q], id)

Unanswered(frames, id, stage, said) ==
    stage = "asked" /\ said = 0 /\ \A p \in 1..Len(frames) : ~Final(frames[p], id)
Bodiless(frames, id, stage, said) ==
    stage = "done" /\ said = 0 /\ \A p \in 1..Len(frames) : Final(frames[p], id) => frames[p].end
HeadAt(frames, id, stage, said, p) ==
    /\ Final(frames[p], id) /\ ~frames[p].end /\ \A q \in 1..(p - 1) : ~Final(frames[q], id)
    /\ BodyAfter(frames, id, stage, 0, said, p) /\ MissedAfter(frames, id, stage, p)

\* The head of the response has not been read.
Coming(frames, id, stage, said) ==
    \/ Unanswered(frames, id, stage, said)
    \/ Bodiless(frames, id, stage, said)
    \/ \E p \in 1..Len(frames) : HeadAt(frames, id, stage, said, p)
    \/ MissedAfter(frames, id, stage, 0)

\* What a frame of the server's may be, and make of the stage of a stream.
Follows(id, stage, said, f, stage2, said2) ==
    \/ f.id # id /\ stage2 = stage /\ said2 = said
    \/ stage = "asked" /\ stage2 = "asked" /\ said2 = said /\ ~Final(f, id)
    \/ stage = "asked" /\ Final(f, id) /\ said2 = said
         /\ stage2 = IF f.end THEN "done" ELSE "headed"
    \/ stage = "headed" /\ stage2 = "headed" /\ ~Stops(f, id) /\ said2 = said + BodyOf(f, id)
    \/ stage = "headed" /\ Ends(f, id) /\ said2 = said + BodyOf(f, id)
         /\ stage2 = IF f.end THEN "done" ELSE "trailed"
    \/ f.kind = "reset" /\ f.id = id /\ stage2 = "done" /\ said2 = said
    \/ stage \in {"trailed", "done"} /\ stage2 = stage /\ said2 = said
         /\ (Final(f, id) => stage = "done" /\ f.end)

\* A frame more, and a frame less.
OneFrameMore(s, f, t, id) ==
    /\ t \in Seq(ToClient) /\ Len(t) = Len(s) + 1 /\ Len(s) \in Nat
    /\ t[Len(s) + 1] = f /\ \A i \in 1..Len(s) : t[i] = s[i] /\ s[i] \in ToClient
    /\ \A n \in 0..Len(s) : Octets(s, id, n) \in Nat /\ Octets(t, id, n) = Octets(s, id, n)
    /\ Octets(t, id, Len(s) + 1) = Octets(s, id, Len(s)) + BodyOf(f, id)
    /\ BodyOf(f, id) \in Nat

OneFrameLess(s, t, id) ==
    /\ t \in Seq(ToClient) /\ Len(s) = Len(t) + 1 /\ Len(t) \in Nat
    /\ s[1] = Head(s) /\ s[1] \in ToClient /\ \A i \in 1..Len(t) : t[i] = s[i + 1]
    /\ \A n \in 0..Len(t) : /\ Octets(t, id, n) \in Nat
                            /\ Octets(s, id, n + 1) = Octets(t, id, n) + BodyOf(s[1], id)
    /\ Octets(s, id, 0) = 0 /\ Octets(t, id, 0) = 0 /\ BodyOf(s[1], id) \in Nat

LEMMA OctetsMore ==
    ASSUME NEW s \in Seq(ToClient), NEW f \in ToClient, NEW t, t = Append(s, f), NEW id
    PROVE  OneFrameMore(s, f, t, id)
<1> DEFINE N == Len(s)
           a == [i \in 1..N |-> BodyOf(s[i], id)]
           b == [i \in 1..(N + 1) |-> BodyOf(t[i], id)]
<1>1. /\ N \in Nat /\ N + 1 \in Nat /\ Len(t) = N + 1 /\ t \in Seq(ToClient) /\ t[N + 1] = f
      /\ \A i \in 1..N : t[i] = s[i] /\ s[i] \in ToClient
  BY LenProperties, AppendProperties, ElementOfSeq
<1>2. \A g \in ToClient : BodyOf(g, id) \in Nat
  BY DEF BodyOf, ToClient
<1>3. a \in [1..N -> Nat] /\ b \in [1..(N + 1) -> Nat]
      /\ (\A i \in 1..N : b[i] = a[i]) /\ b[N + 1] = BodyOf(f, id)
  <2>1. \A i \in 1..(N + 1) : t[i] \in ToClient
    BY <1>1, ElementOfSeq
  <2> QED
    BY <1>1, <1>2, <2>1
<1>4. \A n \in 0..N : Octets(s, id, n) = Total(a, n)
  BY DEF Octets
<1>5. \A n \in 0..(N + 1) : Octets(t, id, n) = Total(b, n)
  BY <1>1 DEF Octets
<1> HIDE DEF a, b, N
<1>6. a \in [1..N -> Int] /\ b \in [1..(N + 1) -> Int]
  BY <1>3
<1>7. \A n \in 0..N : n \in 0..(N + 1) /\ n <= N + 1 /\ \A i \in 1..n : b[i] = a[i]
  BY <1>1, <1>3
<1>8. \A n \in 0..N : Total(b, n) = Total(a, n)
  <2> TAKE n \in 0..N
  <2> DEFINE M == N + 1
  <2>1. N \in Nat /\ M \in Nat /\ a \in [1..N -> Int] /\ b \in [1..M -> Int]
    BY <1>1, <1>6
  <2>2. n <= M /\ \A i \in 1..n : b[i] = a[i]
    BY <1>7
  <2> HIDE DEF M
  <2> QED
    BY <2>1, <2>2, TotalSame
<1>9. \A n \in 0..N : Total(a, n) \in Nat
  BY <1>1, <1>3, TotalBounds
<1>10. Total(b, N + 1) = Total(b, N) + b[N + 1]
  <2>1. N + 1 \in 1..(N + 1) /\ (N + 1) - 1 = N
    BY <1>1
  <2>2. Total(b, N + 1) = Total(b, (N + 1) - 1) + b[N + 1]
    BY <1>1, <1>6, <2>1, TotalStep
  <2> QED
    BY <2>1, <2>2
<1>11. N \in 0..N /\ N + 1 \in 0..(N + 1)
  BY <1>1
<1>12. Octets(t, id, N + 1) = Octets(s, id, N) + BodyOf(f, id)
  BY <1>3, <1>4, <1>5, <1>8, <1>10, <1>11
<1> QED
  BY <1>1, <1>2, <1>4, <1>5, <1>7, <1>8, <1>9, <1>12 DEF N, OneFrameMore

LEMMA OctetsLess ==
    ASSUME NEW s \in Seq(ToClient), s # <<>>, NEW t, t = Tail(s), NEW id
    PROVE  OneFrameLess(s, t, id)
<1> DEFINE M == Len(t)
           a == [i \in 1..(M + 1) |-> BodyOf(s[i], id)]
           b == [i \in 1..M |-> BodyOf(t[i], id)]
<1>1. /\ M \in Nat /\ Len(s) = M + 1 /\ t \in Seq(ToClient) /\ s[1] = Head(s) /\ s[1] \in ToClient
      /\ \A i \in 1..M : t[i] = s[i + 1]
  BY LenProperties, HeadTailProperties, ElementOfSeq
<1>2. \A g \in ToClient : BodyOf(g, id) \in Nat
  BY DEF BodyOf, ToClient
<1>3. (\A i \in 1..(M + 1) : s[i] \in ToClient) /\ \A i \in 1..M : t[i] \in ToClient
  BY <1>1, ElementOfSeq
<1>4. a \in [1..(M + 1) -> Nat] /\ b \in [1..M -> Nat]
      /\ (\A i \in 1..M : b[i] = a[i + 1]) /\ a[1] = BodyOf(s[1], id)
  BY <1>1, <1>2, <1>3
<1>5. \A n \in 0..(M + 1) : Octets(s, id, n) = Total(a, n)
  BY <1>1 DEF Octets
<1>6. \A n \in 0..M : Octets(t, id, n) = Total(b, n)
  BY DEF Octets
<1> HIDE DEF a, b, M
<1>7. a \in [1..(M + 1) -> Int] /\ b \in [1..M -> Int] /\ M + 1 \in Nat
  BY <1>1, <1>4
<1>8. \A n \in 0..M : Total(b, n) = Total(a, n + 1) - a[1]
  BY <1>1, <1>4, <1>7, TotalShifted
<1>9. (\A n \in 0..M : Total(b, n) \in Nat) /\ Total(a, 0) = 0 /\ Total(b, 0) = 0
      /\ \A n \in 0..(M + 1) : Total(a, n) \in Nat
  BY <1>1, <1>4, <1>7, TotalBounds, TotalStep
<1>10. \A n \in 0..M : n + 1 \in 0..(M + 1) /\ 0 \in 0..M /\ 0 \in 0..(M + 1)
  BY <1>1
<1>11. a[1] \in Nat
  BY <1>1, <1>2, <1>4
<1>12. ASSUME NEW n \in 0..M
       PROVE  Octets(t, id, n) \in Nat /\ Octets(s, id, n + 1) = Octets(t, id, n) + BodyOf(s[1], id)
  <2>1. Octets(t, id, n) = Total(b, n) /\ Octets(s, id, n + 1) = Total(a, n + 1)
    BY <1>5, <1>6, <1>10
  <2>2. Total(b, n) = Total(a, n + 1) - a[1] /\ Total(a, n + 1) \in Nat /\ Total(b, n) \in Nat
    BY <1>8, <1>9, <1>10
  <2> QED
    BY <1>4, <1>11, <2>1, <2>2
<1>13. Octets(s, id, 0) = 0 /\ Octets(t, id, 0) = 0
  BY <1>1, <1>5, <1>6, <1>9, <1>10
<1> QED
  BY <1>1, <1>2, <1>12, <1>13 DEF M, OneFrameLess

\* What the server says next goes behind what the client has still to read.
LEMMA BodyGrows ==
    ASSUME NEW s \in Seq(ToClient), NEW f \in ToClient, NEW t, t = Append(s, f), NEW id,
           NEW stage, NEW said \in Nat, NEW stage2, NEW said2, NEW heard \in Nat,
           NEW n \in 0..Len(s),
           Follows(id, stage, said, f, stage2, said2), BodyAfter(s, id, stage, heard, said, n)
    PROVE  BodyAfter(t, id, stage2, heard, said2, n)
<1> DEFINE L == Len(s)
<1>1. /\ Len(t) = L + 1 /\ L \in Nat /\ t[L + 1] = f
      /\ \A i \in 1..L : t[i] = s[i]
      /\ \A m \in 0..L : Octets(s, id, m) \in Nat /\ Octets(t, id, m) = Octets(s, id, m)
      /\ Octets(t, id, L + 1) = Octets(s, id, L) + BodyOf(f, id)
      /\ BodyOf(f, id) \in Nat
  <2>1. OneFrameMore(s, f, t, id)
    BY OctetsMore
  <2> QED
    BY <2>1 DEF OneFrameMore
<1>2. n \in Nat /\ n <= L /\ L \in 0..L
  BY <1>1
<1> HIDE DEF L
<1>3. CASE stage = "headed"
  <2>1. /\ \A p \in (n + 1)..L : ~Stops(s[p], id)
        /\ said = heard + Octets(s, id, L) - Octets(s, id, n)
    BY <1>3 DEF BodyAfter, L
  <2>2. \A p \in (n + 1)..L : p \in 1..L /\ ~Stops(t[p], id)
    BY <1>1, <1>2, <2>1
  <2>3. said + BodyOf(f, id) = heard + Octets(t, id, L + 1) - Octets(t, id, n)
    BY <1>1, <1>2, <2>1
  <2>4. CASE stage2 = "headed" /\ ~Stops(f, id) /\ said2 = said + BodyOf(f, id)
    <3>1. \A p \in (n + 1)..Len(t) : ~Stops(t[p], id)
      BY <1>1, <1>2, <2>2, <2>4
    <3> QED
      BY <1>1, <2>3, <2>4, <3>1 DEF BodyAfter
  <2>5. CASE stage2 \in {"trailed", "done"} /\ Stops(f, id)
             /\ (Ends(f, id) => said2 = said + BodyOf(f, id))
    <3>1. L + 1 \in (n + 1)..Len(t) /\ (L + 1) - 1 = L
      BY <1>1, <1>2
    <3>2. Stops(t[L + 1], id) /\ \A p \in (n + 1)..((L + 1) - 1) : ~Stops(t[p], id)
      BY <1>1, <2>2, <2>5, <3>1
    <3>3. Ends(t[L + 1], id) => said2 = heard + Octets(t, id, L + 1) - Octets(t, id, n)
      BY <1>1, <2>3, <2>5
    <3> QED
      BY <2>5, <3>1, <3>2, <3>3 DEF BodyAfter
  <2>6. \/ stage2 = "headed" /\ ~Stops(f, id) /\ said2 = said + BodyOf(f, id)
        \/ stage2 \in {"trailed", "done"} /\ Stops(f, id)
             /\ (Ends(f, id) => said2 = said + BodyOf(f, id))
    <3>1. CASE f.id # id /\ stage2 = stage /\ said2 = said
      BY <1>3, <3>1 DEF Stops, BodyOf
    <3>2. CASE Ends(f, id) /\ said2 = said + BodyOf(f, id) /\ stage2 = IF f.end THEN "done" ELSE "trailed"
      BY <3>2 DEF Ends, Stops
    <3>3. CASE f.kind = "reset" /\ f.id = id /\ stage2 = "done" /\ said2 = said
      BY <3>3 DEF Ends, Stops
    <3> QED
      BY <1>3, <3>1, <3>2, <3>3 DEF Follows
  <2> QED
    BY <2>4, <2>5, <2>6
<1>4. CASE stage \in {"trailed", "done"}
  <2>1. PICK e \in (n + 1)..L :
            /\ Stops(s[e], id) /\ \A p \in (n + 1)..(e - 1) : ~Stops(s[p], id)
            /\ Ends(s[e], id) => said = heard + Octets(s, id, e) - Octets(s, id, n)
    BY <1>4 DEF BodyAfter, L
  <2>2. stage2 \in {"trailed", "done"} /\ said2 = said
    BY <1>4 DEF Follows
  <2>3. e \in 1..L /\ e \in (n + 1)..Len(t) /\ e \in 0..L /\ \A p \in (n + 1)..(e - 1) : p \in 1..L
    BY <1>1, <1>2
  <2>4. /\ Stops(t[e], id) /\ \A p \in (n + 1)..(e - 1) : ~Stops(t[p], id)
        /\ Ends(t[e], id) => said2 = heard + Octets(t, id, e) - Octets(t, id, n)
    BY <1>1, <2>1, <2>2, <2>3
  <2> QED
    BY <2>2, <2>3, <2>4 DEF BodyAfter
<1> QED
  BY <1>3, <1>4 DEF BodyAfter

LEMMA MissedGrows ==
    ASSUME NEW s \in Seq(ToClient), NEW f \in ToClient, NEW t, t = Append(s, f), NEW id,
           NEW stage, NEW said \in Nat, NEW stage2, NEW said2, NEW n \in 0..Len(s),
           Follows(id, stage, said, f, stage2, said2), MissedAfter(s, id, stage, n)
    PROVE  MissedAfter(t, id, stage2, n)
<1> DEFINE L == Len(s)
<1>1. /\ Len(t) = L + 1 /\ L \in Nat /\ t[L + 1] = f /\ \A i \in 1..L : t[i] = s[i]
  BY OctetsMore DEF OneFrameMore
<1>2. n \in Nat /\ n <= L
  BY <1>1
<1> HIDE DEF L
<1>3. /\ stage # "asked"
      /\ \A p \in (n + 1)..L : Final(s[p], id) => \E q \in (n + 1)..(p - 1) : Shuts(s[q], id)
      /\ stage = "done" => \E q \in (n + 1)..L : Shuts(s[q], id)
  BY DEF MissedAfter, L
<1>4. stage2 # "asked" /\ (stage2 = "done" => stage = "done" \/ Shuts(f, id))
      /\ (Final(f, id) => stage = "done")
  BY <1>3 DEF Follows, Shuts, Ends, Stops, Final
<1>5. \A q \in (n + 1)..L : q \in 1..L /\ q \in (n + 1)..Len(t) /\ t[q] = s[q]
  BY <1>1, <1>2
<1>6. stage2 = "done" => \E q \in (n + 1)..Len(t) : Shuts(t[q], id)
  <2>1. L + 1 \in (n + 1)..Len(t)
    BY <1>1, <1>2
  <2> QED
    BY <1>1, <1>3, <1>4, <1>5, <2>1
<1>7. ASSUME NEW p \in (n + 1)..Len(t), Final(t[p], id)
      PROVE  \E q \in (n + 1)..(p - 1) : Shuts(t[q], id)
  <2>1. CASE p = L + 1
    <3>1. PICK q \in (n + 1)..L : Shuts(s[q], id)
      BY <1>1, <1>3, <1>4, <1>7, <2>1
    <3>2. q \in (n + 1)..(p - 1)
      BY <1>1, <1>2, <2>1
    <3> QED
      BY <1>5, <3>1, <3>2
  <2>2. CASE p # L + 1
    <3>1. p \in (n + 1)..L
      BY <1>1, <1>2, <2>2
    <3>2. PICK q \in (n + 1)..(p - 1) : Shuts(s[q], id)
      BY <1>3, <1>5, <1>7, <3>1
    <3>3. q \in (n + 1)..L
      BY <1>1, <1>2, <3>1
    <3> QED
      BY <1>5, <3>2, <3>3
  <2> QED
    BY <2>1, <2>2
<1> QED
  BY <1>4, <1>6, <1>7 DEF MissedAfter

LEMMA ComingGrows ==
    ASSUME NEW s \in Seq(ToClient), NEW f \in ToClient, NEW t, t = Append(s, f), NEW id,
           NEW stage, NEW said \in Nat, NEW stage2, NEW said2,
           Follows(id, stage, said, f, stage2, said2), Coming(s, id, stage, said)
    PROVE  Coming(t, id, stage2, said2)
<1> DEFINE L == Len(s)
<1>1. /\ Len(t) = L + 1 /\ L \in Nat /\ t[L + 1] = f /\ \A i \in 1..L : t[i] = s[i]
      /\ Octets(t, id, L + 1) \in Nat /\ 0 \in 0..L
  <2>1. OneFrameMore(s, f, t, id)
    BY OctetsMore
  <2>2. L \in Nat /\ L \in 0..L
    BY <2>1 DEF OneFrameMore
  <2> QED
    BY <2>1, <2>2 DEF OneFrameMore
<1>2. f.kind = "headers" => f.end \in BOOLEAN
  BY DEF ToClient
<1> HIDE DEF L
<1>3. CASE Unanswered(s, id, stage, said)
  <2>1. stage = "asked" /\ said = 0 /\ \A p \in 1..L : ~Final(t[p], id)
    BY <1>1, <1>3 DEF Unanswered, L
  <2>2. CASE stage2 = "asked" /\ said2 = said /\ ~Final(f, id)
    BY <1>1, <2>1, <2>2 DEF Unanswered, Coming
  <2>3. CASE stage2 = "done" /\ said2 = said /\ (Final(f, id) => f.end)
    <3>1. \A p \in 1..Len(t) : Final(t[p], id) => t[p].end
      BY <1>1, <2>1, <2>3
    <3> QED
      BY <2>1, <2>3, <3>1 DEF Bodiless, Coming
  <2>4. CASE Final(f, id) /\ ~f.end /\ said2 = said /\ stage2 = "headed"
    <3>1. L + 1 \in 1..Len(t) /\ ((L + 1) + 1)..Len(t) = {} /\ (L + 1) - 1 = L
      BY <1>1
    <3>2. BodyAfter(t, id, stage2, 0, said2, L + 1)
      BY <1>1, <2>1, <2>4, <3>1 DEF BodyAfter
    <3>3. MissedAfter(t, id, stage2, L + 1)
      BY <2>4, <3>1 DEF MissedAfter
    <3>4. HeadAt(t, id, stage2, said2, L + 1)
      BY <1>1, <2>1, <2>4, <3>1, <3>2, <3>3 DEF HeadAt
    <3> QED
      BY <3>1, <3>4 DEF Coming
  <2>5. CASE f.id # id /\ stage2 = stage /\ said2 = said
    BY <2>1, <2>2, <2>5 DEF Final
  <2>6. CASE f.kind = "reset" /\ f.id = id /\ stage2 = "done" /\ said2 = said
    BY <2>3, <2>6 DEF Final
  <2> QED
    BY <1>2, <2>1, <2>2, <2>3, <2>4, <2>5, <2>6 DEF Follows, Final
<1>4. CASE Bodiless(s, id, stage, said)
  <2>1. stage = "done" /\ said = 0 /\ \A p \in 1..L : Final(t[p], id) => t[p].end
    BY <1>1, <1>4 DEF Bodiless, L
  <2>2. stage2 = "done" /\ said2 = said /\ (Final(f, id) => f.end)
    BY <2>1 DEF Follows, Final
  <2>3. \A p \in 1..Len(t) : Final(t[p], id) => t[p].end
    BY <1>1, <2>1, <2>2
  <2> QED
    BY <2>1, <2>2, <2>3 DEF Bodiless, Coming
<1>5. ASSUME NEW p \in 1..L, HeadAt(s, id, stage, said, p)
      PROVE  Coming(t, id, stage2, said2)
  <2>1. /\ Final(s[p], id) /\ ~s[p].end /\ \A q \in 1..(p - 1) : ~Final(s[q], id)
        /\ BodyAfter(s, id, stage, 0, said, p) /\ MissedAfter(s, id, stage, p)
    BY <1>5 DEF HeadAt
  <2>2. p \in 0..Len(s) /\ p \in 1..Len(t) /\ \A q \in 1..(p - 1) : q \in 1..L
    BY <1>1 DEF L
  <2>3. BodyAfter(t, id, stage2, 0, said2, p)
    BY <2>1, <2>2, BodyGrows
  <2>4. MissedAfter(t, id, stage2, p)
    BY <2>1, <2>2, MissedGrows
  <2>5. HeadAt(t, id, stage2, said2, p)
    BY <1>1, <2>1, <2>2, <2>3, <2>4 DEF HeadAt
  <2> QED
    BY <2>2, <2>5 DEF Coming
<1>6. CASE MissedAfter(s, id, stage, 0)
  <2>1. 0 \in 0..Len(s)
    BY <1>1 DEF L
  <2>2. MissedAfter(t, id, stage2, 0)
    BY <1>6, <2>1, MissedGrows
  <2> QED
    BY <2>2 DEF Coming
<1> QED
  BY <1>3, <1>4, <1>5, <1>6 DEF Coming, L

\* The client reads the first of the frames on their way.
LEMMA BodyShrinks ==
    ASSUME NEW s \in Seq(ToClient), s # <<>>, NEW t, t = Tail(s), NEW id, NEW stage,
           NEW said \in Nat, NEW heard \in Nat
    PROVE  /\ BodyAfter(s, id, stage, heard, said, 0) /\ ~Stops(s[1], id) =>
                BodyAfter(t, id, stage, heard + BodyOf(s[1], id), said, 0)
           /\ BodyAfter(s, id, stage, heard, said, 0) /\ Ends(s[1], id) =>
                stage \in {"trailed", "done"} /\ said = heard + BodyOf(s[1], id)
           /\ \A n \in 1..Len(s) :
                BodyAfter(s, id, stage, heard, said, n) => BodyAfter(t, id, stage, heard, said, n - 1)
<1> DEFINE M == Len(t)
           b == BodyOf(s[1], id)
<1>1. /\ M \in Nat /\ Len(s) = M + 1 /\ \A i \in 1..M : t[i] = s[i + 1]
      /\ \A n \in 0..M : /\ Octets(t, id, n) \in Nat
                         /\ Octets(s, id, n + 1) = Octets(t, id, n) + b
      /\ Octets(s, id, 0) = 0 /\ Octets(t, id, 0) = 0 /\ b \in Nat
  <2>1. OneFrameLess(s, t, id)
    BY OctetsLess
  <2> QED
    BY <2>1 DEF OneFrameLess
<1> HIDE DEF M, b
<1>2. ASSUME BodyAfter(s, id, stage, heard, said, 0), ~Stops(s[1], id)
      PROVE  BodyAfter(t, id, stage, heard + b, said, 0)
  <2>1. CASE stage = "headed"
    <3>1. /\ \A p \in 1..(M + 1) : ~Stops(s[p], id)
          /\ said = heard + Octets(s, id, M + 1) - 0
      BY <1>1, <1>2, <2>1 DEF BodyAfter
    <3>2. \A p \in 1..M : ~Stops(t[p], id)
      BY <1>1, <3>1
    <3>3. said = heard + b + Octets(t, id, M) - Octets(t, id, 0)
      <4>1. M \in 0..M
        BY <1>1
      <4> QED
        BY <1>1, <3>1, <4>1
    <3> QED
      BY <2>1, <3>2, <3>3 DEF BodyAfter, M
  <2>2. CASE stage \in {"trailed", "done"}
    <3>1. PICK e \in 1..(M + 1) :
            /\ Stops(s[e], id) /\ \A p \in 1..(e - 1) : ~Stops(s[p], id)
            /\ Ends(s[e], id) => said = heard + Octets(s, id, e) - 0
      BY <1>1, <1>2, <2>2 DEF BodyAfter
    <3>2. e # 1
      BY <1>2, <3>1
    <3>3. PICK d \in 1..M : d = e - 1 /\ e = d + 1
      BY <1>1, <3>1, <3>2
    <3>4. Stops(t[d], id) /\ \A p \in 1..(d - 1) : ~Stops(t[p], id)
      <4>1. \A p \in 1..(d - 1) : p \in 1..M /\ p + 1 \in 1..(e - 1)
        BY <1>1, <3>3
      <4> QED
        BY <1>1, <3>1, <3>3, <4>1
    <3>5. Ends(t[d], id) => said = heard + b + Octets(t, id, d) - Octets(t, id, 0)
      <4>1. d \in 0..M /\ t[d] = s[e]
        BY <1>1, <3>3
      <4> QED
        BY <1>1, <3>1, <3>3, <4>1
    <3>6. d \in (0 + 1)..M /\ \A p \in (0 + 1)..(d - 1) : p \in 1..(d - 1)
      BY <1>1, <3>3
    <3> QED
      BY <2>2, <3>4, <3>5, <3>6 DEF BodyAfter, M
  <2>3. stage = "headed" \/ stage \in {"trailed", "done"}
    BY <1>2 DEF BodyAfter
  <2> QED
    BY <2>1, <2>2, <2>3
<1>3. ASSUME BodyAfter(s, id, stage, heard, said, 0), Ends(s[1], id)
      PROVE  stage \in {"trailed", "done"} /\ said = heard + b
  <2>1. Stops(s[1], id) /\ 1 \in 1..(M + 1)
    BY <1>1, <1>3 DEF Ends, Stops
  <2>2. stage \in {"trailed", "done"}
    BY <1>1, <1>3, <2>1 DEF BodyAfter
  <2>3. PICK e \in 1..(M + 1) :
          /\ Stops(s[e], id) /\ \A p \in 1..(e - 1) : ~Stops(s[p], id)
          /\ Ends(s[e], id) => said = heard + Octets(s, id, e) - 0
    BY <1>1, <1>3, <2>2 DEF BodyAfter
  <2>4. e = 1
    BY <1>1, <2>1, <2>3
  <2>5. Octets(s, id, 0 + 1) = Octets(t, id, 0) + b
    BY <1>1
  <2>6. said = heard + Octets(s, id, 1) - 0
    BY <1>3, <2>3, <2>4
  <2> QED
    BY <1>1, <2>2, <2>5, <2>6
<1>4. ASSUME NEW n \in 1..Len(s), BodyAfter(s, id, stage, heard, said, n)
      PROVE  BodyAfter(t, id, stage, heard, said, n - 1)
  <2>1. PICK k \in 0..M : k = n - 1 /\ n = k + 1
    BY <1>1
  <2>2. Octets(s, id, n) = Octets(t, id, k) + b /\ Octets(t, id, k) \in Nat
    BY <1>1, <2>1
  <2>3. CASE stage = "headed"
    <3>1. /\ \A p \in (n + 1)..(M + 1) : ~Stops(s[p], id)
          /\ said = heard + Octets(s, id, M + 1) - Octets(s, id, n)
      BY <1>1, <1>4, <2>3 DEF BodyAfter
    <3>2. ASSUME NEW p \in (k + 1)..M PROVE ~Stops(t[p], id)
      <4>1. p \in 1..M /\ p + 1 \in (n + 1)..(M + 1)
        BY <1>1, <2>1
      <4> QED
        BY <1>1, <3>1, <4>1
    <3>3. said = heard + Octets(t, id, M) - Octets(t, id, k)
      <4>1. M \in 0..M
        BY <1>1
      <4> QED
        BY <1>1, <2>2, <3>1, <4>1
    <3> QED
      BY <2>1, <2>3, <3>2, <3>3 DEF BodyAfter, M
  <2>4. CASE stage \in {"trailed", "done"}
    <3>1. PICK e \in (n + 1)..(M + 1) :
            /\ Stops(s[e], id) /\ \A p \in (n + 1)..(e - 1) : ~Stops(s[p], id)
            /\ Ends(s[e], id) => said = heard + Octets(s, id, e) - Octets(s, id, n)
      BY <1>1, <1>4, <2>4 DEF BodyAfter
    <3>2. PICK d \in (k + 1)..M : d = e - 1 /\ e = d + 1 /\ d \in 1..M /\ d \in 0..M
      BY <1>1, <2>1, <3>1
    <3>3. ASSUME NEW p \in (k + 1)..(d - 1) PROVE ~Stops(t[p], id)
      <4>1. p \in 1..M /\ p + 1 \in (n + 1)..(e - 1)
        BY <1>1, <2>1, <3>2
      <4> QED
        BY <1>1, <3>1, <4>1
    <3>4. Stops(t[d], id) /\ (Ends(t[d], id) => said = heard + Octets(t, id, d) - Octets(t, id, k))
      <4>1. t[d] = s[e] /\ Octets(s, id, e) = Octets(t, id, d) + b /\ Octets(t, id, d) \in Nat
        BY <1>1, <3>2
      <4>2. said = heard + Octets(s, id, e) - Octets(s, id, n) =>
              said = heard + Octets(t, id, d) - Octets(t, id, k)
        BY <1>1, <2>2, <4>1
      <4> QED
        BY <3>1, <4>1, <4>2
    <3> QED
      BY <2>1, <2>4, <3>2, <3>3, <3>4 DEF BodyAfter, M
  <2> QED
    BY <1>4, <2>3, <2>4 DEF BodyAfter
<1> QED
  BY <1>2, <1>3, <1>4 DEF b

LEMMA MissedShrinks ==
    ASSUME NEW s \in Seq(ToClient), s # <<>>, NEW t, t = Tail(s), NEW id, NEW stage,
           NEW n \in 0..Len(t), NEW m \in {n, n + 1},
           m = n => n = 0 /\ ~Shuts(s[1], id), MissedAfter(s, id, stage, m)
    PROVE  MissedAfter(t, id, stage, n)
<1> DEFINE M == Len(t)
<1>1. M \in Nat /\ Len(s) = M + 1 /\ \A i \in 1..M : t[i] = s[i + 1]
  BY OctetsLess DEF OneFrameLess
<1>2. n \in Nat /\ n <= M /\ m \in Nat /\ (m = n + 1 \/ (m = 0 /\ n = 0 /\ ~Shuts(s[1], id)))
  BY <1>1
<1>3. /\ stage # "asked"
      /\ \A p \in (m + 1)..(M + 1) : Final(s[p], id) => \E q \in (m + 1)..(p - 1) : Shuts(s[q], id)
      /\ stage = "done" => \E q \in (m + 1)..(M + 1) : Shuts(s[q], id)
  BY <1>1 DEF MissedAfter
<1> HIDE DEF M
<1>4. ASSUME NEW p \in (m + 1)..(M + 1), Shuts(s[p], id)
      PROVE  p - 1 \in (n + 1)..M /\ Shuts(t[p - 1], id)
  <2>1. p # 1 \/ m # 0
    BY <1>2, <1>4
  <2>2. p - 1 \in (n + 1)..M /\ p - 1 \in 1..M /\ (p - 1) + 1 = p
    BY <1>1, <1>2, <2>1
  <2> QED
    BY <1>1, <1>4, <2>2
<1>5. stage = "done" => \E q \in (n + 1)..M : Shuts(t[q], id)
  BY <1>3, <1>4
<1>6. ASSUME NEW p \in (n + 1)..M, Final(t[p], id)
      PROVE  \E q \in (n + 1)..(p - 1) : Shuts(t[q], id)
  <2>1. p \in 1..M /\ p + 1 \in (m + 1)..(M + 1) /\ (p + 1) - 1 = p
    BY <1>1, <1>2
  <2>2. PICK q \in (m + 1)..p : Shuts(s[q], id)
    BY <1>1, <1>3, <1>6, <2>1
  <2>3. q \in (m + 1)..(M + 1)
    BY <1>1, <1>2, <2>1
  <2>4. q - 1 \in (n + 1)..M /\ Shuts(t[q - 1], id)
    BY <1>4, <2>2, <2>3
  <2>5. q - 1 \in (n + 1)..(p - 1)
    BY <1>1, <1>2, <2>1, <2>2, <2>4
  <2> QED
    BY <2>4, <2>5
<1> QED
  BY <1>3, <1>5, <1>6 DEF MissedAfter, M

LEMMA ComingShrinks ==
    ASSUME NEW s \in Seq(ToClient), s # <<>>, NEW t, t = Tail(s), NEW id, NEW stage,
           NEW said \in Nat, Coming(s, id, stage, said)
    PROVE  /\ ~Shuts(s[1], id) => Coming(t, id, stage, said)
           /\ Final(s[1], id) => IF s[1].end THEN stage = "done" /\ said = 0
                                 ELSE BodyAfter(t, id, stage, 0, said, 0)
<1> DEFINE M == Len(t)
<1>1. M \in Nat /\ Len(s) = M + 1 /\ (\A i \in 1..M : t[i] = s[i + 1]) /\ 1 \in 1..Len(s)
  BY OctetsLess DEF OneFrameLess
<1>2. \A i \in 1..M : i + 1 \in 1..Len(s) /\ t[i] = s[i + 1]
  BY <1>1
<1>3. 0 \in 0..Len(t) /\ 0 + 1 = 1 /\ 1 - 1 = 0 /\ 0 \in Nat
  BY <1>1
<1> HIDE DEF M
<1>4. CASE Unanswered(s, id, stage, said)
  <2>1. Unanswered(t, id, stage, said) /\ ~Final(s[1], id)
    BY <1>1, <1>2, <1>4 DEF Unanswered, M
  <2> QED
    BY <2>1 DEF Coming
<1>5. CASE Bodiless(s, id, stage, said)
  <2>1. Bodiless(t, id, stage, said) /\ (Final(s[1], id) => s[1].end /\ stage = "done" /\ said = 0)
    BY <1>1, <1>2, <1>5 DEF Bodiless, M
  <2> QED
    BY <2>1 DEF Coming
<1>6. ASSUME NEW p \in 1..Len(s), HeadAt(s, id, stage, said, p)
      PROVE  /\ ~Shuts(s[1], id) => Coming(t, id, stage, said)
             /\ Final(s[1], id) => ~s[1].end /\ BodyAfter(t, id, stage, 0, said, 0)
  <2>1. /\ Final(s[p], id) /\ ~s[p].end /\ \A q \in 1..(p - 1) : ~Final(s[q], id)
        /\ BodyAfter(s, id, stage, 0, said, p) /\ MissedAfter(s, id, stage, p)
    BY <1>6 DEF HeadAt
  <2>2. BodyAfter(t, id, stage, 0, said, p - 1)
    BY <1>3, <2>1, BodyShrinks
  <2>3. PICK k \in 0..M : k = p - 1 /\ p = k + 1
    BY <1>1
  <2>4. MissedAfter(t, id, stage, k)
    <3>1. k \in 0..Len(t) /\ p \in {k, k + 1} /\ p # k
      BY <2>3 DEF M
    <3> QED
      BY <2>1, <3>1, MissedShrinks
  <2>5. CASE k = 0
    <3>1. Coming(t, id, stage, said)
      BY <2>4, <2>5 DEF Coming
    <3> QED
      BY <1>3, <2>1, <2>2, <2>3, <2>5, <3>1
  <2>6. CASE k # 0
    <3>1. k \in 1..M /\ t[k] = s[p] /\ 1 \in 1..(p - 1)
      BY <1>1, <1>2, <2>3, <2>6
    <3>2. ASSUME NEW q \in 1..(k - 1) PROVE ~Final(t[q], id)
      <4>1. q \in 1..M /\ q + 1 \in 1..(p - 1)
        BY <1>1, <2>3
      <4> QED
        BY <1>2, <2>1, <4>1
    <3>3. HeadAt(t, id, stage, said, k)
      BY <2>1, <2>2, <2>3, <2>4, <3>1, <3>2 DEF HeadAt
    <3>4. ~Final(s[1], id)
      BY <2>1, <3>1
    <3> QED
      BY <3>1, <3>3, <3>4 DEF Coming, M
  <2> QED
    BY <2>5, <2>6
<1>7. CASE MissedAfter(s, id, stage, 0)
  <2>1. ~Final(s[1], id)
    <3>1. 1 \in (0 + 1)..Len(s) /\ (0 + 1)..(1 - 1) = {}
      BY <1>1
    <3> QED
      BY <1>7, <3>1 DEF MissedAfter
  <2>2. ASSUME ~Shuts(s[1], id) PROVE MissedAfter(t, id, stage, 0)
    BY <1>3, <1>7, <2>2, MissedShrinks
  <2> QED
    BY <2>1, <2>2 DEF Coming
<1> QED
  BY <1>4, <1>5, <1>6, <1>7 DEF Coming

\* The stage of the current stream.
Stage == IF highest \in Known THEN srvStreams[highest].stage ELSE "asked"

Settled(id) == id \in Known /\ srvStreams[id].stage \in {"done", "trailed"}

\* What the exchange has heard, and what is still to be heard of its stream: nothing
\* is said any more of those before it.
Told ==
    /\ \A i \in 1..highest : i < highest \/ pc = "idle" => Settled(i)
    /\ \A p \in 1..Len(wire) : wire[p].kind = "headers" => wire[p].id \in Known
    /\ sent.octets \in Nat /\ read \in Nat
    /\ pc = "idle" => sent.octets = 0
    /\ pc \in {"idle", "sending", "head"} => read = 0
    /\ pc = "head" \/ (pc = "sending" /\ streams[highest].state = "OPEN") =>
         Coming(wire, highest, Stage, sent.octets)
    /\ pc = "body" => answer = highest
    /\ pc = "body" /\ ~ended => BodyAfter(wire, highest, Stage, read, sent.octets, 0)
    /\ pc = "body" /\ ended => Stage \in {"done", "trailed"} /\ read = sent.octets

\* The client reads a frame, and looks at it, or does not.
LEMMA ReadOn ==
    ASSUME Inv, Told, NEW f, f = Head(wire), wire # <<>>, wire' = Tail(wire),
           UNCHANGED <<highest, srvStreams, sent>>,
           \/ /\ pc' = pc /\ pc \in {"sending", "head"} /\ read' = read
              /\ pc = "head" => ~Shuts(f, highest)
              /\ pc = "sending" /\ streams'[highest].state = "OPEN" =>
                   streams[highest].state = "OPEN" /\ ~Shuts(f, highest)
           \/ /\ pc' = "body" /\ pc = "body" /\ ~ended /\ answer' = answer
              /\ read' = read + BodyOf(f, highest)
              /\ ended' => Ends(f, highest)
              /\ ~ended' => ~Stops(f, highest)
           \/ /\ pc = "head" /\ pc' = "body" /\ answer' = highest /\ read' = read
              /\ Final(f, highest) /\ ended' = f.end
    PROVE  Told'
<1>1. wire \in Seq(ToClient) /\ Types
  BY DEF Inv, Types
<1>2. PICK t : t = wire'
  OBVIOUS
<1>3. OneFrameLess(wire, t, highest) /\ f = wire[1]
  <2>1. OneFrameLess(wire, t, highest)
    BY <1>1, <1>2, OctetsLess
  <2> QED
    BY <2>1 DEF OneFrameLess
<1>4. /\ Stage' = Stage /\ highest' = highest /\ sent'.octets = sent.octets
      /\ Known' = Known /\ \A i : Settled(i)' = Settled(i)
  BY DEF Stage, Known, Settled
<1>5. /\ \A i \in 1..highest : i < highest \/ pc = "idle" => Settled(i)
      /\ \A p \in 1..Len(wire) : wire[p].kind = "headers" => wire[p].id \in Known
      /\ sent.octets \in Nat /\ read \in Nat
  BY DEF Told
<1>6. \A p \in 1..Len(t) : t[p].kind = "headers" => t[p].id \in Known
  <2>1. \A p \in 1..Len(t) : t[p] = wire[p + 1] /\ p + 1 \in 1..Len(wire)
    BY <1>3 DEF OneFrameLess
  <2> QED
    BY <1>5, <2>1
<1>7. BodyOf(f, highest) \in Nat
  BY <1>3 DEF OneFrameLess
<1>8. CASE /\ pc' = pc /\ pc \in {"sending", "head"} /\ read' = read
           /\ pc = "head" => ~Shuts(f, highest)
           /\ pc = "sending" /\ streams'[highest].state = "OPEN" =>
                streams[highest].state = "OPEN" /\ ~Shuts(f, highest)
  <2>1. read' = 0 /\ pc' # "idle" /\ pc' # "body"
    BY <1>8 DEF Told
  <2>2. ASSUME pc = "head" \/ (pc = "sending" /\ streams'[highest].state = "OPEN")
        PROVE  Coming(t, highest, Stage, sent.octets)
    <3>1. Coming(wire, highest, Stage, sent.octets) /\ ~Shuts(wire[1], highest)
      BY <1>3, <1>8, <2>2 DEF Told
    <3> QED
      BY <1>1, <1>2, <1>5, <3>1, ComingShrinks
  <2> QED
    BY <1>2, <1>4, <1>5, <1>6, <1>8, <2>1, <2>2 DEF Told
<1>9. CASE /\ pc' = "body" /\ pc = "body" /\ ~ended /\ answer' = answer
           /\ read' = read + BodyOf(f, highest)
           /\ ended' => Ends(f, highest)
           /\ ~ended' => ~Stops(f, highest)
  <2>1. BodyAfter(wire, highest, Stage, read, sent.octets, 0) /\ answer = highest
    BY <1>9 DEF Told
  <2>2. ASSUME ~ended' PROVE BodyAfter(t, highest, Stage, read + BodyOf(wire[1], highest), sent.octets, 0)
    BY <1>1, <1>2, <1>3, <1>5, <1>9, <2>1, <2>2, BodyShrinks
  <2>3. ASSUME ended'
        PROVE  Stage \in {"trailed", "done"} /\ sent.octets = read + BodyOf(wire[1], highest)
    BY <1>1, <1>2, <1>3, <1>5, <1>9, <2>1, <2>3, BodyShrinks
  <2>4. read' \in Nat /\ read' = read + BodyOf(wire[1], highest)
    BY <1>3, <1>5, <1>7, <1>9
  <2>5. ASSUME ~ended' PROVE BodyAfter(t, highest, Stage, read', sent.octets, 0)
    BY <2>2, <2>4, <2>5
  <2>6. ASSUME ended' PROVE Stage \in {"trailed", "done"} /\ read' = sent.octets
    BY <2>3, <2>4, <2>6
  <2> QED
    BY <1>2, <1>4, <1>5, <1>6, <1>9, <2>1, <2>4, <2>5, <2>6 DEF Told
<1>10. CASE /\ pc = "head" /\ pc' = "body" /\ answer' = highest /\ read' = read
            /\ Final(f, highest) /\ ended' = f.end
  <2>1. Coming(wire, highest, Stage, sent.octets) /\ read = 0
    BY <1>10 DEF Told
  <2>2. IF wire[1].end THEN Stage = "done" /\ sent.octets = 0
        ELSE BodyAfter(t, highest, Stage, 0, sent.octets, 0)
    BY <1>1, <1>2, <1>3, <1>5, <1>10, <2>1, ComingShrinks
  <2> QED
    BY <1>2, <1>3, <1>4, <1>5, <1>6, <1>10, <2>1, <2>2 DEF Told
<1> QED
  BY <1>8, <1>9, <1>10

\* The server says something.
LEMMA SaidOn ==
    ASSUME Inv, Told, NEW f \in ToClient, wire' = Append(wire, f),
           UNCHANGED <<pc, highest, streams, ended, read, answer>>, Known' = Known,
           \A i : Settled(i) => Settled(i)',
           f.kind = "headers" => f.id \in Known,
           sent'.octets \in Nat, pc = "idle" => sent' = sent,
           pc # "idle" => Follows(highest, Stage, sent.octets, f, Stage', sent'.octets)
    PROVE  Told'
<1>1. wire \in Seq(ToClient) /\ Types
  BY DEF Inv, Types
<1>2. PICK t : t = wire'
  OBVIOUS
<1>3. PICK stage, said : stage = Stage' /\ said = sent'.octets
  OBVIOUS
<1>4. OneFrameMore(wire, f, t, highest)
  BY <1>1, <1>2, OctetsMore
<1>5. /\ \A i \in 1..highest : i < highest \/ pc = "idle" => Settled(i)
      /\ \A p \in 1..Len(wire) : wire[p].kind = "headers" => wire[p].id \in Known
      /\ sent.octets \in Nat /\ read \in Nat
  BY DEF Told
<1>6. \A p \in 1..Len(t) : t[p].kind = "headers" => t[p].id \in Known
  <2>1. \A p \in 1..Len(t) : (p \in 1..Len(wire) /\ t[p] = wire[p]) \/ t[p] = f
    BY <1>4 DEF OneFrameMore
  <2> QED
    BY <1>5, <2>1
<1>7. ASSUME pc = "head" \/ (pc = "sending" /\ streams[highest].state = "OPEN")
      PROVE  Coming(t, highest, stage, said)
  <2>1. Coming(wire, highest, Stage, sent.octets) /\ Follows(highest, Stage, sent.octets, f, stage, said)
    BY <1>3, <1>7 DEF Told
  <2> QED
    BY <1>1, <1>2, <1>5, <2>1, ComingGrows
<1>8. ASSUME pc = "body", ~ended PROVE BodyAfter(t, highest, stage, read, said, 0)
  <2>1. BodyAfter(wire, highest, Stage, read, sent.octets, 0)
        /\ Follows(highest, Stage, sent.octets, f, stage, said)
    BY <1>3, <1>8 DEF Told
  <2>2. 0 \in 0..Len(wire)
    BY <1>4 DEF OneFrameMore
  <2> QED
    BY <1>1, <1>2, <1>5, <2>1, <2>2, BodyGrows
<1>9. ASSUME pc = "body", ended PROVE stage \in {"done", "trailed"} /\ read = said
  <2>1. Stage \in {"done", "trailed"} /\ read = sent.octets
        /\ Follows(highest, Stage, sent.octets, f, stage, said)
    BY <1>3, <1>9 DEF Told
  <2> QED
    BY <2>1 DEF Follows
<1> QED
  BY <1>2, <1>3, <1>5, <1>6, <1>7, <1>8, <1>9 DEF Told

\* Nothing is said or heard; the server may hear of a stream it will not answer.
LEMMA NothingTold ==
    ASSUME Inv, Told, UNCHANGED <<wire, highest, sent, read, answer, ended>>,
           \A i : Settled(i) => Settled(i)', Known \subseteq Known',
           Stage' = Stage \/ (Stage = "asked" /\ Stage' = "done"),
           \/ pc' = pc
           \/ pc = "sending" /\ pc' = "head" /\ streams[highest].state = "OPEN",
           pc' = "sending" /\ streams'[highest].state = "OPEN" => streams[highest].state = "OPEN"
    PROVE  Told'
<1>1. /\ \A i \in 1..highest : i < highest \/ pc = "idle" => Settled(i)
      /\ \A p \in 1..Len(wire) : wire[p].kind = "headers" => wire[p].id \in Known
      /\ sent.octets \in Nat /\ read \in Nat
  BY DEF Told
<1>2. PICK stage : stage = Stage'
  OBVIOUS
<1>3. ASSUME pc' = "head" \/ (pc' = "sending" /\ streams'[highest].state = "OPEN")
      PROVE  Coming(wire, highest, stage, sent.octets)
  <2>1. Coming(wire, highest, Stage, sent.octets)
    BY <1>3 DEF Told
  <2>2. CASE Stage = "asked" /\ stage = "done"
    <3>1. Unanswered(wire, highest, Stage, sent.octets)
      BY <2>1, <2>2 DEF Coming, Bodiless, HeadAt, MissedAfter
    <3>2. Bodiless(wire, highest, stage, sent.octets)
      BY <2>2, <3>1 DEF Unanswered, Bodiless
    <3> QED
      BY <3>2 DEF Coming
  <2> QED
    BY <1>2, <2>1, <2>2
<1>4. ASSUME pc = "body", ~ended PROVE BodyAfter(wire, highest, stage, read, sent.octets, 0)
  <2>1. BodyAfter(wire, highest, Stage, read, sent.octets, 0)
    BY <1>4 DEF Told
  <2>2. Stage # "asked"
    BY <2>1 DEF BodyAfter
  <2> QED
    BY <1>2, <2>1, <2>2
<1>5. ASSUME pc = "body", ended PROVE stage \in {"done", "trailed"} /\ read = sent.octets
  BY <1>2, <1>5 DEF Told
<1>6. \A p \in 1..Len(wire) : wire[p].kind = "headers" => wire[p].id \in Known'
  BY <1>1
<1>7. pc' \in {"idle", "sending", "head"} => read = 0 /\ (pc' = "idle" => pc = "idle" /\ sent.octets = 0)
  BY DEF Told
<1>8. pc' = "body" => pc = "body" /\ answer = highest
  BY DEF Told
<1> QED
  BY <1>1, <1>2, <1>3, <1>4, <1>5, <1>6, <1>7, <1>8 DEF Told

LEMMA Sayable ==
    ASSUME NEW S, NEW s \in Seq(S), NEW f, Append(s, f) \in Seq(S)
    PROVE  f \in S
<1>1. Len(s) \in Nat /\ Len(s) + 1 \in 1..Len(Append(s, f)) /\ Append(s, f)[Len(s) + 1] = f
  OBVIOUS
<1> QED
  BY <1>1, ElementOfSeq

\* The current stream is one of those there can be.
LEMMA CurrentStream ==
    ASSUME Inv, Told, streamOpen
    PROVE  /\ pc \in {"idle", "sending", "head", "body"} /\ Known \subseteq 1..highest
           /\ pc # "idle" => highest \in Ids /\ highest # OnConnection
           /\ pc \in {"sending", "head"} \/ (pc = "body" /\ ~ended) => highest \in Live
           /\ pc = "sending" => streams[highest].state # "HALF_CLOSED_LOCAL"
           /\ Stage \in {"asked", "headed", "trailed", "done"}
<1>1. Types /\ Introduced /\ Halves /\ pc # "ended"
  BY DEF Inv, Flow
<1>2. Known \subseteq 1..highest /\ Known \subseteq Ids /\ Live \subseteq Ids /\ 0 \notin Ids
  BY <1>1 DEF Introduced, Types, Ids
<1>3. pc = "body" /\ ended => highest \in Known
  BY DEF Told, Stage
<1>4. pc \in {"sending", "head"} \/ (pc = "body" /\ ~ended) => highest \in Live
  BY <1>1 DEF Halves
<1>5. Stage \in {"asked", "headed", "trailed", "done"}
  BY <1>1 DEF Types, ServerStream, Stage
<1>6. pc \in {"idle", "sending", "head", "body"}
  BY <1>1 DEF Types
<1>7. pc = "sending" => streams[highest].state # "HALF_CLOSED_LOCAL"
  BY <1>1 DEF Halves
<1>8. pc # "idle" => highest \in Ids /\ highest # OnConnection
  <2>1. pc # "idle" => highest \in Known \/ highest \in Live
    BY <1>3, <1>4, <1>6
  <2> QED
    BY <1>2, <2>1 DEF OnConnection
<1> QED
  BY <1>2, <1>4, <1>5, <1>6, <1>7, <1>8

\* The server says something that is not of an answer: on a stream or on none.
LEMMA SaidAside ==
    ASSUME Inv, Inv', Told, streamOpen, NEW f, Post(f),
           f.kind \in {"bad", "settings", "ping", "goaway", "grant"},
           f.kind # "grant" => f.id = OnConnection,
           UNCHANGED <<pc, highest, streams, ended, past>>, Known' = Known,
           \A i \in Known : srvStreams'[i].stage = srvStreams[i].stage
    PROVE  Told'
<1>1. wire' = Append(wire, f) /\ wire \in Seq(ToClient) /\ wire' \in Seq(ToClient)
  BY DEF Inv, Types, Post
<1>2. f \in ToClient
  BY <1>1, Sayable
<1>3. (\A i : Settled(i) => Settled(i)') /\ Stage' = Stage
  BY DEF Settled, Stage
<1>4. Stage \in {"asked", "headed", "trailed", "done"} /\ (pc # "idle" => highest # OnConnection)
  BY CurrentStream
<1>5. sent' = sent /\ read' = read /\ answer' = answer /\ sent.octets \in Nat
  BY DEF past, Told
<1>6. f.id # highest \/ (BodyOf(f, highest) = 0 /\ ~Final(f, highest) /\ ~Stops(f, highest))
  BY DEF BodyOf, Final, Stops
<1>7. pc # "idle" => Follows(highest, Stage, sent.octets, f, Stage, sent.octets)
  <2>1. sent.octets = sent.octets + 0
    BY <1>5
  <2>2. ~(f.kind \in {"data", "headers", "reset"})
    OBVIOUS
  <2>3. BodyOf(f, highest) = 0 /\ ~Final(f, highest) /\ ~Stops(f, highest)
    BY <2>2 DEF BodyOf, Final, Stops
  <2> QED
    BY <1>4, <2>1, <2>3 DEF Follows
<1>8. f.kind # "headers"
  OBVIOUS
<1> QED
  BY <1>1, <1>2, <1>3, <1>5, <1>7, <1>8, SaidOn

\* The server says something of a stream.
LEMMA SaidOfStream ==
    ASSUME Inv, Inv', Told, streamOpen, NEW id \in Known, NEW f, NEW s, Says(id, f, s),
           s \in ServerStream, f.id = id, f.kind \in {"headers", "data", "reset"},
           sent'.octets \in Nat, pc = "idle" \/ id # highest => sent' = sent,
           srvStreams[id].stage \in {"done", "trailed"} => s.stage \in {"done", "trailed"},
           id = highest => Follows(id, srvStreams[id].stage, sent.octets, f, s.stage, sent'.octets)
    PROVE  Told'
<1>1. /\ wire' = Append(wire, f) /\ wire \in Seq(ToClient) /\ wire' \in Seq(ToClient)
      /\ srvStreams \in [Known -> ServerStream] /\ srvStreams' = [srvStreams EXCEPT ![id] = s]
  BY DEF Inv, Types, Says, Post
<1>2. f \in ToClient
  BY <1>1, Sayable
<1>3. Known' = Known /\ \A i : Settled(i) => Settled(i)'
  BY <1>1 DEF Settled, Known
<1>4. UNCHANGED <<pc, highest, streams, ended, read, answer>>
  BY DEF Says, conn, driver
<1>5. CASE id = highest
  <2>1. Stage = srvStreams[id].stage /\ Stage' = s.stage
    BY <1>1, <1>3, <1>4, <1>5 DEF Stage
  <2> QED
    BY <1>1, <1>2, <1>3, <1>4, <1>5, <2>1, SaidOn
<1>6. CASE id # highest
  <2>1. Stage' = Stage /\ sent' = sent
    BY <1>1, <1>3, <1>4, <1>6 DEF Stage
  <2>2. Follows(highest, Stage, sent.octets, f, Stage', sent'.octets)
    BY <1>6, <2>1 DEF Follows
  <2> QED
    BY <1>1, <1>2, <1>3, <1>4, <2>1, <2>2, SaidOn
<1> QED
  BY <1>5, <1>6

\* A step of the server's.
LEMMA ServerTold ==
    ASSUME Inv, Inv', Told, streamOpen, Server
    PROVE  Told'
<1>1. /\ Types /\ srvStreams \in [Known -> ServerStream] /\ Known \subseteq Ids /\ sent.octets \in Nat
      /\ Known \subseteq 1..highest /\ Introduced
  BY CurrentStream DEF Inv, Types, Told, Flow
<1>2. CASE ServerReads
  <2> DEFINE f == Head(toServer)
  <2>1. UNCHANGED <<wire, highest, sent, read, answer, ended, pc, streams>> /\ toServer # <<>>
    BY <1>2 DEF ServerReads, conn, driver
  <2>2. CASE ServerReadsHead(f)
    <3>1. f.id \notin Known
      <4>1. f = toServer[1] /\ 1 \in 1..Len(toServer) /\ f.kind = "head"
        BY <1>1, <2>1, <2>2 DEF Types, ServerReadsHead
      <4> HIDE DEF f
      <4> QED
        BY <1>1, <4>1 DEF Introduced
    <3>2. PICK s : /\ s.stage \in {"asked", "done"}
                   /\ srvStreams' = [i \in Known \cup {f.id} |-> IF i = f.id THEN s ELSE srvStreams[i]]
      BY <2>2 DEF ServerReadsHead
    <3> HIDE DEF f
    <3>3. Known' = Known \cup {f.id} /\ \A i \in Known : srvStreams'[i] = srvStreams[i]
      BY <3>1, <3>2 DEF Known
    <3>4. \A i : Settled(i) => Settled(i)'
      BY <3>3 DEF Settled
    <3>5. Stage' = Stage \/ (Stage = "asked" /\ Stage' = "done")
      BY <2>1, <3>1, <3>2, <3>3 DEF Stage
    <3>6. Known \subseteq Known'
      BY <3>3
    <3> QED
      BY <2>1, <3>4, <3>5, <3>6, NothingTold
  <2>3. ASSUME Known' = Known, \A i \in Known : srvStreams'[i].stage = srvStreams[i].stage
        PROVE  Told'
    <3>1. (\A i : Settled(i) => Settled(i)') /\ Stage' = Stage
      BY <2>1, <2>3 DEF Settled, Stage
    <3> QED
      BY <2>1, <2>3, <3>1, NothingTold
  <2>4. CASE ServerReadsData(f)
    <3>1. srvStreams' = [srvStreams EXCEPT ![f.id] =
                           [srvStreams[f.id] EXCEPT !.recv = @ - f.size, !.whole = f.end]]
      BY <2>4 DEF ServerReadsData
    <3> HIDE DEF f
    <3>2. Known' = Known /\ \A i \in Known : srvStreams'[i].stage = srvStreams[i].stage
      BY <1>1, <3>1 DEF Known, ServerStream
    <3> QED
      BY <2>3, <3>2
  <2>5. CASE ServerReadsGrant(f)
    <3>1. srvStreams' = srvStreams \/ srvStreams' = [srvStreams EXCEPT ![f.id].send = @ + f.size]
      BY <2>5 DEF ServerReadsGrant
    <3> HIDE DEF f
    <3>2. Known' = Known /\ \A i \in Known : srvStreams'[i].stage = srvStreams[i].stage
      BY <1>1, <3>1 DEF Known, ServerStream
    <3> QED
      BY <2>3, <3>2
  <2>6. CASE ServerReadsAck(f)
    <3>1. PICK d : srvStreams' = [i \in Known |-> [srvStreams[i] EXCEPT !.recv = @ + d]]
      BY <2>6 DEF ServerReadsAck
    <3>2. Known' = Known /\ \A i \in Known : srvStreams'[i].stage = srvStreams[i].stage
      BY <1>1, <3>1 DEF Known, ServerStream
    <3> QED
      BY <2>3, <3>2
  <2>7. CASE ServerReadsPong(f)
    <3>1. Known' = Known /\ \A i \in Known : srvStreams'[i].stage = srvStreams[i].stage
      BY <2>7 DEF Known, ServerReadsPong
    <3> QED
      BY <2>3, <3>1
  <2> QED
    BY <1>2, <2>2, <2>4, <2>5, <2>6, <2>7 DEF ServerReads
<1>3. CASE ServerBlunders \/ ServerGoesAway \/ ServerChatters
  <2>1. \E f : /\ Post(f) /\ f.kind \in {"bad", "settings", "ping", "goaway"} /\ f.id = OnConnection
    <3> DEFINE Aside(f) == Post(f) /\ f.kind \in {"bad", "settings", "ping", "goaway"}
                           /\ f.id = OnConnection
    <3>1. ASSUME ServerBlunders PROVE \E f : Aside(f)
      <4> DEFINE f == [kind |-> "bad", id |-> OnConnection]
      <4>1. Post(f) /\ f.kind = "bad" /\ f.id = OnConnection
        BY <3>1 DEF ServerBlunders
      <4> HIDE DEF f
      <4>2. Aside(f)
        BY <4>1
      <4> QED
        BY <4>2
    <3>2. ASSUME ServerGoesAway PROVE \E f : Aside(f)
      <4>1. PICK n : n = srvLast'
        OBVIOUS
      <4> DEFINE f == [kind |-> "goaway", id |-> OnConnection, last |-> n]
      <4>2. Post(f) /\ f.kind = "goaway" /\ f.id = OnConnection
        BY <3>2, <4>1 DEF ServerGoesAway
      <4> HIDE DEF f
      <4>3. Aside(f)
        BY <4>2
      <4> QED
        BY <4>3
    <3>3. ASSUME NEW v, Post([kind |-> "settings", id |-> OnConnection, values |-> v])
          PROVE  \E f : Aside(f)
      <4> DEFINE f == [kind |-> "settings", id |-> OnConnection, values |-> v]
      <4>1. Post(f) /\ f.kind = "settings" /\ f.id = OnConnection
        BY <3>3
      <4> HIDE DEF f
      <4>2. Aside(f)
        BY <4>1
      <4> QED
        BY <4>2
    <3>4. ASSUME Post([kind |-> "ping", id |-> OnConnection]) PROVE \E f : Aside(f)
      <4> DEFINE f == [kind |-> "ping", id |-> OnConnection]
      <4>1. Post(f) /\ f.kind = "ping" /\ f.id = OnConnection
        BY <3>4
      <4> HIDE DEF f
      <4>2. Aside(f)
        BY <4>1
      <4> QED
        BY <4>2
    <3> HIDE DEF Aside
    <3>5. \E f : Aside(f)
      BY <1>3, <3>1, <3>2, <3>3, <3>4 DEF ServerChatters
    <3> QED
      BY <3>5 DEF Aside
  <2>4. PICK f : /\ Post(f) /\ f.kind \in {"bad", "settings", "ping", "goaway"} /\ f.id = OnConnection
    BY <2>1
  <2>2. UNCHANGED <<pc, highest, streams, ended, past, srvStreams>>
    BY <1>3 DEF ServerBlunders, ServerGoesAway, ServerChatters, conn, driver
  <2>3. Known' = Known /\ \A i \in Known : srvStreams'[i].stage = srvStreams[i].stage
    BY <2>2 DEF Known
  <2> QED
    BY <2>2, <2>3, <2>4, SaidAside
<1>4. CASE ServerCloses
  <2>1. UNCHANGED <<wire, highest, sent, read, answer, ended, pc, streams, srvStreams>>
    BY <1>4 DEF ServerCloses, conn, driver, past
  <2>2. (\A i : Settled(i) => Settled(i)') /\ Stage' = Stage /\ Known \subseteq Known'
    BY <2>1 DEF Settled, Stage, Known
  <2> QED
    BY <2>1, <2>2, NothingTold
<1>5. ASSUME NEW id \in {OnConnection} \cup Ids, ServerGrants(id) PROVE Told'
  <2>1. PICK f : Post(f) /\ f.kind = "grant"
    BY <1>5 DEF ServerGrants
  <2>2. UNCHANGED <<pc, highest, streams, ended, past>>
        /\ (srvStreams' = srvStreams \/ srvStreams' = [srvStreams EXCEPT ![id].recv = srvWindow])
    BY <1>5 DEF ServerGrants, conn, driver
  <2>3. Known' = Known /\ \A i \in Known : srvStreams'[i].stage = srvStreams[i].stage
    BY <1>1, <2>2 DEF Known, ServerStream
  <2> QED
    BY <2>1, <2>2, <2>3, SaidAside
<1>6. ASSUME NEW id \in Ids, ServerInterim(id) PROVE Told'
  <2>1. PICK end : Says(id, [kind |-> "headers", id |-> id, status |-> "interim", end |-> end], srvStreams[id])
    BY <1>6 DEF ServerInterim
  <2>2. id \in Known /\ srvStreams[id].stage = "asked" /\ sent' = sent /\ srvStreams[id] \in ServerStream
    BY <1>1, <1>6 DEF ServerInterim, AtStage
  <2> DEFINE f == [kind |-> "headers", id |-> id, status |-> "interim", end |-> end]
  <2>3. f.id = id /\ f.kind = "headers" /\ ~Final(f, id)
    BY DEF Final
  <2> HIDE DEF f
  <2>4. Follows(id, srvStreams[id].stage, sent.octets, f, srvStreams[id].stage, sent'.octets)
    BY <2>2, <2>3 DEF Follows
  <2> QED
    BY <1>1, <2>1, <2>2, <2>3, <2>4, SaidOfStream DEF f
<1>7. ASSUME NEW id \in Ids, NEW end \in BOOLEAN, ServerAnswers(id, end) PROVE Told'
  <2> DEFINE f == [kind |-> "headers", id |-> id, status |-> "final", end |-> end]
             s == [srvStreams[id] EXCEPT !.stage = IF end THEN "done" ELSE "headed"]
  <2>1. Says(id, f, s) /\ id \in Known /\ srvStreams[id].stage = "asked" /\ sent' = sent
    BY <1>7 DEF ServerAnswers, AtStage
  <2>2. s \in ServerStream /\ s.stage = IF end THEN "done" ELSE "headed"
    BY <1>1, <2>1 DEF ServerStream
  <2>3. f.id = id /\ f.kind = "headers" /\ Final(f, id) /\ f.end = end
    BY DEF Final
  <2> HIDE DEF f, s
  <2>4. Follows(id, srvStreams[id].stage, sent.octets, f, s.stage, sent'.octets)
    BY <2>1, <2>2, <2>3 DEF Follows
  <2> QED
    BY <1>1, <2>1, <2>2, <2>3, <2>4, SaidOfStream
<1>8. ASSUME NEW id \in Ids, NEW end \in BOOLEAN, ServerEnds(id, end) PROVE Told'
  <2> DEFINE f == [kind |-> "headers", id |-> id, status |-> "none", end |-> end]
             s == [srvStreams[id] EXCEPT !.stage = IF end THEN "done" ELSE "trailed"]
  <2>1. Says(id, f, s) /\ id \in Known /\ srvStreams[id].stage = "headed" /\ sent' = sent
    BY <1>8 DEF ServerEnds, AtStage
  <2>2. s \in ServerStream /\ s.stage = IF end THEN "done" ELSE "trailed"
    BY <1>1, <2>1 DEF ServerStream
  <2>3. f.id = id /\ f.kind = "headers" /\ Ends(f, id) /\ f.end = end /\ BodyOf(f, id) = 0
    BY DEF Ends, BodyOf
  <2> HIDE DEF f, s
  <2>4. sent'.octets = sent.octets + BodyOf(f, id)
    BY <1>1, <2>1, <2>3
  <2>5. Follows(id, srvStreams[id].stage, sent.octets, f, s.stage, sent'.octets)
    BY <2>1, <2>2, <2>3, <2>4 DEF Follows
  <2> QED
    BY <1>1, <2>1, <2>2, <2>3, <2>5, SaidOfStream
<1>9. ASSUME NEW id \in Ids, ServerResets(id) PROVE Told'
  <2> DEFINE f == [kind |-> "reset", id |-> id]
             s == [srvStreams[id] EXCEPT !.stage = "done", !.whole = TRUE]
  <2>1. Says(id, f, s) /\ id \in Known /\ sent' = sent
    BY <1>9 DEF ServerResets
  <2>2. s \in ServerStream /\ s.stage = "done" /\ f.id = id /\ f.kind = "reset"
    BY <1>1, <2>1 DEF ServerStream
  <2> HIDE DEF f, s
  <2>3. Follows(id, srvStreams[id].stage, sent.octets, f, s.stage, sent'.octets)
    BY <2>1, <2>2 DEF Follows
  <2> QED
    BY <1>1, <2>1, <2>2, <2>3, SaidOfStream
<1>10. ASSUME NEW id \in Ids, NEW size \in 0..1, NEW pad \in 0..1, NEW end \in BOOLEAN,
              ServerSends(id, size, pad, end)
       PROVE  Told'
  <2> DEFINE f == [kind |-> "data", id |-> id, size |-> size, pad |-> pad, end |-> end]
             s == [srvStreams[id] EXCEPT !.send = @ - (size + pad), !.stage = IF end THEN "done" ELSE "headed"]
  <2>1. Says(id, f, s) /\ id \in Known /\ srvStreams[id].stage = "headed"
        /\ sent' = [frames |-> sent.frames + 1, octets |-> sent.octets + size]
    BY <1>10 DEF ServerSends, AtStage
  <2>2. s \in ServerStream /\ s.stage = IF end THEN "done" ELSE "headed"
    <3>1. srvStreams' \in [Known' -> ServerStream] /\ srvStreams' = [srvStreams EXCEPT ![id] = s]
      BY <2>1 DEF Inv, Types, Says
    <3>2. srvStreams[id] \in ServerStream
      BY <1>1, <2>1
    <3>3. Known' = Known /\ srvStreams'[id] = s
      BY <1>1, <2>1, <3>1 DEF Known
    <3>4. s \in ServerStream
      BY <2>1, <3>1, <3>3
    <3> QED
      BY <3>2, <3>4 DEF ServerStream
  <2>3. id = highest /\ pc # "idle"
    <3>1. id \in 1..highest /\ ~Settled(id)
      BY <1>1, <2>1 DEF Settled
    <3>2. \A i \in 1..highest : i < highest \/ pc = "idle" => Settled(i)
      BY DEF Told
    <3>3. highest \in Nat
      BY <1>1, H2Assumption DEF Types
    <3> QED
      BY <3>1, <3>2, <3>3
  <2>4. f.id = id /\ f.kind = "data" /\ BodyOf(f, id) = size /\ (end => Ends(f, id)) /\ (~end => ~Stops(f, id))
        /\ f.end = end
    BY DEF BodyOf, Ends, Stops
  <2>5. sent'.octets = sent.octets + BodyOf(f, id) /\ sent'.octets \in Nat
    BY <1>1, <2>1, <2>4
  <2> HIDE DEF f, s
  <2>6. Follows(id, srvStreams[id].stage, sent.octets, f, s.stage, sent'.octets)
    BY <2>1, <2>2, <2>4, <2>5 DEF Follows
  <2> QED
    BY <1>1, <2>1, <2>2, <2>3, <2>4, <2>5, <2>6, SaidOfStream
<1>11. ASSUME NEW id \in Ids, ServerStrays(id) PROVE Told'
  <2>1. id \in Known /\ srvStreams[id].stage # "headed" /\ sent' = sent /\ srvStreams[id] \in ServerStream
    BY <1>1, <1>11 DEF ServerStrays
  <2>2. srvStreams[id].stage \in {"asked", "trailed", "done"}
    BY <2>1 DEF ServerStream
  <2>3. ASSUME Says(id, [kind |-> "data", id |-> id, size |-> 1, pad |-> 0, end |-> FALSE],
                    [srvStreams[id] EXCEPT !.send = @ - 1])
        PROVE  Told'
    <3> DEFINE f == [kind |-> "data", id |-> id, size |-> 1, pad |-> 0, end |-> FALSE]
               s == [srvStreams[id] EXCEPT !.send = @ - 1]
    <3>1. Says(id, f, s) /\ f.id = id /\ f.kind = "data" /\ ~Final(f, id)
      BY <2>3 DEF Final
    <3>2. s \in ServerStream /\ s.stage = srvStreams[id].stage
      <4>1. srvStreams' \in [Known' -> ServerStream] /\ srvStreams' = [srvStreams EXCEPT ![id] = s]
        BY <3>1 DEF Inv, Types, Says
      <4>2. Known' = Known /\ srvStreams'[id] = s
        BY <1>1, <2>1, <4>1 DEF Known
      <4>3. s \in ServerStream
        BY <2>1, <4>1, <4>2
      <4> QED
        BY <2>1, <4>3 DEF ServerStream
    <3> HIDE DEF f, s
    <3>3. Follows(id, srvStreams[id].stage, sent.octets, f, s.stage, sent'.octets)
      BY <2>1, <2>2, <3>1, <3>2 DEF Follows
    <3> QED
      BY <1>1, <2>1, <3>1, <3>2, <3>3, SaidOfStream
  <2>4. ASSUME srvStreams[id].stage = "done",
               Says(id, [kind |-> "headers", id |-> id, status |-> "final", end |-> TRUE], srvStreams[id])
        PROVE  Told'
    <3> DEFINE f == [kind |-> "headers", id |-> id, status |-> "final", end |-> TRUE]
    <3>1. Says(id, f, srvStreams[id]) /\ f.id = id /\ f.kind = "headers" /\ f.end
      BY <2>4
    <3> HIDE DEF f
    <3>2. Follows(id, srvStreams[id].stage, sent.octets, f, srvStreams[id].stage, sent'.octets)
      BY <2>1, <2>4, <3>1 DEF Follows
    <3> QED
      BY <1>1, <2>1, <3>1, <3>2, SaidOfStream
  <2> QED
    BY <1>11, <2>3, <2>4 DEF ServerStrays
<1> QED
  BY <1>2, <1>3, <1>4, <1>5, <1>6, <1>7, <1>8, <1>9, <1>10, <1>11 DEF Server
\* The client reads a frame that says nothing of the current stream.
LEMMA PassedOver ==
    ASSUME Inv, Told, streamOpen, Awaits, NEW f, f = Head(wire), wire # <<>>, wire' = Tail(wire),
           UNCHANGED <<pc, highest, ended, answer, read, srvStreams, sent>>,
           f.id # highest \/ f.kind \in {"settings", "grant", "ping", "goaway"},
           pc = "sending" /\ streams'[highest].state = "OPEN" => streams[highest].state = "OPEN"
    PROVE  Told'
<1>1. ~Stops(f, highest) /\ ~Shuts(f, highest) /\ BodyOf(f, highest) = 0
  BY DEF Stops, Shuts, BodyOf
<1>2. read \in Nat /\ pc \in {"sending", "head", "body"} /\ (pc = "body" => ~ended)
  BY DEF Told, Awaits
<1> QED
  BY <1>1, <1>2, ReadOn

StreamShape ==
    [state : {"OPEN", "HALF_CLOSED_LOCAL", "HALF_CLOSED_REMOTE"}, send : Int,
     allowed : Int, pending : Int, blocks : Int]

\* What the end of one stream leaves of it, and of another.
LEMMA OthersLeft ==
    ASSUME Types, NEW id, NEW s \in StreamShape, NEW i \in Live
    PROVE  /\ i # id => ClosedRemote(id, s)[i] = streams[i]
           /\ i = id /\ s.state # "HALF_CLOSED_LOCAL" => ClosedRemote(id, s)[i].state # "OPEN"
<1>1. ASSUME i # id, s.state = "HALF_CLOSED_LOCAL" PROVE ClosedRemote(id, s)[i] = streams[i]
  BY <1>1 DEF ClosedRemote, Restrict, Live
<1>2. ASSUME i # id, s.state # "HALF_CLOSED_LOCAL" PROVE ClosedRemote(id, s)[i] = streams[i]
  BY <1>2 DEF ClosedRemote, Live
<1>3. ASSUME i = id, s.state # "HALF_CLOSED_LOCAL" PROVE ClosedRemote(id, s)[i].state # "OPEN"
  <2>1. ClosedRemote(id, s)[i] = [s EXCEPT !.state = "HALF_CLOSED_REMOTE"]
    BY <1>3 DEF ClosedRemote, Live
  <2> QED
    BY <2>1 DEF StreamShape
<1> QED
  BY <1>1, <1>2, <1>3
LEMMA ClientTold ==
    ASSUME Inv, Inv', Told, streamOpen, streamOpen', Client \/ Program
    PROVE  Told'
<1>1. /\ Types /\ pc \in {"idle", "sending", "head", "body"} /\ Known \subseteq 1..highest
      /\ pc \in {"sending", "head"} \/ (pc = "body" /\ ~ended) => highest \in Live /\ highest # OnConnection
      /\ pc = "sending" => streams[highest].state # "HALF_CLOSED_LOCAL"
      /\ streams \in [Live -> ClientStream] /\ wire \in Seq(ToClient)
  BY CurrentStream DEF Inv, Types
<1>2. ~Drop
  BY DEF Drop
<1>3. wire # <<>> => Head(wire) \in ToClient
  BY <1>1, HeadTailProperties
<1>4. CASE WritePiece \/ EndUpload
  <2>1. /\ UNCHANGED <<wire, highest, sent, read, answer, ended, srvStreams>>
        /\ pc = "sending" /\ streams[highest].state = "OPEN" /\ pc' \in {"sending", "head"}
    BY <1>4 DEF WritePiece, EndUpload, server, past
  <2>2. (\A i : Settled(i) => Settled(i)') /\ Stage' = Stage /\ Known \subseteq Known'
    BY <2>1 DEF Settled, Stage, Known
  <2> QED
    BY <2>1, <2>2, NothingTold
<1>5. CASE PingArrives
  <2>1. /\ Awaits /\ wire # <<>> /\ wire' = Tail(wire) /\ Head(wire).kind = "ping"
        /\ UNCHANGED <<pc, highest, ended, answer, read, srvStreams, sent, streams>>
    BY <1>5 DEF PingArrives, Arrives, conn, driver, server, past
  <2> QED
    BY <2>1, PassedOver
<1>6. CASE GoawayArrives
  <2>1. /\ Awaits /\ wire # <<>> /\ wire' = Tail(wire) /\ Head(wire).kind = "goaway"
        /\ UNCHANGED <<pc, highest, ended, answer, read, srvStreams, sent, streams>>
    BY <1>2, <1>6 DEF GoawayArrives, Arrives, driver, server, past, Fail
  <2> QED
    BY <2>1, PassedOver
<1>7. CASE SettingsArrive
  <2>1. /\ Awaits /\ wire # <<>> /\ wire' = Tail(wire) /\ Head(wire).kind = "settings"
        /\ UNCHANGED <<pc, highest, ended, answer, read, srvStreams, sent>>
        /\ streams' = Resized(peer'.window - peer.window)
    BY <1>7 DEF SettingsArrive, Arrives, driver, server, past
  <2>2. pc = "sending" => streams'[highest].state = streams[highest].state
    <3>1. PICK d : d = peer'.window - peer.window
      OBVIOUS
    <3>2. streams' = Resized(d)
      BY <2>1, <3>1
    <3> QED
      BY <1>1, <3>2 DEF Resized, Live, ClientStream
  <2> QED
    BY <2>1, <2>2, PassedOver
<1>8. CASE GrantArrives
  <2> DEFINE f == Head(wire)
  <2>1. /\ Awaits /\ wire # <<>> /\ wire' = Tail(wire) /\ f.kind = "grant"
        /\ UNCHANGED <<pc, highest, ended, answer, read, srvStreams, sent>>
        /\ \/ streams' = streams
           \/ streams' = [streams EXCEPT ![f.id].send = @ + f.size]
    BY <1>8 DEF GrantArrives, Arrives, driver, server, past
  <2> HIDE DEF f
  <2>2. ASSUME pc = "sending" PROVE streams'[highest].state = streams[highest].state
    <3>1. highest \in DOMAIN streams /\ streams[highest] \in ClientStream
      BY <1>1, <2>2 DEF Live
    <3>2. CASE f.id = highest
      BY <2>1, <3>1, <3>2 DEF ClientStream
    <3>3. CASE f.id # highest
      BY <2>1, <3>1, <3>3
    <3> QED
      BY <3>2, <3>3
  <2> QED
    BY <2>1, <2>2, PassedOver DEF f
<1>9. CASE ResetArrives
  <2> DEFINE f == Head(wire)
  <2>1. /\ Awaits /\ wire # <<>> /\ wire' = Tail(wire) /\ f.id # highest
        /\ UNCHANGED <<pc, highest, ended, answer, read, srvStreams, sent>>
        /\ streams' = Restrict(streams, DOMAIN streams \ {f.id})
    BY <1>2, <1>9 DEF ResetArrives, Arrives, driver, server, past, Fail
  <2> HIDE DEF f
  <2>2. pc = "sending" => streams'[highest].state = streams[highest].state
    BY <1>1, <2>1 DEF Live, Restrict
  <2> QED
    BY <2>1, <2>2, PassedOver DEF f
<1>10. CASE DataArrives
  <2> DEFINE f == Head(wire)
             s == [streams[f.id] EXCEPT !.allowed = @ - Charge(f)]
             taken == IF pc = "body" /\ Mine(f) THEN f.size ELSE 0
  <2>1. /\ Awaits /\ wire # <<>> /\ wire' = Tail(wire) /\ f.kind = "data" /\ ~(pc = "head" /\ Mine(f))
        /\ UNCHANGED <<pc, highest, answer, srvStreams, sent>>
        /\ ended' = (ended \/ (pc = "body" /\ Mine(f) /\ f.end))
        /\ read' = read + taken
        /\ f \in ToClient
    BY <1>3, <1>10 DEF DataArrives, Arrives, server
  <2>2. ASSUME pc = "sending", f.id = highest, f.end PROVE streams'[highest].state # "OPEN"
    <3>1. streams' = ClosedRemote(f.id, s) /\ f.size \in Nat /\ f.pad \in Nat
      BY <1>1, <1>10, <2>1, <2>2 DEF DataArrives, Held, Live, ToClient
    <3>2. streams[highest] \in ClientStream /\ f.size + f.pad \in Int
      BY <1>1, <2>2, <3>1
    <3>3. s \in StreamShape
          /\ s.state = streams[highest].state
      BY <2>2, <3>2 DEF ClientStream, StreamShape, Charge
    <3> HIDE DEF f, s
    <3> QED
      BY <1>1, <2>2, <3>1, <3>3, OthersLeft
  <2>3. ASSUME pc = "sending", ~(f.id = highest /\ f.end)
        PROVE  streams'[highest].state = streams[highest].state
    <3>1. CASE ~Held(f)
      BY <1>10, <3>1 DEF DataArrives
    <3>2. CASE Held(f) /\ f.end
      <4>1. streams' = ClosedRemote(f.id, s) /\ f.size \in Nat /\ f.pad \in Nat /\ f.id \in Live
        BY <1>10, <2>1, <3>2 DEF DataArrives, Held, Live, ToClient
      <4>2. streams[f.id] \in ClientStream /\ f.size + f.pad \in Int
        BY <1>1, <4>1
      <4>3. s \in StreamShape
        BY <4>2 DEF ClientStream, StreamShape, Charge
      <4> HIDE DEF f, s
      <4> QED
        BY <1>1, <2>3, <3>2, <4>1, <4>3, OthersLeft
    <3>3. CASE Held(f) /\ ~f.end
      <4>1. streams' = [streams EXCEPT ![f.id] = s]
        BY <1>10, <2>3, <3>3 DEF DataArrives
      <4>2. f.id \in Live /\ streams[f.id] \in ClientStream
        BY <1>1, <3>3 DEF Held, Live
      <4>3. s.state = streams[f.id].state
        BY <4>2 DEF ClientStream
      <4> HIDE DEF f, s
      <4> QED
        BY <1>1, <2>3, <4>1, <4>2, <4>3 DEF Live
    <3> QED
      BY <3>1, <3>2, <3>3
  <2>4. f.end \in BOOLEAN /\ f.size \in Nat /\ read \in Nat
    BY <2>1 DEF ToClient, Told
  <2>5. CASE pc = "sending"
    <3>1. read' = read
      BY <2>1, <2>4, <2>5
    <3>2. streams'[highest].state = "OPEN" => streams[highest].state = "OPEN" /\ ~Shuts(f, highest)
      BY <2>1, <2>2, <2>3, <2>5 DEF Shuts
    <3> HIDE DEF f
    <3> QED
      BY <2>1, <2>5, <3>1, <3>2, ReadOn DEF f
  <2>6. CASE pc = "head"
    <3>1. read' = read /\ f.id # highest
      BY <1>1, <2>1, <2>4, <2>6 DEF Mine, Held, Live
    <3>2. ~Shuts(f, highest)
      BY <3>1 DEF Shuts
    <3> HIDE DEF f
    <3> QED
      BY <2>1, <2>6, <3>1, <3>2, ReadOn DEF f
  <2>7. CASE pc = "body"
    <3>1. ~ended /\ highest \in Live
      BY <1>1, <2>1, <2>7 DEF Awaits
    <3>2. Mine(f) <=> f.id = highest
      BY <3>1 DEF Mine, Held, Live
    <3>3. read' = read + BodyOf(f, highest)
      BY <2>1, <2>7, <3>2 DEF BodyOf
    <3>4. ended' <=> f.id = highest /\ f.end
      BY <2>1, <2>7, <3>1, <3>2
    <3>5. (ended' => Ends(f, highest)) /\ (~ended' => ~Stops(f, highest))
      BY <2>1, <3>4 DEF Ends, Stops
    <3> HIDE DEF f
    <3> QED
      BY <2>1, <2>7, <3>1, <3>3, <3>5, ReadOn DEF f
  <2> QED
    BY <2>1, <2>5, <2>6, <2>7 DEF Awaits
<1>11. ASSUME HeadArrives \/ SkipInformational \/ TrailersArrive
       PROVE  Told'
  <2> DEFINE f == Head(wire)
  <2>1. /\ wire # <<>> /\ wire' = Tail(wire) /\ f.kind = "headers" /\ f.id = highest
        /\ UNCHANGED <<highest, srvStreams, sent, read>> /\ (pc = "body" => ~ended)
    BY <1>11 DEF HeadArrives, SkipInformational, TrailersArrive, Arrives, Awaits, Mine, TakeBlock, server
  <2>2. CASE HeadArrives
    <3>1. pc = "head" /\ pc' = "body" /\ answer' = highest /\ ended' = f.end /\ Final(f, highest)
      BY <2>1, <2>2 DEF HeadArrives, Final
    <3> HIDE DEF f
    <3> QED
      BY <2>1, <3>1, ReadOn DEF f
  <2>3. CASE SkipInformational
    <3>1. pc' = pc /\ pc = "head" /\ ~Shuts(f, highest)
      BY <2>1, <2>3 DEF SkipInformational, Shuts
    <3> HIDE DEF f
    <3> QED
      BY <2>1, <3>1, ReadOn DEF f
  <2>4. CASE TrailersArrive
    <3>1. /\ pc' = "body" /\ pc = "body" /\ answer' = answer /\ ended' = TRUE
          /\ Ends(f, highest) /\ BodyOf(f, highest) = 0 /\ read \in Nat
      BY <2>1, <2>4 DEF TrailersArrive, Ends, BodyOf, Told
    <3> HIDE DEF f
    <3> QED
      BY <2>1, <3>1, ReadOn DEF f
  <2> QED
    BY <1>11, <2>2, <2>3, <2>4
<1>12. CASE HeadersPassedOver
  <2> DEFINE f == Head(wire)
             s == [streams[f.id] EXCEPT !.blocks = @ + 1]
  <2>1. /\ Awaits /\ wire # <<>> /\ wire' = Tail(wire) /\ f.kind = "headers"
        /\ pc = "sending" \/ ~Mine(f)
        /\ UNCHANGED <<pc, highest, ended, answer, read, srvStreams, sent>>
        /\ f \in ToClient
    BY <1>3, <1>12 DEF HeadersPassedOver, Arrives, TakeBlock, server
  <2>2. /\ ~Held(f) => streams' = streams
        /\ Held(f) => streams' = IF f.end THEN ClosedRemote(f.id, s) ELSE [streams EXCEPT ![f.id] = s]
    BY <1>12 DEF HeadersPassedOver, TakeBlock, conn
  <2>3. ASSUME Held(f)
        PROVE  /\ f.id \in Live /\ s.state = streams[f.id].state
               /\ s \in StreamShape
    <3>1. f.id \in Live /\ streams[f.id] \in ClientStream
      BY <1>1, <2>3 DEF Held, Live
    <3> QED
      BY <3>1 DEF ClientStream, StreamShape
  <2> HIDE DEF s
  <2>4. ASSUME pc = "sending", f.id = highest, f.end PROVE streams'[highest].state # "OPEN"
    <3>1. Held(f)
      BY <1>1, <2>4 DEF Held, Live
    <3> HIDE DEF f
    <3>2. streams' = ClosedRemote(f.id, s) /\ s.state # "HALF_CLOSED_LOCAL"
      BY <1>1, <2>2, <2>3, <2>4, <3>1
    <3> QED
      BY <1>1, <2>3, <2>4, <3>1, <3>2, OthersLeft
  <2>5. ASSUME pc = "sending", ~(f.id = highest /\ f.end)
        PROVE  streams'[highest].state = streams[highest].state
    <3> HIDE DEF f
    <3>1. CASE ~Held(f)
      BY <2>2, <3>1
    <3>2. CASE Held(f) /\ f.end
      BY <1>1, <2>2, <2>3, <2>5, <3>2, OthersLeft
    <3>3. CASE Held(f) /\ ~f.end
      BY <1>1, <2>2, <2>3, <2>5, <3>3 DEF Live
    <3> QED
      BY <3>1, <3>2, <3>3
  <2>6. CASE f.id # highest
    BY <2>1, <2>5, <2>6, PassedOver
  <2>7. CASE f.id = highest
    <3>1. pc = "sending" /\ read' = read
      BY <1>1, <2>1, <2>7 DEF Awaits, Mine, Held, Live
    <3>2. streams'[highest].state = "OPEN" => streams[highest].state = "OPEN" /\ ~Shuts(f, highest)
      BY <2>1, <2>4, <2>5, <3>1 DEF Shuts
    <3> HIDE DEF f
    <3> QED
      BY <2>1, <3>1, <3>2, ReadOn DEF f
  <2> QED
    BY <2>6, <2>7
<1>13. CASE Finish
  <2>1. /\ pc = "body" /\ ended /\ pc' = "idle" /\ ended' = FALSE /\ read' = 0 /\ sent'.octets = 0
        /\ UNCHANGED <<highest, wire, srvStreams>>
    BY <1>13 DEF Finish, server, NoBody
  <2>2. Settled(highest)
    BY <2>1 DEF Told, Stage, Settled
  <2>3. Known' = Known /\ \A i : Settled(i) => Settled(i)'
    BY <2>1 DEF Known, Settled
  <2>4. highest \in Nat
    BY <1>1 DEF Types
  <2>5. \A i \in 1..highest : Settled(i)'
    BY <2>1, <2>2, <2>3, <2>4 DEF Told
  <2> QED
    BY <2>1, <2>3, <2>5 DEF Told
<1>14. CASE Send
  <2>1. /\ pc = "idle" /\ pc' \in {"sending", "head"} /\ highest' = highest + 1
        /\ UNCHANGED <<wire, srvStreams, sent, read>>
    BY <1>14 DEF Send, server, past
  <2>2. highest \in Nat /\ highest + 1 \notin Known /\ Known' = Known
        /\ \A i : Settled(i) => Settled(i)'
    BY <1>1, <2>1 DEF Types, Known, Settled
  <2>3. \A i \in 1..highest' : i < highest' => Settled(i)'
    BY <2>1, <2>2 DEF Told
  <2>4. /\ \A p \in 1..Len(wire) : wire[p].kind = "headers" => wire[p].id \in Known
        /\ sent.octets = 0 /\ read = 0
    BY <2>1 DEF Told
  <2>5. Stage' = "asked"
    BY <2>1, <2>2 DEF Stage
  <2>6. Unanswered(wire, highest + 1, "asked", 0)
    BY <2>2, <2>4 DEF Unanswered, Final
  <2>7. Coming(wire', highest', Stage', sent'.octets)
    BY <2>1, <2>4, <2>5, <2>6 DEF Coming
  <2> QED
    BY <2>1, <2>2, <2>3, <2>4, <2>7 DEF Told
<1>15. Drop \/ WritePiece \/ EndUpload \/ PingArrives \/ GoawayArrives \/ SettingsArrive
         \/ GrantArrives \/ ResetArrives \/ DataArrives \/ HeadArrives \/ SkipInformational
         \/ TrailersArrive \/ HeadersPassedOver \/ Finish \/ Send
  BY DEF Client, Program, UploadRefused, FrameRefused, BodyBeforeHead, HeadersUnusable, TimesOut,
         PeerGone, Discard, NoRoomForStream, Abandon, Fail
<1> QED
  BY <1>2, <1>4, <1>5, <1>6, <1>7, <1>8, <1>9, <1>10, <1>11, <1>12, <1>13, <1>14, <1>15

\* While the connection is open.
Heeded == streamOpen => Told

LEMMA HeededNext == Inv /\ Heeded /\ [Next]_vars => Heeded'
<1> SUFFICES ASSUME Inv, Heeded, [Next]_vars, streamOpen' PROVE Told'
  BY DEF Heeded
<1>1. Inv'
  BY InvNext
<1>2. CASE UNCHANGED vars
  <2>1. UNCHANGED <<wire, highest, sent, read, answer, ended, pc, streams, srvStreams, streamOpen>>
    BY <1>2 DEF vars, conn, driver, server, past
  <2>2. (\A i : Settled(i) => Settled(i)') /\ Stage' = Stage /\ Known \subseteq Known'
    BY <2>1 DEF Settled, Stage, Known
  <2> QED
    BY <2>1, <2>2, NothingTold DEF Heeded
<1>3. CASE Next
  <2>1. streamOpen
    BY <1>3, OnlyOpen
  <2>2. CASE Client \/ Program
    BY <1>1, <2>1, <2>2, ClientTold DEF Heeded
  <2>3. CASE Server
    BY <1>1, <2>1, <2>3, ServerTold DEF Heeded
  <2> QED
    BY <1>3, <2>2, <2>3 DEF Next
<1> QED
  BY <1>2, <1>3

\* The driver takes a body for over when a frame of its stream ends it or trailers
\* come "whatever the flags happen to say" (read_chunk, _finish): for any number of
\* streams and of frames in flight, a response handed over as whole is the answer to
\* the current request and has every octet the server sent on its stream and none
\* of another, and the server has ended the body.
THEOREM ResponsesWhole == Spec => WholeIsWhole
<1>1. Init => Heeded
  <2> SUFFICES ASSUME Init PROVE Told
    BY DEF Heeded
  <2>1. /\ highest = 0 /\ wire = <<>> /\ sent.octets = 0 /\ read = 0 /\ pc = "idle"
    BY DEF Init, NoBody
  <2> QED
    BY <2>1 DEF Told
<1>2. Inv /\ Heeded /\ [Next]_vars =>
        [pc = "body" /\ pc' = "idle" =>
           /\ answer = highest
           /\ srvStreams[highest].stage \in {"done", "trailed"}
           /\ read = sent.octets]_vars
  <2> SUFFICES ASSUME Inv, Heeded, Next, pc = "body", pc' = "idle"
               PROVE  /\ answer = highest
                      /\ srvStreams[highest].stage \in {"done", "trailed"}
                      /\ read = sent.octets
    OBVIOUS
  <2>1. ended
    BY DEF Next, Client, Program, Server, WritePiece, EndUpload, UploadRefused, FrameRefused,
           DataArrives, BodyBeforeHead, HeadArrives, SkipInformational, TrailersArrive,
           HeadersUnusable, HeadersPassedOver, SettingsArrive, GrantArrives, PingArrives,
           ResetArrives, GoawayArrives, TimesOut, PeerGone, Finish, Send, Discard,
           NoRoomForStream, Abandon, Fail, Drop, ServerReads, ServerBlunders, ServerChatters,
           ServerGoesAway, ServerCloses, ServerGrants, ServerInterim, ServerResets, ServerStrays,
           ServerAnswers, ServerEnds, ServerSends, Says, driver
  <2>2. Told
    BY DEF Inv, Heeded
  <2> QED
    BY <2>1, <2>2 DEF Told, Stage
<1> QED
  BY <1>1, <1>2, HeededNext, Invariance, PTL DEF Spec, WholeIsWhole

===============================================================================
