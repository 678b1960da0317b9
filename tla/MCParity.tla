------------------------------ MODULE MCParity ------------------------------
(* Three cases: a plain one, one answered "again" first, and one about the  *)
(* answer.  httpx2 behaves; mojo.httpx differs from it in one of many ways. *)
EXTENDS Parity

MCCases ==
    <<[name |-> "get", kind |-> "request", replies |-> <<"final">>],
      [name |-> "hop", kind |-> "request", replies |-> <<"again", "final">>],
      [name |-> "read", kind |-> "response", replies |-> <<"final">>]>>

MCPlain(v) == [kind |-> "plain", text |-> v]
MCAgent(c) == <<"user-agent", [kind |-> "plain", text |-> c]>>
MCType(t, n) == <<"content-type", [kind |-> "boundary", token |-> t, length |-> n]>>
MCAuth(nonce, sum) == <<"authorization", [kind |-> "digest", cnonce |-> nonce, response |-> sum]>>
MCHost(v) == <<"host", MCPlain(v)>>
MCParts(t, v) == [kind |-> "parts", token |-> t, text |-> v]
MCReq(c, line, headers, body) == [case |-> c, line |-> line, headers |-> headers, body |-> body]

MCTheirs(c) ==
    MCReq(c, 1, <<MCHost(1), MCAgent("httpx2"), MCType("t1", 8), MCAuth("n1", 5)>>, MCParts("t1", 1))

(* What mojo.httpx may send instead of MCTheirs(c). *)
MCOurs(c) ==
    {MCReq(c, l, h, b) :
        l \in {1, 2},
        h \in {<<MCHost(1), MCAgent("mojo"), MCType("t2", 8), MCAuth("n2", 6)>>,
               <<MCAgent("mojo"), MCHost(1), MCType("t2", 8), MCAuth("n2", 6)>>,
               <<MCHost(1), MCHost(1), MCAgent("mojo"), MCType("t2", 8), MCAuth("n1", 5)>>,
               <<MCAgent("mojo"), MCType("t2", 8), MCAuth("n2", 6)>>,
               <<MCType("t2", 9), MCHost(1), MCAgent("mojo"), MCAuth("n2", 6)>>,
               <<MCType("t2", 8), MCHost(2), MCAgent("mojo"), MCAuth("n2", 6)>>,
               <<MCType("t2", 8), MCAuth(Missing, 5), MCHost(1), MCAgent("mojo")>>,
               <<MCType("t2", 8), MCAuth("n2", 6), MCHost(1), MCAgent("mojo"), <<"te", MCPlain(0)>>>>},
        b \in {MCParts("t2", 1), MCParts("t3", 1), MCParts("t2", 2), MCPlain(1)}}

MCSame(c) == MCReq(c, 1, <<MCAgent("mojo"), MCHost(1), MCType("t2", 8), MCAuth("n2", 6)>>,
                   MCParts("t2", 1))

MCTheirSends == [get |-> <<MCTheirs("get")>>, hop |-> <<MCTheirs("hop"), MCTheirs("hop")>>,
                 read |-> <<MCTheirs("read")>>]
MCSends ==
    {[httpx2 |-> MCTheirSends, mojo |-> m] : m \in
        {[get |-> <<r>>, hop |-> <<MCSame("hop"), MCSame("hop")>>, read |-> <<MCTheirs("read")>>] :
            r \in MCOurs("get") \cup {MCSame("nobody")}}
        \cup {[get |-> <<MCTheirs("get")>>, hop |-> <<MCTheirs("hop"), r>>, read |-> <<MCTheirs("read")>>] :
            r \in MCOurs("hop") \cup {MCSame("get")}}
        \cup {[get |-> <<>>, hop |-> <<MCSame("hop")>>, read |-> <<MCSame("read"), MCSame("read")>>],
              [get |-> <<MCSame("get")>>, hop |-> <<MCSame("hop")>>, read |-> <<MCSame("read")>>],
              [get |-> <<>>, hop |-> <<MCSame("hop"), MCSame("hop")>>, read |-> <<MCSame("read")>>]}}

MCReads == [httpx2 : {[read |-> 1]}, mojo : {[read |-> 1], [read |-> 2], [read |-> Missing]}]
MCActs == [sends : MCSends, reads : MCReads]
=============================================================================
