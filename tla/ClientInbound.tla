--------------------------- MODULE ClientInbound ----------------------------
(***************************************************************************)
(* The inbounds for local clients: SOCKS5, HTTP and the mixed port that    *)
(* tells them apart by their first byte. One connection: the client sends  *)
(* symbols as it likes, pipelined or not; the SOCKS5 handshake reads       *)
(* exactly what it needs, the HTTP one reads ahead and hands on the rest.  *)
(* And one SOCKS5 UDP association: datagrams of the client, the addresses  *)
(* it sends from, and the answers of the router's sessions.                *)
(***************************************************************************)
EXTENDS Naturals, Sequences, SequencesExt, FiniteSets

CONSTANTS CiPorts,   \* listeners: "socks5", "http", "mix"
          CiUsers,   \* is a password configured: a set of BOOLEANs
          CiJobs,    \* what a client sends, symbol by symbol
          CiFroms,   \* addresses a datagram may come from: [ip, port]
          CiTargets, \* remote addresses
          CiMaxUdp   \* bound: datagrams and answers each

VARIABLES
    ciPort, ciAuth, ciJob,
    ciWire,   \* symbols on the way
    ciPc,     \* "new", "greet", "auth", "request", "head", "relay", "assoc", "dead"
    ciBuf,    \* what handle_client of HTTP has read; then the prefix of the stream
    ciGot,    \* what the router read from the stream
    ciAddr,   \* Socks5InboundPacket::client_udp_addr
    ciUdp,    \* sessions of the router: the datagrams as received, [from, target]
    ciAns     \* answers sent: [to, header, of]

ciVars == <<ciPort, ciAuth, ciJob, ciWire, ciPc, ciBuf, ciGot, ciAddr, ciUdp, ciAns>>

CiClient == [ip |-> "client", port |-> 0]
CiNoAddr == [ip |-> "none", port |-> 0]

CiInit ==
    /\ ciPort \in CiPorts /\ ciAuth \in CiUsers /\ ciJob \in CiJobs
    /\ ciWire = ciJob /\ ciPc = "new" /\ ciBuf = <<>> /\ ciGot = <<>>
    /\ ciAddr = CiNoAddr /\ ciUdp = <<>> /\ ciAns = <<>>

CiGo(pc) == ciPc' = pc /\ UNCHANGED <<ciPort, ciAuth, ciJob, ciBuf, ciGot, ciAddr, ciUdp, ciAns>>

-----------------------------------------------------------------------------
(* The handshakes *)

\* listen: the mixed port peeks, 5 is SOCKS5, everything else is HTTP.
CiAccept ==
    /\ ciPc = "new" /\ ciWire # <<>>
    /\ CiGo(IF ciPort = "http" \/ (ciPort = "mix" /\ Head(ciWire).k # "greet") THEN "head" ELSE "greet")
    /\ UNCHANGED ciWire

\* handle_client of SOCKS5: the version, and a method that suits the configuration.
CiGreet ==
    /\ ciPc = "greet" /\ ciWire # <<>> /\ ciWire' = Tail(ciWire)
    /\ CiGo(IF Head(ciWire).k # "greet" \/ (IF ciAuth THEN 2 ELSE 0) \notin Head(ciWire).methods THEN "dead"
            ELSE IF ciAuth THEN "auth" ELSE "request")

\* The auth sub-negotiation.
CiCreds ==
    /\ ciPc = "auth" /\ ciWire # <<>> /\ ciWire' = Tail(ciWire)
    /\ CiGo(IF Head(ciWire).k # "creds" \/ ~Head(ciWire).ok THEN "dead" ELSE "request")

\* The request: CONNECT, UDP ASSOCIATE, or a command it does not know; the target may
\* not parse and the socket of the association not bind.
CiRequest ==
    /\ ciPc = "request" /\ ciWire # <<>> /\ ciWire' = Tail(ciWire)
    /\ \/ CiGo("dead")
       \/ Head(ciWire).k = "request" /\ Head(ciWire).cmd = 1 /\ CiGo("relay")
       \/ Head(ciWire).k = "request" /\ Head(ciWire).cmd = 3 /\ CiGo("assoc")

\* The head of an HTTP request is complete with its "end" symbol.
CiHeadEnd(buf) == {i \in DOMAIN buf : buf[i].k = "end"}

\* handle_client of HTTP: reads what there is until the head is complete, checks the
\* credentials and the target, and hands on what it read: after CONNECT the rest,
\* otherwise everything.
CiHead(k) ==
    /\ ciPc = "head" /\ k <= Len(ciWire)
    /\ ciWire' = SubSeq(ciWire, k + 1, Len(ciWire))
    /\ LET buf == ciBuf \o SubSeq(ciWire, 1, k)
           n == CHOOSE i \in CiHeadEnd(buf) : TRUE IN
       \/ /\ buf[1].k # "line" /\ ciPc' = "dead" /\ UNCHANGED ciBuf
       \/ /\ buf[1].k = "line" /\ CiHeadEnd(buf) = {}
          /\ ciBuf' = buf /\ UNCHANGED ciPc
       \/ /\ buf[1].k = "line" /\ CiHeadEnd(buf) # {}
          /\ ciPc' \in IF ciAuth /\ ~buf[n].ok THEN {"dead"} ELSE {"relay", "dead"}
          /\ ciBuf' = IF buf[1].connect THEN SubSeq(buf, n + 1, Len(buf)) ELSE buf
    /\ UNCHANGED <<ciPort, ciAuth, ciJob, ciGot, ciAddr, ciUdp, ciAns>>

\* The handshake timeouts of the SOCKS5 and the mixed port; the HTTP port has none.
CiTimeout ==
    /\ ciPort # "http" /\ ciPc \in {"new", "greet", "auth", "request", "head"}
    /\ CiGo("dead") /\ UNCHANGED ciWire

\* The client closes before its handshake is complete: read_exact fails, or read_buf
\* returns 0.
CiEof ==
    /\ ciWire = <<>> /\ ciPc \in {"new", "greet", "auth", "request", "head"}
    /\ CiGo("dead") /\ UNCHANGED ciWire

\* Mutant: an empty prefix that has been read from ends the stream.
CiRelayPrefix(k) ==
    /\ ciPc = "relay"
    /\ \/ /\ ciBuf # <<>> /\ k <= Len(ciBuf)
          /\ ciGot' = ciGot \o SubSeq(ciBuf, 1, k)
          /\ ciBuf' = SubSeq(ciBuf, k + 1, Len(ciBuf)) /\ UNCHANGED ciWire
       \/ /\ ciBuf = <<>> /\ ciGot = <<>> /\ k <= Len(ciWire)
          /\ ciGot' = ciGot \o SubSeq(ciWire, 1, k)
          /\ ciWire' = SubSeq(ciWire, k + 1, Len(ciWire)) /\ UNCHANGED ciBuf
    /\ UNCHANGED <<ciPort, ciAuth, ciJob, ciPc, ciAddr, ciUdp, ciAns>>

\* PrefixedReadStream: the prefix first, then the connection.
CiRelay(k) ==
    /\ ciPc = "relay"
    /\ \/ /\ ciBuf # <<>> /\ k <= Len(ciBuf)
          /\ ciGot' = ciGot \o SubSeq(ciBuf, 1, k)
          /\ ciBuf' = SubSeq(ciBuf, k + 1, Len(ciBuf)) /\ UNCHANGED ciWire
       \/ /\ ciBuf = <<>> /\ k <= Len(ciWire)
          /\ ciGot' = ciGot \o SubSeq(ciWire, 1, k)
          /\ ciWire' = SubSeq(ciWire, k + 1, Len(ciWire)) /\ UNCHANGED ciBuf
    /\ UNCHANGED <<ciPort, ciAuth, ciJob, ciPc, ciAddr, ciUdp, ciAns>>

-----------------------------------------------------------------------------
(* The UDP association *)

\* Socks5InboundPacket::recv_from: only the client's own address; the latest one is
\* where answers go, also that of a datagram whose header does not parse.
CiRecv(from, t) ==
    /\ ciPc = "assoc" /\ Len(ciUdp) < CiMaxUdp
    /\ from.ip = CiClient.ip
    /\ ciAddr' = from /\ ciUdp' \in {Append(ciUdp, [from |-> from, target |-> t]), ciUdp}
    /\ UNCHANGED <<ciPort, ciAuth, ciJob, ciWire, ciPc, ciBuf, ciGot, ciAns>>

\* forward_udp_outbound_once calls send_to(answer, remote, source); the inbound's
\* send_to puts its third argument into the header.
CiSend(i) ==
    /\ ciPc = "assoc" /\ Len(ciAns) < CiMaxUdp
    /\ ciAns' = Append(ciAns, [to |-> ciAddr, header |-> ciUdp[i].from, of |-> ciUdp[i].target])
    /\ UNCHANGED <<ciPort, ciAuth, ciJob, ciWire, ciPc, ciBuf, ciGot, ciAddr, ciUdp>>

\* The control connection closes: start_udp_worker ends.
CiControlCloses ==
    /\ ciPc = "assoc"
    /\ CiGo("dead") /\ UNCHANGED ciWire

CiServe ==
    \/ CiAccept \/ CiGreet \/ CiCreds \/ CiRequest
    \/ \E k \in 1..Len(ciWire) : CiHead(k)
    \/ \E k \in 1..(Len(ciWire) + Len(ciBuf)) : CiRelay(k)

CiNext ==
    \/ CiServe \/ CiTimeout \/ CiEof \/ CiControlCloses
    \/ \E from \in CiFroms, t \in CiTargets : CiRecv(from, t)
    \/ \E i \in DOMAIN ciUdp : CiSend(i)

-----------------------------------------------------------------------------
(* Properties *)

\* What the router must read: everything for a plain HTTP request, otherwise all that
\* follows the handshake.
CiPayload ==
    IF ciJob[1].k = "line" /\ ~ciJob[1].connect THEN ciJob
    ELSE SelectSeq(ciJob, LAMBDA s : s.k = "data")

\* No byte of the client is lost, repeated or taken for the handshake, however early
\* it sends its first data (read_exact, split_off, PrefixedReadStream, peek).
CiWhole == IsPrefix(ciGot, CiPayload)

\* A connection that is served is served to the end.
CiArrives == ciPc = "relay" ~> ciGot = CiPayload

\* Where a password is configured, nothing reaches the router without it, on either
\* protocol of the mixed port.
CiAuthorised ==
    ciAuth /\ ciPc \in {"relay", "assoc"} => \E i \in DOMAIN ciJob : ciJob[i].k \in {"creds", "end"} /\ ciJob[i].ok

\* Answers go to an address of the client of the association, never to another host.
CiOwnClient == \A i \in DOMAIN ciAns : ciAns[i].to.ip = CiClient.ip

\* The header of an answer names the remote it came from (AnyPacket::send_to has the
\* sender as its second and the receiver as its third argument).
CiNamesRemote == \A i \in DOMAIN ciAns : ciAns[i].header = ciAns[i].of

\* The local ports relay what authorised clients send, all of it and for them alone.
CiServes == [](CiWhole /\ CiAuthorised /\ CiOwnClient) /\ CiArrives
=============================================================================
