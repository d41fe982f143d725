----------------------------- MODULE Socks5Out ------------------------------
(***************************************************************************)
(* The SOCKS5 outbound: the handshake over a fresh connection, and the UDP *)
(* association that lives as long as its control connection. The server is *)
(* any server of the protocol, which may answer CONNECT and relay at once; *)
(* the router receives from the association again and again, and a task    *)
(* watches the control connection for it.                                  *)
(***************************************************************************)
EXTENDS Naturals, Sequences, SequencesExt

CONSTANTS
    S5Creds,   \* are username and password configured: a set of BOOLEANs
    S5Addrs,   \* addresses in the server's reply: [len, domain, known], the last is its type
    S5Payload, \* what the target sends
    S5MaxUdp   \* bound: datagrams received

VARIABLES
    s5Job,  \* "tcp" or "udp", and whether there are credentials
    s5Pc,   \* "hello", "method", "auth", "reply", "atyp", "addr", "ready" or "failed"
    s5Up,   \* messages to the server
    s5Dn,   \* symbols from the server
    s5Srv,  \* the server: "hello", "creds", "request", "relay", "sent", "assoc" or "closed"
    s5Need, \* the address being read: symbols left, whether it is a domain, of a known type
    s5Got,  \* what the router reads from the stream
    s5Ctl,  \* the association: handle held, task running, closer closed, abort sent
    s5Recv  \* recv_from: "idle", "wait" or "error"; and datagrams so far

s5Link == <<s5Up, s5Dn, s5Srv>>
s5Vars == <<s5Job, s5Pc, s5Link, s5Need, s5Got, s5Ctl, s5Recv>>

S5Init ==
    /\ s5Job \in [net : {"tcp", "udp"}, creds : S5Creds]
    /\ s5Pc = "hello" /\ s5Up = <<>> /\ s5Dn = <<>> /\ s5Srv = "hello"
    /\ s5Need = [len |-> 0, domain |-> FALSE, known |-> TRUE] /\ s5Got = <<>>
    /\ s5Ctl = [held |-> FALSE, task |-> "none", closer |-> FALSE, abort |-> FALSE]
    /\ s5Recv = [at |-> "idle", n |-> 0]

-----------------------------------------------------------------------------
(* The handshake *)

S5Send(msg, pc) == s5Up' = Append(s5Up, msg) /\ s5Pc' = pc
S5Fail == s5Pc' = "failed" /\ UNCHANGED s5Up

\* The methods on offer.
S5Hello ==
    /\ s5Pc = "hello" /\ S5Send(<<"methods", s5Job.creds>>, "method")
    /\ UNCHANGED <<s5Job, s5Dn, s5Srv, s5Need, s5Got, s5Ctl, s5Recv>>

\* The method chosen: credentials, the request, or the end.
S5Method ==
    /\ s5Pc = "method" /\ s5Dn # <<>> /\ s5Dn' = Tail(s5Dn)
    /\ \/ Head(s5Dn)[2] = 2 /\ s5Job.creds /\ S5Send(<<"creds">>, "auth")
       \/ Head(s5Dn)[2] = 0 /\ S5Send(<<"request">>, "reply")
       \/ (Head(s5Dn)[2] = 255 \/ (Head(s5Dn)[2] = 2 /\ ~s5Job.creds)) /\ S5Fail
    /\ UNCHANGED <<s5Job, s5Srv, s5Need, s5Got, s5Ctl, s5Recv>>

\* The answer to the credentials.
S5Auth ==
    /\ s5Pc = "auth" /\ s5Dn # <<>> /\ s5Dn' = Tail(s5Dn)
    /\ IF Head(s5Dn)[2] THEN S5Send(<<"request">>, "reply") ELSE S5Fail
    /\ UNCHANGED <<s5Job, s5Srv, s5Need, s5Got, s5Ctl, s5Recv>>

\* The first three bytes of the reply.
S5Reply ==
    /\ s5Pc = "reply" /\ s5Dn # <<>> /\ s5Dn' = Tail(s5Dn)
    /\ s5Pc' = IF Head(s5Dn)[2] THEN "atyp" ELSE "failed"
    /\ UNCHANGED <<s5Job, s5Up, s5Srv, s5Need, s5Got, s5Ctl, s5Recv>>

\* The stream is handed on, or the UDP socket connected, which may fail, and the
\* association watched.
S5Ready ==
    \/ s5Job.net = "tcp" /\ s5Pc' = "ready" /\ UNCHANGED s5Ctl
    \/ s5Job.net = "udp" /\ s5Pc' = "failed" /\ UNCHANGED s5Ctl
    \/ s5Job.net = "udp" /\ s5Pc' = "ready" /\ s5Ctl' = [s5Ctl EXCEPT !.held = TRUE, !.task = "run"]

\* TargetAddr::read_from: the type of the address, then its bytes, to the last. A type
\* it does not know ends it at once: an error of connect_packet, as a domain is, which
\* connect_stream_with ignores.
S5Address ==
    /\ s5Pc \in {"atyp", "addr"} /\ s5Dn # <<>> /\ s5Dn' = Tail(s5Dn)
    /\ s5Need' = IF s5Pc = "atyp" THEN Head(s5Dn)[2] ELSE [s5Need EXCEPT !.len = @ - 1]
    /\ LET more == s5Need'.known /\ s5Need'.len > 0
           wrong == s5Job.net = "udp" /\ (s5Need'.domain \/ ~s5Need'.known) IN
       \/ more /\ s5Pc' = "addr" /\ UNCHANGED s5Ctl
       \/ ~more /\ wrong /\ s5Pc' = "failed" /\ UNCHANGED s5Ctl
       \/ ~more /\ ~wrong /\ S5Ready
    /\ UNCHANGED <<s5Job, s5Up, s5Srv, s5Got, s5Recv>>

\* The connection ends early: an error, which connect_stream_with ignores in the address.
S5Eof ==
    /\ s5Pc \in {"method", "auth", "reply", "atyp", "addr"} /\ s5Dn = <<>> /\ s5Srv = "closed"
    /\ s5Pc' = IF s5Job.net = "tcp" /\ s5Pc \in {"atyp", "addr"} THEN "ready" ELSE "failed"
    /\ UNCHANGED <<s5Job, s5Link, s5Need, s5Got, s5Ctl, s5Recv>>

S5Timeout ==
    /\ s5Pc \notin {"ready", "failed"} /\ s5Pc' = "failed"
    /\ UNCHANGED <<s5Job, s5Link, s5Need, s5Got, s5Ctl, s5Recv>>

\* The router reads from the stream.
S5Read(k) ==
    /\ s5Pc = "ready" /\ s5Job.net = "tcp" /\ k <= Len(s5Dn)
    /\ s5Got' = s5Got \o SubSeq(s5Dn, 1, k) /\ s5Dn' = SubSeq(s5Dn, k + 1, Len(s5Dn))
    /\ UNCHANGED <<s5Job, s5Pc, s5Up, s5Srv, s5Need, s5Ctl, s5Recv>>

-----------------------------------------------------------------------------
(* The server *)

S5Answers(msg, syms, srv) ==
    /\ s5Up # <<>> /\ Head(s5Up)[1] = msg /\ s5Up' = Tail(s5Up)
    /\ s5Dn' = s5Dn \o syms /\ s5Srv' = srv
    /\ UNCHANGED <<s5Job, s5Pc, s5Need, s5Got, s5Ctl, s5Recv>>

\* It chooses a method, checks the credentials, answers the request and relays; a
\* control connection that is shut down it closes.
S5Server ==
    \/ /\ s5Srv = "hello"
       /\ \E m \in {0, 2, 255} :
             S5Answers("methods", <<<<"method", m>>>>, IF m = 0 THEN "request" ELSE IF m = 2 THEN "creds" ELSE "closed")
    \/ /\ s5Srv = "creds"
       /\ \E ok \in BOOLEAN : S5Answers("creds", <<<<"auth", ok>>>>, IF ok THEN "request" ELSE "closed")
    \/ /\ s5Srv = "request"
       /\ \E ok \in BOOLEAN, a \in S5Addrs :
             S5Answers("request", <<<<"rep", ok>>, <<"atyp", a>>>> \o [i \in 1..a.len |-> <<"addr", i>>],
                       IF ~ok THEN "closed" ELSE IF s5Job.net = "tcp" THEN "relay" ELSE "assoc")
    \/ s5Srv = "assoc" /\ S5Answers("fin", <<>>, "closed")
    \/ /\ s5Srv = "relay" /\ s5Srv' = "sent" /\ s5Dn' = s5Dn \o S5Payload
       /\ UNCHANGED <<s5Job, s5Pc, s5Up, s5Need, s5Got, s5Ctl, s5Recv>>

\* The connection is lost, with what is on its way or without it.
S5Lost ==
    /\ s5Srv # "closed" /\ s5Srv' = "closed" /\ s5Dn' \in {s5Dn, <<>>}
    /\ UNCHANGED <<s5Job, s5Pc, s5Up, s5Need, s5Got, s5Ctl, s5Recv>>

-----------------------------------------------------------------------------
(* Socks5UdpSocket *)

\* The task that watches the control connection and the closer, and tells the receiver.
S5Task ==
    /\ s5Ctl.task = "run" /\ (s5Ctl.closer \/ s5Srv = "closed")
    /\ s5Ctl' = [s5Ctl EXCEPT !.task = "end", !.abort = TRUE]
    /\ UNCHANGED <<s5Job, s5Pc, s5Link, s5Need, s5Got, s5Recv>>

\* Mutant: the receiver counts what happened before the call as seen.
S5RecvCallsLate ==
    /\ s5Ctl.held /\ s5Recv.at = "idle"
    /\ s5Recv' = [s5Recv EXCEPT !.at = IF s5Ctl.abort THEN "deaf" ELSE "wait"]
    /\ UNCHANGED <<s5Job, s5Pc, s5Link, s5Need, s5Got, s5Ctl>>

\* recv_from: a clone of a watch receiver that has never seen a change ...
S5RecvCalls ==
    /\ s5Ctl.held /\ s5Recv.at = "idle"
    /\ s5Recv' = [s5Recv EXCEPT !.at = "wait"]
    /\ UNCHANGED <<s5Job, s5Pc, s5Link, s5Need, s5Got, s5Ctl>>

\* ... waits for a datagram ...
S5RecvData ==
    /\ s5Recv.at = "wait" /\ s5Srv = "assoc" /\ s5Recv.n < S5MaxUdp
    /\ s5Recv' = [at |-> "idle", n |-> s5Recv.n + 1]
    /\ UNCHANGED <<s5Job, s5Pc, s5Link, s5Need, s5Got, s5Ctl>>

\* ... or the end of the control connection, or the closer.
S5RecvEnds ==
    /\ s5Recv.at = "wait" /\ (s5Ctl.abort \/ s5Ctl.closer)
    /\ s5Recv' = [s5Recv EXCEPT !.at = "error"]
    /\ UNCHANGED <<s5Job, s5Pc, s5Link, s5Need, s5Got, s5Ctl>>

\* The session ends: its closer is closed, unless the first send_to failed, and the
\* socket dropped, which shuts the control connection down.
S5Drop(close) ==
    /\ s5Ctl.held
    /\ s5Ctl' = [s5Ctl EXCEPT !.held = FALSE, !.closer = close]
    /\ s5Up' = Append(s5Up, <<"fin">>)
    /\ UNCHANGED <<s5Job, s5Pc, s5Dn, s5Srv, s5Need, s5Got, s5Recv>>

S5Shake == S5Hello \/ S5Method \/ S5Auth \/ S5Reply \/ S5Address \/ S5Eof
S5Receive == S5RecvCalls \/ S5RecvEnds

S5Next ==
    \/ S5Shake \/ S5Timeout \/ S5Server \/ S5Lost
    \/ \E k \in 1..Len(s5Dn) : S5Read(k)
    \/ S5Task \/ S5Receive \/ S5RecvData
    \/ \E close \in BOOLEAN : S5Drop(close)

-----------------------------------------------------------------------------
(* Properties *)

\* The stream that is handed on begins with the first byte of the target, however long
\* the address in the reply is and however soon the payload follows it; after a reply
\* with an address of an unknown type, whose bytes nobody skips, it need not.
S5Whole == s5Need.known => IsPrefix(s5Got, S5Payload)

\* When the control connection ends, the router's receive ends, also when that happened
\* between two calls of recv_from.
S5Noticed ==
    s5Ctl.task # "none" /\ s5Srv = "closed" ~> s5Recv.at = "error" \/ ~s5Ctl.held

\* The task of an association that was dropped ends.
S5TaskEnds == s5Ctl.task = "run" /\ ~s5Ctl.held ~> s5Ctl.task = "end"

\* Streams begin where they should and associations end on both sides.
S5Sound == []S5Whole /\ S5Noticed /\ S5TaskEnds
=============================================================================
