----------------------------- MODULE MCProgress -----------------------------
(***************************************************************************)
(* TLC instances of the smaller components, those whose run asks that      *)
(* something happens in the end among them.  As in MCSafety the components *)
(* share no state and `part` says which of them a behaviour is about.      *)
(***************************************************************************)
EXTENDS AnytlsClient, KeyedNotify, ZeroRtt, RedbStore, DnsFlight, RouterUdp, Selector, Dial,
        TrojanTunnel, SessionCloser, ClientInbound, Hysteria2, Socks5Out

VARIABLE part

-----------------------------------------------------------------------------
(* Values of the constants *)

\* What happens to a selector: connections, test rounds, choices by hand, changes.
MCBudget(calls, rounds, picks, changed) ==
    [calls |-> calls, rounds |-> rounds, picks |-> picks, changes |-> changed]
MCBudgets == {MCBudget({"c1"}, 1, 1, 0), MCBudget({"c1"}, 0, 2, 0), MCBudget({"c1", "c2"}, 0, 0, 0),
              MCBudget({"c1"}, 0, 0, 1), MCBudget({}, 0, 1, 2)}

\* Outbounds that dial: several addresses of both families and one caller, with attempts
\* one after another or at once, or a pool of two callers and a server with one address.
MCDial(v4, v6, prefer6, delay, timeout, size, calls) ==
    [v4 |-> v4, v6 |-> v6, prefer6 |-> prefer6, delay |-> delay, timeout |-> timeout, size |-> size, calls |-> calls]
MCPooled == MCDial({"a1"}, {}, FALSE, 1, 1, 1, {"c1", "c2"})
MCDials == {MCDial({"a1", "a2"}, {"b1"}, FALSE, 1, 2, 0, {"c1"}), MCDial({"a1"}, {"b1"}, TRUE, 0, 1, 0, {"c1"}), MCPooled}

\* Trojan: a stream in three pieces, or three packets with addresses of each length.
MCByte(i) == <<"d", i>>
MCStream == <<"tcp", <<MCByte(1), MCByte(2), MCByte(3)>>>>
MCPacket(addr, data) == [addr |-> addr, data |-> data]
MCWrites ==
    {MCStream,
     <<"udp", <<MCPacket(0, <<MCByte(1), MCByte(2)>>), MCPacket(2, <<>>), MCPacket(1, <<MCByte(3)>>)>>>>}

\* What clients of the local ports send: SOCKS5 and HTTP, with good and bad
\* credentials, CONNECT, plain requests, UDP associations and BIND.
MCGreet(methods) == [k |-> "greet", methods |-> methods]
MCCreds(ok) == [k |-> "creds", ok |-> ok]
MCCommand(cmd) == [k |-> "request", cmd |-> cmd]
MCLine(connect) == [k |-> "line", connect |-> connect]
MCEnd(ok) == [k |-> "end", ok |-> ok]
MCData(n) == [k |-> "data", n |-> n]
MCClients ==
    {<<MCGreet({0}), MCCommand(1), MCData(1), MCData(2)>>,
     <<MCGreet({0, 2}), MCCreds(TRUE), MCCommand(1), MCData(1), MCData(2)>>,
     <<MCGreet({2}), MCCreds(FALSE), MCCommand(1), MCData(1)>>,
     <<MCGreet({0, 2}), MCCreds(TRUE), MCCommand(3)>>,
     <<MCGreet({0}), MCCommand(3)>>,
     <<MCGreet({0}), MCCommand(2)>>,
     <<MCLine(TRUE), MCEnd(TRUE), MCData(1), MCData(2)>>,
     <<MCLine(FALSE), MCEnd(TRUE), MCData(1)>>,
     <<MCLine(TRUE), MCEnd(FALSE), MCData(1)>>}
MCFroms == {CiClient, [ip |-> "client", port |-> 1], [ip |-> "other", port |-> 0]}
MCTargets == {[ip |-> "remote", port |-> 7], [ip |-> "remote2", port |-> 8]}

\* The SOCKS5 outbound: addresses in the server's reply, and a payload right after it.
MCReplied == {[len |-> 1, domain |-> FALSE, known |-> TRUE], [len |-> 2, domain |-> TRUE, known |-> TRUE],
              [len |-> 1, domain |-> FALSE, known |-> FALSE]}
MCPayload == <<MCByte(1), MCByte(2)>>

-----------------------------------------------------------------------------

MCParts == {"client", "notify", "zerortt", "redb", "dns", "udp", "selector", "dial", "trojan",
            "closer", "ports", "hysteria2", "socks5out"}

MCInit ==
    /\ part \in MCParts
    /\ Init /\ KnInit /\ ZrInit /\ RdInit /\ DnInit /\ RuInit /\ DlInit /\ ScInit /\ HyInit
    /\ part # "dial" => dlCfg = MCPooled /\ dlFailed = {}
    /\ SlInit
    /\ part # "selector" => slType = "selector" /\ slLeft = MCBudget({}, 0, 1, 2)
    /\ slCache = (IF slSel = 0 THEN SlN ELSE slSel)
    /\ part # "selector" \/ slLeft.rounds > 0 => slSel = 0
    /\ TjInit
    /\ part # "trojan" => tjJob = MCStream /\ tjPw = 2
    /\ CiInit
    /\ part # "ports" => ciPort = "socks5" /\ ciAuth = FALSE /\ ciJob[2] = MCCommand(2)
    /\ S5Init
    /\ part # "socks5out" => s5Job = [net |-> "tcp", creds |-> TRUE]

mcFirst == <<vars, knVars, zrVars, rdVars, dnVars, ruVars>>
mcSecond == <<slVars, dlVars, tjVars, scVars, ciVars, hyVars, s5Vars>>
mcVars == <<part, mcFirst, mcSecond>>

MCNext ==
    \/ /\ part = "client" /\ Next
       /\ UNCHANGED <<part, knVars, zrVars, rdVars, dnVars, ruVars, mcSecond>>
    \/ /\ part = "notify" /\ KnNext
       /\ UNCHANGED <<part, vars, zrVars, rdVars, dnVars, ruVars, mcSecond>>
    \/ /\ part = "zerortt" /\ ZrNext
       /\ UNCHANGED <<part, vars, knVars, rdVars, dnVars, ruVars, mcSecond>>
    \/ /\ part = "redb" /\ RdNext
       /\ UNCHANGED <<part, vars, knVars, zrVars, dnVars, ruVars, mcSecond>>
    \/ /\ part = "dns" /\ DnNext
       /\ UNCHANGED <<part, vars, knVars, zrVars, rdVars, ruVars, mcSecond>>
    \/ /\ part = "udp" /\ RuNext
       /\ UNCHANGED <<part, vars, knVars, zrVars, rdVars, dnVars, mcSecond>>
    \/ /\ part = "selector" /\ SlNext
       /\ UNCHANGED <<part, mcFirst, dlVars, tjVars, scVars, ciVars, hyVars, s5Vars>>
    \/ /\ part = "dial" /\ DlNext
       /\ UNCHANGED <<part, mcFirst, slVars, tjVars, scVars, ciVars, hyVars, s5Vars>>
    \/ /\ part = "trojan" /\ TjNext
       /\ UNCHANGED <<part, mcFirst, slVars, dlVars, scVars, ciVars, hyVars, s5Vars>>
    \/ /\ part = "closer" /\ ScNext
       /\ UNCHANGED <<part, mcFirst, slVars, dlVars, tjVars, ciVars, hyVars, s5Vars>>
    \/ /\ part = "ports" /\ CiNext
       /\ UNCHANGED <<part, mcFirst, slVars, dlVars, tjVars, scVars, hyVars, s5Vars>>
    \/ /\ part = "hysteria2" /\ HyNext
       /\ UNCHANGED <<part, mcFirst, slVars, dlVars, tjVars, scVars, ciVars, s5Vars>>
    \/ /\ part = "socks5out" /\ S5Next
       /\ UNCHANGED <<part, mcFirst, slVars, dlVars, tjVars, scVars, ciVars, hyVars>>

-----------------------------------------------------------------------------
(* Fairness: the runtime polls a task that is ready, timers fire, connections are  *)
(* served or fail, and handshakes end.                                             *)

MCFairness ==
    \* KeyedNotify: waiters and the setter's second half; nobody need set or time out.
    /\ \A w \in Waiters : WF_knVars(part = "notify" /\ Ready(w))
    /\ WF_knVars(part = "notify" /\ (RemoveKey(Setter) \/ Signal(Setter)))
    \* ZeroRtt: the caller polls, the server reads, the handshake ends.
    /\ WF_zrVars(part = "zerortt" /\ (Resolve \/ Replay))
    /\ WF_zrVars(part = "zerortt" /\ phase = "Connecting" /\ (Connect \/ Breaks))
    /\ WF_zrVars(part = "zerortt" /\ (ServerDecides \/ VerdictArrives))
    /\ WF_zrVars(part = "zerortt" /\ ServerReads)
    \* RedbStore: the flusher's timer, flushes, shutdown_redb, writers; what it has
    \* taken out of the cache is dropped, and a waiting write transaction is given its turn.
    /\ WF_rdVars(part = "redb" /\ RdFlusher)
    /\ WF_rdVars(part = "redb" /\ RdStop)
    /\ SF_rdVars(part = "redb" /\ \E j \in RdJobs : RdFlushCommit(j))
    /\ \A s \in RdStores : WF_rdVars(part = "redb" /\ RdWrite(s))
    /\ SF_rdVars(part = "redb" /\ ~rdCached /\ \E s \in RdStores : RdDropStore(s))
    /\ \A q \in DnQueries : WF_dnVars(part = "dns" /\ DnStep(q))
    \* RouterUdp: the loop's send and the task of each session.
    /\ WF_ruVars(part = "udp" /\ RuSend)
    /\ \A s \in 1..RuMaxSess : WF_ruVars(part = "udp" /\ s \in RuIds /\ RuTask(s))
    /\ WF_slVars(part = "selector" /\ SlBackground)
    /\ \A a \in DlActors : WF_dlVars(part = "dial" /\ DlTimer(a))
    /\ WF_tjVars(part = "trojan" /\ TjWriteSome) /\ WF_tjVars(part = "trojan" /\ TjServe)
    /\ WF_ciVars(part = "ports" /\ CiServe)
    \* Hysteria2: the workers and the datagram listeners.
    /\ \A t \in HyUdp : WF_hyVars(part = "hysteria2" /\ HyWorker(t))
    /\ WF_hyVars(part = "hysteria2" /\ \E c \in 1..HyMaxConns : HyListenerEnds(c))
    \* Socks5Out: the task, the router's receive loop, the server.
    /\ WF_s5Vars(part = "socks5out" /\ S5Task)
    /\ WF_s5Vars(part = "socks5out" /\ S5Receive)
    /\ WF_s5Vars(part = "socks5out" /\ S5Server)

MCSpec == MCInit /\ [][MCNext]_mcVars /\ MCFairness
=============================================================================
