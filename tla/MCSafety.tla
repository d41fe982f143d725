------------------------------ MODULE MCSafety ------------------------------
(***************************************************************************)
(* TLC instances of the components whose run asks for safety only.  The    *)
(* components share no state: `part` says which of them a behaviour is     *)
(* about, and all the others stay in one initial state.                    *)
(***************************************************************************)
EXTENDS AnytlsInboundPeer, ShadowQuicConn, ShadowQuicInbound, Traffic, PersistStore,
        CoreManager, FakeIp, DohPool, RouterRules, VmessTunnel, Hysteria2Wire, GeoipDb

VARIABLE part

-----------------------------------------------------------------------------
(* Values of the constants *)

\* Callers and network changes of the ShadowQUIC cache.
MCMix(calls, changes) == [calls |-> calls, changes |-> changes]
MCMixes == {MCMix({"t1"}, 2), MCMix({"t1", "t2"}, 0), MCMix({"u1"}, 0), MCMix({"s1"}, 0)}

\* One configured user; one client address.
MCConfig == [n \in {"u1"} |-> "p1"]
MCAddr == [c \in SiConns |-> "x"]

\* Of the users: two requests at once, and one after the other with the periodic save
\* or with a connection. The first request is a1's and only u2 may have no password.
MCBegins ==
    /\ usOps < usOps' /\ usOps = 0 => usOp'["a2"] = UsNoOp
    /\ \A a \in UsAdmins : usOp'[a].pc = "apply" /\ usOp'[a].name # "u2" => usOp'[a].pw # ""
MCOneAtATime == usOp'["a2"] = UsNoOp

\* Two connections to one destination.
MCDst == [c \in TrConns |-> IF c = "c1" THEN "d1" ELSE "d2"]

\* FakeIP: two lookups of one domain and one of another; the cache may fail to save
\* the cursor of the first lookup.
MCDomain == [l1 |-> "a", l2 |-> "b", l3 |-> "a"]
MCSaves == \A l \in {"l2", "l3"} :
              fiJob[l].pc = "save" /\ fiJob'[l].pc = "addr" => fiSaved' = fiJob[l].save

\* Rules that test each kind of condition, and their sequences.
MCAny == [modes |-> {}, inbounds |-> {}, protocol |-> {}, network |-> {}, ports |-> {},
          domains |-> {}, qtypes |-> {}, cidrs |-> {}, reverse |-> FALSE, geoip |-> {}]
MCRules ==
    {MCAny,
     [MCAny EXCEPT !.modes = {"rule"}, !.geoip = {"cn"}],
     [MCAny EXCEPT !.protocol = {"dns"}, !.qtypes = {"A"}],
     [MCAny EXCEPT !.domains = {"n1"}],
     [MCAny EXCEPT !.reverse = TRUE, !.modes = {"proxy"}],
     [MCAny EXCEPT !.network = {"tcp"}, !.ports = {80}, !.cidrs = {"i1"}]}
MCRuleSets == UNION {[1..n -> MCRules] : n \in {1, 3}}
MCRequest(host, port, net, question, qtype) ==
    [target |-> [kind |-> "ip", host |-> host, port |-> port], inbound |-> "in",
     net |-> net, question |-> question, qtype |-> qtype]
MCRequests == {MCRequest("i1", 80, "tcp", "none", "none"), MCRequest("i2", 53, "udp", "n1", "A")}
MCPtr == [h \in {"i1", "i2"} |-> IF h = "i1" THEN "n2" ELSE "none"]
MCCountry == [h \in {"i1", "i2", "n1"} |-> IF h = "i2" THEN "us" ELSE "cn"]
MCNames == UNION {[1..n -> {"a", ".", "b"}] : n \in 0..4}

\* VMess: an upload of several chunks, a download, and a UDP session.
MCJob(cmd, dst, up, down) == [cmd |-> cmd, dst |-> dst, up |-> up, down |-> down]
MCDownload == MCJob(1, 0, <<>>, <<1, 2, 3>>)
MCJobs == {MCJob(1, 2, <<1, 2, 3>>, <<>>), MCDownload,
           MCJob(2, 1, <<<<1, 2>>, <<3>>>>, <<<<4>>>>)}

\* Hysteria2: what is written and answered, responses within and beyond the limits, and
\* packets of one to three fragments, the most that are allowed.
MCUp == <<1, 2, 3>>
MCDown == <<7, 8, 9>>
MCResponse(ok, msg, pad) == [ok |-> ok, msg |-> msg, pad |-> pad]
MCResponses == {MCResponse(TRUE, 0, 0), MCResponse(TRUE, 1, 2), MCResponse(FALSE, 1, 0), MCResponse(FALSE, 2, 0),
                MCResponse(TRUE, 0, 3)}
MCPackets == <<2, 4, 4, 5>>

-----------------------------------------------------------------------------

MCParts == {"anytls", "shadowquic", "users", "saves", "logins", "traffic", "persist", "core", "fakeip", "doh",
            "rules", "vmess", "hy2stream", "hy2udp", "geoip"}

MCInit ==
    /\ part \in MCParts
    /\ InPeerInit /\ UsInit /\ SiInit /\ TrInit /\ PsInit /\ CmInit /\ FiInit /\ DhInit /\ HwInit
    /\ SqInit
    /\ part # "shadowquic" => sqCall["s1"].pc = "ensure"
    /\ SoInit
    /\ part # "rules" => soRules = <<MCAny>> /\ soMode = "rule"
    /\ VmInit
    /\ part # "vmess" =>
          /\ vmJob = MCDownload /\ vmId = 1 /\ vmTag = 0
          /\ vmWire["up"].syms[2] = <<"request", VmRequest(vmJob, 0)>>
    /\ GdInit
    /\ part # "geoip" => gdDisk.first = "none" /\ gdKeeps

mcFirst == <<peerAllVars, sqVars, usVars, siVars, trVars, psVars>>
mcSecond == <<cmVars, fiVars, dhVars, soVars, vmVars, hwVars, gdVars>>

MCNext ==
    \/ /\ part = "anytls" /\ InPeerNext
       /\ UNCHANGED <<part, sqVars, usVars, siVars, trVars, psVars, mcSecond>>
    \/ /\ part = "shadowquic" /\ SqNext
       /\ UNCHANGED <<part, peerAllVars, usVars, siVars, trVars, psVars, mcSecond>>
    \/ /\ part = "users" /\ SiNext /\ UNCHANGED <<siConn, usTick>> /\ MCBegins
       /\ UNCHANGED <<part, peerAllVars, sqVars, trVars, psVars, mcSecond>>
    \/ /\ part = "saves" /\ SiNext /\ UNCHANGED siConn /\ MCBegins /\ MCOneAtATime
       /\ UNCHANGED <<part, peerAllVars, sqVars, trVars, psVars, mcSecond>>
    \/ /\ part = "logins" /\ SiNext /\ UNCHANGED <<usTick, usKept>> /\ MCBegins /\ MCOneAtATime
       /\ UNCHANGED <<part, peerAllVars, sqVars, trVars, psVars, mcSecond>>
    \/ /\ part = "traffic" /\ TrNext
       /\ UNCHANGED <<part, peerAllVars, sqVars, usVars, siVars, psVars, mcSecond>>
    \/ /\ part = "persist" /\ PsNext
       /\ UNCHANGED <<part, peerAllVars, sqVars, usVars, siVars, trVars, mcSecond>>
    \/ /\ part = "core" /\ CmNext
       /\ UNCHANGED <<part, mcFirst, fiVars, dhVars, soVars, vmVars, hwVars, gdVars>>
    \/ /\ part = "fakeip" /\ FiNext /\ MCSaves
       /\ UNCHANGED <<part, mcFirst, cmVars, dhVars, soVars, vmVars, hwVars, gdVars>>
    \/ /\ part = "doh" /\ DhNext
       /\ UNCHANGED <<part, mcFirst, cmVars, fiVars, soVars, vmVars, hwVars, gdVars>>
    \/ /\ part = "rules" /\ SoNext
       /\ UNCHANGED <<part, mcFirst, cmVars, fiVars, dhVars, vmVars, hwVars, gdVars>>
    \/ /\ part = "vmess" /\ VmNext
       /\ UNCHANGED <<part, mcFirst, cmVars, fiVars, dhVars, soVars, hwVars, gdVars>>
    \/ /\ part = "hy2stream" /\ HwStream
       /\ UNCHANGED <<part, mcFirst, cmVars, fiVars, dhVars, soVars, vmVars, gdVars>>
    \/ /\ part = "hy2udp" /\ HwDatagrams
       /\ UNCHANGED <<part, mcFirst, cmVars, fiVars, dhVars, soVars, vmVars, gdVars>>
    \/ /\ part = "geoip" /\ GdNext
       /\ UNCHANGED <<part, mcFirst, cmVars, fiVars, dhVars, soVars, vmVars, hwVars>>

MCSpec == MCInit /\ [][MCNext]_<<part, mcFirst, mcSecond>>
=============================================================================
