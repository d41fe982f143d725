------------------------- MODULE AnytlsInboundPeer -------------------------
(***************************************************************************)
(* The server session of AnytlsInbound against any client: each stream is  *)
(* opened once, with its headers, payloads and a FIN in order; the session *)
(* may start with something else than settings and carry control frames.   *)
(***************************************************************************)
EXTENDS AnytlsInbound

CONSTANTS
    MaxUp,      \* bound: payloads the client sends per stream
    MaxControl  \* bound: frames of stream 0 after the first one

ASSUME ClientAssumption == MaxUp \in Nat /\ MaxControl \in Nat

VARIABLES
    next,     \* what the client sends next on a stream, and its number
    control   \* control frames sent

envVars == <<next, control>>
peerAllVars == <<inVars, linkVars, arrives, envVars>>

\* A TCP stream starts with its target, a UDP stream with the UoT request too.
HeadersOf(s) == IF s \in UdpStreams THEN 2 ELSE 1

InPeerInit ==
    /\ InInit
    /\ upWire = <<>> /\ downWire = <<>>
    /\ broken = FALSE /\ arrives = TRUE
    /\ next = [s \in Streams |-> <<"Syn", 0>>]
    /\ control = 0

Send(f) ==
    /\ ~broken /\ inRpc \notin {"close", "clear", "done"}
    /\ upWire' = Append(upWire, f)
    /\ UNCHANGED <<inVars, downWire, broken, arrives>>

\* The first frame of the session.
ClientHello ==
    /\ upWire = <<>>
    /\ \E cmd \in {"Settings", "Other"} : Send(MkFrame(cmd, 0, 0))
    /\ UNCHANGED envVars

\* The next frame of a stream; a FIN may come at any point after the SYN.
ClientFrame(s) ==
    /\ upWire # <<>>
    /\ LET cmd == next[s][1]
           k == next[s][2]
       IN \/ /\ cmd = "Syn"
             /\ Send(MkFrame("Syn", s, 0))
             /\ next' = [next EXCEPT ![s] = <<"Header", HeadersOf(s)>>]
          \/ /\ cmd = "Header"
             /\ Send(MkFrame("Psh", s, Header))
             /\ next' = [next EXCEPT ![s] =
                           IF k = 1 THEN <<"Data", 1>> ELSE <<"Header", k - 1>>]
          \/ /\ cmd = "Data" /\ k <= MaxUp
             /\ Send(MkFrame("Psh", s, k))
             /\ next' = [next EXCEPT ![s] = <<"Data", k + 1>>]
          \/ /\ cmd \in {"Header", "Data"}
             /\ Send(MkFrame("Fin", s, 0))
             /\ next' = [next EXCEPT ![s] = <<"End", 0>>]
    /\ UNCHANGED control

ClientControl ==
    /\ upWire # <<>> /\ control < MaxControl
    /\ control' = control + 1
    /\ \E cmd \in {"HeartRequest", "Other", "Alert"} : Send(MkFrame(cmd, 0, 0))
    /\ UNCHANGED next

LinkFails ==
    /\ ~broken
    /\ broken' = TRUE /\ arrives' = FALSE
    /\ UNCHANGED <<inVars, upWire, downWire, envVars>>

InStep == InNext /\ UNCHANGED <<arrives, envVars>>

InEnded ==
    /\ inRpc = "done" /\ inWpc = "done" /\ broken
    /\ \A s \in Streams : task[s] \in {"none", "dropped"}
    /\ UNCHANGED peerAllVars

InPeerNext ==
    \/ InStep
    \/ ClientHello
    \/ \E s \in Streams : ClientFrame(s)
    \/ ClientControl
    \/ LinkFails
    \/ InEnded

InSpec == InPeerInit /\ [][InPeerNext]_peerAllVars

-----------------------------------------------------------------------------
(* Properties *)

\* The state keeps its types, and no queue of the server session outgrows its
\* channel, whatever the client sends.
InPeerTypeOK ==
    /\ InTypeOK
    /\ upPos <= Len(upWire)
    /\ upWire \in Seq(Frame) /\ downWire \in Seq(Frame)
    /\ broken \in BOOLEAN /\ arrives \in BOOLEAN
    /\ control \in 0 .. MaxControl

\* What is sent on a stream is its payloads in order and at most one FIN, which is
\* the last; a SYNACK is first.
Follows(f, before) ==
    LET s == f.sid IN s \in Streams =>
        \/ f = MkFrame("SynAck", s, 0) /\ \A g \in before : g.sid # s
        \/ /\ MkFrame("Fin", s, 0) \notin before
           /\ \/ f = MkFrame("Fin", s, 0)
              \/ /\ f = MkFrame("Psh", s, f.n) /\ f.n # 0 /\ f \notin before
                 /\ f.n = 1 \/ MkFrame("Psh", s, f.n - 1) \in before

InOrder(w) == \A i \in DOMAIN w : Follows(w[i], {w[j] : j \in 1 .. i - 1})

\* The server sends each stream in order, whether the stream was refused, shut down,
\* dropped or cut short by the client, and whether there was room for its SYNACK.
DownOrder == InOrder(downWire)

\* No stream is dispatched before its target (and UoT request) has arrived,
\* and no session without settings has streams.
DispatchAfterHeaders ==
    /\ \A s \in Streams : task[s] # "none" =>
          Cardinality({i \in 1 .. upPos : upWire[i] = MkFrame("Psh", s, Header)})
              = HeadersOf(s)
    /\ \A s \in Streams : inState[s] # "none" \/ task[s] # "none" =>
          upWire[1].cmd = "Settings"

\* The server keeps the protocol of a stream in both directions: frames leave in
\* order, queues keep their bounds, and the router sees a stream only with its headers.
StreamProtocol == InPeerTypeOK /\ DownOrder /\ DispatchAfterHeaders
=============================================================================
