----------------------------- MODULE RouterUdp -----------------------------
(***************************************************************************)
(* UDP sessions of the router: start_udp_loop receives the datagrams of an *)
(* inbound association, keeps one session per flow in a map of bounded     *)
(* queues, and every session task (dispatch_packet) forwards both ways     *)
(* until it is idle, fails, is closed or the association is reset.  The    *)
(* DNS outbound, whose packets are answered by spawned queries and whose   *)
(* first answer closes the session, is one of the outbounds.               *)
(***************************************************************************)
EXTENDS Naturals, Sequences, FiniteSets

CONSTANTS RuKeys,     \* flows: (source, target)
          RuDns,      \* the flows that the rules send to the DNS outbound
          RuCap,      \* UDP_SESSION_QUEUE_CAPACITY
          RuMaxIn,    \* bound: datagrams from the client
          RuMaxSess,  \* bound: sessions opened
          RuMaxBack   \* bound: datagrams from the remote, per session

ASSUME RuAssumption == RuDns \subseteq RuKeys /\ {RuCap, RuMaxIn, RuMaxSess, RuMaxBack} \subseteq Nat

VARIABLES
    ruIn,     \* datagrams received so far; a datagram is its number
    ruLoop,   \* the receive loop: receiving, in tx.send of a datagram, or cancelled
    ruMap,    \* `sessions`: the session whose sender the map has for a flow, or 0
    ruS,      \* the sessions in the order they were opened
    ruActive, \* active_udp of the inbound (and of the outbound and the user)
    ruSent    \* the last datagram of each flow that the outbound was given

ruVars == <<ruIn, ruLoop, ruMap, ruS, ruActive, ruSent>>

RuIdleLoop == [pc |-> "recv", key |-> "none", pkt |-> 0, sid |-> 0]

RuInit ==
    /\ ruIn = 0 /\ ruLoop = RuIdleLoop
    /\ ruMap = [k \in RuKeys |-> 0]
    /\ ruS = <<>> /\ ruActive = 0
    /\ ruSent = [k \in RuKeys |-> 0]

RuIds == DOMAIN ruS

\* The receiver lives in the UdpHandler, which dispatch_packet drops.
RuOpen(s) == ruS[s].pc \in {"connect", "first", "run"}

\* A session: its queue, the batch it is sending, queries at work and answers ready
\* (DNS only), an answer being sent to the client, how it has been told to stop.
RuSession(k, p) ==
    [key |-> k, pc |-> "connect", q |-> <<p>>, hold |-> <<>>, asks |-> 0, ready |-> 0,
     back |-> FALSE, got |-> 0, closed |-> FALSE, reset |-> FALSE]

\* A new channel replaces whatever the map has, and the session task is spawned.
RuSpawn(k, p) ==
    /\ Len(ruS) < RuMaxSess
    /\ ruS' = Append(ruS, RuSession(k, p))
    /\ ruMap' = [ruMap EXCEPT ![k] = Len(ruS) + 1]
    /\ ruLoop' = RuIdleLoop

RuRecv(k) ==
    /\ ruLoop.pc = "recv" /\ ruIn < RuMaxIn
    /\ ruIn' = ruIn + 1
    /\ IF ruMap[k] = 0
       THEN RuSpawn(k, ruIn + 1)
       ELSE /\ ruLoop' = [pc |-> "send", key |-> k, pkt |-> ruIn + 1, sid |-> ruMap[k]]
            /\ UNCHANGED <<ruMap, ruS>>
    /\ UNCHANGED <<ruActive, ruSent>>

\* The first datagram is not in the queue: it is the task's own.
RuRoom(s) == Len(ruS[s].q) < RuCap + (IF ruS[s].pc \in {"connect", "first"} THEN 1 ELSE 0)

RuQueue ==
    /\ RuOpen(ruLoop.sid) /\ RuRoom(ruLoop.sid)
    /\ ruS' = [ruS EXCEPT ![ruLoop.sid].q = Append(@, ruLoop.pkt)]
    /\ ruLoop' = RuIdleLoop
    /\ UNCHANGED ruMap

\* Mutant: a datagram that comes back from a closed session is offered to it again.
RuSendRetries ==
    /\ ruLoop.pc = "send" /\ RuQueue
    /\ UNCHANGED <<ruIn, ruActive, ruSent>>

\* send_to_existing_udp_session waits for room; from a closed session the datagram
\* comes back and opens the next one.
RuSend ==
    /\ ruLoop.pc = "send"
    /\ \/ RuQueue
       \/ ~RuOpen(ruLoop.sid) /\ RuSpawn(ruLoop.key, ruLoop.pkt)
    /\ UNCHANGED <<ruIn, ruActive, ruSent>>

\* dispatch_packet returns: closers closed, handler and ObservedPacket dropped.
RuEnded(s) == [RuSession(ruS[s].key, 0) EXCEPT !.pc = "drop", !.q = <<>>, !.closed = TRUE]

RuEnd(s) ==
    /\ ruS' = [ruS EXCEPT ![s] = RuEnded(s)]
    /\ ruActive' = ruActive - (IF ruS[s].pc = "connect" THEN 0 ELSE 1)

\* _dispatch_packet: rules, connect_packet, then the counters and the wrapper.
RuConnect(s) ==
    /\ ruS[s].pc = "connect"
    /\ \/ ruS' = [ruS EXCEPT ![s].pc = "first"] /\ ruActive' = ruActive + 1
       \/ RuEnd(s)
    /\ UNCHANGED <<ruIn, ruLoop, ruMap, ruSent>>

\* The outbound takes datagram p of session s (r is the session otherwise updated);
\* the DNS outbound spawns a query for it.
RuGives(s, p, r) ==
    /\ ruS' = [ruS EXCEPT ![s] = [r EXCEPT !.asks = @ + (IF r.key \in RuDns THEN 1 ELSE 0)]]
    /\ ruSent' = [ruSent EXCEPT ![ruS[s].key] = p]

\* The first datagram goes out before either direction is forwarded; an error
\* returns early.
RuFirst(s) ==
    /\ ruS[s].pc = "first"
    /\ \/ /\ RuGives(s, Head(ruS[s].q), [ruS[s] EXCEPT !.pc = "run", !.q = Tail(@)])
          /\ UNCHANGED ruActive
       \/ RuEnd(s) /\ UNCHANGED ruSent
    /\ UNCHANGED <<ruIn, ruLoop, ruMap>>

\* forward_udp_inbound_once: recv_many drains the queue ...
RuTake(s) ==
    /\ ruS[s].pc = "run" /\ ruS[s].hold = <<>> /\ ruS[s].q # <<>>
    /\ ruS' = [ruS EXCEPT ![s].hold = ruS[s].q, ![s].q = <<>>]
    /\ UNCHANGED <<ruIn, ruLoop, ruMap, ruActive, ruSent>>

\* ... and sends one after the other; an error ends the session.
RuForward(s) ==
    /\ ruS[s].pc = "run" /\ ruS[s].hold # <<>>
    /\ \/ /\ RuGives(s, Head(ruS[s].hold), [ruS[s] EXCEPT !.hold = Tail(@)])
          /\ UNCHANGED ruActive
       \/ RuEnd(s) /\ UNCHANGED ruSent
    /\ UNCHANGED <<ruIn, ruLoop, ruMap>>

\* A query of the DNS outbound ends: its answer goes into the channel of one, or its
\* failure closes the session.
RuAnswer(s) ==
    /\ RuOpen(s) /\ ruS[s].asks > 0
    /\ \/ /\ ruS[s].ready = 0
          /\ ruS' = [ruS EXCEPT ![s].asks = @ - 1, ![s].ready = 1]
       \/ ruS' = [ruS EXCEPT ![s].asks = @ - 1, ![s].closed = TRUE]
    /\ UNCHANGED <<ruIn, ruLoop, ruMap, ruActive, ruSent>>

\* forward_udp_outbound_once: a datagram of the remote; the first answer of the DNS
\* outbound closes the session before it is sent on.
RuBack(s) ==
    /\ ruS[s].pc = "run" /\ ~ruS[s].back /\ ruS[s].got < RuMaxBack
    /\ IF ruS[s].key \in RuDns
       THEN /\ ruS[s].ready > 0
            /\ ruS' = [ruS EXCEPT ![s].ready = 0, ![s].back = TRUE, ![s].got = @ + 1, ![s].closed = TRUE]
       ELSE ruS' = [ruS EXCEPT ![s].back = TRUE, ![s].got = @ + 1]
    /\ UNCHANGED <<ruIn, ruLoop, ruMap, ruActive, ruSent>>

RuDeliver(s) ==
    /\ ruS[s].pc = "run" /\ ruS[s].back
    /\ \/ ruS' = [ruS EXCEPT ![s].back = FALSE] /\ UNCHANGED ruActive
       \/ RuEnd(s)
    /\ UNCHANGED <<ruIn, ruLoop, ruMap, ruSent>>

\* The idle check finds no completed forward for the whole timeout, one that hangs
\* included; or receiving fails.
RuIdle(s) ==
    /\ ruS[s].pc = "run" /\ RuEnd(s)
    /\ UNCHANGED <<ruIn, ruLoop, ruMap, ruSent>>

\* The outbound's closer or the reset is seen, also in the middle of a forward.
RuStop(s) ==
    /\ ruS[s].pc = "run" /\ (ruS[s].closed \/ ruS[s].reset) /\ RuEnd(s)
    /\ UNCHANGED <<ruIn, ruLoop, ruMap, ruSent>>

\* Then the task removes the flow's entry, unless a newer session has it.
RuForget(s) ==
    /\ ruS[s].pc = "drop"
    /\ ruS' = [ruS EXCEPT ![s].pc = "gone"]
    /\ ruMap' = [ruMap EXCEPT ![ruS[s].key] = IF @ # 0 /\ ~RuOpen(@) THEN 0 ELSE @]
    /\ UNCHANGED <<ruIn, ruLoop, ruActive, ruSent>>

\* The association ends: the sessions that have reached their loop are notified, and
\* the receive loop is dropped where it stands.
RuReset ==
    /\ ruLoop.pc # "over"
    /\ ruLoop' = [RuIdleLoop EXCEPT !.pc = "over"]
    /\ ruS' = [s \in RuIds |-> [ruS[s] EXCEPT !.reset = @ \/ ruS[s].pc = "run"]]
    /\ UNCHANGED <<ruIn, ruMap, ruActive, ruSent>>

\* A step of session s that its task, the outbound or the idle timer owes it.
RuTask(s) ==
    \/ RuConnect(s) \/ RuFirst(s) \/ RuTake(s) \/ RuForward(s) \/ RuDeliver(s) \/ RuStop(s)
    \/ RuForget(s)

RuNext ==
    \/ \E k \in RuKeys : RuRecv(k)
    \/ RuSend \/ RuReset
    \/ \E s \in RuIds : RuTask(s) \/ RuAnswer(s) \/ RuBack(s) \/ RuIdle(s)

-----------------------------------------------------------------------------
(* Properties *)

\* While the loop runs, an open session is the one the map gives for its flow: no
\* flow has two, and none is cut off from its datagrams by the task of an older one
\* (remove_if in start_udp_loop and in send_to_existing_udp_session).
RuFound ==
    \A s \in RuIds : RuOpen(s) => ruMap[ruS[s].key] = s

\* The active counters return to where they were, on the early return too: they
\* count the sessions that have an ObservedPacket.
RuCounts == ruActive = Cardinality({s \in RuIds : ruS[s].pc \in {"first", "run"}})

\* The outbound is given the datagrams of a flow in the order they came, across the
\* queue, the first datagram and a session that is opened again.
RuInOrder == [][\A k \in RuKeys : ruSent'[k] >= ruSent[k]]_ruVars

\* A session that does not take its datagrams holds the loop, and with it every
\* other flow, only for a time: there is room, or the session ends and its receiver
\* with it.
RuLoopMoves == (ruLoop.pc = "send") ~> (ruLoop.pc # "send" \/ Len(ruS) = RuMaxSess)

\* The sessions of an inbound's UDP loop: each flow finds its own, they are counted
\* and kept in order, and the loop is not held up for ever.
RuSessionsSound == [](RuFound /\ RuCounts) /\ RuInOrder /\ RuLoopMoves
=============================================================================
