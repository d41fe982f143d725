--------------------------- MODULE Hysteria2Wire ----------------------------
(***************************************************************************)
(* What a Hysteria2 outbound puts on its connection and takes from it. A   *)
(* TCP stream: the request goes out in front of the first write and the    *)
(* response is read off in front of the first read, over a stream that     *)
(* moves any part of what it is offered. UDP: packets cut into datagrams   *)
(* that are lost and reordered, and put together by a 16-bit random id.    *)
(***************************************************************************)
EXTENDS Naturals, Sequences, SequencesExt, FiniteSets, FiniteSetsExt

CONSTANTS
    HwRequest,    \* symbols of a TCPRequest
    HwUp, HwDown, \* what the client writes; what the server answers
    HwResponses,  \* TCPResponses: [ok, msg, pad], the lengths of message and padding
    HwMaxMessage, HwMaxPadding, \* MAX_TCP_RESPONSE_MESSAGE and _PADDING
    HwAhead,      \* the most symbols one read or write moves
    HwHeader, HwMax,  \* sizes of the header of a datagram and of a datagram
    HwPackets,    \* UDP packets: their lengths, by number
    HwIds,        \* packet ids
    HwMaxEntries, \* UDP_MAX_DEFRAG_ENTRIES
    HwMaxFragments, \* u8::MAX, the most fragments of a packet
    HwSizes       \* lengths for the check of the fragmentation

ASSUME HwAssumption ==
    /\ HwHeader \in Nat /\ HwMax \in Nat /\ HwMax > HwHeader /\ HwAhead \in Nat \ {0}
    /\ HwRequest \in Nat /\ HwUp \in Seq({HwUp[i] : i \in DOMAIN HwUp})
    /\ HwDown \in Seq({HwDown[i] : i \in DOMAIN HwDown})
    /\ \A r \in HwResponses : r.ok \in BOOLEAN /\ r.msg \in Nat /\ r.pad \in Nat
    /\ HwPackets \in Seq(Nat) /\ HwSizes \subseteq Nat /\ HwMaxFragments \in Nat
    /\ HwMaxMessage \in Nat /\ HwMaxPadding \in Nat

VARIABLES
    hwReq,    \* pending_request
    hwLeft,   \* what the client has still to write
    hwUp,     \* symbols the server has received
    hwAns,    \* the response the server gives, "none" before it does
    hwDn,     \* symbols on the way to the client
    hwStep,   \* ResponseReader: step and the length it waits for
    hwBuf,    \* ResponseReader::buf
    hwErr,    \* remote errors returned to the reader
    hwGot,    \* bytes handed to the reader
    hwSent,   \* UDP packets sent: number |-> id, 0 if not yet
    hwRecent, \* ids used since a timeout ago
    hwNet,    \* datagrams on the way: [pkt, id, n, of]
    hwDefrag, \* the worker's map: id |-> [of, parts, old]
    hwOut     \* packets put together, each as its sequence of <<packet, fragment>>

hwTcp == <<hwReq, hwLeft, hwUp, hwAns, hwDn, hwStep, hwBuf, hwErr, hwGot>>
hwUdp == <<hwSent, hwRecent, hwNet, hwDefrag, hwOut>>
hwVars == <<hwTcp, hwUdp>>

HwInit ==
    /\ hwReq = [i \in 1..HwRequest |-> <<"req", i>>]
    /\ hwLeft = HwUp /\ hwUp = <<>>
    /\ hwAns = "none" /\ hwDn = <<>>
    /\ hwStep = [at |-> "status", len |-> 0] /\ hwBuf = <<>> /\ hwErr = 0 /\ hwGot = <<>>
    /\ hwSent = [p \in DOMAIN HwPackets |-> 0]
    /\ hwRecent = {} /\ hwNet = {} /\ hwOut = {}
    /\ hwDefrag = [i \in {} |-> [of |-> 0, parts |-> <<>>, old |-> FALSE]]

-----------------------------------------------------------------------------
(* Hy2TcpStream *)

\* poll_write: request and data in one write, of which n symbols are taken; what goes
\* beyond the request is the caller's.  The caller offers any part of what it has left.
HwWrite(n) ==
    /\ hwLeft # <<>> /\ n <= Len(hwReq) + Len(hwLeft)
    /\ LET own == IF n > Len(hwReq) THEN n - Len(hwReq) ELSE 0 IN
       /\ hwUp' = hwUp \o SubSeq(hwReq \o hwLeft, 1, n)
       /\ hwReq' = SubSeq(hwReq, n + 1, Len(hwReq))
       /\ hwLeft' = SubSeq(hwLeft, own + 1, Len(hwLeft))
    /\ UNCHANGED <<hwAns, hwDn, hwStep, hwBuf, hwErr, hwGot, hwUdp>>

\* The server has the request, dials, and answers; then it relays.
HwAnswer(r) ==
    /\ hwAns = "none" /\ Len(hwUp) >= HwRequest
    /\ hwAns' = IF r.ok THEN "ok" ELSE "refused"
    /\ hwDn' = <<<<"status", IF r.ok THEN 0 ELSE 1>>, <<"len", r.msg>>>> \o [i \in 1..r.msg |-> <<"msg", i>>]
               \o <<<<"len", r.pad>>>> \o [i \in 1..r.pad |-> <<"pad", i>>]
               \o (IF r.ok THEN HwDown ELSE <<>>)
    /\ UNCHANGED <<hwReq, hwLeft, hwUp, hwStep, hwBuf, hwErr, hwGot, hwUdp>>

\* How many symbols the step needs (a length counts as one).
HwNeeds == IF hwStep.at \in {"msg", "pad"} THEN hwStep.len ELSE 1

\* A length beyond its limit is an error of this read and, being left in the buffer, of
\* every later one.
HwTooLong ==
    /\ Len(hwBuf) >= 1
    /\ \/ hwStep.at = "msglen" /\ hwBuf[1][2] > HwMaxMessage
       \/ hwStep.at = "padlen" /\ hwBuf[1][2] > HwMaxPadding

\* ResponseReader::parse_step, one step.
HwParse ==
    LET to(at, n) == hwStep' = [at |-> at, len |-> n] IN
    /\ Len(hwBuf) >= HwNeeds /\ ~HwTooLong
    /\ \/ hwStep.at = "status" /\ to("msglen", 0) /\ hwErr' = IF hwBuf[1][2] = 0 THEN hwErr ELSE 1
       \/ hwStep.at = "msglen" /\ to("msg", hwBuf[1][2]) /\ UNCHANGED hwErr
       \/ hwStep.at = "msg" /\ to("padlen", 0) /\ UNCHANGED hwErr
       \/ hwStep.at = "padlen" /\ to("pad", hwBuf[1][2]) /\ UNCHANGED hwErr
       \/ hwStep.at = "pad" /\ to("done", 0) /\ UNCHANGED hwErr
    /\ hwBuf' = SubSeq(hwBuf, HwNeeds + 1, Len(hwBuf))
    /\ UNCHANGED <<hwReq, hwLeft, hwUp, hwAns, hwDn, hwGot, hwUdp>>

\* poll_response pulls what the stream has while the frame is incomplete.  A stream that
\* ends inside it is an error of every read, which changes nothing.
HwPull(k) ==
    /\ hwStep.at # "done" /\ Len(hwBuf) < HwNeeds
    /\ k <= Len(hwDn)
    /\ hwBuf' = hwBuf \o SubSeq(hwDn, 1, k) /\ hwDn' = SubSeq(hwDn, k + 1, Len(hwDn))
    /\ UNCHANGED <<hwReq, hwLeft, hwUp, hwAns, hwStep, hwErr, hwGot, hwUdp>>

\* The response is read and there is no error to surface first.
HwServes == hwStep.at = "done" /\ hwErr # 1

\* A remote error is returned once: with the response read, or by the next read when
\* the stream had no more of it or the parser failed.
HwSurface ==
    /\ hwStep.at = "done" \/ Len(hwBuf) < HwNeeds \/ HwTooLong
    /\ hwErr = 1 /\ hwErr' = 2
    /\ UNCHANGED <<hwReq, hwLeft, hwUp, hwAns, hwDn, hwStep, hwBuf, hwGot, hwUdp>>

\* poll_read with room for k bytes: first what was read beyond the response, then, with
\* room left, the stream.
HwRead(k) ==
    LET over == Min({k, Len(hwBuf)}) IN
    /\ HwServes /\ k <= Len(hwBuf) + Len(hwDn)
    /\ hwGot' = hwGot \o SubSeq(hwBuf, 1, over) \o SubSeq(hwDn, 1, k - over)
    /\ hwBuf' = SubSeq(hwBuf, over + 1, Len(hwBuf))
    /\ hwDn' = SubSeq(hwDn, k - over + 1, Len(hwDn))
    /\ UNCHANGED <<hwReq, hwLeft, hwUp, hwAns, hwStep, hwErr, hwUdp>>

-----------------------------------------------------------------------------
(* UDP *)

\* fragment_udp_payload: the parts of a payload, each from one byte to another; datagrams
\* that do not hold more than the header get a byte each all the same.
HwFragments(len, max) ==
    LET per == IF max > HwHeader THEN max - HwHeader ELSE 1 IN
    IF len + HwHeader <= max THEN <<[from |-> 0, to |-> len]>>
    ELSE [i \in 1..((len + per - 1) \div per) |-> [from |-> (i - 1) * per, to |-> Min({i * per, len})]]

\* send_to: one random id for all fragments of a packet; one with too many is dropped.
\* Ids that two packets share within the timeout mix them up: that is left to chance,
\* 1 in 2^16.
HwSend(p, id) ==
    /\ hwSent[p] = 0 /\ id \notin hwRecent
    /\ LET of == Len(HwFragments(HwPackets[p], HwMax)) IN
       hwNet' = IF of > HwMaxFragments THEN hwNet
                ELSE hwNet \cup {[pkt |-> p, id |-> id, n |-> n, of |-> of] : n \in 1..of}
    /\ hwSent' = [hwSent EXCEPT ![p] = id] /\ hwRecent' = hwRecent \cup {id}
    /\ UNCHANGED <<hwTcp, hwDefrag, hwOut>>

\* The network, or a full queue (run_datagram_listener), drops a datagram.
HwLose(d) ==
    /\ d \in hwNet /\ hwNet' = hwNet \ {d}
    /\ UNCHANGED <<hwTcp, hwSent, hwRecent, hwDefrag, hwOut>>

\* A map that is full forgets what is past its timeout.
HwKept ==
    IF Cardinality(DOMAIN hwDefrag) < HwMaxEntries THEN DOMAIN hwDefrag
    ELSE {i \in DOMAIN hwDefrag : ~hwDefrag[i].old}

HwEmpty(d) == [of |-> d.of, parts |-> [i \in 1..d.of |-> 0], old |-> FALSE]

\* Mutant: an entry past its timeout is filled up.
HwEntryStale(d) == IF d.id \in HwKept THEN hwDefrag[d.id] ELSE HwEmpty(d)

\* The entry a fragment goes to: a new one, or one whose count agrees; one that is past
\* its timeout starts again.
HwEntry(d) ==
    IF d.id \notin HwKept \/ (hwDefrag[d.id].old /\ hwDefrag[d.id].of = d.of) THEN HwEmpty(d)
    ELSE hwDefrag[d.id]

HwPut(ids, i, v) == [j \in ids \cup {i} |-> IF j = i THEN v ELSE hwDefrag[j]]

\* process_udp_datagram: whole packets pass, a conflicting count is refused, a packet
\* that is complete leaves the map.
HwDatagram(d) ==
    /\ d \in hwNet /\ hwNet' = hwNet \ {d}
    /\ LET was == HwEntry(d)
           now == [was EXCEPT !.parts[d.n] = d.pkt]
           whole == \A i \in DOMAIN now.parts : now.parts[i] # 0 IN
       IF d.of = 1
       THEN hwOut' = hwOut \cup {<<<<d.pkt, 1>>>>} /\ UNCHANGED hwDefrag
       ELSE IF was.of # d.of
       THEN hwDefrag' = [i \in HwKept |-> hwDefrag[i]] /\ UNCHANGED hwOut
       ELSE IF whole
       THEN /\ hwOut' = hwOut \cup {[i \in DOMAIN now.parts |-> <<now.parts[i], i>>]}
            /\ hwDefrag' = [i \in HwKept \ {d.id} |-> hwDefrag[i]]
       ELSE hwDefrag' = HwPut(HwKept, d.id, now) /\ UNCHANGED hwOut
    /\ UNCHANGED <<hwTcp, hwSent, hwRecent>>

\* UDP_FRAGMENT_TIMEOUT passes; nothing stays in the network that long.
HwTick ==
    /\ hwNet = {} /\ hwRecent # {}
    /\ hwRecent' = {}
    /\ hwDefrag' = [i \in DOMAIN hwDefrag |-> [hwDefrag[i] EXCEPT !.old = TRUE]]
    /\ UNCHANGED <<hwTcp, hwSent, hwNet, hwOut>>

HwStream ==
    \/ \E n \in 1..HwAhead : HwWrite(n) \/ HwPull(n) \/ HwRead(n)
    \/ \E r \in HwResponses : HwAnswer(r)
    \/ HwParse \/ HwSurface

HwDatagrams ==
    \/ \E p \in DOMAIN HwPackets, id \in HwIds : HwSend(p, id)
    \/ \E d \in hwNet : HwLose(d) \/ HwDatagram(d)
    \/ HwTick

-----------------------------------------------------------------------------
(* Properties *)

\* The server reads the request and then what the client wrote, whole and in order,
\* however the stream splits the first write (poll_write).
HwWritten == IsPrefix(hwUp, [i \in 1..HwRequest |-> <<"req", i>>] \o HwUp)

\* No symbol of the response reaches the reader and none of the payload is lost,
\* however much the parser reads ahead (poll_response, poll_read); of a refused
\* connection the reader gets the error and no data.
HwReads == IsPrefix(hwGot, HwDown) /\ (hwAns = "refused" => hwGot = <<>>)

\* Every packet handed on is one that was sent: fragments of different packets are
\* never put together, whatever is lost or overtaken and however stale a half of an
\* earlier packet with the same id is (process_udp_datagram).
HwOnePacket == \A o \in hwOut : \A i, j \in DOMAIN o : o[i][1] = o[j][1]

\* The fragments of a payload follow one another from its first byte to its last, none
\* of them empty, and fit into datagrams that hold more than the header
\* (fragment_udp_payload).
HwSplits ==
    \A len \in HwSizes, max \in HwHeader + 1..HwMax :
        LET f == HwFragments(len, max) IN
        /\ f[1].from = 0 /\ f[Len(f)].to = len
        /\ \A i \in DOMAIN f :
             /\ i > 1 => f[i].from = f[i - 1].to
             /\ f[i].to - f[i].from + HwHeader <= max /\ (len > 0 => f[i].from < f[i].to)

\* What goes through a Hysteria2 stream or its datagrams comes out as it was sent.
HwFaithful == HwWritten /\ HwReads /\ HwOnePacket /\ HwSplits
=============================================================================
