---------------------------- MODULE TrojanTunnel ----------------------------
(***************************************************************************)
(* A Trojan connection from the outbound to the inbound: the outbound puts *)
(* its header in front of the first bytes the client writes                *)
(* (LazyHandshakeStream, over a stream that takes any part of a write),    *)
(* the inbound reads the header exactly, finds the user, and then relays   *)
(* bytes or cuts UDP packets out of a read-ahead buffer (UdpPacketReader). *)
(* The wire carries symbols: <<kind, number>>.                             *)
(***************************************************************************)
EXTENDS Naturals, Sequences, SequencesExt

CONSTANTS TjWrites,  \* commands with what the client writes: <<"tcp", bytes>> or
                     \* <<"udp", packets>>, a packet being [addr, data]
          TjUsers,   \* passwords the inbound knows
          TjPasswords,
          TjAhead    \* the most symbols one read gives

VARIABLES
    tjJob,   \* the client's command and writes
    tjPw,    \* the outbound's password
    tjHs,    \* LazyHandshakeStream::handshake, what is left of it
    tjBuf,   \* the writes that the stream has not taken yet
    tjWire,  \* symbols on the way
    tjIn,    \* the inbound: "hash", "request", "relay" or "dead", and its buffer
    tjGot    \* what the router received: bytes, or packets

tjVars == <<tjJob, tjPw, tjHs, tjBuf, tjWire, tjIn, tjGot>>

\* TargetAddr::write_to: an IPv4 address has a fixed length, a domain a length symbol.
TjAddr(a) ==
    IF a = 0 THEN <<<<"atyp", 1>>, <<"ip", 0>>, <<"port", 0>>>>
    ELSE <<<<"atyp", 3>>, <<"n", a>>>> \o [i \in 1..a |-> <<"c", i>>] \o <<<<"port", 0>>>>

\* TargetAddr::decode: the address at the front and its length; length 0: too early.
TjDecode(buf) ==
    LET dom == Len(buf) > 1 /\ buf[1] = <<"atyp", 3>>
        used == IF dom THEN 3 + buf[2][2] ELSE 3 IN
    IF buf = <<>> \/ Len(buf) < used \/ (buf[1] = <<"atyp", 3>> /\ ~dom) THEN [addr |-> 0, used |-> 0]
    ELSE [addr |-> IF dom THEN buf[2][2] ELSE 0, used |-> used]

TjCrlf == <<<<"crlf", 0>>>>

\* generate_handshake, for a target that is IPv4.
TjHeader(pw, cmd) ==
    <<<<"hash", pw>>>> \o TjCrlf \o <<<<"cmd", IF cmd = "udp" THEN 3 ELSE 1>>>> \o TjAddr(0) \o TjCrlf

\* TrojanUdpSocket::send_to: one write of the whole packet.
TjFrame(p) == TjAddr(p.addr) \o <<<<"len", Len(p.data)>>>> \o TjCrlf \o p.data

TjInit ==
    /\ tjJob \in TjWrites /\ tjPw \in TjPasswords
    /\ tjHs = TjHeader(tjPw, tjJob[1])
    /\ tjBuf = IF tjJob[1] = "udp" THEN [i \in DOMAIN tjJob[2] |-> TjFrame(tjJob[2][i])]
               ELSE [i \in DOMAIN tjJob[2] |-> <<tjJob[2][i]>>]
    /\ tjWire = <<>>
    /\ tjIn = [pc |-> "hash", buf |-> <<>>]
    /\ tjGot = <<>>

-----------------------------------------------------------------------------
(* The outbound *)

\* What is left of a write of which n symbols were taken.
TjTaken(n) ==
    IF n = Len(Head(tjBuf)) THEN Tail(tjBuf)
    ELSE [tjBuf EXCEPT ![1] = SubSeq(@, n + 1, Len(@))]

\* LazyHandshakeStream::poll_write: header and data in one vectored write, of which
\* the stream takes n symbols; while the header is not out, none of them is the
\* caller's.
TjWrite(n) ==
    /\ tjBuf # <<>> /\ tjIn.pc # "dead"
    /\ LET all == tjHs \o Head(tjBuf) IN
       /\ n <= Len(all)
       /\ tjWire' = tjWire \o SubSeq(all, 1, n)
       /\ tjHs' = SubSeq(tjHs, n + 1, Len(tjHs))
       /\ tjBuf' = IF n < Len(tjHs) THEN tjBuf ELSE TjTaken(n - Len(tjHs))
    /\ UNCHANGED <<tjJob, tjPw, tjIn, tjGot>>

-----------------------------------------------------------------------------
(* The inbound *)

\* The symbols that this part of the header has.
TjHeaderRead ==
    IF tjIn.pc = "hash" THEN Len(tjIn.buf) = 2
    ELSE /\ tjIn.buf # <<>>
         /\ LET a == TjDecode(Tail(tjIn.buf)) IN a.used > 0 /\ Len(tjIn.buf) = a.used + 2

\* read_exact of the header takes no symbol more than it needs.
TjReadExact ==
    /\ tjIn.pc \in {"hash", "request"} /\ tjWire # <<>> /\ ~TjHeaderRead
    /\ tjIn' = [tjIn EXCEPT !.buf = Append(@, Head(tjWire))]
    /\ tjWire' = Tail(tjWire)
    /\ UNCHANGED <<tjJob, tjPw, tjHs, tjBuf, tjGot>>

TjGo(pc) == tjIn' = [pc |-> pc, buf |-> <<>>] /\ UNCHANGED <<tjJob, tjPw, tjHs, tjBuf, tjWire, tjGot>>

\* handle_client: the hash and CRLF; an unknown password ends the connection ...
TjHash ==
    /\ tjIn.pc = "hash" /\ TjHeaderRead
    /\ TjGo(IF tjIn.buf[2] = TjCrlf[1] /\ tjIn.buf[1][2] \in TjUsers THEN "request" ELSE "dead")

\* ... then command, address and CRLF.
TjRequest ==
    /\ tjIn.pc = "request" /\ TjHeaderRead
    /\ TjGo(IF tjIn.buf[1] \in {<<"cmd", 1>>, <<"cmd", 3>>} /\ Last(tjIn.buf) = TjCrlf[1]
            THEN "relay" ELSE "dead")

\* run_with_timeout around the handshake.
TjTimeout ==
    /\ tjIn.pc \in {"hash", "request"}
    /\ TjGo("dead")

\* The stream is relayed as it comes.
TjRelay ==
    /\ tjIn.pc = "relay" /\ tjJob[1] = "tcp" /\ tjWire # <<>>
    /\ tjGot' = Append(tjGot, Head(tjWire)) /\ tjWire' = Tail(tjWire)
    /\ UNCHANGED <<tjJob, tjPw, tjHs, tjBuf, tjIn>>

\* Mutant: a packet that ends the buffer is not taken for whole.
TjPacketLate ==
    LET a == TjDecode(tjIn.buf)
        head == a.used + 2 IN
    IF a.used = 0 \/ Len(tjIn.buf) < head THEN [is |-> "more", need |-> Len(tjIn.buf) + 1]
    ELSE IF tjIn.buf[head] # TjCrlf[1] THEN [is |-> "bad"]
    ELSE LET len == tjIn.buf[head - 1][2] IN
         IF Len(tjIn.buf) <= head + len THEN [is |-> "more", need |-> head + len]
         ELSE [is |-> "whole", addr |-> a.addr, head |-> head, len |-> len]

\* What read_packet finds in the buffer: more to read, a malformed packet, or a whole one.
TjPacket ==
    LET a == TjDecode(tjIn.buf)
        head == a.used + 2 IN
    IF a.used = 0 \/ Len(tjIn.buf) < head THEN [is |-> "more", need |-> Len(tjIn.buf) + 1]
    ELSE IF tjIn.buf[head] # TjCrlf[1] THEN [is |-> "bad"]
    ELSE LET len == tjIn.buf[head - 1][2] IN
         IF Len(tjIn.buf) < head + len THEN [is |-> "more", need |-> head + len]
         ELSE [is |-> "whole", addr |-> a.addr, head |-> head, len |-> len]

\* read_ahead::fill: whatever the stream has ready, up to the free space.
TjFill(k) ==
    /\ tjIn.pc = "relay" /\ tjJob[1] = "udp" /\ TjPacket.is = "more"
    /\ k <= Len(tjWire)
    /\ tjIn' = [tjIn EXCEPT !.buf = @ \o SubSeq(tjWire, 1, k)]
    /\ tjWire' = SubSeq(tjWire, k + 1, Len(tjWire))
    /\ UNCHANGED <<tjJob, tjPw, tjHs, tjBuf, tjGot>>

\* A whole packet is cut out of the buffer, the rest stays.
TjCut ==
    /\ tjIn.pc = "relay" /\ tjJob[1] = "udp" /\ TjPacket.is = "whole"
    /\ tjGot' = Append(tjGot, [addr |-> TjPacket.addr,
                               data |-> SubSeq(tjIn.buf, TjPacket.head + 1, TjPacket.head + TjPacket.len)])
    /\ tjIn' = [tjIn EXCEPT !.buf = SubSeq(@, TjPacket.head + TjPacket.len + 1, Len(@))]
    /\ UNCHANGED <<tjJob, tjPw, tjHs, tjBuf, tjWire>>

TjWriteSome == \E n \in 1..TjAhead : TjWrite(n)
TjServe == TjReadExact \/ TjHash \/ TjRequest \/ TjRelay \/ (\E k \in 1..TjAhead : TjFill(k)) \/ TjCut

TjNext == TjWriteSome \/ TjServe \/ TjTimeout

-----------------------------------------------------------------------------
(* Properties *)

\* The router receives what the client wrote, from the first byte or packet on, in
\* order and whole, however the stream splits the writes and the reads, and no header
\* symbol reaches it (poll_write, read_packet).
TjWhole == IsPrefix(tjGot, tjJob[2])

\* A known user's connection loses nothing: all that was written arrives, unless the
\* handshake times out.
TjArrives == tjPw \in TjUsers ~> (tjIn.pc = "dead" \/ tjGot = tjJob[2])

\* The packets are never taken for malformed: the inbound cuts where the outbound
\* framed, whatever lies in the buffer.
TjNeverBad == ~(tjIn.pc = "relay" /\ tjJob[1] = "udp" /\ TjPacket.is = "bad")

\* What a known user writes arrives, whole and in order, and nothing else does.
TjDelivers == [](TjWhole /\ TjNeverBad) /\ TjArrives
=============================================================================
