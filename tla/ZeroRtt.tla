------------------------------ MODULE ZeroRtt ------------------------------
(***************************************************************************)
(* ZeroRttStream: a stream on a connection whose 0-RTT the server has not  *)
(* answered yet.  It keeps what is written; if early data is rejected, a   *)
(* new stream is opened, on a new connection, and the same bytes are       *)
(* written again.  The new stream may be such a stream itself, so streams  *)
(* nest: the innermost one (the current attempt) is on the wire, and what  *)
(* the outer ones still have to replay into it is the backlog.             *)
(*                                                                         *)
(* Items are numbered: 1, 2, 3 ... in the order the caller hands them over.*)
(* The last one may be the shutdown, and nothing is written after it.      *)
(***************************************************************************)
EXTENDS Naturals, Sequences

CONSTANTS
    ZERO_RTT_REPLAY_LIMIT,  \* items a stream keeps; more must wait for the verdict
    MaxItems,               \* bound: items the caller hands over
    MaxAttempts             \* bound: streams opened

ASSUME ZeroRttAssumption ==
    /\ ZERO_RTT_REPLAY_LIMIT \in Nat \ {0}
    /\ MaxItems \in Nat
    /\ MaxAttempts \in Nat \ {0}

VARIABLES
    written,    \* items the caller has been told are written
    shutdown,   \* the last of them is the shutdown
    phase,      \* of the current attempt: "Early", "Connecting" or "Settled"
    attempt,    \* which one it is
    fate,       \* what the server did with its early data
    verdict,    \* what zero_rtt_verdict has told this end of it
    sent,       \* items the current attempt keeps
    backlog,    \* items to replay into it before the caller goes on
    wire,       \* items on its QUIC stream that the server has not processed
    received,   \* items the server has processed of it
    doubt,      \* its connection failed before its handshake ended (history)
    failed      \* an error has been reported to the caller

zrVars == <<written, shutdown, phase, attempt, fate, verdict, sent, backlog, wire,
          received, doubt, failed>>

\* The state keeps its types, and a stream never keeps more than
\* ZERO_RTT_REPLAY_LIMIT items and a shutdown to replay.
ZrTypeOK ==
    /\ written \in 0 .. MaxItems
    /\ shutdown \in BOOLEAN
    /\ phase \in {"Early", "Connecting", "Settled"}
    /\ attempt \in 1 .. MaxAttempts
    /\ fate \in {"pending", "accepted", "rejected"}
    /\ verdict \in {"none", "accepted", "rejected"}
    /\ sent \in Seq(1 .. MaxItems) /\ Len(sent) <= ZERO_RTT_REPLAY_LIMIT + 1
    /\ backlog \in Seq(1 .. MaxItems)
    /\ wire \in Seq(1 .. MaxItems)
    /\ received \in Seq(1 .. MaxItems)
    /\ doubt \in BOOLEAN
    /\ failed \in BOOLEAN

ZrInit ==
    /\ written = 0
    /\ shutdown = FALSE
    /\ phase = "Early"
    /\ attempt = 1
    /\ fate = "pending"
    /\ verdict = "none"
    /\ sent = <<>> /\ backlog = <<>> /\ wire = <<>> /\ received = <<>>
    /\ doubt = FALSE
    /\ failed = FALSE

\* Writing to the QUIC stream of the current attempt; an early one keeps a copy.
Put(item) ==
    /\ wire' = Append(wire, item)
    /\ sent' = IF phase = "Early" THEN Append(sent, item) ELSE sent

\* The early phase is not over as far as this end knows, or is over for good.
CanPut == (phase = "Early" /\ verdict = "none") \/ phase = "Settled"

\* poll_write.  In the early phase it waits rather than keep more than the limit.
PollWrite ==
    /\ ~failed /\ ~shutdown /\ backlog = <<>>
    /\ CanPut
    /\ phase = "Early" => Len(sent) < ZERO_RTT_REPLAY_LIMIT
    /\ written < MaxItems
    /\ written' = written + 1
    /\ Put(written + 1)
    /\ UNCHANGED <<shutdown, phase, attempt, fate, verdict, backlog, received, failed, doubt>>

\* poll_shutdown; the flag is replayed like an item.
PollShutdown ==
    /\ ~failed /\ ~shutdown /\ backlog = <<>>
    /\ CanPut
    /\ written < MaxItems
    /\ written' = written + 1
    /\ shutdown' = TRUE
    /\ Put(written + 1)
    /\ UNCHANGED <<phase, attempt, fate, verdict, backlog, received, failed, doubt>>

\* The server takes or discards the early data of the attempt.
ServerDecides ==
    /\ phase = "Early" /\ fate = "pending"
    /\ fate' \in {"accepted", "rejected"}
    /\ UNCHANGED <<written, shutdown, phase, attempt, verdict, sent, backlog, wire,
                   received, failed, doubt>>

ServerReads ==
    /\ wire # <<>> /\ fate = "accepted"
    /\ received' = Append(received, Head(wire))
    /\ wire' = Tail(wire)
    /\ UNCHANGED <<written, shutdown, phase, attempt, fate, verdict, sent, backlog, failed,
                   doubt>>

\* The handshake's outcome arrives.
VerdictArrives ==
    /\ phase = "Early" /\ fate # "pending" /\ verdict = "none"
    /\ verdict' = fate
    /\ UNCHANGED <<written, shutdown, phase, attempt, fate, sent, backlog, wire, received,
                   failed, doubt>>

\* The connection fails before its handshake has ended: zero_rtt_verdict cannot
\* know what the server did with the early data and answers false.
HandshakeFailed ==
    /\ phase = "Early" /\ verdict = "none"
    /\ verdict' = "rejected"
    /\ doubt' = TRUE
    /\ UNCHANGED <<written, shutdown, phase, attempt, fate, sent, backlog, wire, received,
                   failed>>

\* Mutant: the stream settles without looking at the verdict.
ResolveSettles ==
    /\ phase = "Early" /\ verdict # "none"
    /\ sent' = <<>>
    /\ phase' = "Settled"
    /\ UNCHANGED <<written, shutdown, attempt, fate, verdict, backlog, wire, received,
                   failed, doubt>>

\* resolve, from any poll of the stream: the copies go, or they are replayed
\* before whatever an outer stream was replaying into this one.
Resolve ==
    /\ phase = "Early" /\ verdict # "none"
    /\ sent' = <<>>
    /\ IF verdict = "accepted"
       THEN phase' = "Settled" /\ UNCHANGED <<backlog, wire>>
       ELSE /\ phase' = "Connecting"
            /\ backlog' = sent \o backlog
            /\ wire' = <<>>
    /\ UNCHANGED <<written, shutdown, attempt, fate, verdict, received, failed, doubt>>

\* Mutant: a stream that needs no verdict is not replayed to.
ConnectForgets ==
    /\ phase = "Connecting" /\ ~failed /\ attempt < MaxAttempts
    /\ attempt' = attempt + 1
    /\ received' = <<>>
    /\ doubt' = FALSE
    /\ \/ /\ phase' = "Early" /\ fate' = "pending" /\ verdict' = "none"
          /\ UNCHANGED backlog
       \/ /\ phase' = "Settled" /\ fate' = "accepted" /\ verdict' = "accepted"
          /\ backlog' = <<>>
    /\ UNCHANGED <<written, shutdown, sent, wire, failed>>

\* connect_stream_base opens the next attempt, early again or not.
Connect ==
    /\ phase = "Connecting" /\ ~failed /\ attempt < MaxAttempts
    /\ attempt' = attempt + 1
    /\ received' = <<>>
    /\ doubt' = FALSE
    /\ \/ phase' = "Early" /\ fate' = "pending" /\ verdict' = "none"
       \/ phase' = "Settled" /\ fate' = "accepted" /\ verdict' = "accepted"
    /\ UNCHANGED <<written, shutdown, sent, backlog, wire, failed>>

\* stream.write_all(&sent), then shutdown or flush.
Replay ==
    /\ backlog # <<>> /\ ~failed
    /\ CanPut
    /\ backlog' = Tail(backlog)
    /\ Put(Head(backlog))
    /\ UNCHANGED <<written, shutdown, phase, attempt, fate, verdict, received, failed, doubt>>

\* An error outside the early phase reaches the caller: the connection or the
\* replay has failed, and the stream that is left belongs to a closed connection.
Breaks ==
    /\ phase # "Early" /\ ~failed
    /\ failed' = TRUE
    /\ UNCHANGED <<written, shutdown, phase, attempt, fate, verdict, sent, backlog, wire,
                   received, doubt>>

\* Nothing more happens to a stream that is shut down or has failed.
Over ==
    /\ failed \/ (written = MaxItems /\ received = [i \in 1 .. MaxItems |-> i])
    /\ UNCHANGED zrVars

ZrNext ==
    \/ PollWrite \/ PollShutdown \/ Resolve \/ Connect \/ Replay
    \/ ServerDecides \/ ServerReads \/ VerdictArrives \/ HandshakeFailed
    \/ Breaks
    \/ Over

ZrSpec == ZrInit /\ [][ZrNext]_zrVars

-----------------------------------------------------------------------------
(* Properties *)

Plain == INSTANCE ByteStream

\* The caller does not notice the replay: on each connection the server receives
\* each item once and in order, as on a plain stream, and it starts over only
\* after a connection failed before its handshake ended.
LooksLikePlainStream == Plain!BSSpec

\* An early stream has a copy of all it has written, so that a rejection at any
\* point, of a nested attempt too, loses nothing.
KeepsWhatItSent ==
    phase = "Early" => sent \o backlog = [i \in 1 .. written |-> i]

\* Everything written arrives, in one attempt, or the caller is told of a failure.
ArrivesOrFails ==
    \A k \in 1 .. MaxItems : written >= k ~> failed \/ Len(received) >= k

\* A stream keeps what it may have to replay, within its limit, and everything written
\* arrives or the caller is told.
ZrDelivers == [](ZrTypeOK /\ KeepsWhatItSent) /\ ArrivesOrFails
=============================================================================
