---------------------------- MODULE VmessTunnel -----------------------------
(***************************************************************************)
(* A VMess connection from the outbound (VmessStream) to the inbound       *)
(* (VmessServerStream): the sealed request, the response header, and in    *)
(* both directions chunks of a length, the encrypted data and a tag, over  *)
(* a stream that takes and gives any part of what it is offered. A UDP     *)
(* session carries one datagram per chunk, and its inbound end is one      *)
(* stream behind one mutex. The wire carries symbols: <<kind, content>>.   *)
(***************************************************************************)
EXTENDS Naturals, Sequences, SequencesExt, FiniteSetsExt

CONSTANTS VmJobs,    \* [cmd, dst, up, down]: the bytes or datagrams written each way
          VmIds, VmUsers,      \* uuids a client may have, uuids the inbound knows
          VmTags,    \* overheads of the securities: 0 ("none") or 1
          VmPadding, \* padding lengths of the request
          VmChunk,   \* CHUNK_SIZE
          VmNonces,  \* values of the 16-bit nonce counter
          VmAhead    \* the most symbols one read or write moves

VARIABLES
    vmJob, vmId, vmTag,
    vmOut,   \* per direction, the writer: writes left, write_buf, bytes it will consume, counter
    vmWire,  \* per direction, symbols on the way and whether it ends behind them
    vmIn,    \* per direction, the reader: state, read_buf, chunk, counter
    vmGot,   \* per direction, what the reader handed out
    vmSrv,   \* the inbound's task: "accept", "relay" or "dead"
    vmDst,   \* the target the inbound decoded
    vmLock   \* VmessInboundPacket::stream: "free", "recv" or "send"

\* COMMAND_TCP carries bytes, COMMAND_UDP datagrams that are not empty (recv_from takes
\* an empty one for the end) and fit in a chunk (of a longer one the outbound's
\* poll_flush sends a part and fails, and send_to makes two datagrams).
ASSUME VmAssumption ==
    /\ VmChunk \in Nat /\ VmChunk > 1 /\ VmNonces \in Nat /\ VmNonces > 0 /\ VmAhead \in Nat
    /\ VmTags \subseteq {0, 1} /\ VmPadding \subseteq Nat
    /\ \A job \in VmJobs :
         /\ job.cmd \in {1, 2} /\ job.dst \in 0..255
         /\ \A d \in {"up", "down"} :
              IF job.cmd = 1 THEN job[d] \in Seq(Nat)
              ELSE /\ job[d] \in Seq(Seq(Nat))
                   /\ \A i \in 1..Len(job[d]) : Len(job[d][i]) \in 1..VmChunk - 1

vmVars == <<vmJob, vmId, vmTag, vmOut, vmWire, vmIn, vmGot, vmSrv, vmDst, vmLock>>

VmDirs == {"up", "down"}
VmNoTarget == 256     \* no domain is that long
VmUdp == vmJob.cmd = 2

\* write_to_buf_vmess, an IPv4 address (dst 0) or a domain of dst bytes.
VmAddr(dst) == <<443>> \o IF dst = 0 THEN <<1, 9, 9, 9, 9>> ELSE <<2, dst>> \o [i \in 1..dst |-> 7]

\* send_handshake_request: key material, command, address, padding and checksum.
VmRequest(job, pad) ==
    <<pad, job.cmd>> \o VmAddr(job.dst) \o [i \in 1..pad |-> 5] \o <<0, 0, 0, 0>>

\* parse_request and read_vmess_addr: everything up to padding and checksum.
VmParse(h) ==
    LET end == Len(h) - 4 - h[1]
        a == SubSeq(h, 3, end) IN
    IF Len(a) < 2 THEN VmNoTarget
    ELSE IF a[2] = 1 THEN IF Len(a) < 6 THEN VmNoTarget ELSE 0
    ELSE IF Len(a) < 3 \/ Len(a) < 3 + a[3] THEN VmNoTarget ELSE a[3]

\* send_response_header: the sealed length and the sealed header.
VmHeader == <<<<"size", 4>>, <<"response", "v">>>>

VmReader(st) == [st |-> st, buf |-> <<>>, size |-> 0, chunk |-> <<>>, count |-> 0]

\* VmessStream::new: the request is on the wire before the stream is used.
VmInit ==
    /\ vmJob \in VmJobs /\ vmId \in VmIds /\ vmTag \in VmTags
    /\ vmOut = [d \in VmDirs |-> [todo |-> vmJob[d], buf |-> <<>>, take |-> 0, count |-> 0]]
    /\ \E pad \in VmPadding :
         vmWire = [d \in VmDirs |-> [eof |-> FALSE, syms |->
             IF d = "up" THEN <<<<"auth", vmId>>, <<"request", VmRequest(vmJob, pad)>>>> ELSE <<>>]]
    /\ vmIn = [d \in VmDirs |-> VmReader(IF d = "up" THEN "prefix" ELSE "size")]
    /\ vmGot = [d \in VmDirs |-> <<>>]
    /\ vmSrv = "accept" /\ vmDst = VmNoTarget /\ vmLock = "free"

-----------------------------------------------------------------------------
(* Writing *)

\* BuildingData: a datagram, or as much of the k bytes offered as a chunk holds, sealed
\* with the next nonce.
VmBuilt(o, k) ==
    LET data == IF VmUdp THEN Head(o.todo) ELSE SubSeq(o.todo, 1, k)
        take == Min({Len(data), VmChunk - vmTag}) IN
    [o EXCEPT !.take = take, !.count = (@ + 1) % VmNonces,
              !.buf = <<<<"len", take + vmTag>>>> \o [i \in 1..take |-> <<"byte", data[i]>>]
                      \o IF vmTag = 1 THEN <<<<"tag", <<o.count, take>>>>>> ELSE <<>>]

\* Mutant: what the stream did not take at once is dropped.
VmFlushedAtOnce(o, n) ==
    [o EXCEPT !.buf = <<>>, !.todo = IF VmUdp THEN Tail(@) ELSE SubSeq(@, o.take + 1, Len(@))]

\* The stream takes n symbols of the chunk; what it holds counts as written when it is out.
VmFlushed(o, n) ==
    [o EXCEPT !.buf = SubSeq(@, n + 1, Len(@)),
              !.todo = IF n < Len(o.buf) THEN @
                       ELSE IF VmUdp THEN Tail(@) ELSE SubSeq(@, o.take + 1, Len(@))]

\* poll_write: builds a chunk unless one is being flushed, and flushes it.
VmPollWrite(d, n) ==
    /\ vmOut[d].todo # <<>>
    /\ \E k \in 1..Len(vmOut[d].todo) :
         LET o == IF vmOut[d].buf = <<>> THEN VmBuilt(vmOut[d], k) ELSE vmOut[d] IN
         /\ n <= Len(o.buf)
         /\ vmWire' = [vmWire EXCEPT ![d].syms = @ \o SubSeq(o.buf, 1, n)]
         /\ vmOut' = [vmOut EXCEPT ![d] = VmFlushed(o, n)]
    /\ UNCHANGED <<vmJob, vmId, vmTag, vmIn, vmGot, vmSrv, vmDst>>

\* The outbound's end, a stream or OutboundDatagramVmess.
VmClientWrite(n) == vmSrv # "dead" /\ VmPollWrite("up", n) /\ UNCHANGED vmLock

\* A UDP session has an answer for the client once it has the datagram it answers.
VmReplyWaits ==
    /\ VmUdp /\ vmSrv = "relay" /\ vmOut["down"].todo # <<>>
    /\ Len(vmJob.down) - Len(vmOut["down"].todo) < Len(vmGot["up"])

\* forward_udp_outbound_once: VmessInboundPacket::send_to locks the stream ...
VmLockSend == VmReplyWaits /\ vmLock = "free" /\ vmLock' = "send"
              /\ UNCHANGED <<vmJob, vmId, vmTag, vmOut, vmWire, vmIn, vmGot, vmSrv, vmDst>>

\* ... and writes the datagram; the inbound's end of a stream writes as it is driven.
VmServerWrite(n) ==
    /\ vmSrv = "relay" /\ (VmUdp => vmLock = "send")
    /\ VmPollWrite("down", n)
    /\ vmLock' = IF VmUdp /\ Len(vmOut'["down"].todo) < Len(vmOut["down"].todo) THEN "free" ELSE vmLock

\* poll_shutdown, when the copy has written everything.
VmShutdown(d) ==
    /\ ~VmUdp /\ vmSrv # "dead" /\ (d = "down" => vmSrv = "relay")
    /\ vmOut[d].todo = <<>> /\ ~vmWire[d].eof
    /\ vmWire' = [vmWire EXCEPT ![d].eof = TRUE]
    /\ UNCHANGED <<vmJob, vmId, vmTag, vmOut, vmIn, vmGot, vmSrv, vmDst, vmLock>>

-----------------------------------------------------------------------------
(* Reading *)

\* How many symbols the reader's state needs (a length counts as one).
VmNeed(r) == IF r.st = "data" THEN r.size ELSE 1

\* The reader runs: a task of the inbound, which holds the lock in a UDP session.
VmReads(d) == d = "up" => vmSrv # "dead" /\ (VmUdp /\ vmSrv = "relay" => vmLock = "recv")

\* poll_fill: whatever the stream has; read_exact in accept takes only what it needs.
VmFill(d, k) ==
    /\ VmReads(d) /\ vmIn[d].st \notin {"hand", "closed", "error"}
    /\ Len(vmIn[d].buf) < VmNeed(vmIn[d]) /\ k <= Len(vmWire[d].syms)
    /\ vmIn[d].st \in {"prefix", "request"} => k <= VmNeed(vmIn[d])
    /\ vmIn' = [vmIn EXCEPT ![d].buf = @ \o SubSeq(vmWire[d].syms, 1, k)]
    /\ vmWire' = [vmWire EXCEPT ![d].syms = SubSeq(@, k + 1, Len(@))]
    /\ UNCHANGED <<vmJob, vmId, vmTag, vmOut, vmGot, vmSrv, vmDst, vmLock>>

\* The stream ends: cleanly between two chunks, an error inside one and before the
\* first. (accept meets no end, since the request is on the wire as a whole.)
VmEof(d) ==
    /\ VmReads(d) /\ vmIn[d].st \in {"size", "response", "len", "data"}
    /\ Len(vmIn[d].buf) < VmNeed(vmIn[d]) /\ vmWire[d].eof /\ vmWire[d].syms = <<>>
    /\ vmIn' = [vmIn EXCEPT ![d].st = IF vmIn[d].st = "len" /\ vmIn[d].buf = <<>> THEN "closed" ELSE "error"]
    /\ UNCHANGED <<vmJob, vmId, vmTag, vmOut, vmWire, vmGot, vmSrv, vmDst, vmLock>>

\* A connection that was dropped with bytes unread is reset: the client's read fails,
\* whatever is still on the way.
VmReset ==
    /\ vmSrv = "dead" /\ vmIn["down"].st \in {"size", "response", "len", "data"}
    /\ Len(vmIn["down"].buf) < VmNeed(vmIn["down"])
    /\ vmIn' = [vmIn EXCEPT !["down"].st = "error"]
    /\ UNCHANGED <<vmJob, vmId, vmTag, vmOut, vmWire, vmGot, vmSrv, vmDst, vmLock>>

\* The task of the inbound ends before its time and drops the TcpStream.
VmDropped == [vmWire EXCEPT !["down"].eof = TRUE]

\* accept: the uuid whose key opens the prefix, then the request; the response header
\* goes out before anything is relayed. An error ends the task.
VmAccept ==
    /\ vmSrv = "accept" /\ vmIn["up"].buf # <<>>
    /\ LET sym == vmIn["up"].buf[1] IN
       \/ /\ vmIn["up"].st = "prefix" /\ sym[2] \in VmUsers
          /\ vmIn' = [vmIn EXCEPT !["up"] = VmReader("request")]
          /\ UNCHANGED <<vmSrv, vmDst, vmWire>>
       \/ /\ vmIn["up"].st = "prefix" /\ sym[2] \notin VmUsers
          /\ vmSrv' = "dead" /\ vmWire' = VmDropped /\ UNCHANGED <<vmIn, vmDst>>
       \/ /\ vmIn["up"].st = "request"
          /\ vmDst' = VmParse(sym[2])
          /\ vmSrv' = IF vmDst' = VmNoTarget THEN "dead" ELSE "relay"
          /\ vmIn' = [vmIn EXCEPT !["up"] = VmReader("len")]
          /\ vmWire' = IF vmDst' = VmNoTarget THEN VmDropped ELSE [vmWire EXCEPT !["down"].syms = VmHeader]
    /\ UNCHANGED <<vmJob, vmId, vmTag, vmOut, vmGot, vmLock>>

\* AeadWaitingHeaderSize and AeadWaitingHeader of the client.
VmResponse ==
    /\ vmIn["down"].st \in {"size", "response"} /\ vmIn["down"].buf # <<>>
    /\ vmIn' = [vmIn EXCEPT !["down"].buf = Tail(@),
                            !["down"].st = IF @ = "size" THEN "response" ELSE "len"]
    /\ UNCHANGED <<vmJob, vmId, vmTag, vmOut, vmWire, vmGot, vmSrv, vmDst, vmLock>>

\* WaitingLength and WaitingData: the length, then the whole chunk, which opens only
\* with the counter it was sealed with.
VmCut(d) ==
    LET r == vmIn[d]
        size == r.size IN
    /\ VmReads(d) /\ r.st \in {"len", "data"} /\ Len(r.buf) >= VmNeed(r)
    /\ vmIn' = [vmIn EXCEPT ![d] =
         IF r.st = "len" THEN [r EXCEPT !.st = "data", !.size = r.buf[1][2], !.buf = Tail(@)]
         ELSE [r EXCEPT !.count = (@ + 1) % VmNonces, !.buf = SubSeq(@, size + 1, Len(@)),
               !.size = 0, !.chunk = [i \in 1..(size - vmTag) |-> r.buf[i][2]],
               !.st = IF vmTag = 1 => r.buf[size] = <<"tag", <<r.count, size - 1>>>>
                      THEN "hand" ELSE "error"]]
    /\ UNCHANGED <<vmJob, vmId, vmTag, vmOut, vmWire, vmGot, vmSrv, vmDst, vmLock>>

\* FlushingData: the caller's buffer takes n bytes, a datagram's buffer all; recv_from
\* then gives the lock back.
VmHand(d, n) ==
    /\ VmReads(d) /\ vmIn[d].st = "hand" /\ n <= Len(vmIn[d].chunk) /\ (VmUdp => n = Len(vmIn[d].chunk))
    /\ vmGot' = [vmGot EXCEPT ![d] = @ \o IF VmUdp THEN <<vmIn[d].chunk>> ELSE SubSeq(vmIn[d].chunk, 1, n)]
    /\ vmIn' = [vmIn EXCEPT ![d].chunk = SubSeq(@, n + 1, Len(@)),
                            ![d].st = IF n = Len(vmIn[d].chunk) THEN "len" ELSE "hand"]
    /\ vmLock' = IF VmUdp /\ d = "up" THEN "free" ELSE vmLock
    /\ UNCHANGED <<vmJob, vmId, vmTag, vmOut, vmWire, vmSrv, vmDst>>

\* forward_udp_inbound_once: recv_from keeps the lock until a datagram is there.
VmLockRecv ==
    /\ VmUdp /\ vmSrv = "relay" /\ vmLock = "free" /\ vmLock' = "recv"
    /\ UNCHANGED <<vmJob, vmId, vmTag, vmOut, vmWire, vmIn, vmGot, vmSrv, vmDst>>

\* listen: ten seconds after the accept the task is dropped, whatever it is doing, and
\* with it what its writer still holds.
VmTimeout ==
    /\ vmSrv \in {"accept", "relay"}
    /\ vmSrv' = "dead" /\ vmLock' = "free" /\ vmWire' = VmDropped
    /\ UNCHANGED <<vmJob, vmId, vmTag, vmOut, vmIn, vmGot, vmDst>>

VmClient ==
    \/ \E n \in 1..VmAhead : VmClientWrite(n) \/ VmFill("down", n) \/ VmHand("down", n)
    \/ VmResponse \/ VmCut("down") \/ VmEof("down") \/ VmReset \/ VmShutdown("up")

VmServer ==
    \/ \E n \in 1..VmAhead : VmServerWrite(n) \/ VmFill("up", n) \/ VmHand("up", n)
    \/ VmAccept \/ VmCut("up") \/ VmEof("up") \/ VmShutdown("down") \/ VmLockRecv \/ VmLockSend

VmNext == VmClient \/ VmServer \/ VmTimeout

-----------------------------------------------------------------------------
(* Properties *)

\* Each end reads what the other wrote, in order and from the first byte on, whatever
\* part of a chunk the stream takes or gives at a time; no chunk fails to open although
\* the nonce counter wraps, and a read fails only at the client, once the inbound has
\* dropped the connection (poll_write, poll_read, AeadCipher).
VmWhole ==
    \A d \in VmDirs :
        /\ IsPrefix(vmGot[d], vmJob[d])
        /\ vmIn[d].st = "error" => d = "down" /\ vmSrv = "dead"

\* The inbound dials the target the outbound asked for, whatever the padding.
VmRightTarget == vmSrv = "relay" => vmDst = vmJob.dst

\* An end that sees a clean end of the stream has read everything; but the client sees
\* one too when the inbound drops the connection between two chunks, before it has
\* written everything (the format has no mark for the end).
VmCleanEnd ==
    \A d \in VmDirs : vmIn[d].st = "closed" =>
        \/ vmGot[d] = vmJob[d]
        \/ d = "down" /\ vmSrv = "dead" /\ vmOut[d].todo # <<>>

\* "VMess handshake timeout": what the timer of listen ends is a handshake.
VmHandshakeTimeout == [][vmSrv = "relay" => vmSrv' # "dead"]_vmVars

\* Each end reads what the other wrote, whole when it sees a clean end that is not the
\* inbound's drop, and the target is the one asked for.
VmDelivers == VmWhole /\ VmRightTarget /\ VmCleanEnd
=============================================================================
