------------------------ MODULE AnytlsInboundProofs ------------------------
(***************************************************************************)
(* The AnyTLS server keeps the protocol of its streams, for every set of   *)
(* streams, every queue capacity and every client that AnytlsInboundPeer   *)
(* allows.                                                                 *)
(***************************************************************************)
EXTENDS AnytlsInboundPeer, SequenceTheorems, FiniteSetTheorems, TLAPS

\* The client's state, beside what InPeerTypeOK says.
ClTyped ==
    /\ next \in [Streams -> {"Syn", "Header", "Data", "End"} \X Nat]
    /\ \A s \in Streams : next[s][1] = "Header" => next[s][2] \in 1 .. HeadersOf(s)
    /\ \A i \in DOMAIN upWire : upWire[i].cmd \in {"Syn", "Psh", "Fin"} => upWire[i].sid \in Streams

\* A client opens a stream once, before all else,
ClSyns ==
    /\ \A s \in Streams, i \in DOMAIN upWire : next[s][1] = "Syn" => upWire[i].sid # s
    /\ \A i, j \in DOMAIN upWire : upWire[i].cmd = "Syn" /\ j < i => upWire[j].sid # upWire[i].sid

\* the headers of a stream among the first p frames,
Heads(w, s, p) == {i \in 1 .. p : w[i] = MkFrame("Psh", s, Header)}

\* sends its headers, and only then its data.
HeadsOK(w, s, nx) ==
    LET c == Cardinality(Heads(w, s, Len(w))) IN
    /\ c <= HeadersOf(s)
    /\ nx[1] = "Syn" => c = 0
    /\ nx[1] = "Header" => c + nx[2] = HeadersOf(s)
    /\ nx[1] = "Data" => c = HeadersOf(s) /\ nx[2] # 0
    /\ \A i \in DOMAIN w : w[i].cmd = "Psh" /\ w[i].sid = s /\ w[i].n # 0
         => Cardinality(Heads(w, s, i)) = HeadersOf(s)

ClHeads == \A s \in Streams : HeadsOK(upWire, s, next[s])

ClInv == ClTyped /\ ClSyns /\ ClHeads

\* The server has read the stream's SYN.
SynRead(s) == \E i \in 1 .. upPos : upWire[i].cmd = "Syn" /\ upWire[i].sid = s

\* The server reads settings before it has streams,
SvRpc ==
    /\ inRpc \in {"auth", "settings"} => upPos = 0
    /\ inRpc \in {"read", "push", "close", "clear"} => upPos # 0 /\ upWire[1].cmd = "Settings"
    /\ inRpc = "push" => inCur.sid \in Streams

\* and a stream with an entry or a task has had its SYN and as many headers as its
\* state tells.
SvOne(s) ==
    /\ inState[s] # "none" \/ task[s] # "none" =>
         inRpc \notin {"auth", "settings"} /\ upPos # 0 /\ upWire[1].cmd = "Settings" /\ SynRead(s)
    /\ inState[s] = "Pending" => Cardinality(Heads(upWire, s, upPos)) = 0
    /\ inState[s] = "WaitingUotRequest" => s \in UdpStreams /\ Cardinality(Heads(upWire, s, upPos)) = 1
    /\ inState[s] \in {"Pending", "WaitingUotRequest"} => task[s] = "none"
    /\ task[s] # "none" => Cardinality(Heads(upWire, s, upPos)) = HeadersOf(s)
    /\ inFin[s] => task[s] # "none"

SvInv == SvRpc /\ \A s \in Streams : SvOne(s)

\* All that was sent and can still arrive.
Pipe == downWire \o inWriteQ
Frames(w) == {w[j] : j \in 1 .. Len(w)}

\* A stream whose FIN was sent sends no more.
Over(s) == inFin[s] \/ task[s] = "dropped" \/ (inState[s] = "none" /\ task[s] = "none")

PipeSays ==
    /\ \A f \in Frames(Pipe) : f.sid \in Streams =>
         /\ SynRead(f.sid)
         /\ f.cmd = "Fin" => Over(f.sid)
         /\ f.cmd = "Psh" => f.n <= inSent[f.sid]
    /\ inRxOpen => \A s \in Streams : \A k \in 1 .. inSent[s] : MkFrame("Psh", s, k) \in Frames(Pipe)

\* What waits to be written extends what was written, as long as that arrives.
PipeInv ==
    /\ DownOrder
    /\ ~inRxOpen \/ inRpc \in {"auth", "settings"} => inWriteQ = <<>>
    /\ arrives => InOrder(Pipe) /\ PipeSays

StreamInv == InPeerTypeOK /\ ClInv /\ SvInv /\ PipeInv

-----------------------------------------------------------------------------
(* Sequences of frames *)

\* A frame that may follow all of a sequence may be appended to it.
LEMMA OrderAppend ==
  ASSUME NEW w \in Seq(Frame), NEW f \in Frame
  PROVE  /\ Append(w, f) \in Seq(Frame) /\ Frames(Append(w, f)) = Frames(w) \cup {f}
         /\ InOrder(w) /\ Follows(f, Frames(w)) => InOrder(Append(w, f))
<1>1. PICK v : v = Append(w, f)
  OBVIOUS
<1>2. PICK n \in Nat : n = Len(w)
  BY LenProperties
<1>3. /\ v \in Seq(Frame) /\ Len(v) = n + 1 /\ v[n + 1] = f /\ \A j \in 1 .. n : v[j] = w[j]
      /\ DOMAIN v = 1 .. n + 1 /\ DOMAIN w = 1 .. n
  BY <1>1, <1>2
<1>4. Frames(v) = Frames(w) \cup {f}
  BY <1>2, <1>3 DEF Frames
<1>5. ASSUME InOrder(w), Follows(f, Frames(w)), NEW i \in DOMAIN v
      PROVE  Follows(v[i], {v[j] : j \in 1 .. i - 1})
  <2>1. CASE i = n + 1
    <3>1. {v[j] : j \in 1 .. i - 1} = Frames(w) /\ v[i] = f
      BY <1>2, <1>3, <2>1 DEF Frames
    <3> QED
      BY <1>5, <3>1
  <2>2. CASE i # n + 1
    <3>1. i \in DOMAIN w /\ v[i] = w[i] /\ {v[j] : j \in 1 .. i - 1} = {w[j] : j \in 1 .. i - 1}
      BY <1>3, <1>5, <2>2
    <3>2. Follows(w[i], {w[j] : j \in 1 .. i - 1})
      BY <1>5, <3>1 DEF InOrder
    <3> QED
      BY <3>1, <3>2
  <2> QED
    BY <2>1, <2>2
<1> QED
  BY <1>1, <1>3, <1>4, <1>5 DEF InOrder

\* What is in order is in order up to any point.
LEMMA OrderPrefix ==
  ASSUME NEW w \in Seq(Frame), NEW q \in Seq(Frame), InOrder(w \o q)
  PROVE  InOrder(w) /\ Frames(w) \subseteq Frames(w \o q)
<1>1. PICK v : v = w \o q
  OBVIOUS
<1>2. PICK n \in Nat, m \in Nat : n = Len(w) /\ m = Len(v) /\ n <= m
  BY <1>1, LenProperties
<1>3. DOMAIN w = 1 .. n /\ DOMAIN v = 1 .. m /\ \A j \in 1 .. n : v[j] = w[j]
  BY <1>1, <1>2
<1>4. ASSUME NEW i \in DOMAIN w PROVE Follows(w[i], {w[j] : j \in 1 .. i - 1})
  <2>1. i \in DOMAIN v /\ v[i] = w[i] /\ {v[j] : j \in 1 .. i - 1} = {w[j] : j \in 1 .. i - 1}
    BY <1>2, <1>3, <1>4
  <2>2. Follows(v[i], {v[j] : j \in 1 .. i - 1})
    BY <1>1, <2>1 DEF InOrder
  <2> QED
    BY <2>1, <2>2
<1>5. Frames(w) \subseteq Frames(v)
  BY <1>2, <1>3 DEF Frames
<1> QED
  BY <1>1, <1>4, <1>5 DEF InOrder

\* A frame that is queued comes last of all, and one that is written stays in its place.
LEMMA PipeMoves ==
  ASSUME NEW d \in Seq(Frame), NEW q \in Seq(Frame)
  PROVE  /\ d \o q \in Seq(Frame) /\ d \o <<>> = d
         /\ \A f \in Frame : d \o Append(q, f) = Append(d \o q, f)
         /\ q # <<>> => Append(d, Head(q)) \o Tail(q) = d \o q
<1>1. d \o q \in Seq(Frame) /\ d \o <<>> = d
  OBVIOUS
<1>2. ASSUME NEW f \in Frame PROVE d \o Append(q, f) = Append(d \o q, f)
  OBVIOUS
<1>3. ASSUME q # <<>> PROVE Append(d, Head(q)) \o Tail(q) = d \o q
  <2>1. Head(q) \in Frame /\ Tail(q) \in Seq(Frame)
    BY <1>3
  <2> QED
    BY <1>3, <2>1
<1> QED
  BY <1>1, <1>2, <1>3

-----------------------------------------------------------------------------
(* Headers *)

\* The headers among p frames are finitely many, and frame p + 1 adds one or none.
LEMMA HeadsAre ==
  ASSUME NEW w, NEW s, NEW p \in Nat
  PROVE  /\ IsFiniteSet(Heads(w, s, p)) /\ Cardinality(Heads(w, s, p)) \in Nat
         /\ w[p + 1] = MkFrame("Psh", s, Header)
              => Cardinality(Heads(w, s, p + 1)) = Cardinality(Heads(w, s, p)) + 1
         /\ w[p + 1] # MkFrame("Psh", s, Header) => Heads(w, s, p + 1) = Heads(w, s, p)
<1>1. IsFiniteSet(1 .. p) /\ Heads(w, s, p) \subseteq 1 .. p
  BY FS_Interval DEF Heads
<1>2. IsFiniteSet(Heads(w, s, p))
  BY <1>1, FS_Subset
<1>3. Cardinality(Heads(w, s, p)) \in Nat
  BY <1>2, FS_CardinalityType
<1>4. ASSUME w[p + 1] = MkFrame("Psh", s, Header)
      PROVE  Cardinality(Heads(w, s, p + 1)) = Cardinality(Heads(w, s, p)) + 1
  <2>1. Heads(w, s, p + 1) = Heads(w, s, p) \cup {p + 1} /\ p + 1 \notin Heads(w, s, p)
    BY <1>4 DEF Heads
  <2> QED
    BY <1>2, <2>1, FS_AddElement
<1>5. ASSUME w[p + 1] # MkFrame("Psh", s, Header) PROVE Heads(w, s, p + 1) = Heads(w, s, p)
  BY <1>5 DEF Heads
<1> QED
  BY <1>2, <1>3, <1>4, <1>5

\* More frames have no fewer headers.
LEMMA HeadsGrow ==
  ASSUME NEW w, NEW s, NEW p \in Nat, NEW q \in Nat, p <= q
  PROVE  Cardinality(Heads(w, s, p)) <= Cardinality(Heads(w, s, q))
<1>1. Heads(w, s, p) \subseteq Heads(w, s, q)
  BY DEF Heads
<1> QED
  BY <1>1, HeadsAre, FS_Subset

\* What is appended changes nothing of what was there.
LEMMA HeadsStay ==
  ASSUME NEW w \in Seq(Frame), NEW f \in Frame, NEW n, n = Len(w)
  PROVE  /\ n \in Nat /\ Append(w, f) \in Seq(Frame) /\ Len(Append(w, f)) = n + 1 /\ DOMAIN w = 1 .. n
         /\ DOMAIN Append(w, f) = 1 .. n + 1 /\ Append(w, f)[n + 1] = f
         /\ \A i \in 1 .. n : Append(w, f)[i] = w[i]
         /\ \A s, p : p \in 0 .. n => Heads(Append(w, f), s, p) = Heads(w, s, p)
<1>1. PICK v : v = Append(w, f)
  OBVIOUS
<1>2. /\ n \in Nat /\ v \in Seq(Frame) /\ Len(v) = n + 1 /\ DOMAIN w = 1 .. n /\ DOMAIN v = 1 .. n + 1
      /\ v[n + 1] = f /\ \A i \in 1 .. n : v[i] = w[i]
  BY <1>1
<1>3. ASSUME NEW s, NEW p \in 0 .. n PROVE Heads(v, s, p) = Heads(w, s, p)
  BY <1>2, <1>3 DEF Heads
<1> QED
  BY <1>1, <1>2, <1>3

\* The client sends f, on stream s or on another one; d and m are what it sends next
\* on s, c and k what it was to send.
ClMove(f, s, c, k, d, m) ==
    \/ f.sid # s /\ d = c /\ m = k
    \/ f.cmd # "Psh" /\ d = "End"
    \/ c = "Syn" /\ f.cmd # "Psh" /\ d = "Header" /\ m = HeadersOf(s)
    \/ c = "Header" /\ f = MkFrame("Psh", s, Header) /\ k = 1 /\ d = "Data" /\ m = 1
    \/ c = "Header" /\ f = MkFrame("Psh", s, Header) /\ k > 1 /\ d = "Header" /\ m = k - 1
    \/ c = "Data" /\ f = MkFrame("Psh", s, k) /\ d = "Data" /\ m = k + 1

\* The headers stay complete before the data.
LEMMA HeadsOKAppend ==
  ASSUME NEW w \in Seq(Frame), NEW f \in Frame, NEW s \in Streams, NEW c, NEW k \in Nat, NEW d, NEW m \in Nat,
         HeadsOK(w, s, <<c, k>>),
         ClMove(f, s, c, k, d, m)
  PROVE  HeadsOK(Append(w, f), s, <<d, m>>)
<1>1. PICK v : v = Append(w, f)
  OBVIOUS
<1>2. PICK n \in Nat : n = Len(w)
  BY LenProperties
<1>3. /\ Len(v) = n + 1 /\ DOMAIN w = 1 .. n /\ DOMAIN v = 1 .. n + 1
      /\ \A i \in 1 .. n : v[i] = w[i] /\ Heads(v, s, i) = Heads(w, s, i)
      /\ v[n + 1] = f /\ Heads(v, s, n) = Heads(w, s, n)
  BY <1>1, <1>2, HeadsStay
<1>4. PICK a \in Nat, b \in Nat : a = Cardinality(Heads(w, s, n)) /\ b = Cardinality(Heads(v, s, n + 1))
  BY HeadsAre
<1>5. /\ f = MkFrame("Psh", s, Header) => b = a + 1
      /\ f # MkFrame("Psh", s, Header) => b = a
  BY <1>3, <1>4, HeadsAre
<1>6. HeadersOf(s) \in Nat
  BY DEF HeadersOf
<1>7. /\ a <= HeadersOf(s)
      /\ c = "Syn" => a = 0
      /\ c = "Header" => a + k = HeadersOf(s)
      /\ c = "Data" => a = HeadersOf(s) /\ k # 0
      /\ \A i \in 1 .. n : w[i].cmd = "Psh" /\ w[i].sid = s /\ w[i].n # 0
           => Cardinality(Heads(w, s, i)) = HeadersOf(s)
  BY <1>2, <1>3, <1>4 DEF HeadsOK
<1>8. /\ MkFrame("Psh", s, Header).cmd = "Psh" /\ MkFrame("Psh", s, Header).sid = s /\ MkFrame("Psh", s, Header).n = 0
      /\ MkFrame("Psh", s, k).n = k
  BY DEF MkFrame, Header
<1>9. /\ b <= HeadersOf(s)
      /\ d = "Syn" => b = 0
      /\ d = "Header" => b + m = HeadersOf(s)
      /\ d = "Data" => b = HeadersOf(s) /\ m # 0
  <2>1. CASE f.sid # s /\ d = c /\ m = k
    BY <1>5, <1>7, <1>8, <2>1
  <2>2. CASE f.cmd # "Psh" /\ d = "End"
    BY <1>5, <1>7, <1>8, <2>2
  <2>3. CASE c = "Syn" /\ f.cmd # "Psh" /\ d = "Header" /\ m = HeadersOf(s)
    BY <1>5, <1>6, <1>7, <1>8, <2>3
  <2>4. CASE c = "Header" /\ f = MkFrame("Psh", s, Header) /\ k = 1 /\ d = "Data" /\ m = 1
    BY <1>5, <1>6, <1>7, <2>4
  <2>5. CASE c = "Header" /\ f = MkFrame("Psh", s, Header) /\ k > 1 /\ d = "Header" /\ m = k - 1
    BY <1>5, <1>6, <1>7, <2>5
  <2>6. CASE c = "Data" /\ f = MkFrame("Psh", s, k) /\ d = "Data" /\ m = k + 1
    <3>1. f # MkFrame("Psh", s, Header)
      BY <1>7, <1>8, <2>6
    <3> QED
      BY <1>5, <1>7, <2>6, <3>1
  <2> QED
    BY <2>1, <2>2, <2>3, <2>4, <2>5, <2>6 DEF ClMove
<1>10. f.cmd = "Psh" /\ f.sid = s /\ f.n # 0 => b = HeadersOf(s)
  BY <1>5, <1>7, <1>8 DEF ClMove
<1>11. ASSUME NEW i \in 1 .. n + 1, v[i].cmd = "Psh", v[i].sid = s, v[i].n # 0
       PROVE  Cardinality(Heads(v, s, i)) = HeadersOf(s)
  <2>1. CASE i = n + 1
    BY <1>3, <1>4, <1>10, <1>11, <2>1
  <2>2. CASE i \in 1 .. n
    BY <1>3, <1>7, <1>11, <2>2
  <2> QED
    BY <2>1, <2>2
<1> QED
  BY <1>1, <1>3, <1>4, <1>9, <1>11 DEF HeadsOK

-----------------------------------------------------------------------------
(* Types *)

\* What MkFrame makes is a frame, and every frame is of that form.
LEMMA FrameIs ==
  /\ \A cmd \in Command, s \in Streams \cup {0}, n \in Nat :
       /\ MkFrame(cmd, s, n) \in Frame
       /\ MkFrame(cmd, s, n).cmd = cmd /\ MkFrame(cmd, s, n).sid = s /\ MkFrame(cmd, s, n).n = n
  /\ NoFrame \in Frame /\ NoFrame.sid = 0 /\ 0 \notin Streams
  /\ \A f \in Frame : f.cmd \in Command /\ f.sid \in Streams \cup {0} /\ f.n \in Nat
                      /\ f = MkFrame(f.cmd, f.sid, f.n)
BY StreamsAssumption DEF MkFrame, Frame, NoFrame, Command

\* The frame that is read next.
LEMMA NextIs ==
  ASSUME InPeerTypeOK, ClTyped, NEW cmd, NextFrame(cmd)
  PROVE  /\ upPos + 1 \in DOMAIN upWire /\ upWire[upPos + 1] \in Frame /\ upWire[upPos + 1].cmd = cmd
         /\ upPos' = upPos + 1 /\ upPos' \in Nat /\ upPos' <= Len(upWire)
         /\ cmd \in {"Syn", "Psh", "Fin"} => Sid \in Streams
<1>1. upPos \in Nat /\ upWire \in Seq(Frame) /\ upPos < Len(upWire) /\ upPos' = upPos + 1 /\ upWire[upPos + 1].cmd = cmd
  BY DEF InPeerTypeOK, InTypeOK, NextFrame
<1>2. upPos + 1 \in DOMAIN upWire /\ upWire[upPos + 1] \in Frame /\ upPos' \in Nat /\ upPos' <= Len(upWire)
  BY <1>1
<1> QED
  BY <1>1, <1>2 DEF ClTyped, Sid

\* A try_send keeps the queue within its bound.
LEMMA InTrySendIs ==
  ASSUME InPeerTypeOK, NEW f \in Frame
  PROVE  /\ InTrySend(f) \in Seq(Frame) /\ Len(InTrySend(f)) <= SESSION_QUEUE_CAPACITY
         /\ InTrySend(f) # inWriteQ => inRxOpen /\ InTrySend(f) = Append(inWriteQ, f)
         /\ InRoom => Append(inWriteQ, f) \in Seq(Frame) /\ Len(Append(inWriteQ, f)) <= SESSION_QUEUE_CAPACITY
BY InboundAssumption DEF InPeerTypeOK, InTypeOK, InTrySend, InRoom

\* The types are kept by the authentication,
LEMMA AuthenticateType ==
  ASSUME InPeerTypeOK, ClTyped, SvRpc, Authenticate, UNCHANGED <<arrives, envVars>>
  PROVE  InPeerTypeOK'
<1> QED
  BY FrameIs DEF InPeerTypeOK, InTypeOK, inTaskVars, inSessVars, linkVars, envVars, Authenticate

\* by the answer to the settings,
LEMMA ReadSettingsType ==
  ASSUME InPeerTypeOK, ClTyped, SvRpc, ReadSettings, UNCHANGED <<arrives, envVars>>
  PROVE  InPeerTypeOK'
<1>1. NoFrame \in Frame /\ MkFrame("Alert", 0, 0) \in Frame
  BY FrameIs DEF Command
<1>2. downWire' \in Seq(Frame)
  <2>1. PICK g \in Frame : downWire' = IF ~arrives THEN downWire ELSE Append(downWire, g)
    BY <1>1 DEF ReadSettings
  <2> QED
    BY <2>1 DEF InPeerTypeOK
<1>3. upPos' \in Nat /\ upPos' <= Len(upWire)
  BY DEF InPeerTypeOK, InTypeOK, ReadSettings
<1>4. inRpc' \in {"read", "done"} /\ inWpc' \in {"run", "done"}
  BY DEF ReadSettings
<1> QED
  BY <1>2, <1>3, <1>4 DEF InPeerTypeOK, InTypeOK, inTaskVars, inSessVars, linkVars, envVars, ReadSettings

\* by a connection that fails before them,
LEMMA SettingsFailType ==
  ASSUME InPeerTypeOK, ClTyped, SvRpc, SettingsFail, UNCHANGED <<arrives, envVars>>
  PROVE  InPeerTypeOK'
<1> QED
  BY FrameIs DEF InPeerTypeOK, InTypeOK, inTaskVars, inSessVars, linkVars, envVars, SettingsFail

\* by a SYN and the SYNACK it queues,
LEMMA ReadSynType ==
  ASSUME InPeerTypeOK, ClTyped, SvRpc, ReadSyn, UNCHANGED <<arrives, envVars>>
  PROVE  InPeerTypeOK'
<1>1. /\ upPos' \in Nat /\ upPos' <= Len(upWire) /\ Sid \in Streams /\ upWire[upPos + 1] \in Frame
  <2>1. NextFrame("Syn")
    BY DEF ReadSyn
  <2> QED
    BY <2>1, NextIs
<1>2. PICK f \in Frame : inWriteQ' = InTrySend(f)
  BY <1>1, FrameIs DEF ReadSyn, Command
<1>3. inWriteQ' \in Seq(Frame) /\ Len(inWriteQ') <= SESSION_QUEUE_CAPACITY
  BY <1>2, InTrySendIs
<1> QED
  BY <1>1, <1>3 DEF InPeerTypeOK, InTypeOK, inTaskVars, inSessVars, linkVars, envVars, ReadSyn

\* by a header that does not parse and the FIN it queues,
LEMMA BadHeaderType ==
  ASSUME InPeerTypeOK, ClTyped, SvRpc, BadHeader, UNCHANGED <<arrives, envVars>>
  PROVE  InPeerTypeOK'
<1>1. /\ upPos' \in Nat /\ upPos' <= Len(upWire) /\ Sid \in Streams /\ upWire[upPos + 1] \in Frame
  <2>1. NextFrame("Psh")
    BY DEF BadHeader
  <2> QED
    BY <2>1, NextIs
<1>2. MkFrame("Fin", Sid, 0) \in Frame
  BY <1>1, FrameIs DEF Command, InPeerTypeOK, InTypeOK
<1>3. /\ InTrySend(MkFrame("Fin", Sid, 0)) \in Seq(Frame) /\ Len(InTrySend(MkFrame("Fin", Sid, 0))) <= SESSION_QUEUE_CAPACITY
      /\ InRoom => Append(inWriteQ, MkFrame("Fin", Sid, 0)) \in Seq(Frame) /\ Len(Append(inWriteQ, MkFrame("Fin", Sid, 0))) <= SESSION_QUEUE_CAPACITY
  BY <1>2, InTrySendIs
<1> QED
  BY <1>1, <1>2, <1>3, FrameIs DEF InPeerTypeOK, InTypeOK, inTaskVars, inSessVars, linkVars, envVars, BadHeader

\* by the target of a stream,
LEMMA ReadTargetType ==
  ASSUME InPeerTypeOK, ClTyped, SvRpc, ReadTarget, UNCHANGED <<arrives, envVars>>
  PROVE  InPeerTypeOK'
<1>1. /\ upPos' \in Nat /\ upPos' <= Len(upWire) /\ Sid \in Streams /\ upWire[upPos + 1] \in Frame
  <2>1. NextFrame("Psh")
    BY DEF ReadTarget
  <2> QED
    BY <2>1, NextIs
<1>2. /\ inState' \in [Streams -> {"none", "Pending", "WaitingUotRequest", "Active"}]
      /\ task' \in [Streams -> {"none", "first", "open", "dropped"}]
  <2>1. inState \in [Streams -> {"none", "Pending", "WaitingUotRequest", "Active"}]
        /\ task \in [Streams -> {"none", "first", "open", "dropped"}]
    BY DEF InPeerTypeOK, InTypeOK
  <2>2. CASE Sid \in UdpStreams
    BY <1>1, <2>1, <2>2 DEF ReadTarget
  <2>3. CASE Sid \notin UdpStreams
    BY <1>1, <2>1, <2>3 DEF ReadTarget
  <2> QED
    BY <2>2, <2>3
<1> QED
  BY <1>1, <1>2 DEF InPeerTypeOK, InTypeOK, inTaskVars, inSessVars, linkVars, envVars, ReadTarget

\* by the request of a UoT stream,
LEMMA ReadUotRequestType ==
  ASSUME InPeerTypeOK, ClTyped, SvRpc, ReadUotRequest, UNCHANGED <<arrives, envVars>>
  PROVE  InPeerTypeOK'
<1>1. /\ upPos' \in Nat /\ upPos' <= Len(upWire) /\ Sid \in Streams /\ upWire[upPos + 1] \in Frame
  <2>1. NextFrame("Psh")
    BY DEF ReadUotRequest
  <2> QED
    BY <2>1, NextIs
<1> QED
  BY <1>1, FrameIs DEF InPeerTypeOK, InTypeOK, inTaskVars, inSessVars, linkVars, envVars, ReadUotRequest

\* by a payload that is read,
LEMMA ReadDataType ==
  ASSUME InPeerTypeOK, ClTyped, SvRpc, ReadData, UNCHANGED <<arrives, envVars>>
  PROVE  InPeerTypeOK'
<1>1. /\ upPos' \in Nat /\ upPos' <= Len(upWire) /\ Sid \in Streams /\ upWire[upPos + 1] \in Frame
  <2>1. NextFrame("Psh")
    BY DEF ReadData
  <2> QED
    BY <2>1, NextIs
<1> QED
  BY <1>1, FrameIs DEF InPeerTypeOK, InTypeOK, inTaskVars, inSessVars, linkVars, envVars, ReadData

\* by its delivery, which waits for room in the channel of the stream,
LEMMA DeliverType ==
  ASSUME InPeerTypeOK, ClTyped, SvRpc, Deliver, UNCHANGED <<arrives, envVars>>
  PROVE  InPeerTypeOK'
<1>1. PICK s \in Streams : s = inCur.sid
  BY DEF SvRpc, Deliver
<1>2. inCur.n \in Nat
  BY FrameIs DEF InPeerTypeOK, InTypeOK
<1>3. /\ inQ \in [Streams -> Seq(Nat)] /\ \A t \in Streams : Len(inQ[t]) <= STREAM_QUEUE_CAPACITY
      /\ inState \in [Streams -> {"none", "Pending", "WaitingUotRequest", "Active"}]
  BY DEF InPeerTypeOK, InTypeOK
<1>4. /\ inQ' \in [Streams -> Seq(Nat)] /\ \A t \in Streams : Len(inQ'[t]) <= STREAM_QUEUE_CAPACITY
      /\ inState' \in [Streams -> {"none", "Pending", "WaitingUotRequest", "Active"}]
  <2>1. CASE task[s] = "dropped"
    BY <1>1, <1>3, <2>1 DEF Deliver
  <2>2. CASE task[s] # "dropped"
    <3>1. PICK q : q = Append(inQ[s], inCur.n)
      OBVIOUS
    <3>2. inQ' = [inQ EXCEPT ![s] = q] /\ inState' = inState /\ Len(inQ[s]) < STREAM_QUEUE_CAPACITY
      BY <1>1, <2>2, <3>1 DEF Deliver
    <3>3. q \in Seq(Nat) /\ Len(q) <= STREAM_QUEUE_CAPACITY
      BY <1>2, <1>3, <3>1, <3>2, InboundAssumption
    <3> QED
      BY <1>3, <3>2, <3>3
  <2> QED
    BY <2>1, <2>2
<1> QED
  BY <1>4, FrameIs DEF InPeerTypeOK, InTypeOK, inTaskVars, inSessVars, linkVars, envVars, Deliver

\* by a FIN,
LEMMA ReadFinType ==
  ASSUME InPeerTypeOK, ClTyped, SvRpc, ReadFin, UNCHANGED <<arrives, envVars>>
  PROVE  InPeerTypeOK'
<1>1. /\ upPos' \in Nat /\ upPos' <= Len(upWire) /\ Sid \in Streams /\ upWire[upPos + 1] \in Frame
  <2>1. NextFrame("Fin")
    BY DEF ReadFin
  <2> QED
    BY <2>1, NextIs
<1> QED
  BY <1>1, FrameIs DEF InPeerTypeOK, InTypeOK, inTaskVars, inSessVars, linkVars, envVars, ReadFin

\* by a frame of the session, which may be answered,
LEMMA ReadOtherType ==
  ASSUME InPeerTypeOK, ClTyped, SvRpc, ReadOther, UNCHANGED <<arrives, envVars>>
  PROVE  InPeerTypeOK'
<1>1. PICK cmd : NextFrame(cmd)
  BY DEF ReadOther
<1>2. upPos' \in Nat /\ upPos' <= Len(upWire)
  BY <1>1, NextIs
<1>3. PICK f \in Frame : inWriteQ' \in {inWriteQ, InTrySend(f)}
  BY FrameIs DEF ReadOther, Command
<1>4. inWriteQ' \in Seq(Frame) /\ Len(inWriteQ') <= SESSION_QUEUE_CAPACITY
  BY <1>3, InTrySendIs DEF InPeerTypeOK, InTypeOK
<1> QED
  BY <1>2, <1>4 DEF InPeerTypeOK, InTypeOK, inTaskVars, inSessVars, linkVars, envVars, ReadOther

\* by an alert,
LEMMA ReadAlertType ==
  ASSUME InPeerTypeOK, ClTyped, SvRpc, ReadAlert, UNCHANGED <<arrives, envVars>>
  PROVE  InPeerTypeOK'
<1> QED
  BY FrameIs DEF InPeerTypeOK, InTypeOK, inTaskVars, inSessVars, linkVars, envVars, ReadAlert, NextFrame

\* by the end of the read loop,
LEMMA ReadLoopEndsType ==
  ASSUME InPeerTypeOK, ClTyped, SvRpc, ReadLoopEnds, UNCHANGED <<arrives, envVars>>
  PROVE  InPeerTypeOK'
<1> QED
  BY FrameIs DEF InPeerTypeOK, InTypeOK, inTaskVars, inSessVars, linkVars, envVars, ReadLoopEnds

\* by the closing of the session,
LEMMA CloseSessionType ==
  ASSUME InPeerTypeOK, ClTyped, SvRpc, CloseSession, UNCHANGED <<arrives, envVars>>
  PROVE  InPeerTypeOK'
<1> QED
  BY FrameIs DEF InPeerTypeOK, InTypeOK, inTaskVars, inSessVars, linkVars, envVars, CloseSession

\* by the clearing of its streams,
LEMMA ClearStreamsType ==
  ASSUME InPeerTypeOK, ClTyped, SvRpc, ClearStreams, UNCHANGED <<arrives, envVars>>
  PROVE  InPeerTypeOK'
<1> QED
  BY FrameIs DEF InPeerTypeOK, InTypeOK, inTaskVars, inSessVars, linkVars, envVars, ClearStreams

\* by the writing of a frame,
LEMMA WriteFrameType ==
  ASSUME InPeerTypeOK, ClTyped, SvRpc, WriteFrame, UNCHANGED <<arrives, envVars>>
  PROVE  InPeerTypeOK'
<1>1. inWriteQ \in Seq(Frame) /\ Len(inWriteQ) <= SESSION_QUEUE_CAPACITY /\ downWire \in Seq(Frame) /\ inWriteQ # <<>>
  BY DEF InPeerTypeOK, InTypeOK, WriteFrame
<1>2. PICK f \in Frame : f = Head(inWriteQ)
  BY <1>1
<1>3. downWire' \in Seq(Frame)
  BY <1>1, <1>2 DEF WriteFrame
<1>4. inWriteQ' \in Seq(Frame) /\ Len(inWriteQ') <= SESSION_QUEUE_CAPACITY
  BY <1>1, InboundAssumption DEF WriteFrame
<1> QED
  BY <1>3, <1>4 DEF InPeerTypeOK, InTypeOK, inTaskVars, inSessVars, linkVars, envVars, WriteFrame

\* by the end of the write loop,
LEMMA WriteLoopEndsType ==
  ASSUME InPeerTypeOK, ClTyped, SvRpc, WriteLoopEnds, UNCHANGED <<arrives, envVars>>
  PROVE  InPeerTypeOK'
<1>1. inWriteQ' \in Seq(Frame) /\ Len(inWriteQ') <= SESSION_QUEUE_CAPACITY
  BY InboundAssumption DEF WriteLoopEnds
<1> QED
  BY <1>1 DEF InPeerTypeOK, InTypeOK, inTaskVars, inSessVars, linkVars, envVars, WriteLoopEnds

\* by the end of its task,
LEMMA WriteTaskClosesType ==
  ASSUME InPeerTypeOK, ClTyped, SvRpc, WriteTaskCloses, UNCHANGED <<arrives, envVars>>
  PROVE  InPeerTypeOK'
<1> QED
  BY FrameIs DEF InPeerTypeOK, InTypeOK, inTaskVars, inSessVars, linkVars, envVars, WriteTaskCloses

\* by a read of a stream,
LEMMA InReadType ==
  ASSUME InPeerTypeOK, ClTyped, SvRpc, NEW s \in Streams, InRead(s), UNCHANGED <<arrives, envVars>>
  PROVE  InPeerTypeOK'
<1>1. /\ inQ \in [Streams -> Seq(Nat)] /\ \A t \in Streams : Len(inQ[t]) <= STREAM_QUEUE_CAPACITY
      /\ inGot \in [Streams -> Seq(Nat)] /\ task \in [Streams -> {"none", "first", "open", "dropped"}]
  BY DEF InPeerTypeOK, InTypeOK
<1>2. PICK q, h : q = Tail(inQ[s]) /\ h = Head(inQ[s])
  OBVIOUS
<1>3. q \in Seq(Nat) /\ Len(q) <= STREAM_QUEUE_CAPACITY /\ h \in Nat
  <2>1. PICK g \in Seq(Nat) : g = inQ[s] /\ g # <<>> /\ Len(g) <= STREAM_QUEUE_CAPACITY
    BY <1>1 DEF InRead
  <2> QED
    BY <1>2, <2>1, InboundAssumption
<1>4. /\ inQ' = [inQ EXCEPT ![s] = q] /\ inGot' = [inGot EXCEPT ![s] = Append(inGot[s], h)]
      /\ task' = [task EXCEPT ![s] = "open"]
  BY <1>2 DEF InRead
<1>5. /\ inQ' \in [Streams -> Seq(Nat)] /\ \A t \in Streams : Len(inQ'[t]) <= STREAM_QUEUE_CAPACITY
  BY <1>1, <1>3, <1>4
<1>6. inGot' \in [Streams -> Seq(Nat)] /\ task' \in [Streams -> {"none", "first", "open", "dropped"}]
  BY <1>1, <1>3, <1>4
<1> QED
  BY <1>5, <1>6 DEF InPeerTypeOK, InTypeOK, inTaskVars, inSessVars, linkVars, envVars, InRead

\* by its end of file,
LEMMA InReadEndType ==
  ASSUME InPeerTypeOK, ClTyped, SvRpc, NEW s \in Streams, InReadEnd(s), UNCHANGED <<arrives, envVars>>
  PROVE  InPeerTypeOK'
<1> QED
  BY FrameIs DEF InPeerTypeOK, InTypeOK, inTaskVars, inSessVars, linkVars, envVars, InReadEnd

\* by a payload that is queued, for which there was room,
LEMMA InWriteType ==
  ASSUME InPeerTypeOK, ClTyped, SvRpc, NEW s \in Streams, InWrite(s), UNCHANGED <<arrives, envVars>>
  PROVE  InPeerTypeOK'
<1>1. MkFrame("Psh", s, inSent[s] + 1) \in Frame
  BY FrameIs DEF Command, InPeerTypeOK, InTypeOK
<1>2. /\ InTrySend(MkFrame("Psh", s, inSent[s] + 1)) \in Seq(Frame) /\ Len(InTrySend(MkFrame("Psh", s, inSent[s] + 1))) <= SESSION_QUEUE_CAPACITY
      /\ InRoom => Append(inWriteQ, MkFrame("Psh", s, inSent[s] + 1)) \in Seq(Frame) /\ Len(Append(inWriteQ, MkFrame("Psh", s, inSent[s] + 1))) <= SESSION_QUEUE_CAPACITY
  BY <1>1, InTrySendIs
<1> QED
  BY <1>1, <1>2, FrameIs DEF InPeerTypeOK, InTypeOK, inTaskVars, inSessVars, linkVars, envVars, InWrite

\* by a FIN of poll_shutdown, for which there was room too,
LEMMA InShutdownType ==
  ASSUME InPeerTypeOK, ClTyped, SvRpc, NEW s \in Streams, InShutdown(s), UNCHANGED <<arrives, envVars>>
  PROVE  InPeerTypeOK'
<1>1. MkFrame("Fin", s, 0) \in Frame
  BY FrameIs DEF Command, InPeerTypeOK, InTypeOK
<1>2. /\ InTrySend(MkFrame("Fin", s, 0)) \in Seq(Frame) /\ Len(InTrySend(MkFrame("Fin", s, 0))) <= SESSION_QUEUE_CAPACITY
      /\ InRoom => Append(inWriteQ, MkFrame("Fin", s, 0)) \in Seq(Frame) /\ Len(Append(inWriteQ, MkFrame("Fin", s, 0))) <= SESSION_QUEUE_CAPACITY
  BY <1>1, InTrySendIs
<1> QED
  BY <1>1, <1>2, FrameIs DEF InPeerTypeOK, InTypeOK, inTaskVars, inSessVars, linkVars, envVars, InShutdown

\* and by the drop of the stream, whose FIN is queued if there is room.
LEMMA InDropType ==
  ASSUME InPeerTypeOK, ClTyped, SvRpc, NEW s \in Streams, InDrop(s), UNCHANGED <<arrives, envVars>>
  PROVE  InPeerTypeOK'
<1>1. PICK f \in Frame : inWriteQ' \in {inWriteQ, InTrySend(f)}
  BY FrameIs DEF InDrop, Command
<1>2. inWriteQ' \in Seq(Frame) /\ Len(inWriteQ') <= SESSION_QUEUE_CAPACITY
  BY <1>1, InTrySendIs DEF InPeerTypeOK, InTypeOK
<1>3. /\ inQ' \in [Streams -> Seq(Nat)] /\ \A t \in Streams : Len(inQ'[t]) <= STREAM_QUEUE_CAPACITY
  BY InboundAssumption DEF InPeerTypeOK, InTypeOK, InDrop
<1>4. inGot' \in [Streams -> Seq(Nat)]
  BY DEF InPeerTypeOK, InTypeOK, InDrop
<1> QED
  BY <1>2, <1>3, <1>4 DEF InPeerTypeOK, InTypeOK, inTaskVars, inSessVars, linkVars, envVars, InDrop

-----------------------------------------------------------------------------
(* Steps of the client *)

\* A frame is sent, and what is next on its stream changes, if it is of a stream.
LEMMA ClSent ==
  ASSUME InPeerTypeOK, ClInv, NEW f \in Frame, upWire' = Append(upWire, f),
         next' \in [Streams -> {"Syn", "Header", "Data", "End"} \X Nat],
         f.cmd \in {"Syn", "Psh", "Fin"} => f.sid \in Streams,
         \A s \in Streams : next'[s][1] = "Header" => next'[s][2] \in 1 .. HeadersOf(s),
         \A s \in Streams : next'[s][1] = "Syn" => next[s][1] = "Syn" /\ f.sid # s,
         f.cmd = "Syn" => f.sid \in Streams /\ next[f.sid][1] = "Syn",
         \A s \in Streams : ClMove(f, s, next[s][1], next[s][2], next'[s][1], next'[s][2])
  PROVE  ClInv'
<1>w. PICK w \in Seq(Frame), n \in Nat : w = upWire /\ n = Len(w)
  BY LenProperties DEF InPeerTypeOK
<1>v. PICK v : v = upWire'
  OBVIOUS
<1>1. /\ v \in Seq(Frame) /\ Len(v) = n + 1 /\ DOMAIN w = 1 .. n /\ DOMAIN v = 1 .. n + 1 /\ v[n + 1] = f
      /\ \A i \in 1 .. n : v[i] = w[i]
  BY <1>w, <1>v, HeadsStay
<1>2. ClTyped'
  <2>1. \A i \in 1 .. n : w[i].cmd \in {"Syn", "Psh", "Fin"} => w[i].sid \in Streams
    BY <1>w, <1>1 DEF ClInv, ClTyped
  <2>2. \A i \in 1 .. n + 1 : v[i].cmd \in {"Syn", "Psh", "Fin"} => v[i].sid \in Streams
    BY <1>1, <2>1
  <2> QED
    BY <1>v, <1>1, <2>2 DEF ClTyped, HeadersOf
<1>3. ClSyns'
  <2>0. DOMAIN upWire = 1 .. n /\ upWire = w
    BY <1>w, <1>1
  <2>a. \A s \in Streams, i \in 1 .. n : next[s][1] = "Syn" => w[i].sid # s
    BY <2>0 DEF ClInv, ClSyns
  <2>b. \A i, j \in DOMAIN upWire : upWire[i].cmd = "Syn" /\ j < i => upWire[j].sid # upWire[i].sid
    BY DEF ClInv, ClSyns
  <2>1. /\ \A s \in Streams, i \in 1 .. n : next[s][1] = "Syn" => w[i].sid # s
        /\ \A i, j \in 1 .. n : w[i].cmd = "Syn" /\ j < i => w[j].sid # w[i].sid
    BY <2>0, <2>a, <2>b
  <2>2. ASSUME NEW s \in Streams, NEW i \in 1 .. n + 1, next'[s][1] = "Syn" PROVE v[i].sid # s
    <3>0. next[s][1] = "Syn" /\ f.sid # s
      BY <2>2
    <3>1. CASE i = n + 1
      BY <1>1, <3>0, <3>1
    <3>2. CASE i \in 1 .. n
      <4>1. v[i] = w[i]
        BY <1>1, <3>2
      <4> QED
        BY <2>1, <3>0, <3>2, <4>1
    <3> QED
      BY <3>1, <3>2
  <2>3. ASSUME NEW i \in 1 .. n + 1, NEW j \in 1 .. n + 1, v[i].cmd = "Syn", j < i
        PROVE  v[j].sid # v[i].sid
    <3>1. f.cmd = "Syn" => \A k \in 1 .. n : w[k].sid # f.sid
      BY <2>1
    <3>2. CASE i = n + 1
      <4>1. v[i] = f /\ j \in 1 .. n /\ v[j] = w[j]
        BY <1>1, <2>3, <3>2
      <4> QED
        BY <2>3, <3>1, <4>1
    <3>3. CASE i # n + 1
      <4>0. j < i
        BY <2>3
      <4>1. i \in 1 .. n /\ j \in 1 .. n
        BY <3>3, <4>0
      <4> QED
        BY <1>1, <2>1, <2>3, <4>1
    <3> QED
      BY <3>2, <3>3
  <2> QED
    BY <1>v, <1>1, <2>2, <2>3 DEF ClSyns
<1>4. ClHeads'
  <2> SUFFICES ASSUME NEW s \in Streams PROVE HeadsOK(v, s, next'[s])
    BY <1>v DEF ClHeads
  <2>0. next[s] \in {"Syn", "Header", "Data", "End"} \X Nat /\ next'[s] \in {"Syn", "Header", "Data", "End"} \X Nat
    BY DEF ClInv, ClTyped
  <2>a. PICK c \in {"Syn", "Header", "Data", "End"}, k \in Nat : next[s] = <<c, k>> /\ c = next[s][1] /\ k = next[s][2]
    BY <2>0
  <2>b. PICK d \in {"Syn", "Header", "Data", "End"}, m \in Nat : next'[s] = <<d, m>> /\ d = next'[s][1] /\ m = next'[s][2]
    BY <2>0
  <2>1. HeadsOK(w, s, next[s])
    BY <1>w DEF ClInv, ClHeads
  <2>2. HeadsOK(w, s, <<c, k>>) /\ ClMove(f, s, c, k, d, m)
    BY <2>a, <2>b, <2>1
  <2>3. HeadsOK(Append(w, f), s, <<d, m>>)
    BY <2>2, HeadsOKAppend
  <2> QED
    BY <1>w, <1>v, <2>b, <2>3
<1> QED
  BY <1>2, <1>3, <1>4 DEF ClInv

\* What a frame of the session itself does.
LEMMA ClControlInv ==
  ASSUME InPeerTypeOK, ClInv, NEW cmd \in Command \ {"Syn", "Psh", "Fin"}, Send(MkFrame(cmd, 0, 0)), next' = next
  PROVE  ClInv'
<1>1. PICK f \in Frame : f = MkFrame(cmd, 0, 0) /\ f.cmd = cmd /\ f.sid = 0
  BY FrameIs
<1>2. upWire' = Append(upWire, f) /\ 0 \notin Streams
  BY <1>1, FrameIs DEF Send
<1>3. \A s \in Streams : ClMove(f, s, next[s][1], next[s][2], next'[s][1], next'[s][2])
  BY <1>1, <1>2 DEF ClMove
<1>4. /\ next' \in [Streams -> {"Syn", "Header", "Data", "End"} \X Nat]
      /\ \A s \in Streams : next'[s][1] = "Header" => next'[s][2] \in 1 .. HeadersOf(s)
  BY DEF ClInv, ClTyped
<1> QED
  BY <1>1, <1>2, <1>3, <1>4, ClSent

\* What a frame of a stream does.
LEMMA ClFrameInv ==
  ASSUME InPeerTypeOK, ClInv, NEW s \in Streams, ClientFrame(s)
  PROVE  ClInv'
<1>1. PICK c \in {"Syn", "Header", "Data", "End"}, k \in Nat : next[s] = <<c, k>> /\ c = next[s][1] /\ k = next[s][2]
  BY DEF ClInv, ClTyped
<1>2. /\ next \in [Streams -> {"Syn", "Header", "Data", "End"} \X Nat] /\ (c = "Header" => k \in 1 .. HeadersOf(s))
      /\ \A t \in Streams : next[t][1] = "Header" => next[t][2] \in 1 .. HeadersOf(t)
  BY <1>1 DEF ClInv, ClTyped
<1>3. PICK f \in Frame, d \in {"Header", "Data", "End"}, m \in Nat :
        /\ Send(f) /\ next' = [next EXCEPT ![s] = <<d, m>>]
        /\ f.sid = s /\ (f.cmd = "Syn" => c = "Syn")
        /\ d = "Header" => m \in 1 .. HeadersOf(s)
        /\ ClMove(f, s, c, k, d, m)
  <2>0. /\ HeadersOf(s) \in 1 .. 2 /\ \A x \in {"Syn", "Psh", "Fin"}, n \in Nat :
             MkFrame(x, s, n) \in Frame /\ MkFrame(x, s, n).cmd = x /\ MkFrame(x, s, n).sid = s
    BY FrameIs DEF HeadersOf, Command
  <2>1. CASE c = "Syn" /\ Send(MkFrame("Syn", s, 0)) /\ next' = [next EXCEPT ![s] = <<"Header", HeadersOf(s)>>]
    <3>1. /\ MkFrame("Syn", s, 0) \in Frame /\ MkFrame("Syn", s, 0).sid = s /\ HeadersOf(s) \in Nat /\ (MkFrame("Syn", s, 0).cmd = "Syn" => c = "Syn")
          /\ ClMove(MkFrame("Syn", s, 0), s, c, k, "Header", HeadersOf(s)) /\ ("Header" = "Header" => HeadersOf(s) \in 1 .. HeadersOf(s))
      BY <2>0, <2>1 DEF ClMove, Header
    <3>2. Send(MkFrame("Syn", s, 0)) /\ next' = [next EXCEPT ![s] = <<"Header", HeadersOf(s)>>]
      BY <2>1
    <3> QED
      BY <3>1, <3>2
  <2>2. CASE c = "Header" /\ Send(MkFrame("Psh", s, Header))
             /\ next' = [next EXCEPT ![s] = IF k = 1 THEN <<"Data", 1>> ELSE <<"Header", k - 1>>]
    <3>1. CASE k = 1
      BY <2>0, <2>2, <3>1 DEF ClMove, Header
    <3>2. CASE k # 1
      <4>1. k > 1 /\ k - 1 \in 1 .. HeadersOf(s)
        BY <1>2, <2>0, <2>2, <3>2
      <4>2. /\ MkFrame("Psh", s, Header) \in Frame /\ MkFrame("Psh", s, Header).sid = s /\ (k - 1) \in Nat /\ (MkFrame("Psh", s, Header).cmd = "Syn" => c = "Syn")
            /\ ClMove(MkFrame("Psh", s, Header), s, c, k, "Header", (k - 1)) /\ ("Header" = "Header" => (k - 1) \in 1 .. HeadersOf(s))
        BY <2>0, <2>2, <3>2, <4>1 DEF ClMove, Header
      <4>3. Send(MkFrame("Psh", s, Header)) /\ next' = [next EXCEPT ![s] = <<"Header", (k - 1)>>]
        BY <2>2, <3>2
      <4> QED
        BY <4>2, <4>3
    <3> QED
      BY <3>1, <3>2
  <2>3. CASE c = "Data" /\ Send(MkFrame("Psh", s, k)) /\ next' = [next EXCEPT ![s] = <<"Data", k + 1>>]
    <3>1. /\ MkFrame("Psh", s, k) \in Frame /\ MkFrame("Psh", s, k).sid = s /\ (k + 1) \in Nat /\ (MkFrame("Psh", s, k).cmd = "Syn" => c = "Syn")
          /\ ClMove(MkFrame("Psh", s, k), s, c, k, "Data", (k + 1)) /\ ("Data" = "Header" => (k + 1) \in 1 .. HeadersOf(s))
      BY <2>0, <2>3 DEF ClMove, Header
    <3>2. Send(MkFrame("Psh", s, k)) /\ next' = [next EXCEPT ![s] = <<"Data", (k + 1)>>]
      BY <2>3
    <3> QED
      BY <3>1, <3>2
  <2>4. CASE Send(MkFrame("Fin", s, 0)) /\ next' = [next EXCEPT ![s] = <<"End", 0>>]
    BY <2>0, <2>4 DEF ClMove
  <2> QED
    BY <1>1, <2>1, <2>2, <2>3, <2>4 DEF ClientFrame
<1>4. upWire' = Append(upWire, f)
  BY <1>3 DEF Send
<1>5. /\ next' \in [Streams -> {"Syn", "Header", "Data", "End"} \X Nat]
      /\ next'[s] = <<d, m>> /\ next'[s][1] = d /\ next'[s][2] = m /\ \A t \in Streams : t # s => next'[t] = next[t]
  BY <1>2, <1>3
<1>6. /\ \A t \in Streams : next'[t][1] = "Header" => next'[t][2] \in 1 .. HeadersOf(t)
      /\ \A t \in Streams : next'[t][1] = "Syn" => next[t][1] = "Syn" /\ f.sid # t
  BY <1>2, <1>3, <1>5
<1>7. ASSUME NEW t \in Streams PROVE ClMove(f, t, next[t][1], next[t][2], next'[t][1], next'[t][2])
  <2>1. CASE t = s
    BY <1>1, <1>3, <1>5, <2>1
  <2>2. CASE t # s
    BY <1>3, <1>5, <2>2 DEF ClMove
  <2> QED
    BY <2>1, <2>2
<1> QED
  BY <1>1, <1>3, <1>4, <1>5, <1>6, <1>7, ClSent

-----------------------------------------------------------------------------
(* What was sent *)

\* A step that queues nothing keeps what is said of the pipe, if no stream that is over
\* starts again.
LEMMA PipeKept ==
  ASSUME PipeInv, UNCHANGED <<downWire, inWriteQ, inRxOpen, inSent>>, arrives' => arrives,
         inRpc' \in {"auth", "settings"} => inRpc \in {"auth", "settings"},
         \A s \in Streams : SynRead(s) => SynRead(s)' /\ (Over(s) => Over(s)')
  PROVE  PipeInv'
<1>1. DownOrder' /\ Pipe' = Pipe
  BY DEF PipeInv, DownOrder, Pipe
<1>2. ASSUME arrives' PROVE InOrder(Pipe) /\ PipeSays'
  <2>1. InOrder(Pipe) /\ PipeSays
    BY <1>2 DEF PipeInv
  <2> QED
    BY <1>1, <2>1 DEF PipeSays
<1> QED
  BY <1>1, <1>2 DEF PipeInv

\* A step that queues a frame keeps it, if the frame may follow.
LEMMA PipeQueued ==
  ASSUME InPeerTypeOK, PipeInv, NEW f \in Frame, inRxOpen, inWriteQ' = Append(inWriteQ, f),
         UNCHANGED <<downWire, inRxOpen, arrives>>,
         inRpc' \notin {"auth", "settings"},
         \A s \in Streams : SynRead(s) => SynRead(s)' /\ (Over(s) => Over(s)'),
         arrives => Follows(f, Frames(Pipe)),
         f.sid \in Streams => /\ SynRead(f.sid)' /\ (f.cmd = "Fin" => Over(f.sid)')
                              /\ (f.cmd = "Psh" => f.n <= inSent'[f.sid]),
         inSent' \in [Streams -> Nat], \A s \in Streams : inSent[s] <= inSent'[s],
         \A s \in Streams : \A k \in 1 .. inSent'[s] : k <= inSent[s] \/ f = MkFrame("Psh", s, k)
  PROVE  PipeInv'
<1>1. inWriteQ \in Seq(Frame) /\ downWire \in Seq(Frame) /\ inSent \in [Streams -> Nat]
  BY DEF InPeerTypeOK, InTypeOK
<1>2. PICK w \in Seq(Frame) : w = Pipe
  BY <1>1, PipeMoves DEF Pipe
<1>3. Pipe' = Append(w, f)
  BY <1>1, <1>2, PipeMoves DEF Pipe
<1>4. Frames(Pipe') = Frames(w) \cup {f}
  BY <1>3, OrderAppend
<1>5. ASSUME arrives PROVE InOrder(Pipe') /\ PipeSays'
  <2>1. InOrder(w) /\ PipeSays /\ Follows(f, Frames(w))
    BY <1>2, <1>5 DEF PipeInv
  <2>2. InOrder(Pipe')
    BY <1>3, <2>1, OrderAppend
  <2>3. ASSUME NEW g \in Frames(w) \cup {f}, g.sid \in Streams
        PROVE  SynRead(g.sid)' /\ (g.cmd = "Fin" => Over(g.sid)') /\ (g.cmd = "Psh" => g.n <= inSent'[g.sid])
    <3>1. CASE g = f
      BY <2>3, <3>1
    <3>2. CASE g \in Frames(w)
      <4>1. SynRead(g.sid) /\ (g.cmd = "Fin" => Over(g.sid)) /\ (g.cmd = "Psh" => g.n <= inSent[g.sid])
        BY <1>2, <2>1, <2>3, <3>2 DEF PipeSays
      <4>2. g \in Frame
        BY <3>2 DEF Frames
      <4>3. g.n \in Nat /\ inSent[g.sid] <= inSent'[g.sid] /\ inSent[g.sid] \in Nat /\ inSent'[g.sid] \in Nat
        BY <1>1, <2>3, <4>2, FrameIs
      <4> QED
        BY <2>3, <4>1, <4>3
    <3> QED
      BY <2>3, <3>1, <3>2
  <2>4. ASSUME NEW s \in Streams, NEW k \in 1 .. inSent'[s] PROVE MkFrame("Psh", s, k) \in Frames(w) \cup {f}
    <3>1. CASE k <= inSent[s]
      <4>1. k \in 1 .. inSent[s]
        BY <1>1, <3>1
      <4> QED
        BY <1>2, <2>1, <4>1 DEF PipeSays
    <3>2. CASE f = MkFrame("Psh", s, k)
      BY <3>2
    <3> QED
      BY <3>1, <3>2
  <2> QED
    BY <1>4, <2>2, <2>3, <2>4 DEF PipeSays
<1>6. DownOrder'
  BY DEF PipeInv, DownOrder
<1> QED
  BY <1>5, <1>6 DEF PipeInv

\* A stream that is not over has sent no FIN, and a frame of a stream that has not
\* been opened is none of the pipe's.
LEMMA PipeLacks ==
  ASSUME PipeInv, arrives, NEW s \in Streams
  PROVE  /\ ~Over(s) => MkFrame("Fin", s, 0) \notin Frames(Pipe)
         /\ ~SynRead(s) => \A g \in Frames(Pipe) : g.sid # s
<1>1. PipeSays
  BY DEF PipeInv
<1>2. MkFrame("Fin", s, 0).sid = s /\ MkFrame("Fin", s, 0).cmd = "Fin"
  BY DEF MkFrame
<1> QED
  BY <1>1, <1>2 DEF PipeSays

\* A try_send of a frame that may follow, and is no payload, keeps it with room and without.
LEMMA PipeTry ==
  ASSUME InPeerTypeOK, PipeInv, NEW f \in Frame, inWriteQ' \in {inWriteQ, InTrySend(f)},
         f.cmd # "Psh", arrives => Follows(f, Frames(Pipe)),
         f.sid \in Streams => SynRead(f.sid)' /\ (f.cmd = "Fin" => Over(f.sid)'),
         UNCHANGED <<downWire, inRxOpen, arrives, inSent>>,
         inRpc' \notin {"auth", "settings"},
         \A t \in Streams : SynRead(t) => SynRead(t)' /\ (Over(t) => Over(t)')
  PROVE  PipeInv'
<1>2. CASE inWriteQ' = inWriteQ
  BY <1>2, PipeKept
<1>3. CASE inWriteQ' # inWriteQ
  <2>1. inRxOpen /\ inWriteQ' = Append(inWriteQ, f)
    BY <1>3, InTrySendIs
  <2>3. /\ inSent' \in [Streams -> Nat] /\ \A t \in Streams : inSent[t] <= inSent'[t]
        /\ \A t \in Streams : \A k \in 1 .. inSent'[t] : k <= inSent[t] \/ f = MkFrame("Psh", t, k)
    BY DEF InPeerTypeOK, InTypeOK
  <2> QED
    BY <2>1, <2>3, PipeQueued
<1> QED
  BY <1>2, <1>3

\* So does a FIN of a stream that was not over and is now, queued or not for want of room.
LEMMA PipeFin ==
  ASSUME InPeerTypeOK, PipeInv, NEW s \in Streams, ~Over(s), SynRead(s)', Over(s)',
         inWriteQ' \in {inWriteQ, InTrySend(MkFrame("Fin", s, 0))},
         UNCHANGED <<downWire, inRxOpen, arrives, inSent>>,
         inRpc' \notin {"auth", "settings"},
         \A t \in Streams : SynRead(t) => SynRead(t)' /\ (Over(t) => Over(t)')
  PROVE  PipeInv'
<1>1. PICK f \in Frame : f = MkFrame("Fin", s, 0) /\ f.sid = s /\ f.cmd = "Fin" /\ f.n = 0
  BY FrameIs DEF Command
<1>2. arrives => Follows(f, Frames(Pipe))
  BY <1>1, PipeLacks DEF Follows
<1> QED
  BY <1>1, <1>2, PipeTry

-----------------------------------------------------------------------------
(* What the client sends and the loss of the link *)

\* A frame that is sent is behind all that the server has read.
LEMMA SentKeeps ==
  ASSUME StreamInv, NEW f \in Frame, Send(f), control' \in 0 .. MaxControl
  PROVE  InPeerTypeOK' /\ SvInv' /\ PipeInv'
<1>1. /\ upWire' = Append(upWire, f) /\ UNCHANGED <<downWire, broken, arrives>>
      /\ UNCHANGED <<inClosed, inState, inQ, task, inReader, inGot, inSent, inFin, inWriteQ, inRxOpen, inWpc, inRpc, inCur, upPos>>
  BY DEF Send, inVars
<1>w. PICK w \in Seq(Frame), n \in Nat, p \in Nat : w = upWire /\ n = Len(w) /\ p = upPos /\ p <= n
  BY LenProperties DEF StreamInv, InPeerTypeOK, InTypeOK
<1>2. /\ Append(w, f) \in Seq(Frame) /\ Len(Append(w, f)) = n + 1
      /\ \A i \in 1 .. n : Append(w, f)[i] = w[i]
      /\ \A s, i : i \in 0 .. n => Heads(Append(w, f), s, i) = Heads(w, s, i)
  BY <1>w, HeadsStay
<1>3. InPeerTypeOK'
  <2>1. upWire' \in Seq(Frame) /\ upPos <= Len(upWire')
    BY <1>1, <1>2, <1>w
  <2> QED
    BY <1>1, <2>1 DEF StreamInv, InPeerTypeOK, InTypeOK
<1>4. /\ p # 0 => upWire'[1] = upWire[1]
      /\ \A s : Heads(upWire', s, upPos) = Heads(upWire, s, upPos)
      /\ \A i \in 1 .. p : upWire'[i] = upWire[i]
  BY <1>1, <1>2, <1>w
<1>5. \A s : SynRead(s)' <=> SynRead(s)
  BY <1>1, <1>4, <1>w DEF SynRead
<1>6. SvRpc'
  BY <1>1, <1>4, <1>w DEF StreamInv, SvInv, SvRpc
<1>7. ASSUME NEW s \in Streams PROVE SvOne(s)'
  <2>1. SvOne(s)
    BY DEF StreamInv, SvInv
  <2> QED
    BY <1>1, <1>4, <1>5, <1>w, <2>1 DEF SvOne, HeadersOf
<1>8. PipeInv'
  <2>1. \A s \in Streams : Over(s) => Over(s)'
    BY <1>1 DEF Over
  <2> QED
    BY <1>1, <1>5, <2>1, PipeKept DEF StreamInv
<1> QED
  BY <1>3, <1>6, <1>7, <1>8 DEF SvInv

\* Every step of the client keeps the invariant.
LEMMA ClientInv ==
  ASSUME StreamInv, ClientHello \/ ClientControl \/ \E s \in Streams : ClientFrame(s)
  PROVE  StreamInv'
<1>1. CASE ClientHello \/ ClientControl
  <2>1. PICK cmd \in Command \ {"Syn", "Psh", "Fin"} : Send(MkFrame(cmd, 0, 0)) /\ next' = next
    BY <1>1 DEF ClientHello, ClientControl, envVars, Command
  <2>2. control' \in 0 .. MaxControl
    BY <1>1, ClientAssumption DEF ClientHello, ClientControl, envVars, StreamInv, InPeerTypeOK
  <2>3. MkFrame(cmd, 0, 0) \in Frame
    BY FrameIs
  <2>4. ClInv'
    BY <2>1, ClControlInv DEF StreamInv
  <2> QED
    BY <2>1, <2>2, <2>3, <2>4, SentKeeps DEF StreamInv
<1>2. CASE \E s \in Streams : ClientFrame(s)
  <2>1. PICK s \in Streams : ClientFrame(s)
    BY <1>2
  <2>2. ClInv'
    BY <2>1, ClFrameInv DEF StreamInv
  <2>3. PICK f \in Frame : Send(f)
    <3>1. PICK k \in Nat : k = next[s][2]
      BY DEF StreamInv, ClInv, ClTyped
    <3>2. \A cmd \in {"Syn", "Psh", "Fin"}, n \in Nat : MkFrame(cmd, s, n) \in Frame
      BY FrameIs DEF Command
    <3> QED
      BY <2>1, <3>1, <3>2 DEF ClientFrame, Header
  <2>4. control' \in 0 .. MaxControl
    BY <2>1 DEF ClientFrame, StreamInv, InPeerTypeOK
  <2> QED
    BY <2>2, <2>3, <2>4, SentKeeps DEF StreamInv
<1> QED
  BY <1>1, <1>2

\* So do a step that changes nothing and the loss of the link.
LEMMA RestInv ==
  ASSUME StreamInv, UNCHANGED <<inVars, upWire, downWire, envVars>>, broken' \in BOOLEAN, arrives' \in BOOLEAN,
         arrives' => arrives
  PROVE  StreamInv'
<1>1. /\ UNCHANGED <<upWire, downWire, next, control>>
      /\ UNCHANGED <<inClosed, inState, inQ, task, inReader, inGot, inSent, inFin, inWriteQ, inRxOpen, inWpc, inRpc, inCur, upPos>>
  BY DEF inVars, envVars
<1>2. InPeerTypeOK'
  BY <1>1 DEF StreamInv, InPeerTypeOK, InTypeOK
<1>3. ClInv'
  BY <1>1 DEF StreamInv, ClInv, ClTyped, ClSyns, ClHeads
<1>4. \A s : (SynRead(s)' <=> SynRead(s)) /\ (Over(s)' <=> Over(s)) /\ (SvOne(s) => SvOne(s)')
  BY <1>1 DEF SynRead, Over, SvOne
<1>5. SvInv'
  BY <1>1, <1>4 DEF StreamInv, SvInv, SvRpc
<1>6. PipeInv'
  BY <1>1, <1>4, PipeKept DEF StreamInv
<1> QED
  BY <1>2, <1>3, <1>5, <1>6 DEF StreamInv

-----------------------------------------------------------------------------
(* Steps of the server *)

\* The client's part is not touched by the server.
LEMMA ClStays ==
  ASSUME ClInv, UNCHANGED <<upWire, next>>
  PROVE  ClInv'
BY DEF ClInv, ClTyped, ClSyns, ClHeads

\* What the server has read stays read.
LEMMA SynStays ==
  ASSUME upPos \in Nat, upPos' \in {upPos, upPos + 1}, upWire' = upWire
  PROVE  \A s : SynRead(s) => SynRead(s)'
BY DEF SynRead

\* A stream that a step ends, or whose task goes on, has read what it had.
LEMMA SvKept ==
  ASSUME InPeerTypeOK, NEW s \in Streams, SvOne(s), upWire' = upWire, upPos' \in {upPos, upPos + 1},
         inRpc' \in {"auth", "settings"} => inRpc \in {"auth", "settings"},
         inState'[s] \in {inState[s], "none"}, task[s] # "none" <=> task'[s] # "none",
         inFin'[s] => inFin[s] \/ task[s] # "none",
         inState'[s] \in {"Pending", "WaitingUotRequest"} \/ task[s] # "none"
           => Heads(upWire, s, upPos') = Heads(upWire, s, upPos)
  PROVE  SvOne(s)'
<1>1. upPos \in Nat /\ (SynRead(s) => SynRead(s)')
  BY SynStays DEF InPeerTypeOK, InTypeOK
<1>2. inState'[s] # "none" \/ task'[s] # "none" =>
        inRpc' \notin {"auth", "settings"} /\ upPos' # 0 /\ upWire'[1].cmd = "Settings" /\ SynRead(s)'
  BY <1>1 DEF SvOne
<1>3. /\ inState'[s] = "Pending" => Cardinality(Heads(upWire', s, upPos')) = 0
      /\ inState'[s] = "WaitingUotRequest" => s \in UdpStreams /\ Cardinality(Heads(upWire', s, upPos')) = 1
      /\ inState'[s] \in {"Pending", "WaitingUotRequest"} => task'[s] = "none"
      /\ task'[s] # "none" => Cardinality(Heads(upWire', s, upPos')) = HeadersOf(s)
      /\ inFin'[s] => task'[s] # "none"
  BY DEF SvOne
<1> QED
  BY <1>2, <1>3 DEF SvOne, HeadersOf

\* A frame that is no header of the stream adds none.
LEMMA HeadsSame ==
  ASSUME InPeerTypeOK, NEW s, upPos' = upPos + 1, upWire[upPos + 1].cmd # "Psh" \/ upWire[upPos + 1].sid # s
  PROVE  Heads(upWire, s, upPos') = Heads(upWire, s, upPos)
<1>1. upPos \in Nat
  BY DEF InPeerTypeOK, InTypeOK
<1>2. upWire[upPos + 1] # MkFrame("Psh", s, Header)
  BY DEF MkFrame
<1> QED
  BY <1>1, <1>2, HeadsAre

\* A stream that ends, or whose task goes on, is over if it was.
LEMMA OverKept ==
  ASSUME NEW s \in Streams, Over(s), inState'[s] \in {inState[s], "none"}, inFin[s] => inFin'[s],
         task'[s] = task[s] \/ (task[s] \notin {"none", "dropped"} /\ (inState[s] = "none" => task[s] # "none"))
  PROVE  Over(s)'
BY DEF Over

\* A PSH of a stream that has not had all its headers is one.
LEMMA ReadsHeader ==
  ASSUME InPeerTypeOK, ClInv, NextFrame("Psh"), NEW s \in Streams, s = Sid,
         Cardinality(Heads(upWire, s, upPos)) < HeadersOf(s)
  PROVE  Cardinality(Heads(upWire, s, upPos')) = Cardinality(Heads(upWire, s, upPos)) + 1
<1>1. PICK p \in Nat, f \in Frame : /\ p = upPos /\ f = upWire[p + 1] /\ f.cmd = "Psh" /\ f.sid = s
                                   /\ p + 1 \in DOMAIN upWire /\ upPos' = p + 1
  <2>1. /\ upPos + 1 \in DOMAIN upWire /\ upWire[upPos + 1] \in Frame /\ upWire[upPos + 1].cmd = "Psh"
        /\ upPos' = upPos + 1
    BY NextIs DEF ClInv
  <2> QED
    BY <2>1 DEF InPeerTypeOK, InTypeOK, Sid
<1>2. /\ Cardinality(Heads(upWire, s, p)) \in Nat
      /\ f = MkFrame("Psh", s, Header) => Cardinality(Heads(upWire, s, p + 1)) = Cardinality(Heads(upWire, s, p)) + 1
      /\ f # MkFrame("Psh", s, Header) => Heads(upWire, s, p + 1) = Heads(upWire, s, p)
  BY <1>1, HeadsAre
<1>3. f.n # 0 => Cardinality(Heads(upWire, s, p + 1)) = HeadersOf(s)
  BY <1>1 DEF ClInv, ClHeads, HeadsOK
<1>4. f = MkFrame("Psh", s, f.n)
  BY <1>1, FrameIs
<1>5. HeadersOf(s) \in Nat
  BY DEF HeadersOf
<1>6. f.n = 0
  <2> SUFFICES ASSUME f.n # 0 PROVE FALSE
    OBVIOUS
  <2>1. f # MkFrame("Psh", s, Header)
    BY DEF MkFrame, Header
  <2> QED
    BY <1>1, <1>2, <1>3, <1>5, <2>1
<1> QED
  BY <1>1, <1>2, <1>4, <1>6 DEF Header

\* A stream that has had all its headers gets no more.
LEMMA HeadsDone ==
  ASSUME InPeerTypeOK, ClInv, NEW cmd, NextFrame(cmd), NEW s \in Streams,
         Cardinality(Heads(upWire, s, upPos)) = HeadersOf(s)
  PROVE  Heads(upWire, s, upPos') = Heads(upWire, s, upPos)
<1>0. upPos \in Nat /\ upWire \in Seq(Frame) /\ upPos < Len(upWire) /\ upPos' = upPos + 1
  BY DEF InPeerTypeOK, InTypeOK, NextFrame
<1>1. PICK p \in Nat, n \in Nat : p = upPos /\ n = Len(upWire) /\ upPos' = p + 1 /\ p + 1 <= n
  BY <1>0, LenProperties
<1>2. /\ Cardinality(Heads(upWire, s, p)) \in Nat
      /\ upWire[p + 1] = MkFrame("Psh", s, Header)
           => Cardinality(Heads(upWire, s, p + 1)) = Cardinality(Heads(upWire, s, p)) + 1
      /\ upWire[p + 1] # MkFrame("Psh", s, Header) => Heads(upWire, s, p + 1) = Heads(upWire, s, p)
  BY HeadsAre
<1>3. Cardinality(Heads(upWire, s, n)) <= HeadersOf(s)
  BY <1>1 DEF ClInv, ClHeads, HeadsOK
<1>4. Cardinality(Heads(upWire, s, p + 1)) <= Cardinality(Heads(upWire, s, n)) /\ Cardinality(Heads(upWire, s, n)) \in Nat
  BY <1>1, HeadsGrow, HeadsAre
<1>5. HeadersOf(s) \in Nat
  BY DEF HeadersOf
<1> QED
  BY <1>1, <1>2, <1>3, <1>4, <1>5

\* Most steps queue nothing and at most end streams.
LEMMA QuietInv ==
  ASSUME StreamInv, InPeerTypeOK', SvRpc', UNCHANGED <<upWire, next, downWire, inWriteQ, inRxOpen, inSent, arrives, inFin>>,
         upPos' \in {upPos, upPos + 1},
         inRpc' \in {"auth", "settings"} => inRpc \in {"auth", "settings"},
         \A s \in Streams :
           /\ inState'[s] \in {inState[s], "none"}
           /\ task'[s] = task[s] \/ (task[s] \notin {"none", "dropped"} /\ task'[s] # "none")
           /\ inState'[s] \in {"Pending", "WaitingUotRequest"} \/ task[s] # "none"
                => Heads(upWire, s, upPos') = Heads(upWire, s, upPos)
  PROVE  StreamInv'
<1>1. ClInv'
  BY ClStays DEF StreamInv
<1>2. ASSUME NEW s \in Streams PROVE SvOne(s)'
  <2>1. SvOne(s) /\ InPeerTypeOK
    BY DEF StreamInv, SvInv
  <2> QED
    BY <2>1, SvKept
<1>3. PipeInv'
  <2>1. \A s \in Streams : SynRead(s) => SynRead(s)'
    BY SynStays DEF StreamInv, InPeerTypeOK, InTypeOK
  <2>2. \A s \in Streams : Over(s) => Over(s)'
    BY OverKept
  <2> QED
    BY <2>1, <2>2, PipeKept DEF StreamInv
<1> QED
  BY <1>1, <1>2, <1>3 DEF StreamInv, SvInv

\* The authentication, or a failure before the settings, keeps the invariant: there is no
\* stream.
LEMMA AuthenticateInv ==
  ASSUME StreamInv, Authenticate \/ SettingsFail, UNCHANGED <<arrives, envVars>>
  PROVE  StreamInv'
<1>1. InPeerTypeOK'
  BY AuthenticateType, SettingsFailType DEF StreamInv, ClInv, SvInv
<1>2. SvRpc'
  BY DEF StreamInv, SvInv, SvRpc, Authenticate, SettingsFail
<1>3. /\ UNCHANGED <<upWire, next, downWire, inWriteQ, inRxOpen, inSent, arrives, inFin, upPos, inState, task>>
      /\ inRpc \in {"auth", "settings"}
  BY DEF Authenticate, SettingsFail, inSessVars, inTaskVars, linkVars, envVars
<1> QED
  BY <1>1, <1>2, <1>3, QuietInv

\* So does the delivery of a payload, which at most removes the entry of a dropped
\* stream.
LEMMA DeliverInv ==
  ASSUME StreamInv, Deliver, UNCHANGED <<arrives, envVars>>
  PROVE  StreamInv'
<1>1. InPeerTypeOK'
  BY DeliverType DEF StreamInv, ClInv, SvInv
<1>2. SvRpc'
  BY DEF StreamInv, SvInv, SvRpc, Deliver, linkVars
<1>3. /\ UNCHANGED <<upWire, next, downWire, inWriteQ, inRxOpen, inSent, arrives, inFin, upPos, task>> /\ inRpc' = "read"
  BY DEF Deliver, inTaskVars, linkVars, envVars
<1>4. \A s \in Streams : inState'[s] \in {inState[s], "none"}
  BY DEF StreamInv, InPeerTypeOK, InTypeOK, Deliver
<1> QED
  BY <1>1, <1>2, <1>3, <1>4, QuietInv

\* So do the ends of the loops: they only remove entries.
LEMMA EndsInv ==
  ASSUME StreamInv, ReadLoopEnds \/ CloseSession \/ ClearStreams \/ WriteTaskCloses, UNCHANGED <<arrives, envVars>>
  PROVE  StreamInv'
<1>1. InPeerTypeOK'
  BY ReadLoopEndsType, CloseSessionType, ClearStreamsType, WriteTaskClosesType DEF StreamInv, ClInv, SvInv
<1>2. SvRpc'
  BY DEF StreamInv, SvInv, SvRpc, ReadLoopEnds, CloseSession, ClearStreams, WriteTaskCloses, linkVars
<1>3. /\ UNCHANGED <<upWire, next, downWire, inWriteQ, inRxOpen, inSent, arrives, inFin, upPos, task>>
      /\ inRpc' \in {"auth", "settings"} => inRpc \in {"auth", "settings"}
  BY DEF ReadLoopEnds, CloseSession, ClearStreams, WriteTaskCloses, inSessVars, inTaskVars, linkVars, envVars
<1>4. \A s \in Streams : inState'[s] \in {inState[s], "none"}
  BY DEF ReadLoopEnds, CloseSession, ClearStreams, WriteTaskCloses, inSessVars
<1> QED
  BY <1>1, <1>2, <1>3, <1>4, QuietInv

\* So do the reads of a dispatch task.
LEMMA InReadInv ==
  ASSUME StreamInv, NEW s \in Streams, InRead(s) \/ InReadEnd(s), UNCHANGED <<arrives, envVars>>
  PROVE  StreamInv'
<1>1. InPeerTypeOK'
  BY InReadType, InReadEndType DEF StreamInv, ClInv, SvInv
<1>2. SvRpc'
  BY DEF StreamInv, SvInv, SvRpc, InRead, InReadEnd, linkVars
<1>3. UNCHANGED <<upWire, next, downWire, inWriteQ, inRxOpen, inSent, arrives, inFin, upPos, inState, inRpc>>
  BY DEF InRead, InReadEnd, inSessVars, linkVars, envVars
<1>4. \A t \in Streams : task'[t] = task[t] \/ (task[t] \notin {"none", "dropped"} /\ task'[t] # "none")
  BY DEF StreamInv, InPeerTypeOK, InTypeOK, InRead, InReadEnd
<1> QED
  BY <1>1, <1>2, <1>3, <1>4, QuietInv

\* A FIN or an alert of the client is no header and at most ends a stream.
LEMMA ReadFinInv ==
  ASSUME StreamInv, ReadFin \/ ReadAlert, UNCHANGED <<arrives, envVars>>
  PROVE  StreamInv'
<1>1. InPeerTypeOK'
  BY ReadFinType, ReadAlertType DEF StreamInv, ClInv, SvInv
<1>2. upPos \in Nat /\ upPos' = upPos + 1 /\ upWire[upPos + 1].cmd # "Psh"
  BY DEF StreamInv, InPeerTypeOK, InTypeOK, ReadFin, ReadAlert, NextFrame
<1>3. SvRpc'
  BY <1>2 DEF StreamInv, SvInv, SvRpc, ReadFin, ReadAlert, NextFrame, linkVars
<1>4. /\ UNCHANGED <<upWire, next, downWire, inWriteQ, inRxOpen, inSent, arrives, inFin, task>>
      /\ inRpc' \notin {"auth", "settings"}
  BY DEF ReadFin, ReadAlert, NextFrame, inSessVars, inTaskVars, linkVars, envVars
<1>5. \A s \in Streams : inState'[s] \in {inState[s], "none"}
  BY DEF StreamInv, InPeerTypeOK, InTypeOK, ReadFin, ReadAlert, inSessVars
<1>6. \A s \in Streams : Heads(upWire, s, upPos') = Heads(upWire, s, upPos)
  BY <1>2, HeadsSame DEF StreamInv
<1> QED
  BY <1>1, <1>2, <1>3, <1>4, <1>5, <1>6, QuietInv

\* A PSH of a stream whose task runs is data: its headers were all read before it was
\* dispatched.
LEMMA ReadDataInv ==
  ASSUME StreamInv, ReadData, UNCHANGED <<arrives, envVars>>
  PROVE  StreamInv'
<1>1. InPeerTypeOK'
  BY ReadDataType DEF StreamInv, ClInv, SvInv
<1>2. /\ NextFrame("Psh") /\ upPos \in Nat /\ upPos' = upPos + 1 /\ Sid \in Streams /\ inState[Sid] \in {"Active", "none"}
  BY NextIs DEF StreamInv, ClInv, InPeerTypeOK, InTypeOK, ReadData, NextFrame
<1>3. SvRpc'
  BY <1>2 DEF StreamInv, SvInv, SvRpc, ReadData, NextFrame, linkVars, Sid
<1>4. /\ UNCHANGED <<upWire, next, downWire, inWriteQ, inRxOpen, inSent, arrives, inFin, task, inState>>
      /\ inRpc' \notin {"auth", "settings"}
  BY DEF ReadData, NextFrame, inSessVars, inTaskVars, linkVars, envVars
<1>5. ASSUME NEW s \in Streams, inState[s] \in {"Pending", "WaitingUotRequest"} \/ task[s] # "none"
      PROVE  Heads(upWire, s, upPos') = Heads(upWire, s, upPos)
  <2>1. CASE s = Sid
    <3>1. task[s] # "none" /\ SvOne(s)
      BY <1>2, <1>5, <2>1 DEF StreamInv, SvInv
    <3>2. Cardinality(Heads(upWire, s, upPos)) = HeadersOf(s)
      BY <3>1 DEF SvOne
    <3> QED
      BY <1>2, <3>2, HeadsDone DEF StreamInv
  <2>2. CASE s # Sid
    BY <1>2, <2>2, HeadsSame DEF StreamInv, Sid
  <2> QED
    BY <2>1, <2>2
<1> QED
  BY <1>1, <1>2, <1>3, <1>4, <1>5, QuietInv

\* What every frame of a stream that is read has in common.
LEMMA ReadsStream ==
  ASSUME StreamInv, NEW cmd \in {"Syn", "Psh", "Fin"}, NextFrame(cmd), inRpc' = inRpc, upWire' = upWire
  PROVE  /\ upPos \in Nat /\ upPos' = upPos + 1 /\ upPos + 1 \in DOMAIN upWire /\ Sid \in Streams
         /\ upWire[upPos + 1].cmd = cmd /\ upWire[upPos + 1].sid = Sid /\ inRpc = "read" /\ upPos # 0
         /\ upWire[1].cmd = "Settings"
         /\ SvRpc' /\ (\A s : SynRead(s) => SynRead(s)')
<1>1. /\ upPos + 1 \in DOMAIN upWire /\ upWire[upPos + 1].cmd = cmd /\ upPos' = upPos + 1 /\ Sid \in Streams
      /\ upPos \in Nat /\ inRpc = "read"
  BY NextIs DEF StreamInv, ClInv, InPeerTypeOK, InTypeOK, NextFrame
<1>2. upPos # 0 /\ upWire[1].cmd = "Settings"
  BY <1>1 DEF StreamInv, SvInv, SvRpc
<1>3. SvRpc'
  BY <1>1, <1>2 DEF SvRpc
<1> QED
  BY <1>1, <1>2, <1>3, SynStays DEF Sid

\* A SYN is the first frame of its stream, so its SYNACK is the first answer and it has
\* no header yet.
LEMMA ReadSynInv ==
  ASSUME StreamInv, ReadSyn, UNCHANGED <<arrives, envVars>>
  PROVE  StreamInv'
<1>1. InPeerTypeOK' /\ InPeerTypeOK /\ ClInv
  BY ReadSynType DEF StreamInv, ClInv, SvInv
<1>2. /\ UNCHANGED <<upWire, next, downWire, inRxOpen, inSent, arrives, inFin, task, inRpc>> /\ NextFrame("Syn")
      /\ inState' = [inState EXCEPT ![Sid] = "Pending"] /\ inWriteQ' = InTrySend(MkFrame("SynAck", Sid, 0))
  BY DEF ReadSyn, inTaskVars, linkVars, envVars
<1>3. /\ upPos \in Nat /\ upPos' = upPos + 1 /\ upPos + 1 \in DOMAIN upWire /\ Sid \in Streams
      /\ upWire[upPos + 1].cmd = "Syn" /\ upWire[upPos + 1].sid = Sid /\ inRpc = "read" /\ upPos # 0
      /\ upWire[1].cmd = "Settings"
      /\ SvRpc' /\ (\A s : SynRead(s) => SynRead(s)')
  BY <1>2, ReadsStream
<1>4. PICK u \in Streams : u = Sid
  BY <1>3
<1>5. \A j \in 1 .. upPos : upWire[j].sid # u
  <2>1. \A j \in 1 .. upPos : j \in DOMAIN upWire /\ j < upPos + 1
    BY <1>1, <1>3 DEF InPeerTypeOK
  <2> QED
    BY <1>1, <1>3, <1>4, <2>1 DEF ClInv, ClSyns
<1>6. ~SynRead(u) /\ SynRead(u)'
  BY <1>2, <1>3, <1>4, <1>5 DEF SynRead
<1>7. inState[u] = "none" /\ task[u] = "none" /\ ~inFin[u]
  <2>1. SvOne(u)
    BY DEF StreamInv, SvInv
  <2> QED
    BY <1>6, <2>1 DEF SvOne
<1>8. Cardinality(Heads(upWire, u, upPos')) = 0
  <2>1. Heads(upWire, u, upPos') = Heads(upWire, u, upPos)
    BY <1>1, <1>3, HeadsSame
  <2>2. Heads(upWire, u, upPos) = {}
    BY <1>5 DEF Heads, MkFrame
  <2> QED
    BY <2>1, <2>2, FS_EmptySet
<1>9. inState'[u] = "Pending" /\ \A s \in Streams \ {u} : inState'[s] = inState[s]
  BY <1>1, <1>2, <1>4 DEF InPeerTypeOK, InTypeOK
<1>10. ASSUME NEW s \in Streams PROVE SvOne(s)'
  <2>1. CASE s = u
    BY <1>2, <1>3, <1>6, <1>7, <1>8, <1>9, <2>1 DEF SvOne
  <2>2. CASE s # u
    <3>1. Heads(upWire, s, upPos') = Heads(upWire, s, upPos) /\ SvOne(s)
      BY <1>1, <1>3, HeadsSame DEF StreamInv, SvInv
    <3> QED
      BY <1>1, <1>2, <1>3, <1>9, <2>2, <3>1, SvKept
  <2> QED
    BY <2>1, <2>2
<1>11. PipeInv'
  <2>1. PICK f \in Frame : f = MkFrame("SynAck", u, 0) /\ f.sid = u /\ f.cmd = "SynAck"
    BY FrameIs DEF Command
  <2>2. arrives => Follows(f, Frames(Pipe))
    BY <1>6, <2>1, PipeLacks DEF Follows, StreamInv
  <2>3. ASSUME NEW t \in Streams, SynRead(t) PROVE SynRead(t)' /\ (Over(t) => Over(t)')
    <3>1. t # u
      BY <1>6, <2>3
    <3> QED
      BY <1>2, <1>3, <1>9, <2>3, <3>1 DEF Over
  <2> QED
    BY <1>1, <1>2, <1>3, <1>4, <1>6, <2>1, <2>2, <2>3, PipeTry DEF StreamInv
<1> QED
  BY <1>1, <1>2, <1>3, <1>10, <1>11, ClStays DEF StreamInv, SvInv

\* The FIN of a refused stream is its only one: a stream without a task has sent none.
LEMMA BadHeaderInv ==
  ASSUME StreamInv, BadHeader, UNCHANGED <<arrives, envVars>>
  PROVE  StreamInv'
<1>1. InPeerTypeOK' /\ InPeerTypeOK /\ ClInv
  BY BadHeaderType DEF StreamInv, ClInv, SvInv
<1>2. /\ UNCHANGED <<upWire, next, downWire, inRxOpen, inSent, arrives, inFin, task, inRpc>> /\ NextFrame("Psh")
      /\ inState' = [inState EXCEPT ![Sid] = "none"] /\ inWriteQ' = InTrySend(MkFrame("Fin", Sid, 0))
      /\ inState[Sid] \in {"Pending", "WaitingUotRequest"}
  BY DEF BadHeader, inTaskVars, linkVars, envVars
<1>3. /\ upPos \in Nat /\ upPos' = upPos + 1 /\ Sid \in Streams
      /\ upWire[upPos + 1].cmd = "Psh" /\ upWire[upPos + 1].sid = Sid /\ inRpc = "read" /\ upPos # 0
      /\ SvRpc' /\ (\A s : SynRead(s) => SynRead(s)')
  BY <1>2, ReadsStream
<1>4. PICK u \in Streams : u = Sid
  BY <1>3
<1>5. SynRead(u) /\ task[u] = "none" /\ ~inFin[u] /\ inState[u] # "none"
  <2>1. SvOne(u)
    BY DEF StreamInv, SvInv
  <2> QED
    BY <1>2, <1>4, <2>1 DEF SvOne
<1>6. inState'[u] = "none" /\ \A s \in Streams \ {u} : inState'[s] = inState[s]
  BY <1>1, <1>2, <1>4 DEF InPeerTypeOK, InTypeOK
<1>7. ASSUME NEW s \in Streams PROVE SvOne(s)'
  <2>1. inState'[s] \in {"Pending", "WaitingUotRequest"} \/ task[s] # "none"
           => Heads(upWire, s, upPos') = Heads(upWire, s, upPos)
    <3>1. CASE s = u
      BY <1>5, <1>6, <3>1
    <3>2. CASE s # u
      BY <1>1, <1>3, <1>4, <3>2, HeadsSame
    <3> QED
      BY <3>1, <3>2
  <2>2. SvOne(s) /\ inState'[s] \in {inState[s], "none"}
    BY <1>6 DEF StreamInv, SvInv
  <2> QED
    BY <1>1, <1>2, <1>3, <2>1, <2>2, SvKept
<1>8. PipeInv'
  <2>1. ~Over(u) /\ Over(u)'
    BY <1>2, <1>5, <1>6 DEF Over
  <2>2. \A t \in Streams : Over(t) => Over(t)'
    BY <1>2, <1>6 DEF Over
  <2> QED
    BY <1>1, <1>2, <1>3, <1>4, <1>5, <2>1, <2>2, PipeFin DEF StreamInv
<1> QED
  BY <1>1, <1>2, <1>3, <1>7, <1>8, ClStays DEF StreamInv, SvInv

\* A header that is read moves its stream on by one.
LEMMA HeaderInv ==
  ASSUME StreamInv, InPeerTypeOK', NextFrame("Psh"), NEW u \in Streams, u = Sid,
         UNCHANGED <<upWire, next, downWire, inWriteQ, inRxOpen, inSent, arrives, inFin, inRpc>>,
         NEW a, inState' = [inState EXCEPT ![u] = a],
         NEW t, task' = [task EXCEPT ![u] = t],
         \/ inState[u] = "Pending" /\ u \in UdpStreams /\ a = "WaitingUotRequest" /\ t = "none"
         \/ inState[u] = "Pending" /\ u \notin UdpStreams /\ a = "Active" /\ t \in {"first", "open"}
         \/ inState[u] = "WaitingUotRequest" /\ a = "Active" /\ t \in {"first", "open"}
  PROVE  StreamInv'
<1>1. InPeerTypeOK /\ ClInv /\ SvOne(u) /\ PipeInv
  BY DEF StreamInv, SvInv
<1>2. /\ upPos \in Nat /\ upPos' = upPos + 1
      /\ upWire[upPos + 1].cmd = "Psh" /\ upWire[upPos + 1].sid = u /\ inRpc = "read" /\ upPos # 0
      /\ upWire[1].cmd = "Settings"
      /\ SvRpc' /\ (\A s : SynRead(s) => SynRead(s)')
  BY ReadsStream
<1>3. /\ SynRead(u) /\ task[u] = "none" /\ ~inFin[u]
      /\ inState[u] = "Pending" => Cardinality(Heads(upWire, u, upPos)) = 0
      /\ inState[u] = "WaitingUotRequest" => u \in UdpStreams /\ Cardinality(Heads(upWire, u, upPos)) = 1
  BY <1>1 DEF SvOne
<1>4. Cardinality(Heads(upWire, u, upPos)) < HeadersOf(u)
  BY <1>3 DEF HeadersOf
<1>5. Cardinality(Heads(upWire, u, upPos')) = Cardinality(Heads(upWire, u, upPos)) + 1
  BY <1>1, <1>4, ReadsHeader
<1>6. /\ inState'[u] = a /\ \A s \in Streams \ {u} : inState'[s] = inState[s]
      /\ task'[u] = t /\ \A s \in Streams \ {u} : task'[s] = task[s]
  BY <1>1 DEF InPeerTypeOK, InTypeOK
<1>7. ASSUME NEW s \in Streams PROVE SvOne(s)'
  <2>1. CASE s = u
    <3>1. /\ a = "WaitingUotRequest" => u \in UdpStreams /\ Cardinality(Heads(upWire, u, upPos')) = 1 /\ t = "none"
          /\ t # "none" => Cardinality(Heads(upWire, u, upPos')) = HeadersOf(u)
      BY <1>3, <1>5 DEF HeadersOf
    <3>2. a \in {"WaitingUotRequest", "Active"}
      OBVIOUS
    <3>3. upPos' # 0 /\ upWire'[1].cmd = "Settings" /\ SynRead(u)' /\ ~inFin'[u] /\ inRpc' = "read"
      BY <1>2, <1>3
    <3> QED
      BY <1>6, <2>1, <3>1, <3>2, <3>3 DEF SvOne, HeadersOf
  <2>2. CASE s # u
    <3>1. Heads(upWire, s, upPos') = Heads(upWire, s, upPos) /\ SvOne(s)
      BY <1>1, <1>2, <2>2, HeadsSame DEF StreamInv, SvInv
    <3> QED
      BY <1>1, <1>2, <1>6, <2>2, <3>1, SvKept
  <2> QED
    BY <2>1, <2>2
<1>8. PipeInv'
  <2>1. ~Over(u)
    BY <1>3 DEF Over
  <2>2. \A s \in Streams : Over(s) => Over(s)'
    BY <1>6, <2>1 DEF Over
  <2> QED
    BY <1>1, <1>2, <2>2, PipeKept
<1> QED
  BY <1>1, <1>2, <1>7, <1>8, ClStays DEF StreamInv, SvInv

\* A target is the first header; a TCP stream has no other and is dispatched.
LEMMA ReadTargetInv ==
  ASSUME StreamInv, ReadTarget, UNCHANGED <<arrives, envVars>>
  PROVE  StreamInv'
<1>1. InPeerTypeOK' /\ InPeerTypeOK
  BY ReadTargetType DEF StreamInv, ClInv, SvInv
<1>2. /\ UNCHANGED <<upWire, next, downWire, inWriteQ, inRxOpen, inSent, arrives, inFin, inRpc>> /\ NextFrame("Psh")
      /\ inState[Sid] = "Pending"
  BY DEF ReadTarget, linkVars, envVars
<1>3. PICK u \in Streams : u = Sid
  BY <1>2, NextIs DEF StreamInv, ClInv
<1>4. task[u] = "none" /\ task = [task EXCEPT ![u] = task[u]]
  <2>1. SvOne(u)
    BY DEF StreamInv, SvInv
  <2> QED
    BY <1>1, <1>2, <1>3, <2>1 DEF SvOne, InPeerTypeOK, InTypeOK
<1>5. CASE u \in UdpStreams
  <2>1. inState' = [inState EXCEPT ![u] = "WaitingUotRequest"] /\ task' = [task EXCEPT ![u] = "none"]
    BY <1>3, <1>4, <1>5 DEF ReadTarget
  <2> QED
    BY <1>1, <1>2, <1>3, <1>5, <2>1, HeaderInv
<1>6. CASE u \notin UdpStreams
  <2>1. inState' = [inState EXCEPT ![u] = "Active"] /\ task' = [task EXCEPT ![u] = "open"]
    BY <1>3, <1>6 DEF ReadTarget
  <2> QED
    BY <1>1, <1>2, <1>3, <1>6, <2>1, HeaderInv
<1> QED
  BY <1>5, <1>6

\* A UoT request is the second header of a UDP stream.
LEMMA ReadUotRequestInv ==
  ASSUME StreamInv, ReadUotRequest, UNCHANGED <<arrives, envVars>>
  PROVE  StreamInv'
<1>1. InPeerTypeOK' /\ InPeerTypeOK
  BY ReadUotRequestType DEF StreamInv, ClInv, SvInv
<1>2. /\ UNCHANGED <<upWire, next, downWire, inWriteQ, inRxOpen, inSent, arrives, inFin, inRpc>> /\ NextFrame("Psh")
      /\ inState[Sid] = "WaitingUotRequest"
  BY DEF ReadUotRequest, linkVars, envVars
<1>3. PICK u \in Streams : u = Sid
  BY <1>2, NextIs DEF StreamInv, ClInv
<1>4. PICK t \in {"first", "open"} : task' = [task EXCEPT ![u] = t]
  BY <1>3 DEF ReadUotRequest
<1>5. inState' = [inState EXCEPT ![u] = "Active"]
  BY <1>3 DEF ReadUotRequest
<1> QED
  BY <1>1, <1>2, <1>3, <1>4, <1>5, HeaderInv

\* A frame of no stream may always follow.
LEMMA ReadOtherInv ==
  ASSUME StreamInv, ReadOther, UNCHANGED <<arrives, envVars>>
  PROVE  StreamInv'
<1>1. InPeerTypeOK' /\ InPeerTypeOK /\ PipeInv
  BY ReadOtherType DEF StreamInv, ClInv, SvInv
<1>2. upPos \in Nat /\ upPos' = upPos + 1 /\ upWire[upPos + 1].cmd # "Psh" /\ inRpc = "read" /\ inRpc' = "read"
  BY DEF StreamInv, InPeerTypeOK, InTypeOK, ReadOther, NextFrame
<1>3. UNCHANGED <<upWire, next, downWire, inRxOpen, inSent, arrives, inFin, task, inState>>
  BY DEF ReadOther, inTaskVars, linkVars, envVars
<1>4. SvRpc'
  BY <1>2, <1>3 DEF StreamInv, SvInv, SvRpc
<1>5. \A s \in Streams : SynRead(s) => SynRead(s)'
  BY <1>2, <1>3, SynStays
<1>6. ASSUME NEW s \in Streams PROVE SvOne(s)'
  <2>1. Heads(upWire, s, upPos') = Heads(upWire, s, upPos) /\ SvOne(s)
    BY <1>1, <1>2, HeadsSame DEF StreamInv, SvInv
  <2> QED
    BY <1>1, <1>2, <1>3, <2>1, SvKept
<1>7. PipeInv'
  <2>1. PICK f \in Frame : f = MkFrame("HeartResponse", 0, 0) /\ f.sid = 0 /\ f.cmd = "HeartResponse"
    BY FrameIs DEF Command
  <2>2. f.sid \notin Streams /\ Follows(f, Frames(Pipe))
    BY <2>1, FrameIs DEF Follows
  <2>3. inWriteQ' \in {inWriteQ, InTrySend(f)}
    BY <2>1 DEF ReadOther
  <2>4. \A s \in Streams : Over(s) => Over(s)'
    BY <1>3 DEF Over
  <2> QED
    BY <1>1, <1>2, <1>3, <1>5, <2>1, <2>2, <2>3, <2>4, PipeTry
<1> QED
  BY <1>1, <1>3, <1>4, <1>6, <1>7, ClStays DEF StreamInv, SvInv

\* The answer to the settings is written before there is a stream.
LEMMA ReadSettingsInv ==
  ASSUME StreamInv, ReadSettings, UNCHANGED <<arrives, envVars>>
  PROVE  StreamInv'
<1>1. InPeerTypeOK' /\ InPeerTypeOK /\ PipeInv
  BY ReadSettingsType DEF StreamInv, ClInv, SvInv
<1>2. upPos = 0 /\ upPos' = 1 /\ inRpc = "settings" /\ inRpc' \in {"read", "done"}
      /\ (inRpc' = "read" => upWire[1].cmd = "Settings")
  BY DEF StreamInv, SvInv, SvRpc, ReadSettings
<1>3. UNCHANGED <<upWire, next, inWriteQ, inRxOpen, inSent, arrives, inFin, task, inState>>
  BY DEF ReadSettings, inSessVars, inTaskVars, linkVars, envVars
<1>4. SvRpc'
  BY <1>2, <1>3 DEF SvRpc
<1>5. inWriteQ = <<>> /\ \A s \in Streams : inState[s] = "none" /\ task[s] = "none" /\ ~inFin[s]
  BY <1>1, <1>2 DEF StreamInv, SvInv, SvOne, PipeInv
<1>6. ASSUME NEW s \in Streams PROVE SvOne(s)'
  BY <1>3, <1>5 DEF SvOne
<1>7. PICK f \in Frame : f.sid \notin Streams /\ downWire' = IF ~arrives THEN downWire ELSE Append(downWire, f)
  <2>1. /\ NoFrame \in Frame /\ NoFrame.sid \notin Streams
        /\ MkFrame("Alert", 0, 0) \in Frame /\ MkFrame("Alert", 0, 0).sid \notin Streams
    BY FrameIs DEF Command
  <2> QED
    BY <2>1 DEF ReadSettings
<1>8. PipeInv'
  <2>1. downWire \in Seq(Frame) /\ Pipe = downWire /\ Pipe' = downWire'
    BY <1>1, <1>3, <1>5, PipeMoves DEF InPeerTypeOK, Pipe
  <2>2. CASE ~arrives
    BY <1>1, <1>3, <1>5, <1>7, <2>2 DEF PipeInv, DownOrder
  <2>3. CASE arrives
    <3>1. InOrder(downWire) /\ PipeSays
      BY <1>1, <2>1, <2>3 DEF PipeInv
    <3>2. Follows(f, Frames(downWire)) /\ downWire' = Append(downWire, f)
      BY <1>7, <2>3 DEF Follows
    <3>3. InOrder(downWire') /\ Frames(downWire') = Frames(downWire) \cup {f}
      BY <2>1, <3>1, <3>2, OrderAppend
    <3>4. \A s \in Streams : SynRead(s) => SynRead(s)'
      BY <1>2, <1>3, SynStays
    <3>5. \A s \in Streams : Over(s) => Over(s)'
      BY <1>3 DEF Over
    <3>6. PipeSays'
      BY <1>3, <1>7, <2>1, <3>1, <3>3, <3>4, <3>5 DEF PipeSays
    <3> QED
      BY <1>3, <1>5, <2>1, <3>3, <3>6 DEF PipeInv, DownOrder
  <2> QED
    BY <2>2, <2>3
<1> QED
  BY <1>1, <1>3, <1>4, <1>6, <1>8, ClStays DEF StreamInv, SvInv

\* A step of a task, or of the write loop, leaves the read loop where it is.
LEMMA TaskSv ==
  ASSUME StreamInv, UNCHANGED <<upWire, next, upPos, inRpc, inCur>>,
         \A s \in Streams : /\ inState'[s] \in {inState[s], "none"} /\ (task[s] # "none" <=> task'[s] # "none")
                            /\ inFin'[s] => inFin[s] \/ task[s] # "none"
  PROVE  ClInv' /\ SvInv' /\ \A s \in Streams : SynRead(s) => SynRead(s)'
<1>1. ClInv'
  BY ClStays DEF StreamInv
<1>2. SvRpc'
  BY DEF StreamInv, SvInv, SvRpc
<1>3. ASSUME NEW s \in Streams PROVE SvOne(s)'
  <2>1. SvOne(s) /\ InPeerTypeOK
    BY DEF StreamInv, SvInv
  <2> QED
    BY <2>1, SvKept
<1> QED
  BY <1>1, <1>2, <1>3 DEF SvInv, SynRead

\* A frame that is written has been in the pipe, and what is lost with the queue was
\* behind what was written.
LEMMA WriteInv ==
  ASSUME StreamInv, WriteFrame \/ WriteLoopEnds, UNCHANGED <<arrives, envVars>>
  PROVE  StreamInv'
<1>1. InPeerTypeOK' /\ InPeerTypeOK /\ PipeInv
  BY WriteFrameType, WriteLoopEndsType DEF StreamInv, ClInv, SvInv
<1>2. UNCHANGED <<upWire, next, upPos, inRpc, inCur, inState, task, inFin, inSent, arrives>>
  BY DEF WriteFrame, WriteLoopEnds, inTaskVars, linkVars, envVars
<1>3. ClInv' /\ SvInv' /\ \A s \in Streams : SynRead(s) => SynRead(s)'
  BY <1>2, TaskSv
<1>4. \A s \in Streams : Over(s) => Over(s)'
  BY <1>2 DEF Over
<1>5. downWire \in Seq(Frame) /\ inWriteQ \in Seq(Frame) /\ downWire' \in Seq(Frame) /\ inWriteQ' \in Seq(Frame)
  BY <1>1 DEF InPeerTypeOK, InTypeOK
<1>6. CASE WriteFrame
  <2>1. /\ inWriteQ # <<>> /\ inWriteQ' = Tail(inWriteQ) /\ inRxOpen' = inRxOpen
        /\ downWire' = IF arrives THEN Append(downWire, Head(inWriteQ)) ELSE downWire
    BY <1>6 DEF WriteFrame
  <2>2. inRxOpen /\ inRpc \notin {"auth", "settings"}
    BY <1>1, <2>1 DEF PipeInv
  <2>3. ASSUME arrives PROVE PipeInv'
    <3>1. Pipe' = Pipe
      BY <1>5, <2>1, <2>3, PipeMoves DEF Pipe
    <3>2. InOrder(Pipe) /\ PipeSays
      BY <1>1, <2>3 DEF PipeInv
    <3>3. PipeSays'
      BY <1>2, <1>3, <1>4, <2>1, <3>1, <3>2 DEF PipeSays
    <3>4. InOrder(downWire' \o inWriteQ')
      BY <3>1, <3>2 DEF Pipe
    <3>5. InOrder(downWire')
      BY <1>5, <3>4, OrderPrefix
    <3> QED
      BY <1>2, <2>1, <2>2, <3>1, <3>2, <3>3, <3>5 DEF PipeInv, DownOrder
  <2>4. ASSUME ~arrives PROVE PipeInv'
    BY <1>1, <1>2, <2>1, <2>2, <2>4 DEF PipeInv, DownOrder
  <2>5. PipeInv'
    BY <2>3, <2>4
  <2> QED
    BY <1>1, <1>3, <2>5 DEF StreamInv
<1>7. CASE WriteLoopEnds
  <2>1. inWriteQ' = <<>> /\ inRxOpen' = FALSE /\ downWire' = downWire
    BY <1>7 DEF WriteLoopEnds, linkVars
  <2>2. DownOrder /\ DownOrder'
    BY <1>1, <2>1 DEF PipeInv, DownOrder
  <2>3. Pipe' = downWire
    BY <1>5, <2>1, PipeMoves DEF Pipe
  <2>4. ASSUME arrives PROVE InOrder(Pipe') /\ PipeSays'
    <3>1. InOrder(downWire \o inWriteQ) /\ PipeSays
      BY <1>1, <2>4 DEF PipeInv, Pipe
    <3>2. Frames(downWire) \subseteq Frames(downWire \o inWriteQ)
      BY <1>5, <3>1, OrderPrefix
    <3>3. Frames(downWire) \subseteq Frames(Pipe)
      BY <3>2 DEF Pipe
    <3>4. PipeSays'
      BY <1>2, <1>3, <1>4, <2>1, <2>3, <3>1, <3>3 DEF PipeSays
    <3> QED
      BY <2>2, <2>3, <3>4 DEF DownOrder
  <2>5. PipeInv'
    BY <1>2, <2>1, <2>2, <2>4 DEF PipeInv
  <2> QED
    BY <1>1, <1>3, <2>5 DEF StreamInv
<1> QED
  BY <1>6, <1>7

\* A stream that is open has been opened and is not over before its FIN.
LEMMA TaskOpen ==
  ASSUME StreamInv, NEW s \in Streams, task[s] \in {"first", "open"}
  PROVE  SynRead(s) /\ inRpc \notin {"auth", "settings"} /\ (~inFin[s] => ~Over(s))
<1>1. SvOne(s)
  BY DEF StreamInv, SvInv
<1> QED
  BY <1>1 DEF SvOne, Over

\* The next payload follows the last one.
LEMMA InWriteInv ==
  ASSUME StreamInv, NEW s \in Streams, InWrite(s), UNCHANGED <<arrives, envVars>>
  PROVE  StreamInv'
<1>1. InPeerTypeOK' /\ InPeerTypeOK /\ PipeInv
  BY InWriteType DEF StreamInv, ClInv, SvInv
<1>2. /\ UNCHANGED <<upWire, next, downWire, upPos, inRpc, inCur, inState, task, inFin, arrives, inRxOpen>>
      /\ task[s] = "open" /\ ~inFin[s] /\ inRxOpen
  BY DEF InWrite, InRoom, linkVars, envVars
<1>3. ClInv' /\ SvInv' /\ \A t \in Streams : SynRead(t) => SynRead(t)'
  BY <1>2, TaskSv
<1>4. PICK k \in Nat : k = inSent[s]
  BY <1>1 DEF InPeerTypeOK, InTypeOK
<1>5. PICK f \in Frame : f = MkFrame("Psh", s, k + 1) /\ f.sid = s /\ f.cmd = "Psh" /\ f.n = k + 1
  BY <1>4, FrameIs DEF Command
<1>6. /\ inSent \in [Streams -> Nat] /\ inSent' = [inSent EXCEPT ![s] = k + 1] /\ inWriteQ' = Append(inWriteQ, f)
  BY <1>1, <1>4, <1>5 DEF InWrite, InPeerTypeOK, InTypeOK
<1>7. SynRead(s) /\ inRpc \notin {"auth", "settings"} /\ ~Over(s)
  BY <1>2, TaskOpen
<1>8. ASSUME arrives PROVE Follows(f, Frames(Pipe))
  <2>1. PipeSays /\ MkFrame("Fin", s, 0) \notin Frames(Pipe)
    BY <1>1, <1>7, <1>8, PipeLacks DEF PipeInv
  <2>2. f \notin Frames(Pipe)
    BY <1>4, <1>5, <2>1 DEF PipeSays
  <2>3. k # 0 => MkFrame("Psh", s, k) \in Frames(Pipe)
    <3>1. k # 0 => k \in 1 .. inSent[s]
      BY <1>4
    <3> QED
      BY <1>2, <2>1, <3>1 DEF PipeSays
  <2>4. f.n # 0 /\ (f.n = 1 \/ k # 0) /\ f.n - 1 = k
    BY <1>4, <1>5
  <2> QED
    BY <1>5, <2>1, <2>2, <2>3, <2>4 DEF Follows
<1>9. PipeInv'
  <2>1. /\ inSent' \in [Streams -> Nat] /\ (\A t \in Streams : inSent[t] <= inSent'[t]) /\ inSent'[s] = k + 1
        /\ \A t \in Streams \ {s} : inSent'[t] = inSent[t]
    BY <1>4, <1>6
  <2>2. ASSUME NEW t \in Streams, NEW m \in 1 .. inSent'[t] PROVE m <= inSent[t] \/ f = MkFrame("Psh", t, m)
    <3>1. CASE t = s
      BY <1>4, <1>5, <2>1, <3>1
    <3>2. CASE t # s
      BY <1>6, <2>1, <3>2
    <3> QED
      BY <3>1, <3>2
  <2>3. \A t \in Streams : Over(t) => Over(t)'
    BY <1>2 DEF Over
  <2>4. f.n <= inSent'[s]
    BY <1>4, <1>5, <2>1
  <2> QED
    BY <1>1, <1>2, <1>3, <1>5, <1>6, <1>7, <1>8, <2>1, <2>2, <2>3, <2>4, PipeQueued
<1> QED
  BY <1>1, <1>3, <1>9 DEF StreamInv

\* One FIN ends the stream, of a shutdown or of the drop.
LEMMA InEndInv ==
  ASSUME StreamInv, NEW s \in Streams, InShutdown(s) \/ InDrop(s), UNCHANGED <<arrives, envVars>>
  PROVE  StreamInv'
<1>1. InPeerTypeOK' /\ InPeerTypeOK /\ PipeInv
  BY InShutdownType, InDropType DEF StreamInv, ClInv, SvInv
<1>2. /\ UNCHANGED <<upWire, next, downWire, upPos, inRpc, inCur, inSent, arrives, inRxOpen>>
      /\ task[s] \in {"first", "open"}
  BY DEF InShutdown, InDrop, linkVars, envVars
<1>3. /\ \A t \in Streams : inState'[t] \in {inState[t], "none"} /\ (task[t] # "none" <=> task'[t] # "none")
      /\ \A t \in Streams : inFin[t] => inFin'[t]
      /\ \A t \in Streams \ {s} : inFin'[t] = inFin[t] /\ task'[t] = task[t]
      /\ inFin'[s] \/ task'[s] = "dropped"
  <2>1. CASE InShutdown(s)
    BY <1>1, <2>1 DEF InShutdown, InPeerTypeOK, InTypeOK
  <2>2. CASE InDrop(s)
    BY <1>1, <1>2, <2>2 DEF InDrop, InPeerTypeOK, InTypeOK
  <2> QED
    BY <2>1, <2>2
<1>4. \A t \in Streams : inFin'[t] => inFin[t] \/ task[t] # "none"
  BY <1>2, <1>3
<1>5. ClInv' /\ SvInv' /\ \A t \in Streams : SynRead(t) => SynRead(t)'
  BY <1>2, <1>3, <1>4, TaskSv
<1>6. SynRead(s) /\ inRpc \notin {"auth", "settings"} /\ (~inFin[s] => ~Over(s))
  BY <1>2, TaskOpen
<1>7. Over(s)' /\ \A t \in Streams : Over(t) => Over(t)'
  BY <1>3 DEF Over
<1>8. CASE inFin[s]
  <2>1. inWriteQ' = inWriteQ
    BY <1>8 DEF InShutdown, InDrop
  <2> QED
    BY <1>1, <1>2, <1>5, <1>6, <1>7, <2>1, PipeKept DEF StreamInv
<1>9. CASE ~inFin[s]
  <2>1. inWriteQ' = InTrySend(MkFrame("Fin", s, 0))
    BY <1>9 DEF InShutdown, InDrop, InRoom, InTrySend
  <2>2. PipeInv'
    BY <1>1, <1>2, <1>5, <1>6, <1>7, <1>9, <2>1, PipeFin
  <2> QED
    BY <1>1, <1>5, <2>2 DEF StreamInv
<1> QED
  BY <1>8, <1>9

-----------------------------------------------------------------------------
(* The theorem *)

\* The invariant holds at first,
LEMMA StreamInit == InPeerInit => StreamInv
<1> SUFFICES ASSUME InPeerInit PROVE StreamInv
  OBVIOUS
<1>1. /\ upWire = <<>> /\ downWire = <<>> /\ inWriteQ = <<>> /\ upPos = 0 /\ inRpc = "auth" /\ inRxOpen
      /\ next = [s \in Streams |-> <<"Syn", 0>>]
      /\ \A s \in Streams : inState[s] = "none" /\ task[s] = "none" /\ ~inFin[s] /\ inSent[s] = 0
  BY DEF InPeerInit, InInit
<1>2. InPeerTypeOK
  <2>1. NoFrame \in Frame
    BY FrameIs
  <2>2. /\ <<>> \in Seq(Frame) /\ <<>> \in Seq(Nat) /\ Len(<<>>) = 0
        /\ 0 <= STREAM_QUEUE_CAPACITY /\ 0 <= SESSION_QUEUE_CAPACITY /\ 0 \in 0 .. MaxControl
    BY InboundAssumption, ClientAssumption
  <2>3. InTypeOK
    BY <2>1, <2>2 DEF InPeerInit, InInit, InTypeOK
  <2>4. upPos <= Len(upWire) /\ upWire \in Seq(Frame) /\ downWire \in Seq(Frame)
    BY <1>1
  <2>5. broken \in BOOLEAN /\ arrives \in BOOLEAN /\ control \in 0 .. MaxControl
    BY <2>2 DEF InPeerInit
  <2> QED
    BY <2>3, <2>4, <2>5 DEF InPeerTypeOK
<1>3. ClInv
  <2>1. DOMAIN upWire = {} /\ Len(upWire) = 0
    BY <1>1
  <2>2. ClTyped /\ ClSyns
    BY <1>1, <2>1 DEF ClTyped, ClSyns
  <2>3. ASSUME NEW s \in Streams PROVE HeadsOK(upWire, s, next[s])
    <3>1. Heads(upWire, s, Len(upWire)) = {}
      BY <2>1 DEF Heads
    <3>2. Cardinality(Heads(upWire, s, Len(upWire))) = 0
      BY <3>1, FS_EmptySet
    <3>3. next[s][1] = "Syn" /\ HeadersOf(s) \in Nat
      BY <1>1 DEF HeadersOf
    <3> QED
      BY <2>1, <3>2, <3>3 DEF HeadsOK
  <2> QED
    BY <2>2, <2>3 DEF ClInv, ClHeads
<1>4. SvInv
  BY <1>1 DEF SvInv, SvRpc, SvOne
<1>5. PipeInv
  <2>1. Pipe = <<>> /\ Frames(Pipe) = {} /\ DOMAIN Pipe = {}
    BY <1>1 DEF Pipe, Frames
  <2>2. InOrder(Pipe) /\ DownOrder
    BY <1>1, <2>1 DEF InOrder, DownOrder
  <2>3. PipeSays
    BY <1>1, <2>1 DEF PipeSays
  <2> QED
    BY <1>1, <2>2, <2>3 DEF PipeInv
<1> QED
  BY <1>2, <1>3, <1>4, <1>5 DEF StreamInv

\* and every step of the client, the link, the loops and the tasks keeps it.
LEMMA StreamStep == StreamInv /\ [InPeerNext]_peerAllVars => StreamInv'
<1> SUFFICES ASSUME StreamInv, [InPeerNext]_peerAllVars PROVE StreamInv'
  OBVIOUS
<1>1. CASE InStep
  <2>1. UNCHANGED <<arrives, envVars>>
    BY <1>1 DEF InStep
  <2>2. CASE ReadSide
    BY <2>1, <2>2, AuthenticateInv, ReadSettingsInv, ReadSynInv, BadHeaderInv, ReadTargetInv, ReadUotRequestInv,
       ReadDataInv, DeliverInv, ReadFinInv, ReadOtherInv, EndsInv DEF ReadSide
  <2>3. CASE WriteSide
    BY <2>1, <2>3, WriteInv, EndsInv DEF WriteSide
  <2>4. ASSUME NEW s \in Streams, Dispatch(s) PROVE StreamInv'
    BY <2>1, <2>4, InReadInv, InWriteInv, InEndInv DEF Dispatch
  <2> QED
    BY <1>1, <2>2, <2>3, <2>4 DEF InStep, InNext
<1>2. CASE ClientHello \/ ClientControl \/ \E s \in Streams : ClientFrame(s)
  BY <1>2, ClientInv
<1>3. CASE LinkFails
  BY <1>3, RestInv DEF LinkFails, StreamInv, InPeerTypeOK
<1>4. CASE InEnded \/ UNCHANGED peerAllVars
  <2>1. UNCHANGED <<inVars, upWire, downWire, envVars>> /\ broken' = broken /\ arrives' = arrives
    BY <1>4 DEF InEnded, peerAllVars, linkVars
  <2> QED
    BY <2>1, RestInv DEF StreamInv, InPeerTypeOK
<1> QED
  BY <1>1, <1>2, <1>3, <1>4 DEF InPeerNext

\* The server keeps the protocol of its streams, for every number of streams, every
\* capacity of its queues and every order in which the client's frames, the loops and the
\* dispatch tasks interleave: the frames of a stream leave in order with one FIN at most,
\* although the read loop, poll_shutdown and drop each send FINs of their own and a FIN or
\* SYNACK for which there is no room is lost; and no stream reaches the router before its
\* headers, nor before the settings.
THEOREM StreamProtocolHolds == InSpec => []StreamProtocol
<1>1. StreamInv => StreamProtocol
  <2> SUFFICES ASSUME StreamInv PROVE InPeerTypeOK /\ DownOrder /\ DispatchAfterHeaders
    BY DEF StreamProtocol
  <2>1. InPeerTypeOK /\ DownOrder
    BY DEF StreamInv, PipeInv
  <2>2. DispatchAfterHeaders
    BY DEF StreamInv, SvInv, SvOne, Heads, DispatchAfterHeaders
  <2> QED
    BY <2>1, <2>2
<1> QED
  BY <1>1, StreamInit, StreamStep, PTL DEF InSpec
=============================================================================
