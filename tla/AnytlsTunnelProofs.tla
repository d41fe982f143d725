------------------------- MODULE AnytlsTunnelProofs -------------------------
(***************************************************************************)
(* The two ends of an AnyTLS tunnel, for every set of streams, every queue *)
(* capacity and every bound on what the relays write: what the client's    *)
(* relay wrote is what the server's dispatch task reads, and the server is *)
(* a peer as the client's specification assumes it.                        *)
(***************************************************************************)
EXTENDS AnytlsTunnel, AnytlsSessionProofs

-----------------------------------------------------------------------------
(* What the server has read of the client's frames *)

\* The frames and the payloads of s it has read, and whether a FIN was among them.
FramesRead(s) == FramesUpTo(wireOut, s, upPos)
Brought(s) == DataUpTo(wireOut, s, upPos)
FinRead(s) == \E i \in 1 .. upPos : wireOut[i].sid = s /\ wireOut[i].cmd = "Fin"

\* The read loop is delivering a payload of s.
Delivering(s) == inRpc = "push" /\ inCur.sid = s

\* The payloads of s that its task has read, that are queued for it and that are being
\* delivered.
Having(s) == Len(inGot[s]) + Len(inQ[s]) + (IF Delivering(s) THEN 1 ELSE 0)

\* The stream's dispatch task runs.
Served(s) == task[s] \in {"first", "open"}

\* The session has not been told to end.
Lives == ~inClosed /\ inRpc \in {"read", "push"}

\* The entry of a stream tells how many of its frames were read.
Opening(s) ==
    /\ inState[s] = "Pending" => FramesRead(s) = 1
    /\ inState[s] = "WaitingUotRequest" => FramesRead(s) = 2 /\ s \in UdpStreams
    /\ inState[s] = "Active" => FramesRead(s) > HeaderCount(s) /\ Served(s)
    /\ inState[s] \in {"Pending", "WaitingUotRequest"} => task[s] = "none" /\ Brought(s) = 0
    /\ FramesRead(s) = 0 => inState[s] = "none" /\ task[s] = "none"
    /\ Delivering(s) => inState[s] = "Active" \/ task[s] = "dropped"

\* A task has, in order, the payloads its session has read; it loses its entry, while
\* the session lives, only to a FIN, and with all payloads before it.
Serving(s) ==
    /\ ~Served(s) => inQ[s] = <<>> /\ inGot[s] = <<>> /\ inReader[s] = "reading"
    /\ Served(s) =>
        /\ \A i \in DOMAIN inGot[s] : inGot[s][i] = i
        /\ \A i \in DOMAIN inQ[s] : inQ[s][i] = Len(inGot[s]) + i
        /\ Delivering(s) => inCur.n = Having(s)
        /\ Having(s) <= Brought(s)
        /\ inState[s] = "Active" => Having(s) = Brought(s)
        /\ inReader[s] = "eof" => inQ[s] = <<>> /\ ~Server!InSenderAlive(s)
        /\ inState[s] # "Active" /\ Lives => Having(s) = Brought(s) /\ FinRead(s)

ServerRpc ==
    /\ upPos <= Len(wireOut)
    /\ inRpc \in {"auth", "settings"} => upPos = 0
    /\ inRpc = "push" => inCur.sid \in Streams

ServerInv == ServerRpc /\ \A s \in Streams : Opening(s) /\ Serving(s)

\* Both ends keep their types.
EndsType == PeerTypeOK /\ Server!InTypeOK

\* Counts depend on the frames that are counted only.
LEMMA UpToPrefix ==
  ASSUME NEW v \in Seq(Frame), NEW w \in Seq(Frame), NEW i \in Nat, \A j \in 1 .. i : v[j] = w[j], NEW s \in Streams
  PROVE  FramesUpTo(v, s, i) = FramesUpTo(w, s, i) /\ DataUpTo(v, s, i) = DataUpTo(w, s, i)
<1>1. CASE i = 0
  BY <1>1, UpToZero
<1>2. CASE i # 0
  <2>1. i \in Nat \ {0}
    BY <1>2
  <2> QED
    BY <2>1, GoodPrefix
<1> QED
  BY <1>1, <1>2

\* A payload is a frame, and what was counted is counted again further on.
LEMMA UpToGrows ==
  ASSUME NEW w \in Seq(Frame), NEW s \in Streams, NEW i \in Nat, NEW k \in Nat, i <= k
  PROVE  /\ DataUpTo(w, s, i) <= FramesUpTo(w, s, i)
         /\ DataUpTo(w, s, i) <= DataUpTo(w, s, k)
         /\ (\A j \in 1 .. k : w[j].sid = s => j <= i) => DataUpTo(w, s, k) = DataUpTo(w, s, i)
<1>1. PICK D : D = {j \in 1 .. i : IsData(w[j], s)}
  OBVIOUS
<1>2. PICK E : E = {j \in 1 .. k : IsData(w[j], s)}
  OBVIOUS
<1>3. PICK F : F = {j \in 1 .. i : w[j].sid = s}
  OBVIOUS
<1>4. IsFiniteSet(1 .. i) /\ IsFiniteSet(1 .. k) /\ F \subseteq 1 .. i /\ E \subseteq 1 .. k
  BY <1>2, <1>3, FS_Interval
<1>5. IsFiniteSet(F) /\ IsFiniteSet(E)
  BY <1>4, FS_Subset
<1>6. D \subseteq F /\ D \subseteq E
  BY <1>1, <1>2, <1>3 DEF IsData
<1>7. Cardinality(D) <= Cardinality(F) /\ Cardinality(D) <= Cardinality(E)
  BY <1>5, <1>6, FS_Subset
<1>8. (\A j \in 1 .. k : w[j].sid = s => j <= i) => D = E
  BY <1>1, <1>2 DEF IsData
<1> QED
  BY <1>1, <1>2, <1>3, <1>7, <1>8 DEF FramesUpTo, DataUpTo

\* The frame the read loop takes next.
LEMMA ReadsFrame ==
  ASSUME EndsType, ServerRpc, WireOk(wireOut), NEW cmd, Server!NextFrame(cmd), NEW f, f = wireOut[upPos + 1]
  PROVE  /\ f \in Frame /\ f.cmd = cmd /\ Mine(f) /\ Server!Sid = f.sid /\ upPos' = upPos + 1 /\ upPos + 1 <= Len(wireOut)
         /\ cmd \in {"Syn", "Psh", "Fin"} <=> f.sid \in Streams
         /\ f.sid \in Streams => ~FinRead(f.sid)
<1>1. upPos \in Nat /\ wireOut \in Seq(Frame) /\ upPos < Len(wireOut) /\ wireOut[upPos + 1].cmd = cmd
  BY DEF EndsType, PeerTypeOK, TypeOK, Server!InTypeOK, Server!NextFrame
<1>2. PICK i \in Nat : i = upPos + 1
  BY <1>1
<1>3. i \in 1 .. Len(wireOut) /\ i - 1 = upPos
  BY <1>1, <1>2
<1>4. f \in Frame /\ GoodAt(wireOut, i)
  BY <1>1, <1>2, <1>3 DEF WireOk
<1>5. Mine(f) /\ (f.sid \in Streams => InPlace(wireOut, i))
  BY <1>2, <1>4 DEF GoodAt
<1>6. cmd \in {"Syn", "Psh", "Fin"} <=> f.sid \in Streams
  BY <1>1, <1>5, StreamsAssumption DEF Mine
<1>7. f.sid \in Streams => ~FinRead(f.sid)
  BY <1>2, <1>3, <1>5 DEF InPlace, FinRead
<1> QED
  BY <1>1, <1>2, <1>3, <1>4, <1>5, <1>6, <1>7 DEF Server!NextFrame, Server!Sid

\* The types a stream's server side has.
LEMMA ServedType ==
  ASSUME EndsType, NEW s \in Streams
  PROVE  /\ inQ[s] \in Seq(Nat) /\ inGot[s] \in Seq(Nat) /\ Len(inQ[s]) \in Nat /\ Len(inGot[s]) \in Nat
         /\ inState[s] \in {"none", "Pending", "WaitingUotRequest", "Active"}
         /\ task[s] \in {"none", "first", "open", "dropped"}
         /\ inReader[s] \in {"reading", "eof"}
         /\ wireOut \in Seq(Frame) /\ upPos \in Nat
         /\ FramesRead(s) \in Nat /\ Brought(s) \in Nat /\ HeaderCount(s) \in {1, 2} /\ Having(s) \in Nat
<1>1. /\ inQ[s] \in Seq(Nat) /\ inGot[s] \in Seq(Nat) /\ Len(inQ[s]) \in Nat /\ Len(inGot[s]) \in Nat
      /\ inState[s] \in {"none", "Pending", "WaitingUotRequest", "Active"}
      /\ task[s] \in {"none", "first", "open", "dropped"}
      /\ inReader[s] \in {"reading", "eof"}
      /\ wireOut \in Seq(Frame) /\ upPos \in Nat
  BY DEF EndsType, PeerTypeOK, TypeOK, Server!InTypeOK
<1>2. FramesRead(s) \in Nat /\ Brought(s) \in Nat
  BY <1>1, UpToStep DEF FramesRead, Brought
<1>3. PICK a \in Nat, b \in Nat : a = Len(inGot[s]) /\ b = Len(inQ[s])
  BY <1>1
<1>4. Having(s) = a + b + 1 \/ Having(s) = a + b + 0
  BY <1>3 DEF Having
<1>5. a + b + 1 \in Nat /\ a + b + 0 \in Nat
  OBVIOUS
<1> QED
  BY <1>1, <1>2, <1>4, <1>5 DEF HeaderCount

\* What a frame adds to what was read.
LEMMA ReadCounts ==
  ASSUME EndsType, ServerRpc, WireOk(wireOut), NEW cmd, Server!NextFrame(cmd), NEW f, f = wireOut[upPos + 1],
         wireOut' = wireOut, NEW s \in Streams
  PROVE  /\ f.sid # s => FramesRead(s)' = FramesRead(s) /\ Brought(s)' = Brought(s)
         /\ f.sid = s => /\ FramesRead(s)' = FramesRead(s) + 1
                         /\ cmd = "Syn" <=> FramesRead(s) = 0
                         /\ cmd = "Psh" /\ FramesRead(s) <= HeaderCount(s) => Brought(s)' = Brought(s)
                         /\ cmd = "Psh" /\ FramesRead(s) > HeaderCount(s) => Brought(s)' = Brought(s) + 1 /\ f.n = Brought(s) + 1
                         /\ cmd # "Psh" => Brought(s)' = Brought(s)
                         /\ cmd = "Fin" => FinRead(s)'
         /\ Brought(s) <= Brought(s)'
         /\ FinRead(s) => FinRead(s)'
<1>1. /\ f \in Frame /\ f.cmd = cmd /\ Mine(f) /\ upPos' = upPos + 1 /\ upPos + 1 <= Len(wireOut)
      /\ upPos \in Nat /\ wireOut \in Seq(Frame)
  BY ReadsFrame, ServedType
<1>2. PICK p \in Nat, w \in Seq(Frame) : p = upPos /\ w = wireOut
  BY <1>1
<1>3. PICK a \in Nat, b \in Nat : a = FramesUpTo(w, s, p) /\ b = DataUpTo(w, s, p)
  BY UpToStep
<1>4. /\ w[p + 1].sid = s => FramesUpTo(w, s, p + 1) = a + 1
      /\ w[p + 1].sid # s => FramesUpTo(w, s, p + 1) = a
      /\ IsData(w[p + 1], s) => DataUpTo(w, s, p + 1) = b + 1
      /\ ~IsData(w[p + 1], s) => DataUpTo(w, s, p + 1) = b
  BY <1>3, UpToStep
<1>5. /\ FramesRead(s) = a /\ Brought(s) = b /\ w[p + 1] = f
      /\ FramesRead(s)' = FramesUpTo(w, s, p + 1) /\ Brought(s)' = DataUpTo(w, s, p + 1)
  BY <1>1, <1>2, <1>3 DEF FramesRead, Brought
<1>6. ASSUME f.sid # s PROVE FramesRead(s)' = FramesRead(s) /\ Brought(s)' = Brought(s)
  BY <1>4, <1>5, <1>6 DEF IsData
<1>7. FinRead(s) => FinRead(s)'
  BY <1>1 DEF FinRead
<1>8. ASSUME f.sid = s
      PROVE  /\ FramesRead(s)' = FramesRead(s) + 1
             /\ cmd = "Syn" <=> FramesRead(s) = 0
             /\ cmd = "Psh" /\ FramesRead(s) <= HeaderCount(s) => Brought(s)' = Brought(s)
             /\ cmd = "Psh" /\ FramesRead(s) > HeaderCount(s) => Brought(s)' = Brought(s) + 1 /\ f.n = Brought(s) + 1
             /\ cmd # "Psh" => Brought(s)' = Brought(s)
             /\ cmd = "Fin" => FinRead(s)'
  <2>1. p + 1 \in 1 .. Len(w)
    BY <1>1, <1>2
  <2>2. InPlace(w, p + 1) /\ (IsData(f, s) => f.n = DataUpTo(w, s, p + 1))
    BY <1>2, <1>5, <1>8, <2>1 DEF WireOk, GoodAt
  <2>3. PICK k \in Nat : k = FramesUpTo(w, s, p + 1) /\ k = a + 1
    BY <1>4, <1>5, <1>8
  <2>4. PICK h \in Nat : h = HeaderCount(s) /\ h # 0
    BY DEF HeaderCount
  <2>5. /\ f.cmd = "Syn" <=> k = 1
        /\ f.cmd = "Psh" => f.n = (IF k - 1 <= h THEN Header ELSE k - 1 - h)
    BY <1>5, <1>8, <2>2, <2>3, <2>4 DEF InPlace
  <2>6. k - 1 = a /\ (k = 1 <=> a = 0)
    BY <2>3
  <2>7. cmd = "Psh" /\ a <= h => ~IsData(f, s)
    BY <1>1, <2>5, <2>6 DEF IsData
  <2>8. cmd = "Psh" /\ a > h => IsData(f, s)
    <3>1. ASSUME cmd = "Psh", a > h PROVE f.n # 0
      <4>1. f.n = a - h
        BY <1>1, <2>5, <2>6, <3>1
      <4> QED
        BY <3>1, <4>1
    <3> QED
      BY <1>1, <1>8, <3>1 DEF IsData, Header
  <2>9. cmd # "Psh" => ~IsData(f, s)
    BY <1>1 DEF IsData
  <2>10. cmd = "Fin" => FinRead(s)'
    BY <1>1, <1>2, <1>5, <1>8 DEF FinRead
  <2> QED
    BY <1>1, <1>4, <1>5, <1>8, <2>2, <2>3, <2>4, <2>5, <2>6, <2>7, <2>8, <2>9, <2>10
<1>9. Brought(s) <= Brought(s)'
  BY <1>4, <1>5
<1> QED
  BY <1>6, <1>7, <1>8, <1>9

\* A step that is not about s.
Quiet(s) ==
    /\ inState'[s] = inState[s] /\ task'[s] = task[s] /\ inQ'[s] = inQ[s] /\ inGot'[s] = inGot[s] /\ inReader'[s] = inReader[s]
    /\ FramesRead(s)' = FramesRead(s) /\ Brought(s)' = Brought(s) /\ (FinRead(s) => FinRead(s)')
    /\ Delivering(s)' <=> Delivering(s)
    /\ Delivering(s) => inCur' = inCur
    /\ Lives' => Lives

\* It keeps what is known of s.
LEMMA QuietStream ==
  ASSUME NEW s \in Streams, Opening(s), Serving(s), Quiet(s)
  PROVE  Opening(s)' /\ Serving(s)'
<1>1. Having(s)' = Having(s) /\ (Served(s)' <=> Served(s))
  BY DEF Quiet, Having, Served
<1>2. Opening(s)'
  BY <1>1 DEF Quiet, Opening
<1>3. Server!InSenderAlive(s)' <=> Server!InSenderAlive(s)
  BY DEF Quiet, Delivering, Server!InSenderAlive
<1>4. Serving(s)'
  BY <1>1, <1>3 DEF Quiet, Serving
<1> QED
  BY <1>2, <1>4

\* Reading a frame that changes neither the tasks nor their queues, and of the entries
\* only that of the frame's own stream.
LEMMA QuietRead ==
  ASSUME EndsType, ServerInv, WireOk(wireOut), NEW cmd, Server!NextFrame(cmd), wireOut' = wireOut,
         inQ' = inQ, inGot' = inGot, inReader' = inReader, inClosed' = inClosed, inRpc' \in {"read", "push", "close"},
         inRpc' = "push" => inCur'.sid \in Streams,
         NEW f, f = wireOut[upPos + 1],
         inRpc' = "push" => inCur'.sid = f.sid,
         \A s \in Streams : s # f.sid => inState'[s] = inState[s] /\ task'[s] = task[s],
         f.sid \in Streams => Opening(f.sid)' /\ Serving(f.sid)'
  PROVE  ServerInv'
<1>1. /\ f \in Frame /\ upPos' = upPos + 1 /\ upPos + 1 <= Len(wireOut) /\ upPos \in Nat /\ inRpc = "read"
  BY ReadsFrame DEF EndsType, Server!InTypeOK, ServerInv, Server!NextFrame
<1>2. ServerRpc'
  BY <1>1 DEF ServerRpc
<1>3. ASSUME NEW s \in Streams, s # f.sid PROVE Opening(s)' /\ Serving(s)'
  <2>1. FramesRead(s)' = FramesRead(s) /\ Brought(s)' = Brought(s) /\ (FinRead(s) => FinRead(s)')
    BY <1>3, ReadCounts DEF ServerInv
  <2>2. ~Delivering(s) /\ ~Delivering(s)' /\ (Lives' => Lives)
    BY <1>1, <1>3 DEF Delivering, Lives
  <2>3. Quiet(s)
    BY <1>3, <2>1, <2>2 DEF Quiet
  <2> QED
    BY <2>3, QuietStream DEF ServerInv
<1> QED
  BY <1>2, <1>3 DEF ServerInv

\* A SYN makes an entry.
LEMMA ReadSynOK ==
  ASSUME EndsType, ServerInv, WireOk(wireOut), Server!ReadSyn
  PROVE  ServerInv'
<1>1. PICK f : f = wireOut[upPos + 1]
  OBVIOUS
<1>2. /\ Server!NextFrame("Syn") /\ inQ' = inQ /\ inGot' = inGot /\ inReader' = inReader /\ inClosed' = inClosed
      /\ inRpc' = inRpc /\ inRpc = "read" /\ wireOut' = wireOut /\ task' = task /\ inState' = [inState EXCEPT ![Server!Sid] = "Pending"]
  BY DEF Server!ReadSyn, Server!inTaskVars, Server!linkVars, Server!NextFrame
<1>3. f.sid \in Streams /\ Server!Sid = f.sid
  BY <1>1, <1>2, ReadsFrame DEF ServerInv
<1>4. \A s \in Streams : s # f.sid => inState'[s] = inState[s] /\ task'[s] = task[s]
  BY <1>2, <1>3
<1>5. PICK s \in Streams : s = f.sid
  BY <1>3
<1>6. inState'[s] = "Pending"
  BY <1>2, <1>3, <1>5 DEF EndsType, Server!InTypeOK
<1>7. FramesRead(s) = 0 /\ FramesRead(s)' = FramesRead(s) + 1 /\ Brought(s)' = Brought(s) /\ FramesRead(s)' = 1
  BY <1>1, <1>2, <1>5, ReadCounts, ServedType DEF ServerInv
<1>8. Brought(s) = 0
  <2>1. Brought(s) <= FramesRead(s) /\ Brought(s) \in Nat
    BY ServedType, UpToGrows DEF FramesRead, Brought
  <2> QED
    BY <1>7, <2>1
<1>9. inState[s] = "none" /\ task[s] = "none"
  BY <1>7 DEF ServerInv, Opening
<1>10. Opening(s)' /\ Serving(s)'
  <2>1. Opening(s)'
    BY <1>2, <1>6, <1>7, <1>8, <1>9 DEF Opening, Delivering
  <2>2. ~Served(s) /\ ~Served(s)' /\ Serving(s)
    BY <1>2, <1>9 DEF Served, ServerInv
  <2> QED
    BY <1>2, <2>1, <2>2 DEF Serving
<1> QED
  BY <1>1, <1>2, <1>4, <1>5, <1>10, QuietRead

\* A stream that was refused has no task.
LEMMA BadHeaderOK ==
  ASSUME EndsType, ServerInv, WireOk(wireOut), Server!BadHeader
  PROVE  ServerInv'
<1>1. PICK f : f = wireOut[upPos + 1]
  OBVIOUS
<1>2. /\ Server!NextFrame("Psh") /\ inQ' = inQ /\ inGot' = inGot /\ inReader' = inReader /\ inClosed' = inClosed
      /\ inRpc' = inRpc /\ inRpc = "read" /\ wireOut' = wireOut /\ task' = task /\ inState' = [inState EXCEPT ![Server!Sid] = "none"]
      /\ inState[Server!Sid] \in {"Pending", "WaitingUotRequest"}
  BY DEF Server!BadHeader, Server!inTaskVars, Server!linkVars, Server!NextFrame
<1>3. f.sid \in Streams /\ Server!Sid = f.sid
  BY <1>1, <1>2, ReadsFrame DEF ServerInv
<1>4. \A s \in Streams : s # f.sid => inState'[s] = inState[s] /\ task'[s] = task[s]
  BY <1>2, <1>3
<1>5. PICK s \in Streams : s = f.sid
  BY <1>3
<1>6. inState'[s] = "none"
  BY <1>2, <1>3, <1>5 DEF EndsType, Server!InTypeOK
<1>7. FramesRead(s)' = FramesRead(s) + 1 /\ FramesRead(s) \in Nat
  BY <1>1, <1>2, <1>5, ReadCounts, ServedType DEF ServerInv
<1>8. task[s] = "none"
  BY <1>2, <1>3, <1>5 DEF ServerInv, Opening
<1>9. Opening(s)' /\ Serving(s)'
  <2>1. Opening(s)'
    BY <1>2, <1>6, <1>7, <1>8 DEF Opening, Delivering
  <2>2. ~Served(s) /\ ~Served(s)' /\ Serving(s)
    BY <1>2, <1>8 DEF Served, ServerInv
  <2> QED
    BY <1>2, <2>1, <2>2 DEF Serving
<1> QED
  BY <1>1, <1>2, <1>4, <1>5, <1>9, QuietRead

\* The last header starts the task, with nothing to read yet.
LEMMA HeaderOK ==
  ASSUME EndsType, ServerInv, WireOk(wireOut), Server!ReadTarget \/ Server!ReadUotRequest
  PROVE  ServerInv'
<1>1. PICK f : f = wireOut[upPos + 1]
  OBVIOUS
<1>2. /\ Server!NextFrame("Psh") /\ inQ' = inQ /\ inGot' = inGot /\ inReader' = inReader /\ inClosed' = inClosed
      /\ inRpc' = inRpc /\ inRpc = "read" /\ wireOut' = wireOut
      /\ inState[Server!Sid] \in {"Pending", "WaitingUotRequest"}
  BY DEF Server!ReadTarget, Server!ReadUotRequest, Server!linkVars, Server!NextFrame
<1>3. f.sid \in Streams /\ Server!Sid = f.sid
  BY <1>1, <1>2, ReadsFrame DEF ServerInv
<1>4. PICK s \in Streams : s = f.sid
  BY <1>3
<1>5. /\ \A t \in Streams : t # s => inState'[t] = inState[t] /\ task'[t] = task[t]
      /\ \/ inState[s] = "Pending" /\ s \in UdpStreams /\ inState'[s] = "WaitingUotRequest" /\ task'[s] = task[s]
         \/ inState[s] = "Pending" /\ s \notin UdpStreams /\ inState'[s] = "Active" /\ task'[s] \in {"first", "open"}
         \/ inState[s] = "WaitingUotRequest" /\ inState'[s] = "Active" /\ task'[s] \in {"first", "open"}
  BY <1>3, <1>4 DEF Server!ReadTarget, Server!ReadUotRequest, EndsType, Server!InTypeOK
<1>6. /\ task[s] = "none" /\ Brought(s) = 0
      /\ inState[s] = "Pending" => FramesRead(s) = 1
      /\ inState[s] = "WaitingUotRequest" => FramesRead(s) = 2 /\ s \in UdpStreams
  BY <1>2, <1>3, <1>4 DEF ServerInv, Opening
<1>7. FramesRead(s) <= HeaderCount(s) /\ (inState'[s] = "Active" => FramesRead(s) = HeaderCount(s))
  BY <1>5, <1>6 DEF HeaderCount
<1>8. FramesRead(s)' = FramesRead(s) + 1 /\ Brought(s)' = 0
  BY <1>1, <1>2, <1>4, <1>6, <1>7, ReadCounts DEF ServerInv
<1>9. inQ'[s] = <<>> /\ inGot'[s] = <<>> /\ inReader'[s] = "reading"
  BY <1>2, <1>6 DEF ServerInv, Serving, Served
<1>10. ~Delivering(s)' /\ Having(s)' = 0
  BY <1>2, <1>9 DEF Having, Delivering
<1>11. Opening(s)'
  BY <1>5, <1>6, <1>7, <1>8, <1>10, ServedType DEF Opening, Served
<1>12. Serving(s)'
  BY <1>5, <1>6, <1>8, <1>9, <1>10 DEF Serving, Served
<1> QED
  BY <1>1, <1>2, <1>4, <1>5, <1>11, <1>12, QuietRead

\* A payload of a stream with an entry is the next one; without, nobody waits for it.
LEMMA ReadDataOK ==
  ASSUME EndsType, ServerInv, WireOk(wireOut), Server!ReadData
  PROVE  ServerInv'
<1>1. PICK f : f = wireOut[upPos + 1]
  OBVIOUS
<1>2. /\ Server!NextFrame("Psh") /\ inQ' = inQ /\ inGot' = inGot /\ inReader' = inReader /\ inClosed' = inClosed
      /\ inRpc = "read" /\ wireOut' = wireOut /\ task' = task /\ inState' = inState
      /\ inState[Server!Sid] \in {"Active", "none"}
      /\ inRpc' = IF inState[Server!Sid] = "Active" THEN "push" ELSE "read"
      /\ inCur' = IF inState[Server!Sid] = "Active" THEN wireOut[upPos + 1] ELSE NoFrame
  BY DEF Server!ReadData, Server!inTaskVars, Server!inSessVars, Server!linkVars, Server!NextFrame, Server!NoFrame, NoFrame, Server!MkFrame, MkFrame
<1>3. f.sid \in Streams /\ Server!Sid = f.sid /\ ~FinRead(f.sid)
  BY <1>1, <1>2, ReadsFrame DEF ServerInv
<1>4. PICK s \in Streams : s = f.sid
  BY <1>3
<1>5. Opening(s) /\ Serving(s) /\ ~FinRead(s) /\ ~Delivering(s)
  BY <1>2, <1>3, <1>4 DEF ServerInv, Delivering
<1>6. /\ FramesRead(s)' = FramesRead(s) + 1 /\ FramesRead(s) \in Nat /\ HeaderCount(s) \in Nat /\ Brought(s) <= Brought(s)'
      /\ FramesRead(s) > HeaderCount(s) => Brought(s)' = Brought(s) + 1 /\ f.n = Brought(s) + 1
      /\ Having(s) \in Nat /\ Brought(s) \in Nat
  BY <1>1, <1>2, <1>4, ReadCounts, ServedType DEF ServerInv
<1>7. CASE inState[s] = "Active"
  <2>1. Delivering(s)' /\ inCur' = f /\ inState'[s] = "Active"
    BY <1>1, <1>2, <1>3, <1>4, <1>7 DEF Delivering
  <2>2. FramesRead(s) > HeaderCount(s) /\ Served(s) /\ Served(s)' /\ Having(s) = Brought(s)
    BY <1>2, <1>5, <1>7 DEF Opening, Serving, Served
  <2>3. PICK a \in Nat, b \in Nat : a = Len(inGot[s]) /\ b = Len(inQ[s])
    BY ServedType
  <2>4. Having(s) = a + b + 0 /\ Having(s)' = a + b + 1
    BY <1>2, <1>5, <2>1, <2>3 DEF Having
  <2>5. Having(s)' = Having(s) + 1
    <3>1. \A x, y \in Nat : x + y + 1 = (x + y + 0) + 1
      OBVIOUS
    <3> QED
      BY <2>4, <3>1
  <2>6. f.n = Having(s)' /\ Brought(s)' = Having(s)'
    BY <1>6, <2>2, <2>5
  <2>7. Opening(s)'
    BY <1>6, <2>1, <2>2 DEF Opening
  <2>8. inReader[s] # "eof"
    BY <1>5, <1>7, <2>2 DEF Serving, Server!InSenderAlive
  <2>9. Having(s)' \in Nat
    BY <1>6, <2>5
  <2>10. Serving(s)'
    BY <1>2, <1>5, <2>1, <2>2, <2>6, <2>8, <2>9 DEF Serving
  <2>11. Opening(f.sid)' /\ Serving(f.sid)'
    BY <1>4, <2>7, <2>10
  <2>12. inRpc' = "push" /\ inCur'.sid = f.sid
    BY <1>2, <1>3, <1>4, <1>7, <2>1
  <2> QED
    BY <1>1, <1>2, <1>3, <2>11, <2>12, QuietRead
<1>8. CASE inState[s] = "none"
  <2>1. ~Delivering(s)' /\ inState'[s] = "none" /\ inRpc' = "read" /\ (Served(s)' <=> Served(s)) /\ (Lives' <=> Lives)
    BY <1>2, <1>3, <1>4, <1>8 DEF Delivering, Served, Lives
  <2>2. Having(s)' = Having(s)
    BY <1>2, <1>5, <2>1 DEF Having
  <2>3. Opening(s)'
    BY <1>6, <2>1 DEF Opening
  <2>4. Served(s) => ~Lives /\ Having(s) <= Brought(s)
    BY <1>5, <1>8 DEF Serving
  <2>5. PICK a \in Nat, b \in Nat, c \in Nat : a = Having(s) /\ b = Brought(s) /\ c = Brought(s)'
    <3>1. Brought(s)' \in Nat
      <4>1. wireOut \in Seq(Frame) /\ upPos' \in Nat
        BY <1>1, <1>2, ReadsFrame, ServedType DEF ServerInv
      <4> QED
        BY <1>2, <4>1, UpToStep DEF Brought
    <3> QED
      BY <1>6, <3>1
  <2>6. Served(s) => Having(s)' <= Brought(s)'
    BY <1>6, <2>2, <2>4, <2>5
  <2>7. ~Server!InSenderAlive(s)'
    BY <2>1 DEF Server!InSenderAlive
  <2>8. Serving(s)'
    BY <1>2, <1>5, <2>1, <2>2, <2>4, <2>6, <2>7 DEF Serving
  <2>9. Opening(f.sid)' /\ Serving(f.sid)'
    BY <1>4, <2>3, <2>8
  <2> QED
    BY <1>1, <1>2, <2>1, <2>9, QuietRead
<1> QED
  BY <1>2, <1>3, <1>4, <1>7, <1>8

\* The client's FIN takes the entry away, with all payloads delivered.
LEMMA ReadFinOK ==
  ASSUME EndsType, ServerInv, WireOk(wireOut), Server!ReadFin
  PROVE  ServerInv'
<1>1. PICK f : f = wireOut[upPos + 1]
  OBVIOUS
<1>2. /\ Server!NextFrame("Fin") /\ inQ' = inQ /\ inGot' = inGot /\ inReader' = inReader /\ inClosed' = inClosed
      /\ inRpc = "read" /\ wireOut' = wireOut /\ task' = task /\ inState' = [inState EXCEPT ![Server!Sid] = "none"] /\ inRpc' = "read"
  BY DEF Server!ReadFin, Server!inTaskVars, Server!linkVars, Server!NextFrame
<1>3. f.sid \in Streams /\ Server!Sid = f.sid /\ ~FinRead(f.sid)
  BY <1>1, <1>2, ReadsFrame DEF ServerInv
<1>4. PICK s \in Streams : s = f.sid
  BY <1>3
<1>5. Opening(s) /\ Serving(s) /\ ~FinRead(s) /\ ~Delivering(s) /\ ~Delivering(s)'
  BY <1>2, <1>3, <1>4 DEF ServerInv, Delivering
<1>6. /\ FramesRead(s)' = FramesRead(s) + 1 /\ FramesRead(s) \in Nat /\ Brought(s)' = Brought(s) /\ FinRead(s)'
  BY <1>1, <1>2, <1>4, ReadCounts, ServedType DEF ServerInv
<1>7. inState'[s] = "none" /\ \A t \in Streams : t # f.sid => inState'[t] = inState[t] /\ task'[t] = task[t]
  BY <1>2, <1>3, <1>4 DEF EndsType, Server!InTypeOK
<1>8. Having(s)' = Having(s) /\ (Served(s)' <=> Served(s)) /\ (Lives' <=> Lives)
  BY <1>2, <1>5 DEF Having, Served, Lives
<1>9. Opening(s)'
  BY <1>5, <1>6, <1>7 DEF Opening
<1>10. Served(s) /\ Lives => Having(s) = Brought(s)
  BY <1>5 DEF Serving
<1>11. ~Server!InSenderAlive(s)'
  BY <1>5, <1>7 DEF Server!InSenderAlive, Delivering
<1>12. Serving(s)'
  BY <1>2, <1>5, <1>6, <1>7, <1>8, <1>10, <1>11 DEF Serving
<1> QED
  BY <1>1, <1>2, <1>4, <1>7, <1>9, <1>12, QuietRead

\* The frames of the session itself are about no stream.
LEMMA ReadOtherOK ==
  ASSUME EndsType, ServerInv, WireOk(wireOut), Server!ReadOther \/ Server!ReadAlert
  PROVE  ServerInv'
<1>1. PICK f : f = wireOut[upPos + 1]
  OBVIOUS
<1>2. PICK cmd \in {"HeartRequest", "HeartResponse", "SynAck", "Settings", "Other", "Alert"} : Server!NextFrame(cmd)
  BY DEF Server!ReadOther, Server!ReadAlert
<1>3. /\ inQ' = inQ /\ inGot' = inGot /\ inReader' = inReader /\ inClosed' = inClosed
      /\ inRpc = "read" /\ wireOut' = wireOut /\ task' = task /\ inState' = inState /\ inRpc' \in {"read", "close"}
  BY DEF Server!ReadOther, Server!ReadAlert, Server!inTaskVars, Server!inSessVars, Server!linkVars, Server!NextFrame
<1>4. f.sid \notin Streams
  BY <1>1, <1>2, ReadsFrame DEF ServerInv
<1> QED
  BY <1>1, <1>2, <1>3, <1>4, QuietRead

\* A step that reads no frame and is about stream s only, or about none.
LEMMA QuietOthers ==
  ASSUME EndsType, ServerInv, UNCHANGED <<wireOut, upPos>>, NEW s \in Streams, Opening(s)' /\ Serving(s)', Lives' => Lives,
         inRpc' \in {"auth", "settings"} => inRpc \in {"auth", "settings"},
         inRpc' = "push" => inRpc = "push" /\ inCur' = inCur,
         inRpc = "push" /\ inRpc' # "push" => inCur.sid = s,
         \A t \in Streams : t # s => inState'[t] = inState[t] /\ task'[t] = task[t] /\ inQ'[t] = inQ[t] /\ inGot'[t] = inGot[t]
                                     /\ inReader'[t] = inReader[t]
  PROVE  ServerInv'
<1>1. ServerRpc'
  BY DEF ServerInv, ServerRpc
<1>2. ASSUME NEW t \in Streams, t # s PROVE Opening(t)' /\ Serving(t)'
  <2>1. FramesRead(t)' = FramesRead(t) /\ Brought(t)' = Brought(t) /\ (FinRead(t) => FinRead(t)')
    BY DEF FramesRead, Brought, FinRead
  <2>2. (Delivering(t)' <=> Delivering(t)) /\ (Delivering(t) => inCur' = inCur)
    BY <1>2 DEF Delivering
  <2>3. Quiet(t)
    BY <1>2, <2>1, <2>2 DEF Quiet
  <2> QED
    BY <2>3, QuietStream DEF ServerInv
<1> QED
  BY <1>1, <1>2 DEF ServerInv

\* A payload is put into its stream's queue, or its stream found to be gone.
LEMMA DeliverOK ==
  ASSUME EndsType, ServerInv, Server!Deliver
  PROVE  ServerInv'
<1>1. /\ inRpc = "push" /\ inRpc' = "read" /\ inClosed' = inClosed /\ task' = task /\ inReader' = inReader /\ inGot' = inGot
      /\ wireOut' = wireOut /\ upPos' = upPos
  BY DEF Server!Deliver, Server!inTaskVars, Server!linkVars
<1>2. PICK s \in Streams : s = inCur.sid
  BY <1>1 DEF ServerInv, ServerRpc
<1>3. Opening(s) /\ Serving(s) /\ Delivering(s) /\ ~Delivering(s)' /\ (Served(s)' <=> Served(s)) /\ (Lives' <=> Lives)
  BY <1>1, <1>2 DEF ServerInv, Delivering, Served, Lives
<1>4. FramesRead(s)' = FramesRead(s) /\ Brought(s)' = Brought(s) /\ (FinRead(s) => FinRead(s)')
  BY <1>1 DEF FramesRead, Brought, FinRead
<1>5. CASE task[s] = "dropped"
  <2>1. inQ' = inQ /\ inState' = [inState EXCEPT ![s] = "none"]
    BY <1>2, <1>5 DEF Server!Deliver
  <2>2. inState'[s] = "none"
    BY <2>1 DEF EndsType, Server!InTypeOK
  <2>3. Opening(s)'
    BY <1>1, <1>3, <1>4, <1>5, <2>2 DEF Opening
  <2>4. Serving(s)'
    BY <1>1, <1>3, <1>5, <2>1 DEF Serving, Served
  <2> QED
    BY <1>1, <1>2, <1>3, <2>1, <2>3, <2>4, QuietOthers
<1>6. CASE task[s] # "dropped"
  <2>1. inState' = inState /\ inQ' = [inQ EXCEPT ![s] = Append(@, inCur.n)]
    BY <1>2, <1>6 DEF Server!Deliver
  <2>2. Served(s) /\ inState[s] = "Active"
    BY <1>3, <1>6 DEF Opening
  <2>3. PICK a \in Nat, b \in Nat, q \in Seq(Nat) : a = Len(inGot[s]) /\ b = Len(inQ[s]) /\ q = inQ[s]
    BY ServedType
  <2>4. q \in Seq(Nat) /\ inCur.n \in Nat /\ inQ'[s] = Append(q, inCur.n) /\ Len(inQ'[s]) = b + 1
    BY <2>1, <2>3 DEF EndsType, Server!InTypeOK, Frame, Server!Frame
  <2>5. Having(s) = a + b + 1 /\ Having(s)' = a + (b + 1) + 0
    BY <1>1, <1>3, <2>3, <2>4 DEF Having
  <2>6. Having(s)' = Having(s) /\ Having(s) = a + (b + 1)
    <3>1. \A x, y \in Nat : x + y + 1 = x + (y + 1) /\ x + (y + 1) + 0 = x + (y + 1)
      OBVIOUS
    <3> QED
      BY <2>5, <3>1
  <2>7. ASSUME NEW i \in DOMAIN inQ'[s] PROVE inQ'[s][i] = a + i
    <3>1. (i \in DOMAIN q /\ inQ'[s][i] = q[i]) \/ (i = b + 1 /\ inQ'[s][i] = inCur.n)
      BY <2>3, <2>4, <2>7
    <3>2. inCur.n = a + (b + 1) /\ \A j \in DOMAIN q : q[j] = a + j
      BY <1>3, <2>2, <2>3, <2>6 DEF Serving
    <3> QED
      BY <3>1, <3>2
  <2>8. Opening(s)'
    BY <1>1, <1>3, <1>4, <2>1, <2>2 DEF Opening
  <2>9. inReader[s] # "eof"
    BY <1>3, <2>2 DEF Serving, Server!InSenderAlive
  <2>10. Serving(s)'
    BY <1>1, <1>3, <1>4, <2>1, <2>2, <2>3, <2>6, <2>7, <2>9 DEF Serving
  <2> QED
    BY <1>1, <1>2, <1>3, <2>1, <2>8, <2>10, QuietOthers
<1> QED
  BY <1>5, <1>6

\* A task reads the next payload.
LEMMA InReadOK ==
  ASSUME EndsType, ServerInv, NEW s \in Streams, Server!InRead(s)
  PROVE  ServerInv'
<1>1. /\ inRpc' = inRpc /\ inClosed' = inClosed /\ inState' = inState /\ inReader' = inReader /\ wireOut' = wireOut /\ upPos' = upPos /\ inCur' = inCur
      /\ Served(s) /\ inReader[s] = "reading" /\ inQ[s] # <<>>
      /\ inQ' = [inQ EXCEPT ![s] = Tail(@)] /\ inGot' = [inGot EXCEPT ![s] = Append(@, Head(inQ[s]))] /\ task' = [task EXCEPT ![s] = "open"]
  BY DEF Server!InRead, Server!linkVars, Served
<1>2. inQ \in [Streams -> Seq(Nat)] /\ inGot \in [Streams -> Seq(Nat)] /\ task \in [Streams -> {"none", "first", "open", "dropped"}]
  BY DEF EndsType, Server!InTypeOK
<1>3. Opening(s) /\ Serving(s) /\ (Lives' <=> Lives) /\ (Delivering(s)' <=> Delivering(s))
  BY <1>1 DEF ServerInv, Lives, Delivering
<1>4. FramesRead(s)' = FramesRead(s) /\ Brought(s)' = Brought(s) /\ (FinRead(s) => FinRead(s)')
  BY <1>1 DEF FramesRead, Brought, FinRead
<1>5. PICK q \in Seq(Nat), g \in Seq(Nat) : q = inQ[s] /\ g = inGot[s] /\ q # <<>>
  BY <1>1, <1>2
<1>6. inQ'[s] = Tail(q) /\ inGot'[s] = Append(g, Head(q)) /\ task'[s] = "open" /\ Served(s)'
  BY <1>1, <1>2, <1>5 DEF Served
<1>7. Len(g) \in Nat /\ Len(q) \in Nat /\ Len(q) # 0 /\ Len(Tail(q)) = Len(q) - 1 /\ Head(q) \in Nat
  BY <1>5
<1>8. \A x, y \in Nat : x # 0 /\ y = x - 1 => x = y + 1
  OBVIOUS
<1>9. Len(Tail(q)) \in Nat
  BY <1>5
<1>10. PICK a \in Nat, b \in Nat : a = Len(g) /\ b = Len(Tail(q)) /\ Len(q) = b + 1
  BY <1>7, <1>8, <1>9, Zenon
<1>11. Head(q) = q[1] /\ Len(Append(g, Head(q))) = a + 1 /\ \A i \in DOMAIN Tail(q) : i + 1 \in DOMAIN q /\ Tail(q)[i] = q[i + 1] /\ i \in Nat
  BY <1>5, <1>10
<1>12. /\ \A i \in DOMAIN g : g[i] = i
       /\ \A i \in DOMAIN q : q[i] = a + i
       /\ 1 \in DOMAIN q
  BY <1>1, <1>3, <1>5, <1>10 DEF Serving
<1>13. ASSUME NEW i \in DOMAIN Append(g, Head(q)) PROVE Append(g, Head(q))[i] = i
  <2>1. (i \in DOMAIN g /\ Append(g, Head(q))[i] = g[i]) \/ (i = a + 1 /\ Append(g, Head(q))[i] = Head(q))
    <3>1. PICK h \in Nat : h = Head(q)
      BY <1>7
    <3>2. \A j \in DOMAIN Append(g, h) : (j \in DOMAIN g /\ Append(g, h)[j] = g[j]) \/ (j = a + 1 /\ Append(g, h)[j] = h)
      BY <1>5, <1>10
    <3> QED
      BY <1>13, <3>1, <3>2
  <2> QED
    BY <1>11, <1>12, <2>1
<1>14. ASSUME NEW i \in DOMAIN Tail(q) PROVE Tail(q)[i] = (a + 1) + i
  <2>1. Tail(q)[i] = a + (i + 1) /\ i \in Nat
    BY <1>11, <1>12, <1>14
  <2> QED
    BY <1>10, <2>1
<1>15. Having(s)' = Having(s)
  <2>1. PICK x \in {0, 1} : Having(s) = Len(g) + Len(q) + x /\ Having(s)' = Len(inGot'[s]) + Len(inQ'[s]) + x
    BY <1>3, <1>5 DEF Having
  <2>2. Having(s) = a + (b + 1) + x /\ Having(s)' = (a + 1) + b + x
    BY <1>6, <1>10, <1>11, <2>1
  <2>3. \A y, z \in Nat : y + (z + 1) + x = (y + 1) + z + x
    BY <2>1
  <2> QED
    BY <2>2, <2>3
<1>16. Opening(s)'
  <2>1. inState'[s] = inState[s] /\ inState[s] \notin {"Pending", "WaitingUotRequest"} /\ FramesRead(s) # 0
    BY <1>1, <1>3 DEF Opening, Served
  <2>2. Delivering(s)' => inState'[s] = "Active"
    BY <1>1, <1>3, <2>1 DEF Opening, Served
  <2> QED
    BY <1>3, <1>4, <1>6, <2>1, <2>2 DEF Opening
<1>17. Serving(s)'
  BY <1>1, <1>3, <1>4, <1>6, <1>11, <1>13, <1>14, <1>15 DEF Serving
<1> QED
  BY <1>1, <1>2, <1>3, <1>16, <1>17, QuietOthers

\* It sees the end once its queue is empty and its sender gone, and at last it drops
\* the stream.
LEMMA InEndOK ==
  ASSUME EndsType, ServerInv, NEW s \in Streams, Server!InReadEnd(s) \/ Server!InDrop(s)
  PROVE  ServerInv'
<1>1. /\ inRpc' = inRpc /\ inClosed' = inClosed /\ wireOut' = wireOut /\ upPos' = upPos /\ inCur' = inCur
      /\ Served(s)
  BY DEF Server!InReadEnd, Server!InDrop, Server!linkVars, Server!inSessVars, Served
<1>2. /\ inQ \in [Streams -> Seq(Nat)] /\ inGot \in [Streams -> Seq(Nat)] /\ task \in [Streams -> {"none", "first", "open", "dropped"}]
      /\ inReader \in [Streams -> {"reading", "eof"}] /\ inState \in [Streams -> {"none", "Pending", "WaitingUotRequest", "Active"}]
  BY DEF EndsType, Server!InTypeOK
<1>3. Opening(s) /\ Serving(s) /\ (Lives' <=> Lives) /\ (Delivering(s)' <=> Delivering(s))
  BY <1>1 DEF ServerInv, Lives, Delivering
<1>4. FramesRead(s)' = FramesRead(s) /\ Brought(s)' = Brought(s) /\ (FinRead(s) => FinRead(s)')
  BY <1>1 DEF FramesRead, Brought, FinRead
<1>5. CASE Server!InReadEnd(s)
  <2>1. /\ inQ' = inQ /\ inGot' = inGot /\ task' = task /\ inState' = inState /\ inReader' = [inReader EXCEPT ![s] = "eof"]
        /\ inQ[s] = <<>> /\ ~Server!InSenderAlive(s)
    BY <1>5 DEF Server!InReadEnd, Server!inSessVars
  <2>2. Having(s)' = Having(s) /\ Served(s)' /\ ~Server!InSenderAlive(s)'
    BY <1>1, <1>3, <2>1 DEF Having, Served, Server!InSenderAlive
  <2>3. Opening(s)'
    BY <1>1, <1>3, <1>4, <2>1, <2>2 DEF Opening
  <2>4. Serving(s)'
    BY <1>1, <1>3, <1>4, <2>1, <2>2 DEF Serving
  <2> QED
    BY <1>1, <1>2, <1>3, <2>1, <2>3, <2>4, QuietOthers
<1>6. CASE Server!InDrop(s)
  <2>1. /\ inQ' = [inQ EXCEPT ![s] = <<>>] /\ inGot' = [inGot EXCEPT ![s] = <<>>] /\ task' = [task EXCEPT ![s] = "dropped"]
        /\ inState' = [inState EXCEPT ![s] = "none"] /\ inReader' = [inReader EXCEPT ![s] = "reading"]
    BY <1>6 DEF Server!InDrop
  <2>2. inQ'[s] = <<>> /\ inGot'[s] = <<>> /\ task'[s] = "dropped" /\ inState'[s] = "none" /\ inReader'[s] = "reading"
    BY <1>2, <2>1
  <2>3. ~Served(s)' /\ FramesRead(s) # 0
    BY <1>1, <1>3, <2>2 DEF Served, Opening
  <2>4. Opening(s)'
    BY <1>4, <2>2, <2>3 DEF Opening
  <2>5. Serving(s)'
    BY <2>2, <2>3 DEF Serving
  <2> QED
    BY <1>1, <1>2, <1>3, <2>1, <2>4, <2>5, QuietOthers
<1> QED
  BY <1>5, <1>6

-----------------------------------------------------------------------------
(* The types of the server *)

\* Both ends have the same frames.
LEMMA SameFrames ==
  /\ Server!Frame = Frame /\ Server!NoFrame \in Frame
  /\ \A cmd \in Command, s \in Streams \cup {0}, n \in Nat :
       /\ Server!MkFrame(cmd, s, n) \in Frame
       /\ Server!MkFrame(cmd, s, n).cmd = cmd /\ Server!MkFrame(cmd, s, n).sid = s /\ Server!MkFrame(cmd, s, n).n = n
BY DEF Server!Frame, Frame, Server!NoFrame, Server!MkFrame, Server!Command, Command

\* The server's queue of frames takes one more only if it has room.
LEMMA SvQueueType ==
  ASSUME EndsType, NEW f \in Frame,
         \/ inWriteQ' \in {inWriteQ, <<>>, Server!InTrySend(f)}
         \/ Server!InRoom /\ inWriteQ' = Append(inWriteQ, f)
         \/ inWriteQ # <<>> /\ inWriteQ' = Tail(inWriteQ)
  PROVE  inWriteQ' \in Seq(Frame) /\ Len(inWriteQ') <= SESSION_QUEUE_CAPACITY
<1>1. inWriteQ \in Seq(Frame) /\ Len(inWriteQ) <= SESSION_QUEUE_CAPACITY /\ SESSION_QUEUE_CAPACITY \in Nat \ {0}
  BY SessionAssumption, SameFrames DEF EndsType, Server!InTypeOK
<1>2. <<>> \in Seq(Frame) /\ Len(<<>>) = 0
  OBVIOUS
<1>3. CASE inWriteQ' = <<>>
  BY <1>1, <1>2, <1>3
<1>4. CASE inWriteQ' = inWriteQ
  BY <1>1, <1>4
<1>5. CASE inWriteQ' = Append(inWriteQ, f) /\ Server!InRoom
  BY <1>1, <1>5 DEF Server!InRoom
<1>6. CASE inWriteQ' = Server!InTrySend(f)
  BY <1>1, <1>4, <1>5, <1>6 DEF Server!InTrySend, Server!InRoom
<1>7. CASE inWriteQ # <<>> /\ inWriteQ' = Tail(inWriteQ)
  BY <1>1, <1>7
<1> QED
  BY <1>4, <1>3, <1>5, <1>6, <1>7

\* What a step of the server leaves: its types, and at most one more frame on the wire.
SvTyped ==
    /\ Server!InTypeOK'
    /\ wireIn' = wireIn \/ \E f \in Frame : wireIn' = Append(wireIn, f)

\* InboundSession::new keeps the types,
LEMMA SvNewType ==
  ASSUME EndsType, Server!Authenticate \/ Server!SettingsFail \/ Server!ReadSettings
  PROVE  SvTyped
<1>1. CASE Server!Authenticate \/ Server!SettingsFail
  BY <1>1 DEF EndsType, Server!InTypeOK, Server!inTaskVars, Server!inSessVars, Server!linkVars, Server!Authenticate, Server!SettingsFail, SvTyped
<1>2. CASE Server!ReadSettings
  <2>1. Server!NoFrame \in Frame /\ Server!MkFrame("Alert", 0, 0) \in Frame
    BY SameFrames DEF Command
  <2>2. wireIn' = wireIn \/ \E f \in Frame : wireIn' = Append(wireIn, f)
    BY <1>2, <2>1 DEF Server!ReadSettings
  <2>3. upPos' \in Nat /\ inRpc' \in {"read", "done"} /\ inWpc' \in {"run", "done"}
    BY <1>2 DEF EndsType, Server!InTypeOK, Server!ReadSettings
  <2>4. Server!InTypeOK'
    BY <1>2, <2>3 DEF EndsType, Server!InTypeOK, Server!inTaskVars, Server!inSessVars, Server!ReadSettings
  <2> QED
    BY <2>2, <2>4 DEF SvTyped
<1> QED
  BY <1>1, <1>2

\* and so do a frame that is read,
LEMMA SvReadType ==
  ASSUME EndsType, ServerInv, WireOk(wireOut),
         \/ Server!ReadSyn \/ Server!BadHeader \/ Server!ReadTarget \/ Server!ReadUotRequest \/ Server!ReadData
         \/ Server!ReadFin \/ Server!ReadOther \/ Server!ReadAlert
  PROVE  SvTyped
<1>1. PICK cmd : Server!NextFrame(cmd)
  BY DEF Server!ReadSyn, Server!BadHeader, Server!ReadTarget, Server!ReadUotRequest, Server!ReadData, Server!ReadFin,
         Server!ReadOther, Server!ReadAlert
<1>2. PICK f : f = wireOut[upPos + 1]
  OBVIOUS
<1>3. f \in Frame /\ Server!Sid = f.sid /\ upPos' = upPos + 1 /\ upPos \in Nat
  <2>1. ServerRpc
    BY DEF ServerInv
  <2>2. upPos \in Nat
    BY DEF EndsType, Server!InTypeOK
  <2> QED
    BY <1>1, <1>2, <2>1, <2>2, ReadsFrame
<1>4. upPos' \in Nat /\ f.sid \in Streams \cup {0}
  BY <1>3 DEF Frame
<1>5. CASE Server!ReadSyn \/ Server!BadHeader
  <2>1. Server!MkFrame("SynAck", Server!Sid, 0) \in Frame /\ Server!MkFrame("Fin", Server!Sid, 0) \in Frame
    BY <1>3, <1>4, SameFrames DEF Command
  <2>2. inWriteQ' = Server!InTrySend(Server!MkFrame("SynAck", Server!Sid, 0)) \/ inWriteQ' = Server!InTrySend(Server!MkFrame("Fin", Server!Sid, 0))
    BY <1>5 DEF Server!ReadSyn, Server!BadHeader
  <2>3. inWriteQ' \in Seq(Frame) /\ Len(inWriteQ') <= SESSION_QUEUE_CAPACITY
    BY <2>1, <2>2, SvQueueType
  <2>4. PICK e \in {"Pending", "none"} : inState' = [inState EXCEPT ![Server!Sid] = e]
    BY <1>5 DEF Server!ReadSyn, Server!BadHeader
  <2>5. UNCHANGED <<inClosed, inQ, inRxOpen, Server!inTaskVars, inWpc, inRpc, inCur, Server!linkVars>>
    BY <1>5 DEF Server!ReadSyn, Server!BadHeader
  <2> QED
    BY <1>4, <2>3, <2>4, <2>5, SameFrames DEF EndsType, Server!InTypeOK, Server!inTaskVars, Server!linkVars, SvTyped
<1>6. CASE Server!ReadTarget
  <2>1. /\ inState' \in [Streams -> {"none", "Pending", "WaitingUotRequest", "Active"}]
        /\ task' \in [Streams -> {"none", "first", "open", "dropped"}]
    <3>1. inState \in [Streams -> {"none", "Pending", "WaitingUotRequest", "Active"}]
          /\ task \in [Streams -> {"none", "first", "open", "dropped"}]
      BY DEF EndsType, Server!InTypeOK
    <3>2. CASE Server!Sid \in UdpStreams
      BY <1>6, <3>1, <3>2 DEF Server!ReadTarget
    <3>3. CASE Server!Sid \notin UdpStreams
      BY <1>6, <3>1, <3>3 DEF Server!ReadTarget
    <3> QED
      BY <3>2, <3>3
  <2> QED
    BY <1>4, <1>6, <2>1 DEF EndsType, Server!InTypeOK, Server!linkVars, Server!ReadTarget, SvTyped
<1>7. CASE Server!ReadUotRequest
  BY <1>4, <1>7 DEF EndsType, Server!InTypeOK, Server!linkVars, Server!ReadUotRequest, SvTyped
<1>8. CASE Server!ReadData
  BY <1>2, <1>3, <1>4, <1>8, SameFrames DEF EndsType, Server!InTypeOK, Server!inTaskVars, Server!inSessVars, Server!linkVars, Server!ReadData, SvTyped
<1>9. CASE Server!ReadFin
  BY <1>4, <1>9 DEF EndsType, Server!InTypeOK, Server!inTaskVars, Server!linkVars, Server!ReadFin, SvTyped
<1>10. CASE Server!ReadOther
  <2>1. PICK g \in Frame : inWriteQ' \in {inWriteQ, <<>>, Server!InTrySend(g)}
    BY <1>10, SameFrames DEF Server!ReadOther, Command
  <2>2. inWriteQ' \in Seq(Frame) /\ Len(inWriteQ') <= SESSION_QUEUE_CAPACITY
    BY <2>1, SvQueueType
  <2> QED
    BY <1>4, <1>10, <2>2, SameFrames DEF EndsType, Server!InTypeOK, Server!inTaskVars, Server!linkVars, Server!ReadOther, SvTyped
<1>11. CASE Server!ReadAlert
  BY <1>4, <1>11 DEF EndsType, Server!InTypeOK, Server!inTaskVars, Server!inSessVars, Server!linkVars, Server!ReadAlert, SvTyped
<1> QED
  BY <1>5, <1>6, <1>7, <1>8, <1>9, <1>10, <1>11

\* a payload that is delivered and the end of the session,
LEMMA SvLoopType ==
  ASSUME EndsType, ServerInv, Server!Deliver \/ Server!ReadLoopEnds \/ Server!CloseSession \/ Server!ClearStreams
  PROVE  SvTyped
<1>1. CASE Server!ReadLoopEnds \/ Server!CloseSession \/ Server!ClearStreams
  BY <1>1 DEF EndsType, Server!InTypeOK, Server!inTaskVars, Server!inSessVars, Server!linkVars, Server!ReadLoopEnds, Server!CloseSession,
              Server!ClearStreams, SvTyped
<1>2. CASE Server!Deliver
  <2>1. PICK s \in Streams : s = inCur.sid
    BY <1>2 DEF ServerInv, ServerRpc, Server!Deliver
  <2>2. /\ inQ \in [Streams -> Seq(Nat)] /\ \A t \in Streams : Len(inQ[t]) <= STREAM_QUEUE_CAPACITY
        /\ inState \in [Streams -> {"none", "Pending", "WaitingUotRequest", "Active"}] /\ inCur.n \in Nat
    BY SameFrames DEF EndsType, Server!InTypeOK, Frame
  <2>3. /\ inQ' \in [Streams -> Seq(Nat)] /\ \A t \in Streams : Len(inQ'[t]) <= STREAM_QUEUE_CAPACITY
        /\ inState' \in [Streams -> {"none", "Pending", "WaitingUotRequest", "Active"}]
    <3>1. CASE task[s] = "dropped"
      BY <1>2, <2>1, <2>2, <3>1 DEF Server!Deliver
    <3>2. CASE task[s] # "dropped"
      <4>1. PICK q : q = Append(inQ[s], inCur.n)
        OBVIOUS
      <4>2. inQ' = [inQ EXCEPT ![s] = q] /\ inState' = inState /\ Len(inQ[s]) < STREAM_QUEUE_CAPACITY
        BY <1>2, <2>1, <3>2, <4>1 DEF Server!Deliver
      <4>3. q \in Seq(Nat) /\ Len(q) <= STREAM_QUEUE_CAPACITY
        BY <2>2, <4>1, <4>2, SessionAssumption
      <4> QED
        BY <2>2, <4>2, <4>3
    <3> QED
      BY <3>1, <3>2
  <2> QED
    BY <1>2, <2>3, SameFrames DEF EndsType, Server!InTypeOK, Server!inTaskVars, Server!linkVars, Server!Deliver, SvTyped
<1> QED
  BY <1>1, <1>2

\* the write loop,
LEMMA SvWriteType ==
  ASSUME EndsType, Server!WriteSide
  PROVE  SvTyped
<1>1. CASE Server!WriteFrame
  <2>1. inWriteQ \in Seq(Frame) /\ inWriteQ # <<>>
    BY <1>1, SameFrames DEF EndsType, Server!InTypeOK, Server!WriteFrame
  <2>2. PICK f \in Frame : f = Head(inWriteQ)
    BY <2>1
  <2>3. inWriteQ' \in Seq(Frame) /\ Len(inWriteQ') <= SESSION_QUEUE_CAPACITY
    BY <1>1, <2>2, SvQueueType DEF Server!WriteFrame
  <2> QED
    BY <1>1, <2>2, <2>3, SameFrames DEF EndsType, Server!InTypeOK, Server!inTaskVars, Server!WriteFrame, SvTyped
<1>2. CASE Server!WriteLoopEnds
  <2>1. inWriteQ' \in Seq(Frame) /\ Len(inWriteQ') <= SESSION_QUEUE_CAPACITY
    BY <1>2, SameFrames, SvQueueType DEF Server!WriteLoopEnds
  <2> QED
    BY <1>2, <2>1, SameFrames DEF EndsType, Server!InTypeOK, Server!inTaskVars, Server!linkVars, Server!WriteLoopEnds, SvTyped
<1>3. CASE Server!WriteTaskCloses
  BY <1>3 DEF EndsType, Server!InTypeOK, Server!inTaskVars, Server!linkVars, Server!WriteTaskCloses, SvTyped
<1> QED
  BY <1>1, <1>2, <1>3 DEF Server!WriteSide

\* and the dispatch task of a stream.
LEMMA SvTaskType ==
  ASSUME EndsType, NEW s \in Streams, Server!Dispatch(s)
  PROVE  SvTyped
<1>1. /\ inQ \in [Streams -> Seq(Nat)] /\ \A t \in Streams : Len(inQ[t]) <= STREAM_QUEUE_CAPACITY
      /\ inGot \in [Streams -> Seq(Nat)] /\ task \in [Streams -> {"none", "first", "open", "dropped"}]
      /\ inSent[s] + 1 \in Nat
  BY DEF EndsType, Server!InTypeOK
<1>2. CASE Server!InRead(s)
  <2>1. PICK q, h : q = Tail(inQ[s]) /\ h = Head(inQ[s])
    OBVIOUS
  <2>2. q \in Seq(Nat) /\ Len(q) <= STREAM_QUEUE_CAPACITY /\ h \in Nat
    <3>1. PICK g \in Seq(Nat) : g = inQ[s] /\ g # <<>> /\ Len(g) <= STREAM_QUEUE_CAPACITY
      BY <1>1, <1>2 DEF Server!InRead
    <3> QED
      BY <2>1, <3>1, SessionAssumption
  <2>3. /\ inQ' = [inQ EXCEPT ![s] = q] /\ inGot' = [inGot EXCEPT ![s] = Append(inGot[s], h)]
        /\ task' = [task EXCEPT ![s] = "open"]
    BY <1>2, <2>1 DEF Server!InRead
  <2>4. /\ inQ' \in [Streams -> Seq(Nat)] /\ \A t \in Streams : Len(inQ'[t]) <= STREAM_QUEUE_CAPACITY
    BY <1>1, <2>2, <2>3
  <2>5. inGot' \in [Streams -> Seq(Nat)] /\ task' \in [Streams -> {"none", "first", "open", "dropped"}]
    BY <1>1, <2>2, <2>3
  <2> QED
    BY <1>2, <2>4, <2>5 DEF EndsType, Server!InTypeOK, Server!linkVars, Server!InRead, SvTyped
<1>3. CASE Server!InReadEnd(s)
  BY <1>3 DEF EndsType, Server!InTypeOK, Server!inSessVars, Server!linkVars, Server!InReadEnd, SvTyped
<1>4. CASE Server!InWrite(s)
  <2>1. PICK f \in Frame : f = Server!MkFrame("Psh", s, inSent[s] + 1)
    BY <1>1, SameFrames DEF Command
  <2>2. inWriteQ' \in Seq(Frame) /\ Len(inWriteQ') <= SESSION_QUEUE_CAPACITY
    BY <1>4, <2>1, SvQueueType DEF Server!InWrite
  <2> QED
    BY <1>1, <1>4, <2>2, SameFrames DEF EndsType, Server!InTypeOK, Server!linkVars, Server!InWrite, SvTyped
<1>5. CASE Server!InShutdown(s)
  <2>1. PICK f \in Frame : f = Server!MkFrame("Fin", s, 0)
    BY SameFrames DEF Command
  <2>2. inWriteQ' \in Seq(Frame) /\ Len(inWriteQ') <= SESSION_QUEUE_CAPACITY
    BY <1>5, <2>1, SvQueueType DEF Server!InShutdown
  <2> QED
    BY <1>5, <2>2, SameFrames DEF EndsType, Server!InTypeOK, Server!linkVars, Server!InShutdown, SvTyped
<1>6. CASE Server!InDrop(s)
  <2>1. PICK f \in Frame : f = Server!MkFrame("Fin", s, 0)
    BY SameFrames DEF Command
  <2>2. inWriteQ' \in Seq(Frame) /\ Len(inWriteQ') <= SESSION_QUEUE_CAPACITY
    BY <1>6, <2>1, SvQueueType DEF Server!InDrop
  <2>3. inQ' \in [Streams -> Seq(Nat)] /\ \A t \in Streams : Len(inQ'[t]) <= STREAM_QUEUE_CAPACITY
    BY <1>1, <1>6, SessionAssumption DEF Server!InDrop
  <2> QED
    BY <1>6, <2>2, <2>3, SameFrames DEF EndsType, Server!InTypeOK, Server!linkVars, Server!InDrop, SvTyped
<1> QED
  BY <1>2, <1>3, <1>4, <1>5, <1>6 DEF Server!Dispatch

-----------------------------------------------------------------------------
(* The other steps of the server *)

\* Steps that are about no stream.
LEMMA QuietAll ==
  ASSUME ServerInv, UNCHANGED <<wireOut, upPos, inState, task, inQ, inGot, inReader>>, Lives' => Lives,
         inRpc' \in {"auth", "settings"} => inRpc \in {"auth", "settings"},
         inRpc' = "push" <=> inRpc = "push", inCur' = inCur
  PROVE  ServerInv'
<1>1. ServerRpc'
  BY DEF ServerInv, ServerRpc
<1>2. ASSUME NEW t \in Streams PROVE Opening(t)' /\ Serving(t)'
  <2>1. FramesRead(t)' = FramesRead(t) /\ Brought(t)' = Brought(t) /\ (FinRead(t) => FinRead(t)')
    BY DEF FramesRead, Brought, FinRead
  <2>2. Quiet(t)
    BY <1>2, <2>1 DEF Quiet, Delivering
  <2> QED
    BY <1>2, <2>2, QuietStream DEF ServerInv
<1> QED
  BY <1>1, <1>2 DEF ServerInv

\* The client's settings are its first frame, and no stream has been opened.
LEMMA ReadSettingsOK ==
  ASSUME EndsType, ServerInv, WireOk(wireOut), Server!ReadSettings
  PROVE  ServerInv'
<1>1. /\ inRpc = "settings" /\ upPos = 0 /\ upPos' = 1 /\ wireOut' = wireOut /\ upPos < Len(wireOut)
      /\ inRpc' \in {"read", "done"} /\ inState' = inState /\ task' = task /\ inQ' = inQ /\ inGot' = inGot /\ inReader' = inReader
      /\ inClosed' = inClosed /\ inCur' = inCur
  BY DEF ServerInv, ServerRpc, Server!ReadSettings, Server!inSessVars, Server!inTaskVars
<1>2. wireOut \in Seq(Frame) /\ 1 \in 1 .. Len(wireOut)
  BY <1>1 DEF EndsType, PeerTypeOK, TypeOK
<1>3. wireOut[1].sid \notin Streams
  <2>1. wireOut[1].cmd = "Settings" /\ Mine(wireOut[1])
    BY <1>2 DEF WireOk, GoodAt
  <2> QED
    BY <2>1, StreamsAssumption DEF Mine
<1>4. ServerRpc'
  BY <1>1, <1>2 DEF ServerRpc
<1>5. ASSUME NEW s \in Streams PROVE Opening(s)' /\ Serving(s)'
  <2>1. FramesRead(s) = 0 /\ FramesRead(s)' = 0 /\ Brought(s)' = 0
    <3>1. FramesUpTo(wireOut, s, 0) = 0 /\ DataUpTo(wireOut, s, 0) = 0
      BY <1>2, <1>5, UpToZero
    <3>2. wireOut[0 + 1].sid # s /\ ~IsData(wireOut[0 + 1], s)
      BY <1>3, <1>5 DEF IsData
    <3>3. FramesUpTo(wireOut, s, 0 + 1) = 0 /\ DataUpTo(wireOut, s, 0 + 1) = 0
      BY <1>2, <1>5, <3>1, <3>2, UpToStep
    <3> QED
      BY <1>1, <3>1, <3>3 DEF FramesRead, Brought
  <2>2. inState[s] = "none" /\ task[s] = "none" /\ ~Served(s) /\ Serving(s)
    BY <1>5, <2>1 DEF ServerInv, Opening, Served
  <2>3. ~Served(s)' /\ ~Delivering(s)'
    BY <1>1, <2>2 DEF Served, Delivering
  <2> QED
    BY <1>1, <2>1, <2>2, <2>3 DEF Opening, Serving
<1> QED
  BY <1>4, <1>5 DEF ServerInv

\* Clearing the map takes every entry, when the session has ended.
LEMMA ClearStreamsOK ==
  ASSUME EndsType, ServerInv, Server!ClearStreams
  PROVE  ServerInv'
<1>1. /\ inRpc = "clear" /\ upPos' = upPos /\ wireOut' = wireOut /\ inRpc' = "done" /\ inState' = [s \in Streams |-> "none"]
      /\ task' = task /\ inQ' = inQ /\ inGot' = inGot /\ inReader' = inReader /\ inCur' = inCur
  BY DEF Server!ClearStreams, Server!inTaskVars, Server!linkVars
<1>2. ServerRpc'
  BY <1>1 DEF ServerInv, ServerRpc
<1>3. ASSUME NEW s \in Streams PROVE Opening(s)' /\ Serving(s)'
  <2>1. FramesRead(s)' = FramesRead(s) /\ Brought(s)' = Brought(s)
    BY <1>1 DEF FramesRead, Brought
  <2>2. /\ inState'[s] = "none" /\ ~Delivering(s) /\ ~Delivering(s)' /\ (Served(s)' <=> Served(s)) /\ ~Lives'
        /\ ~Server!InSenderAlive(s)'
    BY <1>1, <1>3 DEF Delivering, Served, Lives, Server!InSenderAlive
  <2>3. Having(s)' = Having(s) /\ Opening(s) /\ Serving(s)
    BY <1>1, <1>3, <2>2 DEF Having, ServerInv
  <2>4. Opening(s)'
    BY <1>1, <2>1, <2>2, <2>3 DEF Opening
  <2>5. Serving(s)'
    BY <1>1, <2>1, <2>2, <2>3 DEF Serving
  <2> QED
    BY <2>4, <2>5
<1> QED
  BY <1>2, <1>3 DEF ServerInv

\* Every step of the server keeps what is known of its streams.
LEMMA ServerOK ==
  ASSUME EndsType, ServerInv, WireOk(wireOut), Server!InNext
  PROVE  ServerInv' /\ SvTyped
<1>1. CASE Server!Authenticate \/ Server!SettingsFail
  <2>1. ServerInv'
    BY <1>1, QuietAll DEF Server!Authenticate, Server!SettingsFail, Server!inSessVars, Server!inTaskVars, Server!linkVars, Lives
  <2> QED
    BY <1>1, <2>1, SvNewType
<1>2. CASE Server!ReadSettings
  BY <1>2, ReadSettingsOK, SvNewType
<1>3. CASE \/ Server!ReadSyn \/ Server!BadHeader \/ Server!ReadTarget \/ Server!ReadUotRequest \/ Server!ReadData
           \/ Server!ReadFin \/ Server!ReadOther \/ Server!ReadAlert
  BY <1>3, SvReadType, ReadSynOK, BadHeaderOK, HeaderOK, ReadDataOK, ReadFinOK, ReadOtherOK
<1>4. CASE Server!Deliver
  BY <1>4, DeliverOK, SvLoopType
<1>5. CASE Server!ReadLoopEnds \/ Server!CloseSession
  <2>1. ServerInv'
    BY <1>5, QuietAll DEF Server!ReadLoopEnds, Server!CloseSession, Server!inSessVars, Server!inTaskVars, Server!linkVars, Lives
  <2> QED
    BY <1>5, <2>1, SvLoopType
<1>6. CASE Server!ClearStreams
  BY <1>6, ClearStreamsOK, SvLoopType
<1>7. CASE Server!WriteSide
  <2>1. ServerInv'
    BY <1>7, QuietAll DEF Server!WriteSide, Server!WriteFrame, Server!WriteLoopEnds, Server!WriteTaskCloses, Server!inTaskVars, Server!linkVars, Lives
  <2> QED
    BY <1>7, <2>1, SvWriteType
<1>8. ASSUME NEW s \in Streams, Server!Dispatch(s) PROVE ServerInv' /\ SvTyped
  <2>1. CASE Server!InRead(s)
    BY <1>8, <2>1, InReadOK, SvTaskType
  <2>2. CASE Server!InReadEnd(s) \/ Server!InDrop(s)
    BY <1>8, <2>2, InEndOK, SvTaskType
  <2>3. CASE Server!InWrite(s) \/ Server!InShutdown(s)
    <3>1. ServerInv'
      BY <2>3, QuietAll DEF Server!InWrite, Server!InShutdown, Server!linkVars, Lives
    <3> QED
      BY <1>8, <3>1, SvTaskType
  <2> QED
    BY <1>8, <2>1, <2>2, <2>3 DEF Server!Dispatch
<1> QED
  BY <1>1, <1>2, <1>3, <1>4, <1>5, <1>6, <1>7, <1>8 DEF Server!InNext, Server!ReadSide

-----------------------------------------------------------------------------
(* The steps of the client, and the tunnel *)

\* A client only ever adds to what it has written.
LEMMA WireGrows ==
  ASSUME PeerTypeOK, ClientNext
  PROVE  /\ wireOut' \in Seq(Frame) /\ Len(wireOut) <= Len(wireOut')
         /\ \A i \in 1 .. Len(wireOut) : wireOut'[i] = wireOut[i]
<1>1. wireOut \in Seq(Frame) /\ buffer \in Seq(Frame)
  BY DEF PeerTypeOK, TypeOK
<1>2. wireOut' = wireOut \/ wireOut' = wireOut \o buffer
  <2>1. CASE Flush
    BY <2>1 DEF Flush
  <2>2. CASE TakeFrames \/ WriteBreak \/ WriteFinish \/ WriteClear
    BY <2>2 DEF TakeFrames, WriteBreak, WriteFinish, WriteClear, wireVars
  <2>3. CASE ReadTask \/ OutsideFinish \/ OutsideClear
    BY <2>3 DEF ReadTask, ReadFrame, PushData, ReadBreak, ReadFinish, ReadClear, OutsideFinish, OutsideClear, wireVars
  <2>4. ASSUME NEW s \in Streams, Connect(s) PROVE wireOut' = wireOut
    BY <2>4 DEF Connect, Register, SendSyn, SendTarget, SendUotRequest, ConnectFails, wireVars
  <2>5. ASSUME NEW s \in Streams, Relay(s) PROVE wireOut' = wireOut
    BY <2>5 DEF Relay, Read, ReadEnd, Write, Shutdown, Drop, wireVars
  <2> QED
    BY <2>1, <2>2, <2>3, <2>4, <2>5 DEF ClientNext, WriteTask
<1>3. CASE wireOut' = wireOut
  BY <1>1, <1>3
<1>4. CASE wireOut' = wireOut \o buffer
  <2>1. PICK v : v = wireOut \o buffer
    OBVIOUS
  <2>2. v \in Seq(Frame) /\ Len(v) = Len(wireOut) + Len(buffer) /\ \A i \in 1 .. Len(wireOut) : v[i] = wireOut[i]
    BY <1>1, <2>1
  <2> QED
    BY <1>1, <1>4, <2>1, <2>2
<1> QED
  BY <1>2, <1>3, <1>4

\* A step that only adds to what the client has written keeps what the server knows.
LEMMA ServerKeeps ==
  ASSUME EndsType, ServerInv, UNCHANGED serverVars, wireOut' \in Seq(Frame), Len(wireOut) <= Len(wireOut'),
         \A i \in 1 .. Len(wireOut) : wireOut'[i] = wireOut[i]
  PROVE  ServerInv'
<1>1. upPos \in Nat /\ wireOut \in Seq(Frame) /\ upPos <= Len(wireOut) /\ Len(wireOut) \in Nat /\ Len(wireOut') \in Nat /\ upPos' = upPos
  BY DEF EndsType, PeerTypeOK, TypeOK, Server!InTypeOK, ServerInv, ServerRpc, serverVars
<1>2. \A i \in 1 .. upPos : wireOut'[i] = wireOut[i]
  BY <1>1
<1>3. ServerRpc'
  BY <1>1 DEF ServerInv, ServerRpc, serverVars
<1>4. ASSUME NEW s \in Streams PROVE Opening(s)' /\ Serving(s)'
  <2>1. PICK v : v = wireOut'
    OBVIOUS
  <2>2. FramesUpTo(v, s, upPos) = FramesUpTo(wireOut, s, upPos) /\ DataUpTo(v, s, upPos) = DataUpTo(wireOut, s, upPos)
    BY <1>1, <1>2, <1>4, <2>1, UpToPrefix
  <2>3. FramesRead(s)' = FramesRead(s) /\ Brought(s)' = Brought(s) /\ (FinRead(s) => FinRead(s)')
    BY <1>1, <1>2, <2>1, <2>2 DEF FramesRead, Brought, FinRead
  <2>4. Quiet(s)
    BY <2>3 DEF Quiet, Delivering, Lives, serverVars
  <2> QED
    BY <1>4, <2>4, QuietStream DEF ServerInv
<1> QED
  BY <1>3, <1>4 DEF ServerInv

\* What holds of the two ends together.
TunnelInv == EndsType /\ WireInv /\ ServerInv

\* A step of the client, or of the network, is one that its peer's specification allows.
LEMMA ClientSteps ==
  ASSUME TunnelInv, ClientStep(ClientNext) \/ HangUp \/ NetworkFails
  PROVE  TunnelInv'
<1>1. [Next]_allVars /\ UNCHANGED serverVars
  BY DEF ClientStep, HangUp, NetworkFails, Next, Client
<1>2. PeerTypeOK' /\ WireInv'
  BY <1>1, NextType, WireStep DEF TunnelInv, EndsType
<1>3. Server!InTypeOK'
  BY <1>1 DEF TunnelInv, EndsType, Server!InTypeOK, serverVars
<1>4. wireOut' \in Seq(Frame) /\ Len(wireOut) <= Len(wireOut') /\ \A i \in 1 .. Len(wireOut) : wireOut'[i] = wireOut[i]
  <2>1. CASE ClientNext
    BY <2>1, WireGrows DEF TunnelInv, EndsType
  <2>2. CASE HangUp \/ NetworkFails
    BY <2>2 DEF HangUp, NetworkFails, ConnectionLost, TunnelInv, EndsType, PeerTypeOK, TypeOK
  <2> QED
    BY <2>1, <2>2 DEF ClientStep
<1>5. ServerInv'
  BY <1>1, <1>4, ServerKeeps DEF TunnelInv
<1> QED
  BY <1>2, <1>3, <1>5 DEF TunnelInv, EndsType

\* A step of the server.
LEMMA ServerSteps ==
  ASSUME TunnelInv, ServerStep(Server!InNext)
  PROVE  TunnelInv'
<1>1. /\ Server!InNext /\ UNCHANGED clientVars /\ Recorded
      /\ EndsType /\ WireInv /\ ServerInv /\ WireOk(wireOut)
  BY DEF ServerStep, TunnelInv, WireInv
<1>2. ServerInv' /\ SvTyped
  BY <1>1, ServerOK
<1>3. wireOut' = wireOut /\ broken' = broken
  <2>1. CASE Server!ReadSide
    BY <2>1 DEF Server!ReadSide, Server!Authenticate, Server!ReadSettings, Server!SettingsFail, Server!ReadSyn, Server!BadHeader,
       Server!ReadTarget, Server!ReadUotRequest, Server!ReadData, Server!Deliver, Server!ReadFin, Server!ReadOther, Server!ReadAlert,
       Server!ReadLoopEnds, Server!CloseSession, Server!ClearStreams, Server!linkVars
  <2>2. CASE Server!WriteSide
    BY <2>2 DEF Server!WriteSide, Server!WriteFrame, Server!WriteLoopEnds, Server!WriteTaskCloses, Server!linkVars
  <2>3. ASSUME NEW s \in Streams, Server!Dispatch(s) PROVE wireOut' = wireOut /\ broken' = broken
    BY <2>3 DEF Server!Dispatch, Server!InRead, Server!InReadEnd, Server!InWrite, Server!InShutdown, Server!InDrop, Server!linkVars
  <2> QED
    BY <1>1, <2>1, <2>2, <2>3 DEF Server!InNext
<1>4. WireInv'
  <2>1. Pipe' = Pipe /\ UNCHANGED <<rxOpen, wpc, handle, wrote, finSent>>
    BY <1>1, <1>3 DEF Pipe, clientVars
  <2>2. ASSUME NEW s \in Streams PROVE Linked(Pipe, s)' <=> Linked(Pipe, s)
    BY <2>1 DEF Linked, Going, Frames
  <2>3. WireOk(Pipe)' <=> WireOk(Pipe)
    BY <2>1
  <2> QED
    BY <1>1, <1>3, <2>1, <2>2, <2>3 DEF WireInv
<1>5. wireIn' \in Seq(Frame)
  <2>1. wireIn \in Seq(Frame)
    BY <1>1 DEF EndsType, PeerTypeOK, TypeOK
  <2>2. ASSUME NEW f \in Frame, wireIn' = Append(wireIn, f) PROVE wireIn' \in Seq(Frame)
    BY <2>1, <2>2
  <2> QED
    BY <1>2, <2>1, <2>2 DEF SvTyped
<1>6. down' \in [Streams -> Nat] /\ downEnd' \in [Streams -> BOOLEAN] /\ control' \in Nat
  <2>1. PICK f : f = wireIn'[Len(wireIn')]
    OBVIOUS
  <2>2. /\ down' = down \/ down' = [down EXCEPT ![f.sid] = @ + 1]
        /\ downEnd' = downEnd \/ downEnd' = [downEnd EXCEPT ![f.sid] = TRUE]
        /\ control' = control \/ control' = control + 1
    BY <1>1, <2>1 DEF Recorded, peerVars
  <2>3. down \in [Streams -> Nat] /\ downEnd \in [Streams -> BOOLEAN] /\ control \in Nat
    BY <1>1 DEF EndsType, PeerTypeOK
  <2>4. [down EXCEPT ![f.sid] = @ + 1] \in [Streams -> Nat]
    <3>1. CASE f.sid \in Streams
      BY <2>3, <3>1
    <3>2. CASE f.sid \notin Streams
      BY <2>3, <3>2
    <3> QED
      BY <3>1, <3>2
  <2>5. [downEnd EXCEPT ![f.sid] = TRUE] \in [Streams -> BOOLEAN]
    BY <2>3
  <2>6. control + 1 \in Nat
    BY <2>3
  <2> QED
    BY <2>2, <2>3, <2>4, <2>5, <2>6, Zenon
<1>7. TypeOK'
  BY <1>1, <1>3, <1>5 DEF EndsType, PeerTypeOK, TypeOK, clientVars
<1> QED
  BY <1>2, <1>4, <1>6, <1>7 DEF TunnelInv, EndsType, PeerTypeOK, SvTyped

\* What the server's invariant says of its readers.
LEMMA ServerReads ==
  ASSUME EndsType, WireOk(wireOut), ServerInv
  PROVE  ServerReadsWhatWasSent
<1> SUFFICES ASSUME NEW s \in Streams
             PROVE  /\ \A i \in 1 .. Len(inGot[s]) : inGot[s][i] = i
                    /\ Len(inGot[s]) <= UpPayloads(s)
                    /\ (inReader[s] = "eof" /\ ~inClosed /\ inRpc \in {"read", "push"})
                          => UpEnded(s) /\ Len(inGot[s]) = UpPayloads(s)
  BY DEF ServerReadsWhatWasSent
<1>1. /\ Serving(s) /\ upPos <= Len(wireOut) /\ wireOut \in Seq(Frame) /\ upPos \in Nat /\ Len(wireOut) \in Nat
      /\ inGot[s] \in Seq(Nat) /\ Brought(s) \in Nat
  BY ServedType DEF ServerInv, ServerRpc
<1>2. PICK a \in Nat, b \in Nat, h \in Nat, p \in Nat : a = Len(inGot[s]) /\ b = Len(inQ[s]) /\ h = Having(s) /\ p = Brought(s)
  BY ServedType
<1>3. a <= h /\ (inQ[s] = <<>> /\ ~Delivering(s) => h = a)
  <2>1. h = a + b + 1 \/ (h = a + b + 0)
    BY <1>2 DEF Having
  <2>2. inQ[s] = <<>> /\ ~Delivering(s) => h = a + 0 + 0
    BY <1>2 DEF Having
  <2> QED
    BY <2>1, <2>2
<1>4. PICK u \in Nat : u = DataUpTo(wireOut, s, Len(wireOut))
  BY <1>1, UpToStep
<1>5. UpPayloads(s) = u /\ p <= u
  <2>1. DOMAIN wireOut = 1 .. Len(wireOut)
    BY <1>1
  <2>2. {i \in DOMAIN wireOut : wireOut[i].cmd = "Psh" /\ wireOut[i].sid = s /\ wireOut[i].n # Header}
          = {j \in 1 .. Len(wireOut) : IsData(wireOut[j], s)}
    BY <2>1 DEF IsData
  <2>3. DataUpTo(wireOut, s, upPos) <= DataUpTo(wireOut, s, Len(wireOut))
    BY <1>1, UpToGrows
  <2> QED
    BY <1>2, <1>4, <2>2, <2>3 DEF UpPayloads, DataUpTo, Brought
<1>6. CASE ~Served(s)
  <2>1. inGot[s] = <<>> /\ inReader[s] = "reading"
    BY <1>1, <1>6 DEF Serving
  <2> QED
    BY <1>5, <2>1
<1>7. CASE Served(s)
  <2>1. (\A i \in DOMAIN inGot[s] : inGot[s][i] = i) /\ h <= p
    BY <1>1, <1>2, <1>7 DEF Serving
  <2>2. (\A i \in 1 .. Len(inGot[s]) : inGot[s][i] = i) /\ Len(inGot[s]) <= UpPayloads(s)
    <3>1. a <= u
      BY <1>3, <1>5, <2>1
    <3> QED
      BY <1>1, <1>2, <1>5, <2>1, <3>1
  <2>3. ASSUME inReader[s] = "eof", ~inClosed, inRpc \in {"read", "push"} PROVE UpEnded(s) /\ Len(inGot[s]) = UpPayloads(s)
    <3>1. Lives /\ inQ[s] = <<>> /\ ~Server!InSenderAlive(s)
      BY <1>1, <1>7, <2>3 DEF Serving, Lives
    <3>2. inState[s] # "Active" /\ ~Delivering(s)
      BY <3>1 DEF Server!InSenderAlive, Delivering
    <3>3. h = p /\ FinRead(s)
      BY <1>1, <1>2, <1>7, <3>1, <3>2 DEF Serving
    <3>4. PICK i \in 1 .. upPos : wireOut[i].sid = s /\ wireOut[i].cmd = "Fin"
      BY <3>3 DEF FinRead
    <3>5. i \in DOMAIN wireOut /\ i \in 1 .. Len(wireOut) /\ GoodAt(wireOut, i) /\ wireOut[i] \in Frame
      BY <1>1, <3>4 DEF WireOk
    <3>6. wireOut[i] = MkFrame("Fin", s, 0)
      BY <3>4, <3>5, StreamsAssumption DEF GoodAt, Mine, MkFrame, Frame
    <3>7. ASSUME NEW j \in 1 .. Len(wireOut), wireOut[j].sid = s PROVE j <= upPos
      <4>1. GoodAt(wireOut, j) /\ j \in Nat /\ i \in Nat /\ i <= upPos
        BY <1>1, <3>4, <3>7 DEF WireOk
      <4>2. \A k \in 1 .. j - 1 : wireOut[k].sid = s => wireOut[k].cmd # "Fin"
        BY <3>7, <4>1 DEF GoodAt, InPlace
      <4>3. ~(i \in 1 .. j - 1)
        BY <3>4, <4>2
      <4> QED
        BY <1>1, <3>4, <3>7, <4>1, <4>3
    <3>8. u = p
      <4>1. DataUpTo(wireOut, s, Len(wireOut)) = DataUpTo(wireOut, s, upPos)
        BY <1>1, <3>7, UpToGrows
      <4> QED
        BY <1>2, <1>4, <4>1 DEF Brought
    <3>9. UpEnded(s)
      BY <3>5, <3>6 DEF UpEnded
    <3> QED
      BY <1>2, <1>3, <1>5, <3>1, <3>2, <3>3, <3>8, <3>9
  <2> QED
    BY <2>2, <2>3
<1> QED
  BY <1>6, <1>7

\* The tunnel starts with nothing written and nothing read.
LEMMA StartsTunnel == TunnelInit => TunnelInv
<1> SUFFICES ASSUME TunnelInit PROVE TunnelInv
  OBVIOUS
<1>1. PeerInit /\ Server!InInit /\ PeerTypeOK /\ WireInv
  BY StartsTyped, StartsInOrder DEF TunnelInit
<1>2. <<>> \in Seq(Frame) /\ <<>> \in Seq(Nat) /\ Len(<<>>) = 0
  OBVIOUS
<1>3. /\ inQ \in [Streams -> Seq(Nat)] /\ inGot \in [Streams -> Seq(Nat)]
      /\ \A s \in Streams : Len(inQ[s]) <= STREAM_QUEUE_CAPACITY
      /\ inWriteQ \in Seq(Server!Frame) /\ Len(inWriteQ) <= SESSION_QUEUE_CAPACITY
  BY <1>1, <1>2, SameFrames, SessionAssumption DEF Server!InInit
<1>4. Server!InTypeOK
  BY <1>1, <1>3, SameFrames DEF Server!InInit, Server!InTypeOK
<1>5. wireOut = <<>>
  BY <1>1 DEF PeerInit, Init
<1>6. ServerRpc
  BY <1>1, <1>5 DEF Server!InInit, ServerRpc
<1>7. ASSUME NEW s \in Streams PROVE Opening(s) /\ Serving(s)
  <2>1. FramesRead(s) = 0 /\ Brought(s) = 0
    BY <1>1, <1>5, <1>7, <1>2, UpToZero DEF FramesRead, Brought, Server!InInit
  <2> QED
    BY <1>1, <1>7, <2>1 DEF Server!InInit, Opening, Serving, Served, Delivering
<1> QED
  BY <1>1, <1>4, <1>6, <1>7 DEF TunnelInv, EndsType, ServerInv

\* Every step of either end keeps what holds of both.
LEMMA TunnelInvStep == TunnelInv /\ [TunnelNext]_tunnelVars => TunnelInv'
<1> SUFFICES ASSUME TunnelInv, [TunnelNext]_tunnelVars PROVE TunnelInv'
  OBVIOUS
<1>1. CASE UNCHANGED tunnelVars
  <2>1. UNCHANGED allVars /\ UNCHANGED serverVars
    BY <1>1 DEF tunnelVars
  <2>2. PeerTypeOK' /\ WireInv'
    BY <2>1, NextType, WireStep DEF TunnelInv, EndsType
  <2>3. Server!InTypeOK'
    BY <2>1 DEF TunnelInv, EndsType, Server!InTypeOK, serverVars
  <2>4. wireOut' = wireOut /\ wireOut \in Seq(Frame)
    BY <2>1 DEF allVars, vars, TunnelInv, EndsType, PeerTypeOK, TypeOK
  <2>5. ServerInv'
    BY <2>1, <2>4, ServerKeeps DEF TunnelInv
  <2> QED
    BY <2>2, <2>3, <2>5 DEF TunnelInv, EndsType
<1> QED
  BY <1>1, ClientSteps, ServerSteps DEF TunnelNext, TunnelEnded

\* Over any interleaving of both sessions, of the relays at both ends and of the failure
\* of the connection, a dispatch task of the server reads exactly the payloads the
\* client's relay wrote, in order, and sees the end only after the last of them.
THEOREM ServerReadsAll == TunnelSpec => []ServerReadsWhatWasSent
<1>1. TunnelInv => ServerReadsWhatWasSent
  BY ServerReads DEF TunnelInv, WireInv
<1> QED
  BY <1>1, StartsTunnel, TunnelInvStep, PTL DEF TunnelSpec

-----------------------------------------------------------------------------
(* What the server sends *)

SynRead(s) == \E i \in 1 .. upPos : wireOut[i] = MkFrame("Syn", s, 0)

\* The server has ended the stream, or never will begin it.
Over(s) == inFin[s] \/ task[s] = "dropped" \/ (inState[s] = "none" /\ task[s] = "none" /\ FramesRead(s) # 0)

IsAck(f, s) == f.cmd = "SynAck" /\ f.sid = s

\* The frames a server session ever queues: all belong to streams.
Answer(f) == f.sid \in Streams /\ (f.cmd = "Psh" \/ (f.cmd \in {"Fin", "SynAck"} /\ f.n = 0))

\* What is queued continues what was sent, and ends it once.
Sending(s) ==
    /\ Coming(inWriteQ, s, down[s], inSent[s], Over(s)) /\ down[s] <= inSent[s]
    /\ \A i, j \in DOMAIN inWriteQ : IsEnd(inWriteQ[i], s) /\ IsEnd(inWriteQ[j], s) => i = j
    /\ downEnd[s] => Over(s) /\ \A i \in DOMAIN inWriteQ : ~IsPsh(inWriteQ[i], s) /\ ~IsEnd(inWriteQ[i], s)

\* A stream whose SYN was read is acknowledged at most once.
Answering(s) ==
    /\ FramesRead(s) # 0 => SynRead(s)
    /\ inFin[s] => task[s] # "none"
    /\ inSent[s] <= MaxDown
    /\ \A i \in DOMAIN inWriteQ : inWriteQ[i].sid = s => FramesRead(s) # 0
    /\ \A i, j \in DOMAIN inWriteQ : IsAck(inWriteQ[i], s) /\ IsAck(inWriteQ[j], s) => i = j
    /\ Arrives /\ inRxOpen => Sending(s)

\* The streams whose acknowledgement is no longer queued.
Acked == {s \in Streams : FramesRead(s) # 0 /\ \A i \in DOMAIN inWriteQ : ~IsAck(inWriteQ[i], s)}

Answers ==
    /\ \A i \in DOMAIN inWriteQ : Answer(inWriteQ[i])
    /\ ~inRxOpen \/ inRpc \in {"auth", "settings"} => inWriteQ = <<>>
    /\ inRpc \in {"auth", "settings"} => control = 0
    /\ control <= 1 + Cardinality(Acked)

AnswerInv == Answers /\ \A s \in Streams : Answering(s)

-----------------------------------------------------------------------------
(* Steps that queue a frame of the server, or none *)

\* The stream's own part of a step of the server.
Moves(s) ==
    /\ FramesRead(s) # 0 => FramesRead(s)' # 0
    /\ FramesRead(s)' # 0 => SynRead(s)'
    /\ inFin'[s] => task'[s] # "none"
    /\ Over(s) => Over(s)'

\* A frame that may be queued.
MayQueue(f) ==
    /\ Answer(f) /\ FramesRead(f.sid)' # 0
    /\ f.cmd = "SynAck" => FramesRead(f.sid) = 0
    /\ f.cmd = "Psh" => ~Over(f.sid) /\ f.n = inSent[f.sid] + 1 /\ f.n <= MaxDown
    /\ f.cmd = "Fin" => ~Over(f.sid) /\ Over(f.sid)'

\* A stream knows more of itself, and its frames are as before.
LEMMA ComingWeaker ==
  ASSUME NEW w, NEW s, NEW d, NEW n, NEW e, NEW g, Coming(w, s, d, n, e), e => g
  PROVE  Coming(w, s, d, n, g)
BY DEF Coming

\* Nothing is queued for s.
LEMMA QueueSame ==
  ASSUME NEW s \in Streams, Answering(s), Moves(s), inWriteQ' = inWriteQ, inRxOpen' => inRxOpen, Arrives' => Arrives,
         down'[s] = down[s], downEnd'[s] = downEnd[s], inSent'[s] = inSent[s]
  PROVE  Answering(s)'
<1>1. ASSUME Arrives', inRxOpen' PROVE Sending(s)'
  <2>1. Sending(s)
    BY <1>1 DEF Answering
  <2>2. Over(s) => Over(s)'
    BY DEF Moves
  <2>3. Coming(inWriteQ, s, down[s], inSent[s], Over(s)')
    BY <2>1, <2>2, ComingWeaker DEF Sending
  <2> QED
    BY <2>1, <2>2, <2>3 DEF Sending
<1> QED
  BY <1>1 DEF Answering, Moves

\* A frame is queued, of s or of another stream.
LEMMA QueueAdd ==
  ASSUME EndsType, NEW s \in Streams, Answering(s), Moves(s), inRxOpen' => inRxOpen, Arrives' => Arrives,
         down'[s] = down[s], downEnd'[s] = downEnd[s],
         NEW f \in Frame, inWriteQ' = Append(inWriteQ, f), MayQueue(f),
         inSent'[s] = (IF IsPsh(f, s) THEN inSent[s] + 1 ELSE inSent[s])
  PROVE  Answering(s)'
<1>1. PICK q \in Seq(Frame) : q = inWriteQ
  BY SameFrames DEF EndsType, Server!InTypeOK
<1>2. PICK m \in Nat : m = Len(q)
  BY <1>1
<1>3. PICK v \in Seq(Frame) : v = inWriteQ'
  BY <1>1
<1>4. /\ DOMAIN q = 1 .. m /\ DOMAIN v = 1 .. m + 1 /\ v[m + 1] = f /\ \A i \in 1 .. m : v[i] = q[i]
  BY <1>1, <1>2, <1>3
<1>5. \A i \in DOMAIN v : (i \in DOMAIN q /\ v[i] = q[i]) \/ (i = m + 1 /\ v[i] = f)
  BY <1>2, <1>4
<1>6. \A i \in DOMAIN v : v[i].sid = s => FramesRead(s)' # 0
  BY <1>1, <1>5 DEF Answering, Moves, MayQueue
<1>7. ASSUME NEW i \in DOMAIN v, NEW j \in DOMAIN v, IsAck(v[i], s), IsAck(v[j], s) PROVE i = j
  <2>1. IsAck(f, s) => \A k \in DOMAIN q : q[k].sid # s
    BY <1>1 DEF Answering, MayQueue, IsAck
  <2>2. \A k \in DOMAIN q : IsAck(q[k], s) => q[k].sid = s
    BY DEF IsAck
  <2>3. \A k, l \in DOMAIN q : IsAck(q[k], s) /\ IsAck(q[l], s) => k = l
    BY <1>1 DEF Answering
  <2> QED
    BY <1>5, <1>7, <2>1, <2>2, <2>3
<1>8. inSent'[s] <= MaxDown
  BY DEF Answering, MayQueue, IsPsh
<1>9. ASSUME Arrives', inRxOpen' PROVE Sending(s)'
  <2>1. Sending(s) /\ Coming(q, s, down[s], inSent[s], Over(s)) /\ down[s] <= inSent[s] /\ down[s] \in Nat /\ inSent[s] \in Nat
    BY <1>1, <1>9 DEF Answering, Sending, EndsType, PeerTypeOK, Server!InTypeOK
  <2>2. PICK d \in Nat, n \in Nat : d = down[s] /\ n = inSent[s]
    BY <2>1
  <2>3. PICK e \in BOOLEAN : e = Over(s)
    BY DEF Over
  <2>4. Coming(q, s, d, n, e) /\ d <= n
    BY <2>1, <2>2, <2>3
  <2>5. /\ ~e /\ IsPsh(f, s) /\ f.n = n + 1 => Coming(v, s, d, n + 1, e)
        /\ IsEnd(f, s) => Coming(v, s, d, n, TRUE)
        /\ ~IsPsh(f, s) /\ ~IsEnd(f, s) => Coming(v, s, d, n, e)
    BY <1>1, <1>3, <2>4, ComingMore
  <2>6. e => Over(s)'
    BY <2>3 DEF Moves
  <2>7. IsPsh(f, s) => ~e /\ f.n = n + 1 /\ ~IsEnd(f, s)
    BY <2>2, <2>3 DEF MayQueue, IsPsh, IsEnd
  <2>8. IsEnd(f, s) => ~e /\ Over(s)' /\ ~IsPsh(f, s)
    BY <2>3 DEF MayQueue, Answer, IsPsh, IsEnd
  <2>9. Coming(v, s, down'[s], inSent'[s], Over(s)') /\ down'[s] <= inSent'[s]
    <3>1. CASE IsPsh(f, s)
      <4>1. Coming(v, s, d, n + 1, e) /\ inSent'[s] = n + 1 /\ d <= n + 1
        BY <2>2, <2>4, <2>5, <2>7, <3>1
      <4> QED
        BY <2>2, <2>6, <4>1, ComingWeaker
    <3>2. CASE IsEnd(f, s)
      <4>1. Coming(v, s, d, n, TRUE) /\ inSent'[s] = n /\ Over(s)'
        BY <2>2, <2>5, <2>8, <3>2
      <4> QED
        BY <2>2, <2>4, <4>1, ComingWeaker
    <3>3. CASE ~IsPsh(f, s) /\ ~IsEnd(f, s)
      <4>1. Coming(v, s, d, n, e) /\ inSent'[s] = n
        BY <2>2, <2>5, <3>3
      <4> QED
        BY <2>2, <2>4, <2>6, <4>1, ComingWeaker
    <3> QED
      BY <3>1, <3>2, <3>3
  <2>10. ASSUME NEW i \in DOMAIN v, NEW j \in DOMAIN v, IsEnd(v[i], s), IsEnd(v[j], s) PROVE i = j
    <3>1. IsEnd(f, s) => \A k \in DOMAIN q : ~IsEnd(q[k], s)
      BY <2>4, <2>8 DEF Coming
    <3>2. \A k, l \in DOMAIN q : IsEnd(q[k], s) /\ IsEnd(q[l], s) => k = l
      BY <1>1, <2>1 DEF Sending
    <3> QED
      BY <1>5, <2>10, <3>1, <3>2
  <2>11. ASSUME downEnd[s] PROVE Over(s)' /\ \A i \in DOMAIN v : ~IsPsh(v[i], s) /\ ~IsEnd(v[i], s)
    <3>1. e /\ \A i \in DOMAIN q : ~IsPsh(q[i], s) /\ ~IsEnd(q[i], s)
      BY <1>1, <2>1, <2>3, <2>11 DEF Sending
    <3>2. ~IsPsh(f, s) /\ ~IsEnd(f, s)
      BY <2>7, <2>8, <3>1
    <3> QED
      BY <1>5, <2>6, <3>1, <3>2
  <2> QED
    BY <1>3, <2>9, <2>10, <2>11 DEF Sending
<1> QED
  BY <1>3, <1>6, <1>7, <1>8, <1>9 DEF Answering, Moves

\* More streams are acknowledged as long as their frames are read.
LEMMA AckedGrows ==
  ASSUME Acked \subseteq Acked'
  PROVE  Cardinality(Acked) \in Nat /\ Cardinality(Acked)' \in Nat /\ Cardinality(Acked) <= Cardinality(Acked)'
<1>1. Acked \subseteq Streams /\ Acked' \subseteq Streams
  BY DEF Acked
<1>2. IsFiniteSet(Acked) /\ IsFiniteSet(Acked')
  BY <1>1, FS_Subset, TunnelAssumption
<1> QED
  BY <1>2, FS_Subset, FS_CardinalityType

\* A step that queues a frame, or none.
LEMMA QueueStep ==
  ASSUME EndsType, AnswerInv, \A s \in Streams : Moves(s), inRxOpen' = inRxOpen, Arrives' => Arrives, UNCHANGED peerVars,
         inRpc' \in {"auth", "settings"} => inRpc \in {"auth", "settings"} /\ inWriteQ' = inWriteQ,
         \/ inWriteQ' = inWriteQ /\ inSent' = inSent
         \/ \E f \in Frame : /\ inRxOpen /\ inWriteQ' = Append(inWriteQ, f) /\ MayQueue(f)
                             /\ \A s \in Streams : inSent'[s] = (IF IsPsh(f, s) THEN inSent[s] + 1 ELSE inSent[s])
  PROVE  AnswerInv'
<1>1. \A s \in Streams : Answering(s) /\ down'[s] = down[s] /\ downEnd'[s] = downEnd[s]
  BY DEF AnswerInv, peerVars
<1>2. control' = control /\ control \in Nat
  BY DEF peerVars, EndsType, PeerTypeOK
<1>3. CASE inWriteQ' = inWriteQ /\ inSent' = inSent
  <2>1. \A s \in Streams : Answering(s)'
    BY <1>1, <1>3, QueueSame
  <2>2. Acked \subseteq Acked'
    BY <1>3 DEF Acked, Moves
  <2>3. control' <= 1 + Cardinality(Acked)'
    BY <1>2, <2>2, AckedGrows DEF AnswerInv, Answers
  <2> QED
    BY <1>2, <1>3, <2>1, <2>3 DEF AnswerInv, Answers
<1>4. ASSUME NEW f \in Frame, inRxOpen, inWriteQ' = Append(inWriteQ, f), MayQueue(f),
             \A s \in Streams : inSent'[s] = (IF IsPsh(f, s) THEN inSent[s] + 1 ELSE inSent[s])
      PROVE  AnswerInv'
  <2>1. PICK q \in Seq(Frame) : q = inWriteQ
    BY SameFrames DEF EndsType, Server!InTypeOK
  <2>2. \A s \in Streams : Answering(s)'
    BY <1>1, <1>4, QueueAdd
  <2>3. \A i \in DOMAIN Append(q, f) : (i \in DOMAIN q /\ Append(q, f)[i] = q[i]) \/ Append(q, f)[i] = f
    BY <2>1
  <2>4. Acked \subseteq Acked'
    <3>1. ASSUME NEW s \in Acked PROVE s \in Acked'
      <4>1. s \in Streams /\ FramesRead(s)' # 0 /\ FramesRead(s) # 0
        BY <3>1 DEF Acked, Moves
      <4>2. ~IsAck(f, s)
        BY <1>4, <4>1 DEF MayQueue, IsAck
      <4>3. \A i \in DOMAIN q : ~IsAck(q[i], s)
        BY <2>1, <3>1 DEF Acked
      <4> QED
        BY <1>4, <2>1, <2>3, <4>1, <4>2, <4>3 DEF Acked
    <3> QED
      BY <3>1
  <2>5. control' <= 1 + Cardinality(Acked)'
    BY <1>2, <2>4, AckedGrows DEF AnswerInv, Answers
  <2>6. \A i \in DOMAIN inWriteQ' : Answer(inWriteQ'[i])
    BY <1>4, <2>1, <2>3 DEF AnswerInv, Answers, MayQueue
  <2>7. inWriteQ' # inWriteQ
    <3>1. Len(Append(q, f)) = Len(q) + 1 /\ Len(q) \in Nat
      BY <2>1
    <3>2. Append(q, f) # q
      BY <3>1
    <3> QED
      BY <1>4, <2>1, <3>2
  <2> QED
    BY <1>4, <2>2, <2>5, <2>6, <2>7 DEF AnswerInv, Answers
<1> QED
  BY <1>3, <1>4

\* A step of the server that writes nothing.
LEMMA WritesNothing ==
  ASSUME EndsType, Recorded, UNCHANGED <<clientVars, wireIn, broken>>
  PROVE  (Arrives' => Arrives) /\ UNCHANGED peerVars
<1>1. Len(wireIn) \in Nat /\ Len(wireIn') = Len(wireIn)
  BY DEF EndsType, PeerTypeOK, TypeOK
<1>2. ~(Len(wireIn') > Len(wireIn))
  BY <1>1
<1> QED
  BY <1>2 DEF Recorded, Arrives, clientVars

\* How a stream moves where no frame is read,
LEMMA MovesStill ==
  ASSUME AnswerInv, NEW s \in Streams, UNCHANGED <<wireOut, upPos>>, inFin'[s] = inFin[s],
         task[s] # "none" => task'[s] # "none", task[s] = "dropped" => task'[s] = "dropped",
         inState[s] = "none" /\ task[s] = "none" => inState'[s] = "none" /\ task'[s] = "none"
  PROVE  Moves(s) /\ FramesRead(s)' = FramesRead(s)
<1>1. FramesRead(s)' = FramesRead(s) /\ (SynRead(s)' <=> SynRead(s)) /\ Answering(s)
  BY DEF FramesRead, SynRead, AnswerInv
<1> QED
  BY <1>1 DEF Moves, Answering, Over

\* and where one is.
LEMMA MovesRead ==
  ASSUME EndsType, ServerInv, WireOk(wireOut), AnswerInv, NEW s \in Streams, NEW cmd, Server!NextFrame(cmd), wireOut' = wireOut,
         inFin'[s] = inFin[s], task[s] # "none" => task'[s] # "none", task[s] = "dropped" => task'[s] = "dropped",
         inState[s] = "none" /\ task[s] = "none" /\ FramesRead(s) # 0 => inState'[s] = "none" /\ task'[s] = "none"
  PROVE  Moves(s)
<1>1. PICK f : f = wireOut[upPos + 1]
  OBVIOUS
<1>2. ServerRpc /\ Answering(s)
  BY DEF ServerInv, AnswerInv
<1>3. f \in Frame /\ f.cmd = cmd /\ Mine(f) /\ upPos' = upPos + 1 /\ upPos \in Nat
  BY <1>1, <1>2, ReadsFrame, ServedType
<1>4. /\ f.sid # s => FramesRead(s)' = FramesRead(s)
      /\ f.sid = s => FramesRead(s)' = FramesRead(s) + 1 /\ (cmd = "Syn" <=> FramesRead(s) = 0)
      /\ FramesRead(s) \in Nat
  BY <1>1, <1>2, ReadCounts, ServedType
<1>5. FramesRead(s) # 0 => FramesRead(s)' # 0
  BY <1>4
<1>6. ASSUME FramesRead(s)' # 0 PROVE SynRead(s)'
  <2>1. CASE FramesRead(s) # 0
    BY <1>2, <1>3, <2>1 DEF Answering, SynRead
  <2>2. CASE FramesRead(s) = 0
    <3>1. f.sid = s /\ f.cmd = "Syn"
      BY <1>3, <1>4, <1>6, <2>2
    <3>2. f = MkFrame("Syn", s, 0)
      BY <1>3, <3>1, StreamsAssumption DEF Mine, MkFrame, Frame
    <3>3. upPos + 1 \in 1 .. upPos'
      BY <1>3
    <3>4. wireOut'[upPos + 1] = MkFrame("Syn", s, 0)
      BY <1>1, <3>2
    <3> QED
      BY <3>3, <3>4 DEF SynRead, MkFrame
  <2> QED
    BY <2>1, <2>2
<1> QED
  BY <1>2, <1>5, <1>6 DEF Moves, Answering, Over

\* A try_send queues the frame, if there is room, or nothing.
LEMMA TryQueue ==
  ASSUME EndsType, AnswerInv, NEW f \in Frame, MayQueue(f), f.cmd # "Psh", inWriteQ' \in {inWriteQ, Server!InTrySend(f)},
         \A s \in Streams : Moves(s), inRxOpen' = inRxOpen, Arrives' => Arrives, UNCHANGED peerVars, inSent' = inSent,
         inRpc' \notin {"auth", "settings"}
  PROVE  AnswerInv'
<1>1. inWriteQ' = inWriteQ \/ (inRxOpen /\ inWriteQ' = Append(inWriteQ, f))
  BY DEF Server!InTrySend
<1>2. \A s \in Streams : ~IsPsh(f, s)
  BY DEF IsPsh
<1> QED
  BY <1>1, <1>2, QueueStep

\* The steps of the read loop that read no frame, and of the write task that take none.
LEMMA LoopAnswers ==
  ASSUME EndsType, AnswerInv, Recorded, UNCHANGED clientVars,
         \/ Server!Authenticate \/ Server!SettingsFail \/ Server!ReadLoopEnds \/ Server!CloseSession \/ Server!ClearStreams
         \/ Server!WriteTaskCloses \/ Server!Deliver
  PROVE  AnswerInv'
<1>1. /\ UNCHANGED <<wireIn, broken, wireOut, upPos, inFin, task, inSent, inWriteQ, inRxOpen>>
      /\ inRpc' \in {"auth", "settings"} => inRpc \in {"auth", "settings"}
  BY DEF Server!Authenticate, Server!SettingsFail, Server!ReadLoopEnds, Server!CloseSession, Server!ClearStreams, Server!WriteTaskCloses,
         Server!Deliver, Server!inSessVars, Server!inTaskVars, Server!linkVars
<1>2. inState \in [Streams -> {"none", "Pending", "WaitingUotRequest", "Active"}]
  BY DEF EndsType, Server!InTypeOK
<1>3. \A s \in Streams : inState[s] = "none" => inState'[s] = "none"
  BY <1>2 DEF Server!Authenticate, Server!SettingsFail, Server!ReadLoopEnds, Server!CloseSession, Server!ClearStreams,
     Server!WriteTaskCloses, Server!Deliver, Server!inSessVars
<1>4. \A s \in Streams : Moves(s)
  BY <1>1, <1>3, MovesStill
<1>5. (Arrives' => Arrives) /\ UNCHANGED peerVars
  BY <1>1, WritesNothing
<1> QED
  BY <1>1, <1>4, <1>5, QueueStep

\* The frames that are read and not answered.
LEMMA ReadAnswers ==
  ASSUME EndsType, ServerInv, WireOk(wireOut), AnswerInv, Recorded, UNCHANGED clientVars,
         Server!ReadTarget \/ Server!ReadUotRequest \/ Server!ReadData \/ Server!ReadFin \/ Server!ReadOther \/ Server!ReadAlert
  PROVE  AnswerInv'
<1>1. PICK cmd : Server!NextFrame(cmd)
  BY DEF Server!ReadTarget, Server!ReadUotRequest, Server!ReadData, Server!ReadFin, Server!ReadOther, Server!ReadAlert
<1>2. PICK f : f = wireOut[upPos + 1]
  OBVIOUS
<1>3. f \in Frame /\ f.cmd = cmd /\ Mine(f) /\ Server!Sid = f.sid
  BY <1>1, <1>2, ReadsFrame DEF ServerInv
<1>4. /\ UNCHANGED <<wireIn, broken, wireOut, inFin, inSent, inRxOpen>>
      /\ inRpc' \notin {"auth", "settings"}
  BY <1>1 DEF Server!ReadTarget, Server!ReadUotRequest, Server!ReadData, Server!ReadFin, Server!ReadOther, Server!ReadAlert,
         Server!inSessVars, Server!inTaskVars, Server!linkVars, Server!NextFrame
<1>5. inWriteQ' = inWriteQ
  <2>1. f.cmd # "HeartRequest"
    BY <1>3 DEF Mine
  <2> QED
    BY <1>2, <2>1 DEF Server!ReadTarget, Server!ReadUotRequest, Server!ReadData, Server!ReadFin, Server!ReadOther, Server!ReadAlert, Server!inSessVars
<1>6. ASSUME NEW s \in Streams
      PROVE  /\ task[s] # "none" => task'[s] # "none"
             /\ task[s] = "dropped" => task'[s] = "dropped"
             /\ inState[s] = "none" /\ task[s] = "none" => inState'[s] = "none" /\ task'[s] = "none"
  <2>1. /\ inState \in [Streams -> {"none", "Pending", "WaitingUotRequest", "Active"}]
        /\ task \in [Streams -> {"none", "first", "open", "dropped"}]
        /\ inState[s] \in {"Pending", "WaitingUotRequest"} => task[s] = "none"
    BY <1>6 DEF EndsType, Server!InTypeOK, ServerInv, Opening
  <2>2. CASE Server!ReadTarget
    <3>1. CASE Server!Sid \in UdpStreams
      BY <2>1, <2>2, <3>1 DEF Server!ReadTarget
    <3>2. CASE Server!Sid \notin UdpStreams
      BY <2>1, <2>2, <3>2 DEF Server!ReadTarget
    <3> QED
      BY <3>1, <3>2
  <2>3. CASE Server!ReadUotRequest
    BY <2>1, <2>3 DEF Server!ReadUotRequest
  <2>4. CASE Server!ReadData \/ Server!ReadFin \/ Server!ReadOther \/ Server!ReadAlert
    BY <2>1, <2>4 DEF Server!ReadData, Server!ReadFin, Server!ReadOther, Server!ReadAlert, Server!inSessVars, Server!inTaskVars
  <2> QED
    BY <2>2, <2>3, <2>4
<1>7. \A s \in Streams : Moves(s)
  BY <1>1, <1>4, <1>6, MovesRead
<1>8. (Arrives' => Arrives) /\ UNCHANGED peerVars
  BY <1>4, WritesNothing
<1> QED
  BY <1>4, <1>5, <1>7, <1>8, QueueStep

\* A SYN is acknowledged, and a header that does not parse ends its stream.
LEMMA SynAnswers ==
  ASSUME EndsType, ServerInv, WireOk(wireOut), AnswerInv, Recorded, UNCHANGED clientVars, Server!ReadSyn \/ Server!BadHeader
  PROVE  AnswerInv'
<1>1. PICK cmd \in {"Syn", "Psh"} : Server!NextFrame(cmd) /\ (Server!ReadSyn => cmd = "Syn") /\ (Server!BadHeader => cmd = "Psh")
  <2>1. Server!ReadSyn => Server!NextFrame("Syn")
    BY DEF Server!ReadSyn
  <2>2. Server!BadHeader => Server!NextFrame("Psh")
    BY DEF Server!BadHeader
  <2>3. ~(Server!NextFrame("Syn") /\ Server!NextFrame("Psh"))
    BY DEF Server!NextFrame
  <2> QED
    BY <2>1, <2>2, <2>3
<1>2. PICK f : f = wireOut[upPos + 1]
  OBVIOUS
<1>3. f \in Frame /\ f.cmd = cmd /\ Mine(f) /\ Server!Sid = f.sid /\ (cmd \in {"Syn", "Psh", "Fin"} <=> f.sid \in Streams)
  BY <1>1, <1>2, ReadsFrame DEF ServerInv
<1>4. /\ UNCHANGED <<wireIn, broken, wireOut, inFin, inSent, inRxOpen, task>>
      /\ inRpc' \notin {"auth", "settings"}
  BY <1>1 DEF Server!ReadSyn, Server!BadHeader, Server!inTaskVars, Server!linkVars, Server!NextFrame
<1>5. PICK s \in Streams : s = f.sid
  BY <1>1, <1>3
<1>6. FramesRead(s) \in Nat /\ FramesRead(s)' = FramesRead(s) + 1 /\ (cmd = "Syn" <=> FramesRead(s) = 0)
  BY <1>1, <1>2, <1>4, <1>5, ReadCounts, ServedType DEF ServerInv
<1>7. FramesRead(s)' # 0
  BY <1>6
<1>8. inState \in [Streams -> {"none", "Pending", "WaitingUotRequest", "Active"}] /\ Opening(s) /\ Answering(s)
  BY DEF EndsType, Server!InTypeOK, ServerInv, AnswerInv
<1>9. (Arrives' => Arrives) /\ UNCHANGED peerVars
  BY <1>4, WritesNothing
<1>10. CASE Server!ReadSyn
  <2>1. PICK g : g = Server!MkFrame("SynAck", s, 0)
    OBVIOUS
  <2>2. g \in Frame /\ g.cmd = "SynAck" /\ g.sid = s /\ g.n = 0 /\ inWriteQ' = Server!InTrySend(g)
    BY <1>3, <1>5, <1>10, <2>1, SameFrames DEF Server!ReadSyn, Command
  <2>3. MayQueue(g)
    BY <1>1, <1>6, <1>7, <1>10, <2>2 DEF MayQueue, Answer
  <2>4. \A t \in Streams : t # s => inState'[t] = inState[t]
    BY <1>3, <1>5, <1>8, <1>10 DEF Server!ReadSyn
  <2>5. FramesRead(s) = 0
    BY <1>1, <1>6, <1>10
  <2>6. \A t \in Streams : Moves(t)
    BY <1>1, <1>4, <2>4, <2>5, MovesRead
  <2> QED
    BY <1>4, <1>9, <2>2, <2>3, <2>6, TryQueue
<1>11. CASE Server!BadHeader
  <2>1. PICK g : g = Server!MkFrame("Fin", s, 0)
    OBVIOUS
  <2>2. g \in Frame /\ g.cmd = "Fin" /\ g.sid = s /\ g.n = 0 /\ inWriteQ' = Server!InTrySend(g)
    BY <1>3, <1>5, <1>11, <2>1, SameFrames DEF Server!BadHeader, Command
  <2>3. /\ inState[s] \in {"Pending", "WaitingUotRequest"} /\ inState' = [inState EXCEPT ![s] = "none"]
    BY <1>3, <1>5, <1>11 DEF Server!BadHeader
  <2>4. inState'[s] = "none" /\ \A t \in Streams : inState[t] = "none" => inState'[t] = "none"
    BY <1>8, <2>3
  <2>5. task[s] = "none" /\ ~inFin[s]
    BY <1>8, <2>3 DEF Opening, Answering
  <2>6. ~Over(s) /\ Over(s)'
    BY <1>4, <1>7, <2>3, <2>4, <2>5 DEF Over
  <2>7. MayQueue(g)
    BY <1>7, <2>2, <2>6 DEF MayQueue, Answer
  <2>8. \A t \in Streams : Moves(t)
    BY <1>1, <1>4, <2>4, MovesRead
  <2> QED
    BY <1>4, <1>9, <2>2, <2>7, <2>8, TryQueue
<1> QED
  BY <1>10, <1>11

\* The dispatch task of a stream writes, shuts down and drops it.
LEMMA TaskAnswers ==
  ASSUME EndsType, ServerInv, AnswerInv, Recorded, UNCHANGED clientVars, NEW s \in Streams, Server!Dispatch(s)
  PROVE  AnswerInv'
<1>1. UNCHANGED <<wireIn, broken, wireOut, upPos, inRxOpen, inRpc>>
  BY DEF Server!Dispatch, Server!InRead, Server!InReadEnd, Server!InWrite, Server!InShutdown, Server!InDrop, Server!inSessVars, Server!linkVars
<1>2. (Arrives' => Arrives) /\ UNCHANGED peerVars
  BY <1>1, WritesNothing
<1>3. /\ inState \in [Streams -> {"none", "Pending", "WaitingUotRequest", "Active"}]
      /\ task \in [Streams -> {"none", "first", "open", "dropped"}]
      /\ inFin \in [Streams -> BOOLEAN] /\ inSent \in [Streams -> Nat] /\ Opening(s) /\ Answering(s)
  BY DEF EndsType, Server!InTypeOK, ServerInv, AnswerInv
<1>4. task[s] \in {"first", "open"} /\ FramesRead(s) # 0
  BY <1>3 DEF Server!Dispatch, Server!InRead, Server!InReadEnd, Server!InWrite, Server!InShutdown, Server!InDrop, Opening
<1>5. inRpc \notin {"auth", "settings"}
  <2>1. ASSUME inRpc \in {"auth", "settings"} PROVE FALSE
    <3>1. upPos = 0
      BY <2>1 DEF ServerInv, ServerRpc
    <3>2. FramesUpTo(wireOut, s, 0) = 0
      BY UpToZero DEF EndsType, PeerTypeOK, TypeOK
    <3> QED
      BY <1>4, <3>1, <3>2 DEF FramesRead
  <2> QED
    BY <2>1
<1>6. FramesRead(s)' = FramesRead(s) /\ (SynRead(s)' <=> SynRead(s))
  BY <1>1 DEF FramesRead, SynRead
<1>7. CASE Server!InRead(s) \/ Server!InReadEnd(s)
  <2>1. UNCHANGED <<inWriteQ, inSent, inFin, inState>> /\ (task' = task \/ task' = [task EXCEPT ![s] = "open"])
    BY <1>7 DEF Server!InRead, Server!InReadEnd, Server!inSessVars
  <2>2. \A t \in Streams : Moves(t)
    BY <1>1, <1>3, <1>4, <2>1, MovesStill
  <2> QED
    BY <1>1, <1>2, <2>1, <2>2, QueueStep
<1>8. CASE Server!InWrite(s)
  <2>1. PICK g : g = Server!MkFrame("Psh", s, inSent[s] + 1)
    OBVIOUS
  <2>2. g \in Frame /\ g.cmd = "Psh" /\ g.sid = s /\ g.n = inSent[s] + 1
    BY <1>3, <2>1, SameFrames DEF Command
  <2>3. /\ inRxOpen /\ inWriteQ' = Append(inWriteQ, g) /\ inSent[s] < MaxDown /\ task[s] = "open" /\ ~inFin[s]
        /\ inSent' = [inSent EXCEPT ![s] = @ + 1] /\ UNCHANGED <<inState, task, inFin>>
    BY <1>8, <2>1 DEF Server!InWrite, Server!InRoom
  <2>4. g.n <= MaxDown
    BY <1>3, <2>2, <2>3, PeerAssumption
  <2>5. MayQueue(g)
    BY <1>4, <1>6, <2>2, <2>3, <2>4 DEF MayQueue, Answer, Over
  <2>6. \A t \in Streams : inSent'[t] = (IF IsPsh(g, t) THEN inSent[t] + 1 ELSE inSent[t])
    BY <1>3, <2>2, <2>3 DEF IsPsh
  <2>7. \A t \in Streams : Moves(t)
    BY <1>1, <2>3, MovesStill
  <2> QED
    BY <1>1, <1>2, <1>5, <2>2, <2>3, <2>5, <2>6, <2>7, QueueStep
<1>9. CASE Server!InShutdown(s)
  <2>1. PICK g : g = Server!MkFrame("Fin", s, 0)
    OBVIOUS
  <2>2. g \in Frame /\ g.cmd = "Fin" /\ g.sid = s /\ g.n = 0
    BY <2>1, SameFrames DEF Command
  <2>3. /\ inRxOpen /\ inWriteQ' = Append(inWriteQ, g) /\ task[s] = "open" /\ ~inFin[s]
        /\ inFin' = [inFin EXCEPT ![s] = TRUE] /\ UNCHANGED <<inState, task, inSent>>
    BY <1>9, <2>1 DEF Server!InShutdown, Server!InRoom
  <2>4. inFin'[s] /\ \A t \in Streams : t # s => inFin'[t] = inFin[t]
    BY <1>3, <2>3
  <2>5. ~Over(s) /\ Over(s)'
    BY <2>3, <2>4 DEF Over
  <2>6. MayQueue(g)
    BY <1>4, <1>6, <2>2, <2>5 DEF MayQueue, Answer
  <2>7. \A t \in Streams : inSent'[t] = (IF IsPsh(g, t) THEN inSent[t] + 1 ELSE inSent[t])
    BY <2>2, <2>3 DEF IsPsh
  <2>8. ASSUME NEW t \in Streams PROVE Moves(t)
    <3>1. CASE t # s
      BY <1>1, <2>3, <2>4, <2>8, <3>1, MovesStill
    <3>2. CASE t = s
      BY <1>3, <1>4, <1>6, <2>3, <2>5, <3>2 DEF Moves, Answering
    <3> QED
      BY <3>1, <3>2
  <2> QED
    BY <1>1, <1>2, <1>5, <2>2, <2>3, <2>6, <2>7, <2>8, QueueStep
<1>10. CASE Server!InDrop(s)
  <2>1. PICK g : g = Server!MkFrame("Fin", s, 0)
    OBVIOUS
  <2>2. g \in Frame /\ g.cmd = "Fin" /\ g.sid = s /\ g.n = 0
    BY <2>1, SameFrames DEF Command
  <2>3. /\ inWriteQ' = (IF inFin[s] THEN inWriteQ ELSE Server!InTrySend(g)) /\ task' = [task EXCEPT ![s] = "dropped"]
        /\ inState' = [inState EXCEPT ![s] = "none"] /\ UNCHANGED <<inFin, inSent>>
    BY <1>10, <2>1 DEF Server!InDrop
  <2>4. /\ task'[s] = "dropped" /\ \A t \in Streams : t # s => task'[t] = task[t]
        /\ \A t \in Streams : t # s => inState'[t] = inState[t]
    BY <1>3, <2>3
  <2>5. \A t \in Streams : Moves(t)
    BY <1>1, <1>4, <2>3, <2>4, MovesStill
  <2>6. CASE inFin[s]
    BY <1>1, <1>2, <2>3, <2>5, <2>6, QueueStep
  <2>7. CASE ~inFin[s]
    <3>1. ~Over(s) /\ Over(s)'
      BY <1>4, <2>4, <2>7 DEF Over
    <3>2. MayQueue(g)
      BY <1>4, <1>6, <2>2, <3>1 DEF MayQueue, Answer
    <3> QED
      BY <1>1, <1>2, <1>5, <2>2, <2>3, <2>5, <2>7, <3>2, TryQueue
  <2> QED
    BY <2>6, <2>7
<1> QED
  BY <1>7, <1>8, <1>9, <1>10 DEF Server!Dispatch

-----------------------------------------------------------------------------
(* Steps that write *)

\* A stream of the queue's first frame, or another, when that frame is written.
LEMMA QueueTake ==
  ASSUME EndsType, NEW s \in Streams, Answering(s), Moves(s), inRxOpen' => inRxOpen, Arrives' => Arrives, inSent'[s] = inSent[s],
         inWriteQ # <<>>, inWriteQ' = Tail(inWriteQ), NEW f \in Frame, f = Head(inWriteQ),
         Arrives => /\ down'[s] = (IF IsPsh(f, s) THEN down[s] + 1 ELSE down[s])
                    /\ downEnd'[s] = (IF IsEnd(f, s) THEN TRUE ELSE downEnd[s])
  PROVE  /\ Answering(s)'
         /\ Arrives /\ inRxOpen /\ IsPsh(f, s) => ~downEnd[s] /\ f.n = down[s] + 1 /\ down[s] < MaxDown /\ SynRead(s)
         /\ Arrives /\ inRxOpen /\ IsEnd(f, s) => ~downEnd[s] /\ SynRead(s)
<1>1. PICK q \in Seq(Frame) : q = inWriteQ /\ q # <<>>
  BY SameFrames DEF EndsType, Server!InTypeOK
<1>2. PICK v : v = Tail(q)
  OBVIOUS
<1>3. v \in Seq(Frame) /\ \A i \in DOMAIN v : i + 1 \in DOMAIN q /\ v[i] = q[i + 1] /\ i \in Nat
  BY <1>1, <1>2
<1>4. 1 \in DOMAIN q /\ q[1] = f
  BY <1>1
<1>5. \A i \in DOMAIN v : v[i].sid = s => FramesRead(s)' # 0
  BY <1>1, <1>3 DEF Answering, Moves
<1>6. ASSUME NEW i \in DOMAIN v, NEW j \in DOMAIN v, IsAck(v[i], s), IsAck(v[j], s) PROVE i = j
  <2>1. i + 1 = j + 1
    BY <1>1, <1>3, <1>6 DEF Answering
  <2> QED
    BY <1>3, <1>6, <2>1
<1>7. f.sid = s => SynRead(s)
  BY <1>1, <1>4 DEF Answering
<1>8. ASSUME Arrives, inRxOpen
      PROVE  /\ Sending(s)'
             /\ IsPsh(f, s) => ~downEnd[s] /\ f.n = down[s] + 1 /\ down[s] < MaxDown
             /\ IsEnd(f, s) => ~downEnd[s]
  <2>1. Sending(s) /\ Coming(q, s, down[s], inSent[s], Over(s)) /\ down[s] <= inSent[s] /\ down[s] \in Nat /\ inSent[s] \in Nat
        /\ inSent[s] <= MaxDown
    BY <1>1, <1>8 DEF Answering, Sending, EndsType, PeerTypeOK, Server!InTypeOK
  <2>2. PICK d \in Nat, n \in Nat : d = down[s] /\ n = inSent[s] /\ d <= n /\ n <= MaxDown
    BY <2>1
  <2>3. PICK e \in BOOLEAN : e = Over(s)
    BY DEF Over
  <2>4. Coming(q, s, d, n, e) /\ (e => Over(s)')
    BY <2>1, <2>2, <2>3 DEF Moves
  <2>5. (IsPsh(f, s) \/ IsEnd(f, s)) => ~downEnd[s]
    BY <1>1, <1>4, <2>1 DEF Sending
  <2>6. \A i, j \in DOMAIN v : IsEnd(v[i], s) /\ IsEnd(v[j], s) => i = j
    <3>1. ASSUME NEW i \in DOMAIN v, NEW j \in DOMAIN v, IsEnd(v[i], s), IsEnd(v[j], s) PROVE i = j
      <4>1. i + 1 = j + 1
        BY <1>1, <1>3, <2>1, <3>1 DEF Sending
      <4> QED
        BY <1>3, <3>1, <4>1
    <3> QED
      BY <3>1
  <2>7. CASE IsPsh(f, s)
    <3>1. f.n = d + 1 /\ d + 1 <= n /\ Coming(v, s, d + 1, n, e)
      BY <1>1, <1>2, <2>4, <2>7, ComingTake
    <3>2. ~IsEnd(f, s) /\ ~downEnd[s] /\ ~downEnd'[s] /\ down'[s] = d + 1
      BY <1>8, <2>2, <2>5, <2>7 DEF IsPsh, IsEnd
    <3>3. d < MaxDown
      BY <2>2, <3>1, PeerAssumption
    <3>4. Coming(v, s, d + 1, n, Over(s)')
      BY <2>4, <3>1, ComingWeaker
    <3> QED
      BY <1>1, <1>2, <2>2, <2>6, <3>1, <3>2, <3>3, <3>4 DEF Sending
  <2>8. CASE IsEnd(f, s)
    <3>1. e /\ d = n /\ ~IsPsh(f, s)
      BY <1>1, <2>2, <2>4, <2>8, ComingEnd DEF IsPsh, IsEnd
    <3>2. Coming(v, s, d, n, e) /\ down'[s] = d
      BY <1>1, <1>2, <1>8, <2>2, <2>4, <3>1, ComingTail
    <3>3. ASSUME NEW i \in DOMAIN v PROVE ~IsPsh(v[i], s) /\ ~IsEnd(v[i], s)
      <4>1. IsPsh(v[i], s) => v[i].n \in d + 1 .. n
        BY <3>2, <3>3 DEF Coming
      <4>2. d + 1 .. n = {}
        BY <3>1
      <4>3. IsEnd(v[i], s) => i + 1 = 1
        BY <1>1, <1>3, <1>4, <2>1, <2>8, <3>3 DEF Sending
      <4>4. i \in Nat /\ i # 0
        BY <1>3, <3>3
      <4> QED
        BY <4>1, <4>2, <4>3, <4>4
    <3>4. Coming(v, s, d, n, Over(s)')
      BY <2>4, <3>2, ComingWeaker
    <3> QED
      BY <1>1, <1>2, <2>2, <2>4, <2>5, <2>6, <2>8, <3>1, <3>2, <3>3, <3>4 DEF Sending
  <2>9. CASE ~IsPsh(f, s) /\ ~IsEnd(f, s)
    <3>1. Coming(v, s, d, n, e) /\ down'[s] = d /\ downEnd'[s] = downEnd[s]
      BY <1>1, <1>2, <1>8, <2>2, <2>4, <2>9, ComingTail
    <3>2. downEnd[s] => e /\ \A i \in DOMAIN v : ~IsPsh(v[i], s) /\ ~IsEnd(v[i], s)
      BY <1>1, <1>3, <2>1, <2>3 DEF Sending
    <3>3. Coming(v, s, d, n, Over(s)')
      BY <2>4, <3>1, ComingWeaker
    <3> QED
      BY <1>1, <1>2, <2>2, <2>4, <2>6, <2>9, <3>1, <3>2, <3>3 DEF Sending
  <2> QED
    BY <2>7, <2>8, <2>9
<1>9. Answering(s)'
  BY <1>1, <1>2, <1>5, <1>6, <1>8 DEF Answering, Moves
<1> QED
  BY <1>7, <1>8, <1>9 DEF IsPsh, IsEnd

\* The frame Recorded sees when the server writes one.
LEMMA RecordedIs ==
  ASSUME EndsType, Recorded, NEW f \in Frame, wireIn' = Append(wireIn, f)
  PROVE  /\ down' = (IF f.cmd = "Psh" THEN [down EXCEPT ![f.sid] = @ + 1] ELSE down)
         /\ downEnd' = (IF f.cmd = "Fin" THEN [downEnd EXCEPT ![f.sid] = TRUE] ELSE downEnd)
         /\ control' = (IF f.cmd \in {"Psh", "Fin"} THEN control ELSE control + 1)
<1>1. wireIn \in Seq(Frame)
  BY DEF EndsType, PeerTypeOK, TypeOK
<1>2. Len(wireIn') = Len(wireIn) + 1 /\ Len(wireIn) \in Nat /\ wireIn'[Len(wireIn) + 1] = f
  BY <1>1
<1>3. Len(wireIn') > Len(wireIn) /\ wireIn'[Len(wireIn')] = f
  BY <1>2
<1> QED
  BY <1>3 DEF Recorded

\* A stream whose SYN was read has opened.
LEMMA SynWasSent ==
  ASSUME EndsType, ServerRpc, NEW s \in Streams, SynRead(s)
  PROVE  SynArrived(s)
<1>1. wireOut \in Seq(Frame) /\ upPos \in Nat /\ upPos <= Len(wireOut)
  BY DEF EndsType, PeerTypeOK, TypeOK, Server!InTypeOK, ServerRpc
<1>2. \A i \in 1 .. upPos : i \in DOMAIN wireOut
  BY <1>1
<1> QED
  BY <1>2 DEF SynRead, SynArrived

\* A frame of the queue is written: the client's specification of its peer allows it.
LEMMA WriteAnswers ==
  ASSUME EndsType, ServerInv, AnswerInv, Recorded, UNCHANGED clientVars, Server!WriteFrame
  PROVE  AnswerInv' /\ [Next]_allVars
<1>1. /\ inWriteQ # <<>> /\ inWriteQ' = Tail(inWriteQ) /\ UNCHANGED <<inState, inRxOpen, task, inFin, inSent, inRpc, upPos, wireOut, broken>>
      /\ wireIn' = IF Arrives THEN Append(wireIn, Head(inWriteQ)) ELSE wireIn
  BY DEF Server!WriteFrame, Server!inTaskVars
<1>2. PICK q \in Seq(Frame) : q = inWriteQ /\ q # <<>>
  BY <1>1, SameFrames DEF EndsType, Server!InTypeOK
<1>3. PICK f \in Frame : f = Head(inWriteQ)
  BY <1>2
<1>4. Answer(f) /\ inRxOpen /\ inRpc \notin {"auth", "settings"} /\ \A i \in DOMAIN Tail(q) : Answer(Tail(q)[i])
  <2>1. f = q[1] /\ 1 \in DOMAIN q /\ \A i \in DOMAIN Tail(q) : i + 1 \in DOMAIN q /\ Tail(q)[i] = q[i + 1]
    BY <1>2, <1>3
  <2> QED
    BY <1>2, <2>1 DEF AnswerInv, Answers
<1>5. Arrives' <=> Arrives
  BY <1>1 DEF Arrives, clientVars
<1>6. \A s \in Streams : Moves(s) /\ Answering(s) /\ FramesRead(s)' = FramesRead(s)
  BY <1>1, MovesStill DEF AnswerInv
<1>7. PICK t \in Streams : t = f.sid
  BY <1>4 DEF Answer
<1>8. down \in [Streams -> Nat] /\ downEnd \in [Streams -> BOOLEAN] /\ control \in Nat /\ wireIn \in Seq(Frame)
  BY DEF EndsType, PeerTypeOK, TypeOK
<1>9. ASSUME NEW s \in Streams
      PROVE  Arrives => /\ down'[s] = (IF IsPsh(f, s) THEN down[s] + 1 ELSE down[s])
                        /\ downEnd'[s] = (IF IsEnd(f, s) THEN TRUE ELSE downEnd[s])
  <2> SUFFICES ASSUME Arrives
               PROVE  /\ down'[s] = (IF IsPsh(f, s) THEN down[s] + 1 ELSE down[s])
                      /\ downEnd'[s] = (IF IsEnd(f, s) THEN TRUE ELSE downEnd[s])
    OBVIOUS
  <2>1. /\ down' = (IF f.cmd = "Psh" THEN [down EXCEPT ![f.sid] = @ + 1] ELSE down)
        /\ downEnd' = (IF f.cmd = "Fin" THEN [downEnd EXCEPT ![f.sid] = TRUE] ELSE downEnd)
    BY <1>1, <1>3, RecordedIs
  <2>2. IsPsh(f, s) <=> f.cmd = "Psh" /\ f.sid = s
    BY DEF IsPsh
  <2>3. IsEnd(f, s) <=> f.cmd = "Fin" /\ f.sid = s
    BY <1>4 DEF IsEnd, Answer
  <2> QED
    BY <1>8, <1>9, <2>1, <2>2, <2>3
<1>10. ASSUME NEW s \in Streams
       PROVE  /\ Answering(s)'
              /\ Arrives /\ IsPsh(f, s) => ~downEnd[s] /\ f.n = down[s] + 1 /\ down[s] < MaxDown /\ SynRead(s)
              /\ Arrives /\ IsEnd(f, s) => ~downEnd[s] /\ SynRead(s)
  BY <1>1, <1>3, <1>4, <1>5, <1>6, <1>9, <1>10, QueueTake
<1>11. SynArrived(t)
  <2>1. 1 \in DOMAIN q /\ q[1] = f
    BY <1>2, <1>3
  <2>2. SynRead(t)
    BY <1>2, <1>6, <1>7, <2>1 DEF Answering
  <2> QED
    BY <2>2, SynWasSent DEF ServerInv
<1>12. /\ Acked \subseteq Acked'
       /\ f.cmd = "SynAck" => t \notin Acked /\ t \in Acked'
  <2>1. PICK v : v = Tail(q)
    OBVIOUS
  <2>2. \A i \in DOMAIN v : i + 1 \in DOMAIN q /\ v[i] = q[i + 1] /\ i \in Nat /\ i # 0
    BY <1>2, <2>1
  <2>3. 1 \in DOMAIN q /\ q[1] = f
    BY <1>2, <1>3
  <2>4. inWriteQ' = v
    BY <1>1, <1>2, <2>1
  <2>5. ASSUME NEW s \in Acked PROVE s \in Acked'
    BY <1>2, <1>6, <2>2, <2>4, <2>5 DEF Acked
  <2>6. ASSUME f.cmd = "SynAck" PROVE t \notin Acked /\ t \in Acked'
    <3>1. IsAck(q[1], t)
      BY <1>7, <2>3, <2>6 DEF IsAck
    <3>2. ASSUME NEW i \in DOMAIN v PROVE ~IsAck(v[i], t)
      <4>1. IsAck(q[i + 1], t) => i + 1 = 1
        BY <1>2, <1>6, <2>2, <2>3, <3>1, <3>2 DEF Answering
      <4> QED
        BY <2>2, <3>2, <4>1
    <3>3. FramesRead(t) # 0
      BY <1>2, <1>6, <1>7, <2>3 DEF Answering
    <3> QED
      BY <1>2, <1>6, <2>3, <2>4, <3>1, <3>2, <3>3 DEF Acked
  <2> QED
    BY <2>5, <2>6
<1>13. /\ control' <= 1 + Cardinality(Acked)'
       /\ Arrives /\ f.cmd = "SynAck" => control < MaxControl
  <2>1. control <= 1 + Cardinality(Acked)
    BY DEF AnswerInv, Answers
  <2>2. /\ Cardinality(Acked) \in Nat /\ Cardinality(Acked)' \in Nat /\ Cardinality(Acked) <= Cardinality(Acked)'
    BY <1>12, AckedGrows
  <2>3. PICK a \in Nat, b \in Nat : a = Cardinality(Acked) /\ b = Cardinality(Acked)' /\ a <= b
    BY <2>2
  <2>4. f.cmd = "SynAck" => a + 1 <= b /\ a + 1 <= Cardinality(Streams)
    <3>1. SUFFICES ASSUME f.cmd = "SynAck" PROVE a + 1 <= b /\ a + 1 <= Cardinality(Streams)
      OBVIOUS
    <3>2. Acked \subseteq Streams /\ Acked' \subseteq Streams
      BY DEF Acked
    <3>3. IsFiniteSet(Acked) /\ IsFiniteSet(Acked')
      BY <3>2, FS_Subset, TunnelAssumption
    <3>4. Cardinality(Acked \cup {t}) = a + 1 /\ IsFiniteSet(Acked \cup {t})
      BY <1>12, <2>3, <3>1, <3>3, FS_AddElement
    <3>5. Acked \cup {t} \subseteq Acked' /\ Acked \cup {t} \subseteq Streams
      BY <1>12, <3>1, <3>2
    <3> QED
      BY <2>3, <3>3, <3>4, <3>5, FS_Subset, TunnelAssumption
  <2>5. control' = control \/ (f.cmd = "SynAck" /\ control' = control + 1)
    <3>1. CASE Arrives
      BY <1>1, <1>3, <1>4, <3>1, RecordedIs DEF Answer
    <3>2. CASE ~Arrives
      BY <1>1, <3>2, WritesNothing DEF peerVars
    <3> QED
      BY <3>1, <3>2
  <2>6. PICK c \in Nat, m \in Nat : c = control /\ m = Cardinality(Streams) /\ MaxControl > m
    BY <1>8, TunnelAssumption, FS_CardinalityType
  <2>7. f.cmd = "SynAck" => control < MaxControl
    BY <2>1, <2>3, <2>4, <2>6, PeerAssumption
  <2>8. control' <= 1 + b
    BY <2>1, <2>3, <2>4, <2>5, <2>6
  <2> QED
    BY <2>3, <2>7, <2>8
<1>14. AnswerInv'
  <2>1. \A i \in DOMAIN inWriteQ' : Answer(inWriteQ'[i])
    BY <1>1, <1>2, <1>4
  <2> QED
    BY <1>1, <1>4, <1>10, <1>13, <2>1 DEF AnswerInv, Answers
<1>15. [Next]_allVars
  <2>1. CASE ~Arrives
    BY <1>1, <2>1, WritesNothing DEF allVars, vars, clientVars, peerVars
  <2>2. CASE Arrives
    <3>1. wireIn' = Append(wireIn, f) /\ UNCHANGED <<clientVars, wireOut, broken>>
      BY <1>1, <1>3, <2>2
    <3>2. /\ down' = (IF f.cmd = "Psh" THEN [down EXCEPT ![f.sid] = @ + 1] ELSE down)
          /\ downEnd' = (IF f.cmd = "Fin" THEN [downEnd EXCEPT ![f.sid] = TRUE] ELSE downEnd)
          /\ control' = (IF f.cmd \in {"Psh", "Fin"} THEN control ELSE control + 1)
      BY <3>1, RecordedIs
    <3>3. CASE f.cmd = "Psh"
      <4>1. ~downEnd[t] /\ f.n = down[t] + 1 /\ down[t] < MaxDown
        BY <1>7, <1>10, <2>2, <3>3 DEF IsPsh
      <4>2. f = MkFrame("Psh", t, down[t] + 1)
        BY <1>7, <3>3, <4>1 DEF MkFrame, Frame
      <4>3. PeerPsh(t)
        BY <1>7, <1>11, <2>2, <3>1, <3>2, <3>3, <4>1, <4>2 DEF PeerPsh
      <4> QED
        BY <4>3 DEF Next
    <3>4. CASE f.cmd = "Fin"
      <4>1. ~downEnd[t]
        BY <1>7, <1>10, <2>2, <3>4 DEF IsEnd
      <4>2. f = MkFrame("Fin", t, 0)
        BY <1>4, <1>7, <3>4 DEF MkFrame, Frame, Answer
      <4>3. PeerEnd(t)
        BY <1>7, <1>11, <2>2, <3>1, <3>2, <3>4, <4>1, <4>2 DEF PeerEnd
      <4> QED
        BY <4>3 DEF Next
    <3>5. CASE f.cmd = "SynAck"
      <4>1. f = MkFrame("SynAck", t, 0)
        BY <1>4, <1>7, <3>5 DEF MkFrame, Frame, Answer
      <4>2. f \in ControlFrames
        BY <1>11, <4>1 DEF ControlFrames
      <4>3. PeerControl
        BY <1>13, <2>2, <3>1, <3>2, <3>5, <4>2 DEF PeerControl
      <4> QED
        BY <4>3 DEF Next
    <3> QED
      BY <1>4, <3>3, <3>4, <3>5 DEF Answer
  <2> QED
    BY <2>1, <2>2
<1> QED
  BY <1>14, <1>15

\* The end of the write loop drops its queue and its receiver.
LEMMA EndAnswers ==
  ASSUME EndsType, AnswerInv, Recorded, UNCHANGED clientVars, Server!WriteLoopEnds
  PROVE  AnswerInv'
<1>1. /\ UNCHANGED <<wireIn, broken, wireOut, upPos, inFin, task, inState, inSent, inRpc>>
      /\ inRxOpen' = FALSE /\ inWriteQ' = <<>>
  BY DEF Server!WriteLoopEnds, Server!inTaskVars, Server!linkVars
<1>2. DOMAIN inWriteQ' = {}
  BY <1>1
<1>3. \A s \in Streams : Moves(s) /\ Answering(s) /\ FramesRead(s)' = FramesRead(s)
  BY <1>1, MovesStill DEF AnswerInv
<1>4. \A s \in Streams : Answering(s)'
  BY <1>1, <1>2, <1>3 DEF Answering, Moves
<1>5. Acked \subseteq Acked'
  BY <1>2, <1>3 DEF Acked
<1>6. control' = control /\ control \in Nat
  BY <1>1, WritesNothing DEF peerVars, EndsType, PeerTypeOK
<1>7. control' <= 1 + Cardinality(Acked)'
  BY <1>5, <1>6, AckedGrows DEF AnswerInv, Answers
<1> QED
  BY <1>1, <1>2, <1>4, <1>6, <1>7 DEF AnswerInv, Answers

\* The settings are the first frame the server answers, before any stream.
LEMMA SettingsAnswers ==
  ASSUME EndsType, ServerInv, WireOk(wireOut), AnswerInv, Recorded, UNCHANGED clientVars, Server!ReadSettings
  PROVE  AnswerInv' /\ [Next]_allVars
<1>1. /\ inRpc = "settings" /\ upPos = 0 /\ upPos' = 1 /\ wireOut' = wireOut /\ upPos < Len(wireOut) /\ broken' = broken
      /\ UNCHANGED <<inState, task, inFin, inSent, inWriteQ, inRxOpen>>
  BY DEF ServerInv, ServerRpc, Server!ReadSettings, Server!inSessVars, Server!inTaskVars
<1>2. wireOut \in Seq(Frame) /\ 1 \in 1 .. Len(wireOut)
  BY <1>1 DEF EndsType, PeerTypeOK, TypeOK
<1>3. wireOut[1].cmd = "Settings" /\ wireOut[1].sid \notin Streams
  <2>1. wireOut[1].cmd = "Settings" /\ Mine(wireOut[1])
    BY <1>2 DEF WireOk, GoodAt
  <2> QED
    BY <2>1, StreamsAssumption DEF Mine
<1>4. wireIn' = (IF ~Arrives THEN wireIn ELSE Append(wireIn, NoFrame)) /\ inRpc' = "read"
  <2>1. wireOut[upPos + 1].cmd = "Settings"
    BY <1>1, <1>3
  <2>2. Server!NoFrame = NoFrame
    BY DEF Server!NoFrame, NoFrame, Server!MkFrame, MkFrame
  <2> QED
    BY <2>1, <2>2 DEF Server!ReadSettings
<1>5. control = 0 /\ inWriteQ = <<>> /\ DOMAIN inWriteQ = {}
  BY <1>1 DEF AnswerInv, Answers
<1>6. ASSUME NEW s \in Streams PROVE FramesRead(s) = 0 /\ FramesRead(s)' = 0
  <2>1. FramesUpTo(wireOut, s, 0) = 0
    BY <1>2, <1>6, UpToZero
  <2>2. wireOut[0 + 1].sid # s
    BY <1>3, <1>6
  <2>3. FramesUpTo(wireOut, s, 0 + 1) = 0
    BY <1>2, <1>6, <2>1, <2>2, UpToStep
  <2> QED
    BY <1>1, <2>1, <2>3 DEF FramesRead
<1>7. NoFrame \in Frame /\ NoFrame.cmd = "Other"
  BY FrameType DEF NoFrame, Command, MkFrame
<1>8. /\ UNCHANGED <<down, downEnd>> /\ control' \in {0, 1} /\ (Arrives' <=> Arrives)
      /\ Arrives => control' = control + 1
      /\ ~Arrives => control' = control
  <2>1. Arrives' <=> Arrives
    BY <1>1 DEF Arrives, clientVars
  <2>2. CASE Arrives
    <3>1. /\ down' = (IF NoFrame.cmd = "Psh" THEN [down EXCEPT ![NoFrame.sid] = @ + 1] ELSE down)
          /\ downEnd' = (IF NoFrame.cmd = "Fin" THEN [downEnd EXCEPT ![NoFrame.sid] = TRUE] ELSE downEnd)
          /\ control' = (IF NoFrame.cmd \in {"Psh", "Fin"} THEN control ELSE control + 1)
      BY <1>4, <1>7, <2>2, RecordedIs
    <3> QED
      BY <1>5, <1>7, <2>1, <2>2, <3>1
  <2>3. CASE ~Arrives
    BY <1>1, <1>4, <1>5, <2>1, <2>3, WritesNothing DEF peerVars
  <2> QED
    BY <2>2, <2>3
<1>9. AnswerInv'
  <2>1. ASSUME NEW s \in Streams PROVE Answering(s)'
    <3>1. Moves(s)
      BY <1>1, <1>6, <2>1 DEF Moves, Over, AnswerInv, Answering
    <3>2. Answering(s)
      BY <2>1 DEF AnswerInv
    <3> QED
      BY <1>1, <1>8, <2>1, <3>1, <3>2, QueueSame
  <2>2. Acked = {} /\ Acked' = {}
    BY <1>6 DEF Acked
  <2>3. control' <= 1 + Cardinality(Acked)'
    BY <1>8, <2>2, FS_EmptySet
  <2> QED
    BY <1>1, <1>4, <1>5, <2>1, <2>3 DEF AnswerInv, Answers
<1>10. [Next]_allVars
  <2>1. CASE ~Arrives
    BY <1>1, <1>4, <1>8, <2>1 DEF allVars, vars, clientVars, peerVars
  <2>2. CASE Arrives
    <3>1. NoFrame \in ControlFrames
      BY DEF NoFrame, ControlFrames
    <3>2. control < MaxControl
      <4>1. Cardinality(Streams) \in Nat
        BY TunnelAssumption, FS_CardinalityType
      <4> QED
        BY <1>5, <4>1, TunnelAssumption, PeerAssumption
    <3>3. PeerControl
      BY <1>1, <1>4, <1>8, <2>2, <3>1, <3>2 DEF PeerControl
    <3> QED
      BY <3>3 DEF Next
  <2> QED
    BY <2>1, <2>2
<1> QED
  BY <1>9, <1>10

\* A step of the client: what it will no longer read never counts again.
LEMMA ClientAnswers ==
  ASSUME TunnelInv, AnswerInv, [Next]_allVars, UNCHANGED <<serverVars, peerVars>>,
         Arrives' => Arrives, wireOut' \in Seq(Frame), Len(wireOut) <= Len(wireOut'),
         \A i \in 1 .. Len(wireOut) : wireOut'[i] = wireOut[i]
  PROVE  AnswerInv'
<1>1. /\ upPos \in Nat /\ wireOut \in Seq(Frame) /\ upPos <= Len(wireOut) /\ Len(wireOut) \in Nat /\ upPos' = upPos
  BY DEF TunnelInv, EndsType, PeerTypeOK, TypeOK, Server!InTypeOK, ServerInv, ServerRpc, serverVars
<1>2. \A i \in 1 .. upPos : wireOut'[i] = wireOut[i]
  BY <1>1
<1>3. ASSUME NEW s \in Streams PROVE FramesRead(s)' = FramesRead(s) /\ Moves(s) /\ Answering(s)
  <2>1. PICK v : v = wireOut'
    OBVIOUS
  <2>2. FramesUpTo(v, s, upPos) = FramesUpTo(wireOut, s, upPos)
    BY <1>1, <1>2, <1>3, <2>1, UpToPrefix
  <2>3. FramesRead(s)' = FramesRead(s) /\ (SynRead(s) => SynRead(s)')
    BY <1>1, <1>2, <2>1, <2>2 DEF FramesRead, SynRead
  <2>4. Answering(s)
    BY <1>3 DEF AnswerInv
  <2> QED
    BY <2>3, <2>4 DEF Moves, Over, Answering, serverVars
<1>4. EndsType /\ UNCHANGED <<inWriteQ, inSent, inRxOpen, inRpc>>
  BY DEF TunnelInv, serverVars
<1> QED
  BY <1>3, <1>4, QueueStep

\* A client whose read loop has ended does not begin to read again.
LEMMA ClientReads ==
  ASSUME ClientNext
  PROVE  Arrives' => Arrives
<1>1. CASE ReadTask
  BY <1>1 DEF ReadTask, ReadFrame, PushData, ReadBreak, ReadFinish, ReadClear, wireVars, Arrives
<1>2. CASE WriteTask \/ OutsideFinish \/ OutsideClear
  BY <1>2 DEF WriteTask, TakeFrames, Flush, WriteBreak, WriteFinish, WriteClear, OutsideFinish, OutsideClear, wireVars, readVars, Arrives
<1>3. ASSUME NEW s \in Streams, Connect(s) PROVE Arrives' => Arrives
  BY <1>3 DEF Connect, Register, SendSyn, SendTarget, SendUotRequest, ConnectFails, wireVars, readVars, Arrives
<1>4. ASSUME NEW s \in Streams, Relay(s) PROVE Arrives' => Arrives
  BY <1>4 DEF Relay, Read, ReadEnd, Write, Shutdown, Drop, wireVars, readVars, Arrives
<1> QED
  BY <1>1, <1>2, <1>3, <1>4 DEF ClientNext

\* Every step of the tunnel is a step of the client against a peer that keeps the protocol.
LEMMA TunnelStep ==
  ASSUME TunnelInv, AnswerInv, [TunnelNext]_tunnelVars
  PROVE  AnswerInv' /\ [Next]_allVars
<1>1. CASE UNCHANGED tunnelVars
  <2>1. /\ UNCHANGED <<allVars, serverVars, peerVars, wireOut>> /\ (Arrives' => Arrives) /\ wireOut \in Seq(Frame)
    BY <1>1 DEF tunnelVars, allVars, vars, peerVars, Arrives, TunnelInv, EndsType, PeerTypeOK, TypeOK
  <2> QED
    BY <2>1, ClientAnswers
<1>2. CASE ClientStep(ClientNext)
  <2>1. [Next]_allVars /\ UNCHANGED <<serverVars, peerVars>> /\ (Arrives' => Arrives)
    BY <1>2, ClientReads DEF ClientStep, Next, Client
  <2>2. wireOut' \in Seq(Frame) /\ Len(wireOut) <= Len(wireOut') /\ \A i \in 1 .. Len(wireOut) : wireOut'[i] = wireOut[i]
    BY <1>2, WireGrows DEF ClientStep, TunnelInv, EndsType
  <2> QED
    BY <2>1, <2>2, ClientAnswers
<1>3. CASE HangUp \/ NetworkFails
  <2>1. [Next]_allVars /\ UNCHANGED <<serverVars, peerVars, wireOut>> /\ (Arrives' => Arrives)
    BY <1>3 DEF HangUp, NetworkFails, ConnectionLost, Next, Arrives
  <2>2. wireOut \in Seq(Frame)
    BY DEF TunnelInv, EndsType, PeerTypeOK, TypeOK
  <2> QED
    BY <2>1, <2>2, ClientAnswers
<1>4. CASE ServerStep(Server!InNext)
  <2>1. EndsType /\ ServerInv /\ WireOk(wireOut) /\ Recorded /\ UNCHANGED clientVars /\ Server!InNext
    BY <1>4 DEF TunnelInv, WireInv, ServerStep
  <2>2. CASE Server!ReadSettings
    BY <2>1, <2>2, SettingsAnswers
  <2>3. CASE Server!WriteFrame
    BY <2>1, <2>3, WriteAnswers
  <2>4. CASE ~Server!ReadSettings /\ ~Server!WriteFrame
    <3>1. CASE Server!ReadSide
      <4>1. UNCHANGED <<wireOut, wireIn, broken>>
        BY <2>4, <3>1 DEF Server!ReadSide, Server!Authenticate, Server!SettingsFail, Server!ReadSyn, Server!BadHeader, Server!ReadTarget,
           Server!ReadUotRequest, Server!ReadData, Server!Deliver, Server!ReadFin, Server!ReadOther, Server!ReadAlert,
           Server!ReadLoopEnds, Server!CloseSession, Server!ClearStreams, Server!linkVars
      <4>2. AnswerInv'
        BY <2>1, <2>4, <3>1, LoopAnswers, ReadAnswers, SynAnswers DEF Server!ReadSide
      <4> QED
        BY <2>1, <4>1, <4>2, WritesNothing DEF allVars, vars, clientVars, peerVars
    <3>2. CASE Server!WriteSide
      <4>1. UNCHANGED <<wireOut, wireIn, broken>>
        BY <2>4, <3>2 DEF Server!WriteSide, Server!WriteLoopEnds, Server!WriteTaskCloses, Server!linkVars
      <4>2. AnswerInv'
        BY <2>1, <2>4, <3>2, LoopAnswers, EndAnswers DEF Server!WriteSide
      <4> QED
        BY <2>1, <4>1, <4>2, WritesNothing DEF allVars, vars, clientVars, peerVars
    <3>3. ASSUME NEW s \in Streams, Server!Dispatch(s) PROVE AnswerInv' /\ [Next]_allVars
      <4>1. UNCHANGED <<wireOut, wireIn, broken>>
        BY <3>3 DEF Server!Dispatch, Server!InRead, Server!InReadEnd, Server!InWrite, Server!InShutdown, Server!InDrop, Server!linkVars
      <4>2. AnswerInv'
        BY <2>1, <3>3, TaskAnswers
      <4> QED
        BY <2>1, <4>1, <4>2, WritesNothing DEF allVars, vars, clientVars, peerVars
    <3> QED
      BY <2>1, <3>1, <3>2, <3>3 DEF Server!InNext
  <2> QED
    BY <2>2, <2>3, <2>4
<1> QED
  BY <1>1, <1>2, <1>3, <1>4 DEF TunnelNext, TunnelEnded

\* This program's server is a peer that keeps the protocol: over any interleaving of both
\* ends and any failure of the connection, what the client sees of it is a behaviour of
\* AnytlsSessionPeer, so that all that is shown there of a client's session holds of a
\* tunnel between two of these programs.
THEOREM KeepsProtocol == TunnelSpec => ServerKeepsProtocol
<1>1. TunnelInit => PeerInit /\ AnswerInv
  <2> SUFFICES ASSUME TunnelInit PROVE AnswerInv
    BY DEF TunnelInit
  <2>1. PeerInit /\ Server!InInit /\ wireOut = <<>> /\ inWriteQ = <<>> /\ DOMAIN inWriteQ = {} /\ <<>> \in Seq(Frame)
    BY DEF TunnelInit, PeerInit, Init, Server!InInit
  <2>2. \A s \in Streams : FramesRead(s) = 0
    BY <2>1, UpToZero DEF FramesRead, Server!InInit
  <2>3. ASSUME NEW s \in Streams PROVE Answering(s)
    <3>1. Coming(<<>>, s, 0, 0, Over(s))
      BY DEF Coming
    <3>2. Sending(s)
      BY <2>1, <2>3, <3>1 DEF Sending, PeerInit, Server!InInit
    <3> QED
      BY <2>1, <2>2, <2>3, <3>2, PeerAssumption DEF Answering, Server!InInit
  <2>4. Acked = {}
    BY <2>2 DEF Acked
  <2> QED
    BY <2>1, <2>3, <2>4, FS_EmptySet DEF AnswerInv, Answers, PeerInit, Server!InInit
<1> QED
  BY <1>1, StartsTunnel, TunnelInvStep, TunnelStep, PTL DEF TunnelSpec, ServerKeepsProtocol, Spec

\* What a relay at the client reads is what the server's relay wrote,
COROLLARY TunnelReadsAll == TunnelSpec => []ReadsWhatWasSent
BY KeepsProtocol, ReadsAll, PTL DEF ServerKeepsProtocol

\* and the streams of a client session that has ended are not left waiting.
COROLLARY TunnelNoStranded == TunnelSpec => []NoStrandedStream
BY KeepsProtocol, NoStranded, PTL DEF ServerKeepsProtocol
=============================================================================
