--------------------------- MODULE OutboundProofs ---------------------------
(***************************************************************************)
(* The outbounds: the AnyTLS session manager, the closer of a session, the *)
(* 0-RTT stream, Hysteria2 with its connection, its streams and its        *)
(* datagrams, and VMess with its chunks, for any number of callers,        *)
(* sessions, connections, interface changes, waiters, replays, payloads,   *)
(* packets and chunks.                                                     *)
(***************************************************************************)
EXTENDS AnytlsClient, SessionCloser, ZeroRtt, Hysteria2, Hysteria2Wire, VmessTunnel,
        SequenceTheorems, FiniteSetTheorems, TLAPS

-----------------------------------------------------------------------------
(* Concurrent get_session calls share one session *)

\* What makes OneSession inductive: the only stored session that can be alive
\* is the current one; a call that found none alive holds the lock until it has
\* stored its own; and session numbers are fresh.
Inv ==
    /\ TypeOK
    /\ alive \subseteq 1 .. made /\ stored \subseteq 1 .. made
    /\ current # 0 => current \in stored
    /\ alive \cap stored \subseteq {current}
    /\ \A c \in Callers :
         /\ pc[c] = "done" => got[c] \in stored
         /\ pc[c] \in {"create", "store"} => current \notin alive
         /\ pc[c] = "store" => got[c] \in 1 .. made
         /\ pc[c] \notin {"store", "done"} => got[c] = 0

\* The first state satisfies the invariant.
LEMMA InitInv == Init => Inv
  BY NoCallerAssumption, ClientAssumption DEF Init, Inv, TypeOK, Seqs, NoCaller

\* Every step of get_session keeps it.
LEMMA CallInv ==
  ASSUME Inv, NEW c \in Callers, GetSession(c)
  PROVE  Inv'
<1>1. CASE FirstCheck(c)
  BY <1>1, NoCallerAssumption DEF FirstCheck, LiveSession, Inv, TypeOK, Seqs
<1>2. CASE Lock(c)
  BY <1>2, NoCallerAssumption DEF Lock, Inv, TypeOK, Seqs
<1>3. CASE SecondCheck(c)
  BY <1>3, NoCallerAssumption DEF SecondCheck, LiveSession, Inv, TypeOK, Seqs
<1>4. CASE CreateSession(c)
  <2>1. /\ made' = made + 1 /\ made + 1 \in 1 .. MaxSessions
        /\ made + 1 \notin alive /\ made + 1 \notin stored /\ made + 1 # current
    BY <1>4, ClientAssumption DEF CreateSession, Inv, TypeOK, Seqs
  <2>2. TypeOK'
    BY <1>4, <2>1 DEF CreateSession, Inv, TypeOK, Seqs
  <2>3. alive' \subseteq 1 .. made' /\ stored' \subseteq 1 .. made'
    BY <1>4, <2>1 DEF CreateSession, Inv, TypeOK, Seqs
  <2>4. current' # 0 => current' \in stored'
    BY <1>4 DEF CreateSession, Inv
  <2>5. alive' \cap stored' \subseteq {current'}
    BY <1>4, <2>1 DEF CreateSession, Inv
  <2>6. ASSUME NEW d \in Callers
        PROVE  /\ pc'[d] = "done" => got'[d] \in stored'
               /\ pc'[d] \in {"create", "store"} => current' \notin alive'
               /\ pc'[d] = "store" => got'[d] \in 1 .. made'
               /\ pc'[d] \notin {"store", "done"} => got'[d] = 0
    BY <1>4, <2>1 DEF CreateSession, Inv, TypeOK
  <2> QED
    BY <2>2, <2>3, <2>4, <2>5, <2>6 DEF Inv
<1>5. CASE GiveUp(c)
  <2>1. \A d \in Callers : lock' = d <=> pc'[d] \in {"recheck", "create", "store"}
    BY <1>5, NoCallerAssumption DEF GiveUp, Inv, TypeOK
  <2>2. TypeOK'
    BY <1>5, <2>1, ClientAssumption DEF GiveUp, Inv, TypeOK, Seqs
  <2>3. ASSUME NEW d \in Callers
        PROVE  /\ pc'[d] = "done" => got'[d] \in stored'
               /\ pc'[d] \in {"create", "store"} => current' \notin alive'
               /\ pc'[d] = "store" => got'[d] \in 1 .. made'
               /\ pc'[d] \notin {"store", "done"} => got'[d] = 0
    BY <1>5 DEF GiveUp, Inv, TypeOK
  <2> QED
    BY <1>5, <2>2, <2>3 DEF GiveUp, Inv
<1>6. CASE StoreSession(c)
  <2>1. \A d \in Callers : d # c => pc[d] \notin {"recheck", "create", "store"}
    BY <1>6 DEF StoreSession, Inv, TypeOK
  <2>2. TypeOK'
    <3>1. \A d \in Callers : lock' = d <=> pc'[d] \in {"recheck", "create", "store"}
      BY <1>6, <2>1, NoCallerAssumption DEF StoreSession, Inv, TypeOK
    <3>2. got[c] \in Seqs
      BY <1>6, ClientAssumption DEF StoreSession, Inv, TypeOK, Seqs
    <3>3. current' \in 0 .. MaxSessions
      BY <1>6 DEF StoreSession, Inv, TypeOK
    <3> QED
      BY <1>6, <3>1, <3>2, <3>3 DEF StoreSession, Inv, TypeOK
  <2>3. got[c] \in 1 .. made /\ stored \subseteq 1 .. made
    BY <1>6 DEF StoreSession, Inv, TypeOK
  <2>4. alive' \cap stored' \subseteq {current'}
    <3>1. alive \cap stored = {}
      BY <1>6 DEF StoreSession, Inv
    <3> QED
      BY <1>6, <3>1 DEF StoreSession
  <2>5. ASSUME NEW d \in Callers
        PROVE  /\ pc'[d] = "done" => got'[d] \in stored'
               /\ pc'[d] \in {"create", "store"} => current' \notin alive'
               /\ pc'[d] = "store" => got'[d] \in 1 .. made'
               /\ pc'[d] \notin {"store", "done"} => got'[d] = 0
    BY <1>6, <2>1 DEF StoreSession, Inv, TypeOK
  <2> QED
    BY <1>6, <2>2, <2>3, <2>4, <2>5 DEF StoreSession, Inv
<1> QED
  BY <1>1, <1>2, <1>3, <1>4, <1>5, <1>6 DEF GetSession

\* So does everything else, and a step that changes nothing.
LEMMA OtherInv ==
  ASSUME Inv, SessionDies \/ IfaceChanged \/ DropClient \/ UNCHANGED vars
  PROVE  Inv'
<1>1. CASE SessionDies
  BY <1>1 DEF SessionDies, Inv, TypeOK, Seqs
<1>2. CASE IfaceChanged
  BY <1>2, ClientAssumption DEF IfaceChanged, Inv, TypeOK, Seqs
<1>3. CASE DropClient
  BY <1>3 DEF DropClient, Inv, TypeOK, Seqs
<1>4. CASE UNCHANGED vars
  BY <1>4 DEF vars, Inv, TypeOK, Seqs
<1> QED
  BY <1>1, <1>2, <1>3, <1>4

\* The invariant holds in every reachable state.
LEMMA Invariance == Spec => []Inv
<1>1. Inv /\ [Next]_vars => Inv'
  BY CallInv, OtherInv DEF Next
<1> QED
  BY InitInv, <1>1, PTL DEF Spec

\* Of the sessions that were handed out or are about to be, at most one is
\* alive: two calls never end up with two live sessions (get_session).
THEOREM SharedSession == Spec => []OneSession
<1>1. ASSUME Inv PROVE OneSession
  <2>1. \A c, d \in Callers : pc[c] = "store" /\ pc[d] = "store" => c = d
    BY <1>1 DEF Inv, TypeOK
  <2>2. \A c \in Callers : /\ pc[c] \in {"store", "done"} \/ got[c] = 0
                           /\ pc[c] = "store" => current \notin alive
                           /\ pc[c] = "done" => got[c] \in stored
    BY <1>1 DEF Inv, TypeOK
  <2>3. 0 \notin alive /\ alive \cap stored \subseteq {current}
    BY <1>1 DEF Inv, TypeOK, Seqs
  <2>4. \A p \in alive \cap (stored \cup {got[c] : c \in Callers}) :
           p = current \/ \E c \in Callers : pc[c] = "store" /\ p = got[c] /\ current \notin alive
    BY <2>2, <2>3
  <2> QED
    BY <2>1, <2>4 DEF OneSession
<1> QED
  BY Invariance, <1>1, PTL

\* The drop of the client ends every session it handed out (Drop for
\* AnytlsClient), and the invariant that this needs.
THEOREM DropEnds == Spec => []DropEndsStored
<1> DEFINE DropInv == client = "dropped" => /\ stored \cap alive = {}
                                           /\ \A c \in Callers : pc[c] \in {"done", "gone"}
<1>1. Init => DropInv
  BY DEF Init
<1>2. Inv /\ DropInv /\ [Next]_vars => DropInv'
  <2> SUFFICES ASSUME Inv, DropInv, [Next]_vars PROVE DropInv'
    OBVIOUS
  <2>1. CASE \E c \in Callers : GetSession(c)
    BY <2>1 DEF GetSession, FirstCheck, LiveSession, Lock, SecondCheck, CreateSession,
        GiveUp, StoreSession
  <2>2. CASE SessionDies
    BY <2>2 DEF SessionDies
  <2>3. CASE IfaceChanged
    BY <2>3 DEF IfaceChanged
  <2>4. CASE DropClient
    BY <2>4 DEF DropClient, Inv
  <2>5. CASE UNCHANGED vars
    BY <2>5 DEF vars
  <2> QED
    BY <2>1, <2>2, <2>3, <2>4, <2>5 DEF Next
<1>3. DropInv => DropEndsStored
  BY DEF DropEndsStored
<1> QED
  BY Invariance, <1>1, <1>2, <1>3, PTL DEF Spec

\* Once the interface watcher has handled a change, no session that was stored
\* before it is alive (iface_reset_task).
THEOREM ChangeEnds == Spec => ChangeEndsStored
<1>1. Inv /\ [Next]_vars => [changes' > changes => stored \cap alive' = {}]_vars
  <2> SUFFICES ASSUME Inv, Next, changes' > changes PROVE stored \cap alive' = {}
    OBVIOUS
  <2>1. CASE \E c \in Callers : GetSession(c)
    BY <2>1 DEF GetSession, FirstCheck, LiveSession, Lock, SecondCheck, CreateSession,
        GiveUp, StoreSession, Inv, TypeOK
  <2>2. CASE SessionDies
    BY <2>2 DEF SessionDies, Inv, TypeOK
  <2>3. CASE IfaceChanged
    BY <2>3 DEF IfaceChanged, Inv
  <2>4. CASE DropClient
    BY <2>4 DEF DropClient, Inv, TypeOK
  <2> QED
    BY <2>1, <2>2, <2>3, <2>4 DEF Next
<1> QED
  BY Invariance, <1>1, PTL DEF Spec, ChangeEndsStored

-----------------------------------------------------------------------------
(* The closer that a session shares with its tasks, for every set of waiters *)
(* and closers                                                               *)

\* The inductive invariant holds in the initial state.
LEMMA ScInitInv == ScInit => ScInv
BY DEF ScInit, ScInv, ScTypeOK

\* Every step of a waiter keeps it.
LEMMA ScWaiterInv == ScInv /\ (\E w \in ScWaiters : ScWaiter(w)) => ScInv'
<1> SUFFICES ASSUME ScInv, NEW w \in ScWaiters, ScWaiter(w) PROVE ScInv'
  OBVIOUS
<1> USE DEF ScInv, ScTypeOK
<1>1. CASE ScEnable(w)
  BY <1>1 DEF ScEnable
<1>2. CASE ScCheck(w)
  BY <1>2 DEF ScCheck
<1>3. CASE ScPark(w)
  BY <1>3 DEF ScPark
<1>4. CASE ScWake(w)
  BY <1>4 DEF ScWake
<1> QED
  BY <1>1, <1>2, <1>3, <1>4 DEF ScWaiter

\* Every step of a closer keeps it.
LEMMA ScCloserInv == ScInv /\ (\E c \in ScClosers : ScCloser(c)) => ScInv'
<1> SUFFICES ASSUME ScInv, NEW c \in ScClosers, ScCloser(c) PROVE ScInv'
  OBVIOUS
<1> USE DEF ScInv, ScTypeOK
<1>1. CASE ScSwap(c)
  BY <1>1 DEF ScSwap
<1>2. CASE ScNotify(c)
  BY <1>2 DEF ScNotify
<1> QED
  BY <1>1, <1>2 DEF ScCloser

\* A task parked in SessionCloser::wait after close() has been woken or is about to
\* be, however many tasks wait and however many close.
THEOREM NoLostWakeup == ScSpec => []ScNoLostWakeup
<1>1. ScInv /\ UNCHANGED scVars => ScInv'
  BY DEF ScInv, ScTypeOK, scVars
<1>2. ScInv /\ [ScNext]_scVars => ScInv'
  BY <1>1, ScWaiterInv, ScCloserInv DEF ScNext
<1>3. ScInv => ScNoLostWakeup
  BY DEF ScInv, ScNoLostWakeup
<1> QED
  BY ScInitInv, <1>2, <1>3, PTL DEF ScSpec

-----------------------------------------------------------------------------
(* A 0-RTT stream implements a plain byte stream, whatever the server does *)
(* with its early data and however often it is replayed                    *)

\* A sequence of consecutive items that begins after the n-th.
Run(seq, n) == \A i \in 1 .. Len(seq) : seq[i] = n + i

\* What was written is cut into consecutive pieces: what the server has processed of
\* the current attempt, what is on the wire, and what has still to be replayed.  An
\* early attempt keeps the first two; one that is being replaced has none of them.
Pieces ==
    /\ Run(received, 0) /\ Run(wire, Len(received)) /\ Run(sent, 0) /\ Run(backlog, written - Len(backlog))
    /\ phase = "Early" => Len(sent) = Len(received) + Len(wire) /\ Len(sent) + Len(backlog) = written
    /\ phase = "Connecting" => Len(wire) = 0 /\ Len(sent) = 0 /\ Len(backlog) = written
    /\ phase = "Settled" => Len(sent) = 0 /\ Len(received) + Len(wire) + Len(backlog) = written

\* All of a stream that may still have to be replayed fits in its limit.
Fits == phase # "Settled" => written <= ZERO_RTT_REPLAY_LIMIT + (IF shutdown THEN 1 ELSE 0)

\* Nothing of an attempt that is given up was processed, unless it is in doubt.
Undoubted ==
    /\ Len(received) <= written
    /\ phase = "Early" /\ fate # "accepted" => received = <<>>
    /\ phase = "Early" /\ verdict = "none" => ~doubt
    /\ phase = "Early" /\ verdict # "none" /\ ~doubt => verdict = fate
    /\ phase = "Connecting" /\ ~doubt => received = <<>>

ZrInv == ZrTypeOK /\ Pieces /\ Fits /\ Undoubted

Items == Seq(1 .. MaxItems)

\* The empty sequence is a run from anywhere.
LEMMA RunEmpty == <<>> \in Items /\ Len(<<>>) = 0 /\ \A n : Run(<<>>, n)
  BY EmptySeq DEF Items, Run

\* A run is continued by the next item.
LEMMA RunAppend ==
  ASSUME NEW seq \in Items, NEW n \in Nat, Run(seq, n), NEW k \in 1 .. MaxItems, k = n + Len(seq) + 1
  PROVE  Append(seq, k) \in Items /\ Len(Append(seq, k)) = Len(seq) + 1 /\ Run(Append(seq, k), n)
<1>1. /\ Append(seq, k) \in Items /\ Len(Append(seq, k)) = Len(seq) + 1 /\ Append(seq, k)[Len(seq) + 1] = k
      /\ \A i \in 1 .. Len(seq) : Append(seq, k)[i] = seq[i]
  BY AppendProperties DEF Items
<1>2. Len(seq) \in Nat
  BY LenProperties DEF Items
<1> QED
  BY <1>1, <1>2 DEF Run

\* A run without its first item begins one later.
LEMMA RunTail ==
  ASSUME NEW seq \in Items, seq # <<>>, NEW n \in Nat, Run(seq, n)
  PROVE  /\ Head(seq) = n + 1 /\ Head(seq) \in 1 .. MaxItems /\ Tail(seq) \in Items
         /\ Len(seq) \in Nat \ {0} /\ Len(Tail(seq)) = Len(seq) - 1 /\ Run(Tail(seq), n + 1)
<1>1. /\ Head(seq) \in 1 .. MaxItems /\ Tail(seq) \in Items /\ Len(Tail(seq)) = Len(seq) - 1
      /\ \A i \in 1 .. Len(Tail(seq)) : Tail(seq)[i] = seq[i + 1]
  BY HeadTailProperties DEF Items
<1>2. Len(seq) \in Nat \ {0}
  BY EmptySeq DEF Items
<1>3. Head(seq) = seq[1]
  BY <1>2 DEF Items
<1> QED
  BY <1>1, <1>2, <1>3 DEF Run

\* Two runs that follow each other are one.
LEMMA RunConcat ==
  ASSUME NEW seq \in Items, NEW rest \in Items, Run(seq, 0), Run(rest, Len(seq))
  PROVE  seq \o rest \in Items /\ Len(seq \o rest) = Len(seq) + Len(rest) /\ Run(seq \o rest, 0)
<1>1. /\ seq \o rest \in Items /\ Len(seq \o rest) = Len(seq) + Len(rest)
      /\ \A i \in 1 .. Len(seq) + Len(rest) : (seq \o rest)[i] = IF i <= Len(seq) THEN seq[i] ELSE rest[i - Len(seq)]
  BY ConcatProperties DEF Items
<1>2. Len(seq) \in Nat /\ Len(rest) \in Nat
  BY LenProperties DEF Items
<1> QED
  BY <1>1, <1>2 DEF Run

\* What the type invariant says of lengths.
LEMMA Lengths ==
  ASSUME ZrInv
  PROVE  /\ sent \in Items /\ backlog \in Items /\ wire \in Items /\ received \in Items
         /\ Len(sent) \in Nat /\ Len(backlog) \in Nat /\ Len(wire) \in Nat /\ Len(received) \in Nat
         /\ written \in Nat /\ written <= MaxItems /\ MaxItems \in Nat /\ Len(backlog) <= written
         /\ written - Len(backlog) \in Nat
         /\ \A seq \in Items : Len(seq) = 0 <=> seq = <<>>
<1>1. /\ sent \in Items /\ backlog \in Items /\ wire \in Items /\ received \in Items
      /\ written \in Nat /\ written <= MaxItems /\ MaxItems \in Nat
  BY ZeroRttAssumption DEF ZrInv, ZrTypeOK, Items
<1>2. Len(sent) \in Nat /\ Len(backlog) \in Nat /\ Len(wire) \in Nat /\ Len(received) \in Nat
  BY <1>1, LenProperties DEF Items
<1>3. Len(backlog) <= written
  BY <1>1, <1>2 DEF ZrInv, ZrTypeOK, Pieces
<1>4. \A seq \in Items : Len(seq) = 0 <=> seq = <<>>
  BY EmptySeq DEF Items
<1> QED
  BY <1>1, <1>2, <1>3, <1>4

\* The first state satisfies the invariant.
LEMMA ZrInitInv == ZrInit => ZrInv
<1> SUFFICES ASSUME ZrInit PROVE ZrInv
  OBVIOUS
<1>1. ZrTypeOK
  <2>1. <<>> \in Seq(1 .. MaxItems) /\ Len(<<>>) = 0
    BY EmptySeq
  <2> QED
    <3>1. written \in 0 .. MaxItems /\ attempt \in 1 .. MaxAttempts /\ Len(<<>>) <= ZERO_RTT_REPLAY_LIMIT + 1
      BY <2>1, ZeroRttAssumption DEF ZrInit
    <3>2. sent = <<>> /\ backlog = <<>> /\ wire = <<>> /\ received = <<>>
      BY DEF ZrInit
    <3>3. shutdown \in BOOLEAN /\ doubt \in BOOLEAN /\ failed \in BOOLEAN
      BY DEF ZrInit
    <3>4. phase = "Early" /\ fate = "pending" /\ verdict = "none"
      BY DEF ZrInit
    <3> QED
      BY <2>1, <3>1, <3>2, <3>3, <3>4 DEF ZrTypeOK
<1>2. Pieces
  BY RunEmpty DEF ZrInit, Pieces
<1>3. Fits /\ Undoubted
  BY RunEmpty, ZeroRttAssumption DEF ZrInit, Fits, Undoubted
<1> QED
  BY <1>1, <1>2, <1>3 DEF ZrInv

\* The next item is put on the wire, by the caller or by a replay; an early attempt
\* keeps it.
LEMMA PutRuns ==
  ASSUME ZrInv, CanPut, NEW k \in 1 .. MaxItems, Put(k), k = written - Len(backlog) + 1
  PROVE  /\ wire' \in Items /\ Len(wire') = Len(wire) + 1 /\ Run(wire', Len(received))
         /\ sent' \in Items /\ Run(sent', 0)
         /\ phase = "Early" => Len(sent') = Len(sent) + 1 /\ Len(received) + Len(wire) = Len(sent)
         /\ phase # "Early" => Len(sent') = 0 /\ phase = "Settled"
<1>1. phase \in {"Early", "Settled"}
  BY DEF CanPut
<1>2. k = Len(received) + Len(wire) + 1 /\ (phase = "Early" => k = Len(sent) + 1)
  BY <1>1, Lengths DEF ZrInv, Pieces
<1>3. wire' \in Items /\ Len(wire') = Len(wire) + 1 /\ Run(wire', Len(received))
  BY <1>2, Lengths, RunAppend DEF Put, ZrInv, Pieces
<1>4. CASE phase = "Early"
  <2>1. sent' = Append(sent, k) /\ k = 0 + Len(sent) + 1
    BY <1>2, <1>4, Lengths DEF Put
  <2>2. sent' \in Items /\ Len(sent') = Len(sent) + 1 /\ Run(sent', 0)
    BY <2>1, Lengths, RunAppend DEF ZrInv, Pieces
  <2> QED
    BY <1>3, <1>4, <2>2 DEF ZrInv, Pieces
<1>5. CASE phase = "Settled"
  BY <1>3, <1>5, Lengths DEF Put, ZrInv, Pieces
<1> QED
  BY <1>1, <1>4, <1>5

\* poll_write and poll_shutdown.
LEMMA CallerInv ==
  ASSUME ZrInv, PollWrite \/ PollShutdown
  PROVE  ZrInv'
<1>1. /\ backlog = <<>> /\ Len(backlog) = 0 /\ CanPut /\ written + 1 \in 1 .. MaxItems /\ written' = written + 1
      /\ Put(written + 1) /\ ~shutdown
  BY Lengths DEF PollWrite, PollShutdown
<1>2. /\ UNCHANGED <<phase, attempt, fate, verdict, backlog, received, failed, doubt>> /\ shutdown' \in BOOLEAN
      /\ ~shutdown' /\ phase = "Early" => Len(sent) < ZERO_RTT_REPLAY_LIMIT
  BY DEF PollWrite, PollShutdown, ZrInv, ZrTypeOK
<1>3. /\ wire' \in Items /\ Len(wire') = Len(wire) + 1 /\ Run(wire', Len(received))
      /\ sent' \in Items /\ Run(sent', 0)
      /\ phase = "Early" => Len(sent') = Len(sent) + 1 /\ Len(received) + Len(wire) = Len(sent)
      /\ phase # "Early" => Len(sent') = 0 /\ phase = "Settled"
  BY <1>1, Lengths, PutRuns
<1>4. phase = "Early" => Len(sent) = written
  BY <1>1, Lengths DEF ZrInv, Pieces
<1>5. Fits'
  BY <1>1, <1>2, <1>3, <1>4, Lengths, ZeroRttAssumption DEF ZrInv, Fits
<1>6. Len(sent') <= ZERO_RTT_REPLAY_LIMIT + 1
  BY <1>1, <1>2, <1>3, <1>4, Lengths, ZeroRttAssumption DEF ZrInv, Fits
<1>7. ZrTypeOK'
  BY <1>1, <1>2, <1>3, <1>6, Lengths DEF ZrInv, ZrTypeOK, Items
<1>8. Pieces'
  <2>1. Run(backlog', written' - Len(backlog'))
    BY <1>1, <1>2, RunEmpty
  <2> QED
    BY <1>1, <1>2, <1>3, <1>4, <2>1, Lengths DEF ZrInv, Pieces, CanPut
<1>9. Undoubted'
  BY <1>1, <1>2, Lengths DEF ZrInv, Undoubted
<1> QED
  BY <1>5, <1>7, <1>8, <1>9 DEF ZrInv

\* The replay of one item.
LEMMA ReplayInv ==
  ASSUME ZrInv, Replay
  PROVE  ZrInv'
<1>1. /\ backlog # <<>> /\ CanPut /\ backlog' = Tail(backlog) /\ Put(Head(backlog))
      /\ UNCHANGED <<written, shutdown, phase, attempt, fate, verdict, received, failed, doubt>>
  BY DEF Replay
<1>2. /\ Head(backlog) = written - Len(backlog) + 1 /\ Head(backlog) \in 1 .. MaxItems /\ backlog' \in Items
      /\ Len(backlog) \in Nat \ {0} /\ Len(backlog') = Len(backlog) - 1 /\ Run(backlog', written - Len(backlog) + 1)
  BY <1>1, Lengths, RunTail DEF ZrInv, Pieces
<1>3. /\ wire' \in Items /\ Len(wire') = Len(wire) + 1 /\ Run(wire', Len(received))
      /\ sent' \in Items /\ Run(sent', 0)
      /\ phase = "Early" => Len(sent') = Len(sent) + 1 /\ Len(received) + Len(wire) = Len(sent)
      /\ phase # "Early" => Len(sent') = 0 /\ phase = "Settled"
  BY <1>1, <1>2, PutRuns
<1>4. written' - Len(backlog') = written - Len(backlog) + 1
  BY <1>1, <1>2, Lengths
<1>5. Pieces'
  <2>1. /\ Run(received', 0) /\ Run(wire', Len(received')) /\ Run(sent', 0)
        /\ Run(backlog', written' - Len(backlog'))
    BY <1>1, <1>2, <1>3, <1>4 DEF ZrInv, Pieces
  <2>2. phase = "Early" => Len(sent') = Len(received) + Len(wire') /\ Len(sent') + Len(backlog') = written
    <3> SUFFICES ASSUME phase = "Early"
                 PROVE  Len(sent') = Len(received) + Len(wire') /\ Len(sent') + Len(backlog') = written
      OBVIOUS
    <3>1. Len(sent) = Len(received) + Len(wire) /\ Len(sent) + Len(backlog) = written
      BY DEF ZrInv, Pieces
    <3>2. Len(sent') = Len(sent) + 1 /\ Len(wire') = Len(wire) + 1 /\ Len(backlog') = Len(backlog) - 1
      BY <1>2, <1>3
    <3>3. Len(sent) \in Nat /\ Len(wire) \in Nat /\ Len(backlog) \in Nat /\ Len(received) \in Nat /\ written \in Nat
      BY Lengths
    <3> QED
      BY <3>1, <3>2, <3>3
  <2>3. phase # "Early" => phase = "Settled" /\ Len(sent') = 0 /\ Len(received) + Len(wire') + Len(backlog') = written
    <3> SUFFICES ASSUME phase # "Early" PROVE Len(received) + Len(wire') + Len(backlog') = written
      BY <1>3
    <3>1. Len(received) + Len(wire) + Len(backlog) = written
      BY <1>3 DEF ZrInv, Pieces
    <3> QED
      BY <1>2, <1>3, <3>1, Lengths
  <2> QED
    BY <1>1, <2>1, <2>2, <2>3 DEF Pieces
<1>6. Len(sent') <= ZERO_RTT_REPLAY_LIMIT + 1
  <2>1. CASE phase = "Early"
    <3>1. Len(sent') <= written
      BY <1>2, <1>3, <2>1, Lengths DEF ZrInv, Pieces
    <3> QED
      BY <1>3, <2>1, <3>1, Lengths, ZeroRttAssumption DEF ZrInv, Fits
  <2>2. CASE phase # "Early"
    BY <1>3, <2>2, ZeroRttAssumption
  <2> QED
    BY <2>1, <2>2
<1>7. ZrTypeOK'
  BY <1>1, <1>2, <1>3, <1>6, Lengths DEF ZrInv, ZrTypeOK, Items
<1> QED
  BY <1>1, <1>5, <1>7 DEF ZrInv, Fits, Undoubted

\* The server decides and reads; the verdict arrives, or the connection fails.
LEMMA FarEndInv ==
  ASSUME ZrInv, ServerDecides \/ ServerReads \/ VerdictArrives \/ HandshakeFailed
  PROVE  ZrInv'
<1>1. CASE ServerReads
  <2>1. /\ wire # <<>> /\ fate = "accepted" /\ received' = Append(received, Head(wire)) /\ wire' = Tail(wire)
        /\ UNCHANGED <<written, shutdown, phase, attempt, fate, verdict, sent, backlog, failed, doubt>>
    BY <1>1 DEF ServerReads
  <2>2. /\ Head(wire) = Len(received) + 1 /\ Head(wire) \in 1 .. MaxItems /\ wire' \in Items
        /\ Len(wire) \in Nat \ {0} /\ Len(wire') = Len(wire) - 1 /\ Run(wire', Len(received) + 1)
    BY <2>1, Lengths, RunTail DEF ZrInv, Pieces
  <2>3. received' \in Items /\ Len(received') = Len(received) + 1 /\ Run(received', 0)
    BY <2>1, <2>2, Lengths, RunAppend DEF ZrInv, Pieces
  <2>4. ZrTypeOK'
    BY <2>1, <2>2, <2>3 DEF ZrInv, ZrTypeOK, Items
  <2>5. phase # "Connecting" /\ Len(received') <= written
    BY <2>2, <2>3, Lengths DEF ZrInv, ZrTypeOK, Pieces
  <2>6. Pieces'
    <3>1. /\ Run(received', 0) /\ Run(wire', Len(received')) /\ Run(sent', 0)
          /\ Run(backlog', written' - Len(backlog'))
      BY <2>1, <2>2, <2>3 DEF ZrInv, Pieces
    <3>2. Len(received') + Len(wire') = Len(received) + Len(wire)
      BY <2>2, <2>3, Lengths
    <3> QED
      BY <2>1, <2>5, <3>1, <3>2, Lengths, <2>2, <2>3 DEF ZrInv, Pieces
  <2> QED
    BY <2>1, <2>4, <2>5, <2>6 DEF ZrInv, Fits, Undoubted
<1>2. CASE ServerDecides \/ VerdictArrives \/ HandshakeFailed
  <2>1. /\ UNCHANGED <<written, shutdown, phase, attempt, sent, backlog, wire, received, failed>> /\ phase = "Early"
        /\ fate' \in {"pending", "accepted", "rejected"} /\ verdict' \in {"none", "accepted", "rejected"}
        /\ doubt' \in BOOLEAN
    BY <1>2 DEF ServerDecides, VerdictArrives, HandshakeFailed, ZrInv, ZrTypeOK
  <2>2. ZrTypeOK'
    BY <2>1 DEF ZrInv, ZrTypeOK
  <2>3. Pieces' /\ Fits'
    BY <2>1 DEF ZrInv, Pieces, Fits
  <2>4. Undoubted'
    BY <1>2, <2>1 DEF ServerDecides, VerdictArrives, HandshakeFailed, ZrInv, ZrTypeOK, Undoubted
  <2> QED
    BY <2>2, <2>3, <2>4 DEF ZrInv
<1> QED
  BY <1>1, <1>2

\* resolve: what the attempt kept goes before what an outer stream has to replay.
LEMMA ResolveInv ==
  ASSUME ZrInv, Resolve
  PROVE  ZrInv'
<1>1. /\ phase = "Early" /\ sent' = <<>>
      /\ UNCHANGED <<written, shutdown, attempt, fate, verdict, received, failed, doubt>>
      /\ \/ verdict = "accepted" /\ phase' = "Settled" /\ backlog' = backlog /\ wire' = wire
         \/ verdict # "accepted" /\ verdict # "none" /\ phase' = "Connecting" /\ backlog' = sent \o backlog /\ wire' = <<>>
  BY DEF Resolve
<1>2. Len(sent) = Len(received) + Len(wire) /\ Len(sent) + Len(backlog) = written /\ written - Len(backlog) = Len(sent)
  BY <1>1, Lengths DEF ZrInv, Pieces
<1>3. sent \o backlog \in Items /\ Len(sent \o backlog) = written /\ Run(sent \o backlog, 0)
  BY <1>2, Lengths, RunConcat DEF ZrInv, Pieces
<1>4. ZrTypeOK'
  <2>1. /\ sent' \in Items /\ backlog' \in Items /\ wire' \in Items /\ received' \in Items
        /\ Len(sent') = 0 /\ phase' \in {"Connecting", "Settled"}
    BY <1>1, <1>3, RunEmpty, Lengths
  <2> QED
    BY <1>1, <2>1, ZeroRttAssumption DEF ZrInv, ZrTypeOK, Items
<1>5. Pieces'
  <2>1. Run(received', 0) /\ Run(wire', Len(received')) /\ Run(sent', 0)
    BY <1>1, RunEmpty DEF ZrInv, Pieces
  <2>2. Run(backlog', written' - Len(backlog'))
    <3>1. CASE backlog' = backlog
      BY <1>1, <3>1 DEF ZrInv, Pieces
    <3>2. CASE backlog' = sent \o backlog
      <4>1. written' - Len(backlog') = 0
        BY <1>1, <1>3, <3>2, Lengths
      <4> QED
        BY <1>3, <3>2, <4>1
    <3> QED
      BY <1>1, <3>1, <3>2
  <2> QED
    BY <1>1, <1>2, <1>3, <2>1, <2>2, RunEmpty DEF Pieces
<1>6. Fits' /\ Undoubted'
  BY <1>1 DEF ZrInv, ZrTypeOK, Fits, Undoubted
<1> QED
  BY <1>4, <1>5, <1>6 DEF ZrInv

\* The next attempt begins with an empty wire, and an error ends the stream.
LEMMA AttemptInv ==
  ASSUME ZrInv, Connect \/ Breaks \/ Over
  PROVE  ZrInv'
<1>1. CASE Connect
  <2>1. /\ phase = "Connecting" /\ attempt < MaxAttempts /\ attempt' = attempt + 1 /\ received' = <<>> /\ ~doubt'
        /\ phase' \in {"Early", "Settled"} /\ fate' \in {"pending", "accepted"} /\ verdict' \in {"none", "accepted"}
        /\ phase' = "Early" => verdict' = "none"
        /\ doubt' \in BOOLEAN /\ UNCHANGED <<written, shutdown, sent, backlog, wire, failed>>
    BY <1>1 DEF Connect
  <2>2. ZrTypeOK'
    BY <2>1, RunEmpty, ZeroRttAssumption DEF ZrInv, ZrTypeOK, Items
  <2>3. Len(wire) = 0 /\ Len(sent) = 0 /\ Len(backlog) = written /\ wire = <<>>
    BY <2>1, Lengths DEF ZrInv, Pieces
  <2>4. Pieces'
    <3>1. Run(received', 0) /\ Run(wire', Len(received')) /\ Run(sent', 0) /\ Run(backlog', written' - Len(backlog'))
      BY <2>1, <2>3, RunEmpty DEF ZrInv, Pieces
    <3> QED
      BY <2>1, <2>3, <3>1, RunEmpty, Lengths DEF Pieces
  <2>5. Fits' /\ Undoubted'
    BY <2>1, RunEmpty, Lengths DEF ZrInv, Fits, Undoubted
  <2> QED
    BY <2>2, <2>4, <2>5 DEF ZrInv
<1>2. CASE Breaks \/ Over
  <2>1. /\ UNCHANGED <<written, shutdown, phase, attempt, fate, verdict, sent, backlog, wire, received, doubt>>
        /\ failed' \in BOOLEAN
    BY <1>2 DEF Breaks, Over, zrVars, ZrInv, ZrTypeOK
  <2>2. ZrTypeOK'
    BY <2>1 DEF ZrInv, ZrTypeOK
  <2> QED
    BY <2>1, <2>2 DEF ZrInv, Pieces, Fits, Undoubted
<1> QED
  BY <1>1, <1>2

\* The invariant is one of the specification.
LEMMA ZrAlways == ZrSpec => []ZrInv
<1>1. ZrInit => ZrInv
  BY ZrInitInv
<1>2. ZrInv /\ [ZrNext]_zrVars => ZrInv'
  <2> SUFFICES ASSUME ZrInv, [ZrNext]_zrVars PROVE ZrInv'
    OBVIOUS
  <2>1. CASE UNCHANGED zrVars
    BY <2>1 DEF zrVars, ZrInv, ZrTypeOK, Pieces, Fits, Undoubted
  <2> QED
    BY <2>1, CallerInv, ReplayInv, FarEndInv, ResolveInv, AttemptInv DEF ZrNext
<1> QED
  BY <1>1, <1>2, PTL DEF ZrSpec

\* A stream that may be rejected has a copy of everything it has taken from the caller,
\* and never keeps more than its limit and the shutdown.
THEOREM ZrKeeps == ZrSpec => [](ZrTypeOK /\ KeepsWhatItSent)
<1>1. ZrInv => ZrTypeOK /\ KeepsWhatItSent
  <2> SUFFICES ASSUME ZrInv, phase = "Early" PROVE sent \o backlog = [i \in 1 .. written |-> i]
    BY DEF ZrInv, KeepsWhatItSent
  <2>1. Len(sent) + Len(backlog) = written /\ written - Len(backlog) = Len(sent)
    BY Lengths DEF ZrInv, Pieces
  <2>2. sent \o backlog \in Items /\ Len(sent \o backlog) = written /\ Run(sent \o backlog, 0)
    BY <2>1, Lengths, RunConcat DEF ZrInv, Pieces
  <2>3. sent \o backlog \in [1 .. written -> 1 .. MaxItems]
    BY <2>2, LenProperties DEF Items
  <2>4. \A i \in 1 .. written : (sent \o backlog)[i] = i
    BY <2>2, Lengths DEF Run
  <2> QED
    BY <2>3, <2>4
<1> QED
  BY <1>1, ZrAlways, PTL

\* A 0-RTT stream, with its rejections, replays and nested attempts, implements a plain
\* byte stream that starts over only when a connection was lost in doubt.
THEOREM ZrImplements == ZrSpec => LooksLikePlainStream
<1>1. ZrInit => Plain!BSInit
  BY DEF ZrInit, Plain!BSInit
<1>2. ZrInv /\ [ZrNext]_zrVars => [Plain!BSNext]_Plain!bsVars
  <2> SUFFICES ASSUME ZrInv, [ZrNext]_zrVars PROVE [Plain!BSNext]_Plain!bsVars
    OBVIOUS
  <2>1. CASE PollWrite \/ PollShutdown
    BY <2>1 DEF PollWrite, PollShutdown, Plain!BSNext, Plain!Take
  <2>2. CASE ServerReads
    <3>1. wire # <<>> /\ Head(wire) = Len(received) + 1 /\ Len(wire) \in Nat \ {0}
      BY <2>2, Lengths, RunTail DEF ServerReads, ZrInv, Pieces
    <3>2. Len(received) < written
      BY <3>1, Lengths DEF ZrInv, ZrTypeOK, Pieces
    <3> QED
      BY <2>2, <3>1, <3>2 DEF ServerReads, Plain!BSNext, Plain!Give
  <2>3. CASE HandshakeFailed
    BY <2>3 DEF HandshakeFailed, ZrInv, Undoubted, Plain!BSNext, Plain!Lose
  <2>4. CASE Connect
    <3>1. CASE doubt
      BY <2>4, <3>1 DEF Connect, Plain!BSNext, Plain!Restart
    <3>2. CASE ~doubt
      BY <2>4, <3>2 DEF Connect, ZrInv, ZrTypeOK, Undoubted, Plain!bsVars
    <3> QED
      BY <3>1, <3>2
  <2>5. CASE Breaks
    BY <2>5 DEF Breaks, Plain!BSNext, Plain!Fail
  <2>6. CASE ServerDecides \/ VerdictArrives \/ Resolve \/ Replay \/ Over \/ UNCHANGED zrVars
    BY <2>6 DEF ServerDecides, VerdictArrives, Resolve, Replay, Over, zrVars, Plain!bsVars
  <2> QED
    BY <2>1, <2>2, <2>3, <2>4, <2>5, <2>6 DEF ZrNext
<1> QED
  BY <1>1, <1>2, ZrAlways, PTL DEF ZrSpec, LooksLikePlainStream, Plain!BSSpec

-----------------------------------------------------------------------------
(* Hysteria2: one connection *)

\* A QUIC connection and its listener.
HyLink == [up : BOOLEAN, listens : BOOLEAN]
\* The connections, in the order they were made.
HyConnType == Seq(HyLink)

\* What makes HyNoOrphan inductive: a call that dials has the lock, under which it found
\* no cached connection that is up.
HyInv ==
    /\ hyConn \in HyConnType
    /\ hyCached \in Nat
    /\ hyCall \in [HyCalls -> [pc : {"ensure", "dial", "open", "evict", "session", "done", "failed"},
                               conn : Nat, again : BOOLEAN]]
    /\ \A t \in HyCalls : hyCall[t].pc = "dial" =>
         /\ hyLock = t
         /\ \A c \in DOMAIN hyConn : ~hyConn[c].up
    /\ HyNoOrphan

\* An outbound that has no connection satisfies the invariant.
LEMMA HyInitInv == HyInit => HyInv
  BY DEF HyInit, HyInv, HyConnType, HyNoOrphan

\* The connections that a close leaves up were up before.
LEMMA HyClosedKeeps ==
    ASSUME hyConn \in HyConnType, NEW cs, NEW aborted \in BOOLEAN, HyClosed(cs, aborted)
    PROVE  /\ hyConn' \in HyConnType /\ DOMAIN hyConn' = DOMAIN hyConn
           /\ \A c \in DOMAIN hyConn : hyConn'[c].up => hyConn[c].up /\ c \notin cs
<1>1. Len(hyConn) \in Nat /\ DOMAIN hyConn = 1 .. Len(hyConn)
  BY LenProperties DEF HyConnType
<1>2. hyConn' = [c \in DOMAIN hyConn |->
                    IF c \in cs THEN [up |-> FALSE, listens |-> hyConn[c].listens /\ ~aborted] ELSE hyConn[c]]
  BY DEF HyClosed
<1>3. \A c \in DOMAIN hyConn : hyConn[c] \in HyLink
  BY DEF HyConnType
<1>4. \A c \in DOMAIN hyConn : hyConn'[c] \in HyLink
  BY <1>2, <1>3 DEF HyLink
<1>5. hyConn' \in [1 .. Len(hyConn) -> HyLink]
  BY <1>1, <1>2, <1>4
<1>6. hyConn' \in HyConnType
  BY <1>1, <1>5, SeqDef DEF HyConnType
<1> QED
  BY <1>2, <1>6

\* Steps of a call, for the type of its record.
HyPcs == {"ensure", "dial", "open", "evict", "session", "done", "failed"}

\* Every step of a call keeps it, and so does one that is cancelled.
LEMMA HyStepKeeps ==
    ASSUME HyInv, NEW t \in HyCalls, HyStep(t) \/ HyCancel(t)
    PROVE  HyInv'
<1>1. CASE HyEnsure(t)
  <2>1. hyCall[t].pc = "ensure" /\ hyLock = HyFree /\ UNCHANGED <<hyCached, hyChanges>>
    BY <1>1 DEF HyEnsure
  <2>2. \A u \in HyCalls : hyCall[u].pc # "dial"
    BY <2>1, HyAssumption DEF HyInv, HyFree, HyCalls
  <2>3. CASE hyCached # 0 /\ hyConn[hyCached].up
    <3>1. hyCall' = [hyCall EXCEPT ![t] = HyGiven(t, hyCached)] /\ UNCHANGED <<hyLock, hyConn, hySess>>
      BY <1>1, <2>3 DEF HyEnsure
    <3> QED
      BY <2>1, <2>2, <3>1 DEF HyInv, HyGiven, HyNoOrphan
  <2>4. CASE ~(hyCached # 0 /\ hyConn[hyCached].up)
    <3>1. hyLock' = t /\ hyCall' = [hyCall EXCEPT ![t].pc = "dial"] /\ HyClosed({hyCached}, TRUE)
      BY <1>1, <2>4 DEF HyEnsure
    <3>2. /\ hyConn' \in HyConnType /\ DOMAIN hyConn' = DOMAIN hyConn
          /\ \A c \in DOMAIN hyConn : hyConn'[c].up => hyConn[c].up /\ c # hyCached
      BY <3>1, HyClosedKeeps DEF HyInv
    <3>3. \A c \in DOMAIN hyConn' : ~hyConn'[c].up
      BY <3>2 DEF HyInv, HyNoOrphan
    <3> QED
      BY <2>1, <2>2, <3>1, <3>2, <3>3 DEF HyInv, HyNoOrphan
  <2> QED
    BY <2>3, <2>4
<1>2. CASE HyEstablished(t)
  <2>1. /\ hyCall[t].pc = "dial" /\ hyConn' = Append(hyConn, [up |-> TRUE, listens |-> TRUE])
        /\ hyCached' = Len(hyConn) + 1 /\ hyCall' = [hyCall EXCEPT ![t] = HyGiven(t, Len(hyConn) + 1)]
    BY <1>2 DEF HyEstablished
  <2>2. /\ hyConn' \in HyConnType /\ Len(hyConn) + 1 \in Nat
        /\ \A c \in DOMAIN hyConn' : c = Len(hyConn) + 1 \/ (c \in DOMAIN hyConn /\ hyConn'[c] = hyConn[c])
    <3>1. hyConn \in Seq(HyLink) /\ [up |-> TRUE, listens |-> TRUE] \in HyLink
      BY DEF HyInv, HyConnType, HyLink
    <3> QED
      BY <2>1, <3>1, AppendProperties, LenProperties DEF HyConnType
  <2>3. \A c \in DOMAIN hyConn : ~hyConn[c].up
    BY <2>1 DEF HyInv
  <2>4. \A u \in HyCalls : u # t => hyCall[u].pc # "dial"
    BY <2>1 DEF HyInv
  <2>5. HyNoOrphan'
    BY <2>1, <2>2, <2>3 DEF HyNoOrphan
  <2>6. hyCall'[t].pc # "dial" /\ \A u \in HyCalls : u # t => hyCall'[u].pc = hyCall[u].pc
    BY <2>1 DEF HyInv, HyGiven
  <2>7. hyCall' \in [HyCalls -> [pc : HyPcs, conn : Nat, again : BOOLEAN]]
    BY <2>1, <2>2 DEF HyInv, HyGiven, HyPcs
  <2> QED
    BY <2>1, <2>2, <2>4, <2>5, <2>6, <2>7 DEF HyInv, HyPcs
<1>3. CASE HyDialFails(t)
  <2>1. \A u \in HyCalls : u # t => hyCall[u].pc # "dial"
    BY <1>3 DEF HyInv, HyDialFails
  <2> QED
    BY <1>3, <2>1 DEF HyInv, HyDialFails, HyNoOrphan
<1>4. CASE HyOpen(t)
  <2>1. hyCall[t].pc = "open" /\ UNCHANGED <<hyLock, hyCached, hyChanges>>
    BY <1>4 DEF HyOpen
  <2>2. CASE UNCHANGED hyConn /\ \E p \in {"done", "failed"} : hyCall' = [hyCall EXCEPT ![t].pc = p]
    BY <2>1, <2>2 DEF HyInv, HyNoOrphan
  <2>3. CASE hyCall' = [hyCall EXCEPT ![t].pc = "evict"] /\ HyClosed({hyCall[t].conn}, FALSE)
    <3>1. /\ hyConn' \in HyConnType /\ DOMAIN hyConn' = DOMAIN hyConn
          /\ \A c \in DOMAIN hyConn : hyConn'[c].up => hyConn[c].up
      BY <2>3, HyClosedKeeps DEF HyInv
    <3> QED
      BY <2>1, <2>3, <3>1 DEF HyInv, HyNoOrphan
  <2> QED
    BY <1>4, <2>2, <2>3 DEF HyOpen
<1>5. CASE HyEvict(t)
  <2>1. /\ hyCall[t].pc = "evict" /\ hyLock = HyFree
        /\ hyCached' = IF hyCached = hyCall[t].conn THEN 0 ELSE hyCached
        /\ hyCall' = [hyCall EXCEPT ![t].pc = "ensure", ![t].again = TRUE]
        /\ HyClosed({hyCall[t].conn}, hyCached = hyCall[t].conn)
    BY <1>5 DEF HyEvict
  <2>2. \A u \in HyCalls : hyCall[u].pc # "dial"
    BY <2>1, HyAssumption DEF HyInv, HyFree, HyCalls
  <2>3. /\ hyConn' \in HyConnType /\ DOMAIN hyConn' = DOMAIN hyConn
        /\ \A c \in DOMAIN hyConn : hyConn'[c].up => hyConn[c].up /\ c # hyCall[t].conn
    BY <2>1, HyClosedKeeps DEF HyInv
  <2>4. HyNoOrphan'
    BY <2>1, <2>3 DEF HyInv, HyNoOrphan
  <2>5. hyCall' \in [HyCalls -> [pc : HyPcs, conn : Nat, again : BOOLEAN]]
    BY <2>1 DEF HyInv, HyPcs
  <2>6. \A u \in HyCalls : hyCall'[u].pc # "dial"
    BY <2>1, <2>2 DEF HyInv
  <2> QED
    BY <2>1, <2>3, <2>4, <2>5, <2>6 DEF HyInv, HyPcs
<1>6. CASE HyCancel(t)
  <2>1. /\ hyCall' = [hyCall EXCEPT ![t].pc = "failed"]
        /\ hyLock' = IF hyLock = t THEN HyFree ELSE hyLock
        /\ UNCHANGED <<hyCached, hyConn, hySess, hyChanges>>
    BY <1>6 DEF HyCancel
  <2> QED
    BY <2>1 DEF HyInv, HyNoOrphan
<1> QED
  BY <1>1, <1>2, <1>3, <1>4, <1>5, <1>6 DEF HyStep

\* So do the network, the connections and the sessions.
LEMMA HyRestKeeps ==
    ASSUME HyInv, [HyNext]_hyVars, ~\E t \in HyCalls : HyStep(t) \/ HyCancel(t)
    PROVE  HyInv'
<1>1. CASE \E t \in HyUdp : HyWorker(t) \/ HyWorkerData(t)
  <2>1. PICK t \in HyUdp : HyWorker(t) \/ HyWorkerData(t)
    BY <1>1
  <2>2. UNCHANGED <<hyLock, hyCached, hyConn>>
    BY <2>1 DEF HyWorker, HySession, HyFirst, HyWorkerWaits, HyWorkerEnds, HyRouterEnds, HyWorkerData
  <2>3. \/ UNCHANGED hyCall
        \/ hyCall' = [hyCall EXCEPT ![t].pc = "done"]
        \/ hyCall' = [hyCall EXCEPT ![t].pc = "failed"]
    BY <2>1 DEF HyWorker, HySession, HyFirst, HyWorkerWaits, HyWorkerEnds, HyRouterEnds, HyWorkerData
  <2> QED
    BY <2>1, <2>2, <2>3 DEF HyInv, HyNoOrphan, HyCalls
<1>2. CASE \E c \in 1..HyMaxConns : HyConnDies(c) \/ HyListenerEnds(c)
  <2>1. PICK c \in 1..HyMaxConns : HyConnDies(c) \/ HyListenerEnds(c)
    BY <1>2
  <2>2. UNCHANGED <<hyCall, hyLock, hyCached>> /\ c \in DOMAIN hyConn
    BY <2>1 DEF HyConnDies, HyListenerEnds
  <2>3. hyConn' = [hyConn EXCEPT ![c].up = FALSE] \/ hyConn' = [hyConn EXCEPT ![c].listens = FALSE]
    BY <2>1 DEF HyConnDies, HyListenerEnds
  <2>4. hyConn[c] \in HyLink
    BY <2>2 DEF HyInv, HyConnType
  <2>5. PICK r \in HyLink : hyConn' = [hyConn EXCEPT ![c] = r] /\ (r.up => hyConn[c].up)
    <3>1. CASE hyConn' = [hyConn EXCEPT ![c].up = FALSE]
      <4>1. [hyConn[c] EXCEPT !.up = FALSE] \in HyLink /\ ~[hyConn[c] EXCEPT !.up = FALSE].up
        BY <2>4 DEF HyLink
      <4> QED
        BY <3>1, <4>1
    <3>2. CASE hyConn' = [hyConn EXCEPT ![c].listens = FALSE]
      <4>1. [hyConn[c] EXCEPT !.listens = FALSE] \in HyLink /\ [hyConn[c] EXCEPT !.listens = FALSE].up = hyConn[c].up
        BY <2>4 DEF HyLink
      <4> QED
        BY <3>2, <4>1
    <3> QED
      BY <2>3, <3>1, <3>2
  <2>6. hyConn' \in HyConnType /\ DOMAIN hyConn' = DOMAIN hyConn
    BY <2>2, <2>5 DEF HyInv, HyConnType
  <2>7. \A d \in DOMAIN hyConn : hyConn'[d].up => hyConn[d].up
    BY <2>2, <2>5 DEF HyInv, HyConnType
  <2> QED
    BY <2>2, <2>6, <2>7 DEF HyInv, HyNoOrphan
<1>3. CASE HyChange \/ UNCHANGED hyVars
  BY <1>3 DEF HyChange, hyVars, HyInv, HyNoOrphan
<1>4. CASE HyReset
  <2>1. hyLock = HyFree /\ hyCached' = 0 /\ HyClosed({hyCached}, TRUE) /\ UNCHANGED <<hyCall, hyLock>>
    BY <1>4 DEF HyReset
  <2>2. /\ hyConn' \in HyConnType /\ DOMAIN hyConn' = DOMAIN hyConn
        /\ \A c \in DOMAIN hyConn : hyConn'[c].up => hyConn[c].up /\ c # hyCached
    BY <2>1, HyClosedKeeps DEF HyInv
  <2> QED
    BY <2>1, <2>2 DEF HyInv, HyNoOrphan
<1> QED
  BY <1>1, <1>2, <1>3, <1>4 DEF HyNext

\* The safety half of HySound.
THEOREM HySafe == HySpec => []HyNoOrphan
<1>1. HyInv /\ [HyNext]_hyVars => HyInv'
  BY HyStepKeeps, HyRestKeeps
<1>2. HyInv => HyNoOrphan
  BY DEF HyInv
<1> QED
  BY <1>1, <1>2, HyInitInv, PTL DEF HySpec

-----------------------------------------------------------------------------
(* Hysteria2: streams and datagrams *)

-----------------------------------------------------------------------------
(* Sequences that are cut and put together *)

\* A sequence is its first n elements and the others.
LEMMA HwCut ==
    ASSUME NEW S, NEW s \in Seq(S), NEW n \in Nat, n <= Len(s)
    PROVE  /\ SubSeq(s, 1, n) \in Seq(S) /\ SubSeq(s, n + 1, Len(s)) \in Seq(S)
           /\ SubSeq(s, 1, n) \o SubSeq(s, n + 1, Len(s)) = s
           /\ Len(SubSeq(s, 1, n)) = n /\ Len(SubSeq(s, n + 1, Len(s))) = Len(s) - n
<1>1. PICK m \in Nat : m = Len(s) /\ \A i \in 1 .. m : s[i] \in S
  BY LenProperties, ElementOfSeq
<1>2. SubSeq(s, 1, n) \in Seq(S) /\ Len(SubSeq(s, 1, n)) = n
  <2>1. \A i \in 1 .. n : s[i] \in S
    BY <1>1
  <2> QED
    BY <2>1, SubSeqProperties
<1>3. SubSeq(s, n + 1, m) \in Seq(S) /\ Len(SubSeq(s, n + 1, m)) = m - n
  <2>1. \A i \in n + 1 .. m : s[i] \in S
    BY <1>1
  <2>2. Len(SubSeq(s, n + 1, m)) = IF n + 1 <= m THEN m - (n + 1) + 1 ELSE 0
    BY <2>1, SubSeqProperties
  <2> QED
    BY <1>1, <2>1, <2>2, SubSeqProperties
<1>4. SubSeq(s, 1, n) \o SubSeq(s, n + 1, m) = SubSeq(s, 1, m)
  <2>1. 1 \in 1 .. Len(s) + 1 /\ n \in 1 - 1 .. Len(s) /\ m \in n .. Len(s)
    BY <1>1
  <2> QED
    BY <2>1, ConcatAdjacentSubSeq
<1> QED
  BY <1>1, <1>2, <1>3, <1>4, SubSeqFull

\* Three sequences in a row are one, however they are put together.
HwJoins(S) == \A x, y, z \in Seq(S) : (x \o y) \o z = x \o (y \o z)

\* That is so of any elements.
LEMMA HwAssoc ==
    ASSUME NEW S
    PROVE  HwJoins(S)
  BY ConcatAssociative DEF HwJoins

\* The first of the parts of a sequence is a prefix of it.
LEMMA HwPrefix ==
    ASSUME NEW S, NEW s \in Seq(S), NEW t \in Seq(S)
    PROVE  IsPrefix(s, s \o t)
<1>1. Len(s) \in Nat /\ Len(t) \in Nat /\ Len(s \o t) = Len(s) + Len(t) /\ s \o t \in Seq(S)
  BY LenProperties, ConcatProperties
<1>2. SubSeq(s, 1, Len(s)) = SubSeq(s \o t, 1, Len(s))
  <2>1. CASE Len(s) = 0
    BY <2>1, SubSeqEmpty
  <2>2. CASE Len(s) # 0
    BY <1>1, <2>2, SubSeqOfConcat1
  <2> QED
    BY <2>1, <2>2
<1> QED
  BY <1>1, <1>2 DEF IsPrefix

\* A sequence with two parts a and b, and with two parts m and r, of which m ends first.
HwCutTwice(S, a, b, m, r) ==
    a \o b = m \o r /\ Len(m) <= Len(a) =>
      /\ SubSeq(a, Len(m) + 1, Len(a)) \in Seq(S)
      /\ SubSeq(a, Len(m) + 1, Len(a)) \o b = r
      /\ \A i \in 1 .. Len(m) : a[i] = m[i]

\* What follows m is the rest of a and then b.
LEMMA HwCutElsewhere ==
    ASSUME NEW S
    PROVE  \A a, b, m, r \in Seq(S) : HwCutTwice(S, a, b, m, r)
<1>1. \A x, y, z \in Seq(S) : (x \o y) \o z = x \o (y \o z)
  <2>1. HwJoins(S)
    BY HwAssoc, Zenon
  <2> QED
    BY <2>1, Zenon DEF HwJoins
<1>2. \A x, y, z \in Seq(S) : x \o y = x \o z => y = z
  BY ConcatSimplifications
<1> SUFFICES ASSUME NEW a \in Seq(S), NEW b \in Seq(S), NEW m \in Seq(S), NEW r \in Seq(S)
             PROVE  HwCutTwice(S, a, b, m, r)
  OBVIOUS
<1> SUFFICES ASSUME a \o b = m \o r, Len(m) <= Len(a)
             PROVE  /\ SubSeq(a, Len(m) + 1, Len(a)) \in Seq(S)
                    /\ SubSeq(a, Len(m) + 1, Len(a)) \o b = r
                    /\ \A i \in 1 .. Len(m) : a[i] = m[i]
  BY DEF HwCutTwice
<1>3. PICK k \in Nat : k = Len(m)
  BY LenProperties
<1>4. /\ SubSeq(a, 1, k) \in Seq(S) /\ SubSeq(a, k + 1, Len(a)) \in Seq(S)
      /\ SubSeq(a, 1, k) \o SubSeq(a, k + 1, Len(a)) = a /\ Len(SubSeq(a, 1, k)) = k
  BY <1>3, HwCut
<1>5. PICK x \in Seq(S) : x = SubSeq(a, 1, k) /\ Len(x) = k
  BY <1>4
<1>6. PICK y \in Seq(S) : y = SubSeq(a, k + 1, Len(a))
  BY <1>4
<1>7. \A i \in 1 .. k : a[i] = m[i]
  BY <1>3, LenProperties, ConcatProperties
<1>8. x = m
  <2>1. x \o y = a
    BY <1>4, <1>5, <1>6
  <2>2. \A i \in 1 .. k : x[i] = a[i]
    BY <1>5, <1>6, <2>1, LenProperties, ConcatProperties
  <2> QED
    BY <1>3, <1>5, <1>7, <2>2, SeqEqual
<1>9. m \o (y \o b) = m \o r
  <2>1. (m \o y) \o b = m \o (y \o b)
    BY <1>1, <1>6, Zenon
  <2>2. m \o y = a
    BY <1>4, <1>5, <1>6, <1>8
  <2> QED
    BY <2>1, <2>2
<1>10. y \o b \in Seq(S)
  BY <1>6, ConcatProperties
<1>11. y \o b = r
  BY <1>2, <1>9, <1>10, Zenon
<1> QED
  BY <1>3, <1>4, <1>6, <1>7, <1>11

\* A request.
HwReqs == [i \in 1..HwRequest |-> <<"req", i>>]
\* The symbols a client writes.
HwUpSyms == {<<"req", i>> : i \in 1..HwRequest} \cup {HwUp[i] : i \in DOMAIN HwUp}

\* What the server has, what is left of the request and what the client has left are the
\* whole.
HwUpInv ==
    /\ hwUp \in Seq(HwUpSyms) /\ hwReq \in Seq(HwUpSyms) /\ hwLeft \in Seq(HwUpSyms)
    /\ hwUp \o (hwReq \o hwLeft) = HwReqs \o HwUp

\* The first n elements of two sequences in a row are taken from the first, then from
\* the second.
HwTakes(S, s, t, n, own) ==
    /\ SubSeq(s \o t, 1, n) \in Seq(S)
    /\ SubSeq(s, n + 1, Len(s)) \in Seq(S) /\ SubSeq(t, own + 1, Len(t)) \in Seq(S)
    /\ SubSeq(s \o t, 1, n) \o (SubSeq(s, n + 1, Len(s)) \o SubSeq(t, own + 1, Len(t))) = s \o t

\* They and what is left are the two sequences.
LEMMA HwTaken ==
    ASSUME NEW S, NEW s \in Seq(S), NEW t \in Seq(S), NEW n \in Nat, n <= Len(s) + Len(t),
           NEW own, own = IF n > Len(s) THEN n - Len(s) ELSE 0
    PROVE  HwTakes(S, s, t, n, own)
<1> DEFINE u == SubSeq(s, n + 1, Len(s))
           v == SubSeq(t, own + 1, Len(t))
<1>1. PICK p \in Nat : p = Len(s)
  BY LenProperties
<1>2. PICK q \in Nat : q = Len(t)
  BY LenProperties
<1>3. PICK all \in Seq(S) : all = s \o t /\ Len(all) = p + q
  BY <1>1, <1>2, ConcatProperties
<1>4. /\ SubSeq(all, 1, n) \in Seq(S) /\ SubSeq(all, n + 1, p + q) \in Seq(S)
      /\ SubSeq(all, 1, n) \o SubSeq(all, n + 1, p + q) = all /\ Len(SubSeq(all, 1, n)) = n
  <2>1. n <= Len(all)
    BY <1>1, <1>2, <1>3
  <2> QED
    BY <1>3, <2>1, HwCut
<1>5. PICK a \in Seq(S) : a = SubSeq(all, 1, n) /\ Len(a) = n
  BY <1>4
<1>6. PICK b \in Seq(S) : a \o b = all
  BY <1>4, <1>5
<1>7. own \in Nat /\ own <= q
  BY <1>1, <1>2
<1>8. ASSUME n <= p PROVE u \in Seq(S) /\ v \in Seq(S) /\ u \o v = b
  <2>1. SubSeq(s, n + 1, p) \in Seq(S) /\ SubSeq(s, n + 1, p) \o t = b
    <3>1. s \o t = a \o b /\ Len(a) <= Len(s)
      BY <1>1, <1>3, <1>5, <1>6, <1>8
    <3>2. SubSeq(s, Len(a) + 1, Len(s)) \in Seq(S) /\ SubSeq(s, Len(a) + 1, Len(s)) \o t = b
      <4>1. HwCutTwice(S, s, t, a, b)
        BY <1>5, <1>6, HwCutElsewhere
      <4> QED
        BY <3>1, <4>1 DEF HwCutTwice
    <3> QED
      BY <1>1, <1>5, <3>2
  <2>2. v = t
    <3>1. own + 1 = 1
      BY <1>1, <1>8
    <3> QED
      BY <3>1, SubSeqFull
  <2> QED
    BY <1>1, <2>1, <2>2
<1>9. ASSUME n > p PROVE u \in Seq(S) /\ v \in Seq(S) /\ u \o v = b
  <2>1. SubSeq(a, p + 1, n) \in Seq(S) /\ SubSeq(a, p + 1, n) \o b = t /\ Len(SubSeq(a, p + 1, n)) = n - p
    <3>1. SubSeq(a, Len(s) + 1, Len(a)) \in Seq(S) /\ SubSeq(a, Len(s) + 1, Len(a)) \o b = t
      <4>1. a \o b = s \o t /\ Len(s) <= Len(a)
        BY <1>1, <1>3, <1>5, <1>6, <1>9
      <4> QED
        <5>1. HwCutTwice(S, a, b, s, t)
          BY <1>5, <1>6, HwCutElsewhere
        <5> QED
          BY <4>1, <5>1 DEF HwCutTwice
    <3>2. Len(SubSeq(a, p + 1, Len(a))) = Len(a) - p
      BY <1>1, <1>5, <1>9, HwCut
    <3> QED
      BY <1>1, <1>5, <3>1, <3>2
  <2>2. PICK c \in Seq(S) : c \o b = t /\ Len(c) = n - p
    BY <2>1
  <2>3. t \o <<>> = t /\ <<>> \in Seq(S)
    BY ConcatEmptySeq, EmptySeq
  <2>4. Len(c) <= Len(t)
    BY <1>1, <1>2, <2>2
  <2>5. SubSeq(t, Len(c) + 1, Len(t)) \in Seq(S) /\ SubSeq(t, Len(c) + 1, Len(t)) \o <<>> = b
    <3>1. t \o <<>> = c \o b
      BY <2>2, <2>3
    <3> QED
      <4>1. HwCutTwice(S, t, <<>>, c, b)
        BY <1>6, <2>2, <2>3, HwCutElsewhere
      <4> QED
        BY <2>4, <3>1, <4>1 DEF HwCutTwice
  <2>6. v \in Seq(S) /\ v = b
    <3>1. Len(c) = own
      BY <1>1, <1>9, <2>2
    <3> QED
      BY <2>5, <3>1, ConcatEmptySeq
  <2>7. u = <<>>
    BY <1>1, <1>9, SubSeqEmpty
  <2> QED
    BY <1>6, <2>3, <2>6, <2>7, ConcatEmptySeq
<1>10. u \in Seq(S) /\ v \in Seq(S) /\ u \o v = b
  <2> HIDE DEF u, v
  <2> QED
    BY <1>1, <1>8, <1>9
<1>11. SubSeq(s \o t, 1, n) \in Seq(S) /\ SubSeq(s \o t, 1, n) \o b = s \o t
  BY <1>3, <1>5, <1>6
<1> HIDE DEF u, v
<1> QED
  BY <1>10, <1>11 DEF u, v, HwTakes

\* A write of n symbols moves the first n of what is left.
LEMMA HwWriteKeeps ==
    ASSUME HwUpInv, NEW n \in Nat, HwWrite(n)
    PROVE  HwUpInv'
<1>1. \A x, y, z \in Seq(HwUpSyms) : (x \o y) \o z = x \o (y \o z)
  <2>1. HwJoins(HwUpSyms)
    BY HwAssoc, Zenon
  <2> QED
    BY <2>1, Zenon DEF HwJoins
<1>2. n <= Len(hwReq) + Len(hwLeft)
  BY DEF HwWrite
<1>3. PICK a \in Seq(HwUpSyms) : a = SubSeq(hwReq \o hwLeft, 1, n)
  <2>1. hwReq \o hwLeft \in Seq(HwUpSyms) /\ n <= Len(hwReq \o hwLeft)
    BY <1>2, ConcatProperties DEF HwUpInv
  <2> QED
    BY <2>1, HwCut
<1>4. hwReq' \in Seq(HwUpSyms) /\ hwLeft' \in Seq(HwUpSyms) /\ a \o (hwReq' \o hwLeft') = hwReq \o hwLeft
  <2>1. PICK own : own = IF n > Len(hwReq) THEN n - Len(hwReq) ELSE 0
    OBVIOUS
  <2>2. hwReq' = SubSeq(hwReq, n + 1, Len(hwReq)) /\ hwLeft' = SubSeq(hwLeft, own + 1, Len(hwLeft))
    BY <2>1 DEF HwWrite
  <2>3. hwReq \in Seq(HwUpSyms) /\ hwLeft \in Seq(HwUpSyms)
    BY DEF HwUpInv
  <2>4. /\ SubSeq(hwReq, n + 1, Len(hwReq)) \in Seq(HwUpSyms) /\ SubSeq(hwLeft, own + 1, Len(hwLeft)) \in Seq(HwUpSyms)
        /\ a \o (SubSeq(hwReq, n + 1, Len(hwReq)) \o SubSeq(hwLeft, own + 1, Len(hwLeft))) = hwReq \o hwLeft
    <3>1. PICK x \in Seq(HwUpSyms) : x = hwReq
      BY <2>3
    <3>2. PICK y \in Seq(HwUpSyms) : y = hwLeft
      BY <2>3
    <3>3. n <= Len(x) + Len(y) /\ own = IF n > Len(x) THEN n - Len(x) ELSE 0
      BY <1>2, <2>1, <3>1, <3>2
    <3>4. HwTakes(HwUpSyms, x, y, n, own)
      BY <3>1, <3>2, <3>3, HwTaken
    <3>5. /\ SubSeq(x, n + 1, Len(x)) \in Seq(HwUpSyms) /\ SubSeq(y, own + 1, Len(y)) \in Seq(HwUpSyms)
          /\ SubSeq(x \o y, 1, n) \o (SubSeq(x, n + 1, Len(x)) \o SubSeq(y, own + 1, Len(y))) = x \o y
      BY <3>4 DEF HwTakes
    <3> QED
      BY <1>3, <3>1, <3>2, <3>5
  <2> QED
    BY <2>2, <2>4
<1>5. PICK u \in Seq(HwUpSyms) : u = hwUp
  BY DEF HwUpInv
<1>6. PICK b \in Seq(HwUpSyms) : b = hwReq' \o hwLeft'
  BY <1>4, ConcatProperties
<1>7. hwUp' = u \o a
  BY <1>3, <1>5 DEF HwWrite
<1>8. (u \o a) \o b = u \o (a \o b)
  BY <1>3, <1>5, <1>6, <1>1, Zenon
<1>9. hwUp' \o (hwReq' \o hwLeft') = hwUp \o (hwReq \o hwLeft)
  BY <1>4, <1>5, <1>6, <1>7, <1>8
<1>10. hwUp' \in Seq(HwUpSyms)
  BY <1>7, ConcatProperties
<1> QED
  BY <1>4, <1>9, <1>10 DEF HwUpInv

\* The symbols of a response and of what follows it.
HwDnSyms == ({"status", "len", "msg", "pad"} \X Nat) \cup {HwDown[i] : i \in DOMAIN HwDown}

\* What the server sends behind the response, and with it from a step of the parser on.
HwData(r) == IF r.ok THEN HwDown ELSE <<>>
\* From the padding on.
HwPadded(r) == [i \in 1..r.pad |-> <<"pad", i>>] \o HwData(r)
\* From the length of the padding on.
HwPadLen(r) == <<<<"len", r.pad>>>> \o HwPadded(r)
\* From the message on.
HwMessage(r) == [i \in 1..r.msg |-> <<"msg", i>>] \o HwPadLen(r)
\* From the length of the message on.
HwMsgLen(r) == <<<<"len", r.msg>>>> \o HwMessage(r)
\* The whole answer.
HwStatus(r) == <<<<"status", IF r.ok THEN 0 ELSE 1>>>> \o HwMsgLen(r)

\* The reader and what is on its way are in step with the response r: what is buffered
\* and what the stream holds are what is left of it from the parser's step on.
HwUnderWay(r) ==
    /\ hwAns = IF r.ok THEN "ok" ELSE "refused"
    /\ hwStep.at # "done" => hwGot = <<>>
    /\ hwStep.at = "status" => hwBuf \o hwDn = HwStatus(r)
    /\ hwStep.at = "msglen" => hwBuf \o hwDn = HwMsgLen(r)
    /\ hwStep.at = "msg" => hwBuf \o hwDn = HwMessage(r) /\ hwStep.len = r.msg
    /\ hwStep.at = "padlen" => hwBuf \o hwDn = HwPadLen(r)
    /\ hwStep.at = "pad" => hwBuf \o hwDn = HwPadded(r) /\ hwStep.len = r.pad
    /\ hwStep.at = "done" => hwGot \o (hwBuf \o hwDn) = HwData(r)

\* The steps of the parser.
HwSteps == {"status", "msglen", "msg", "padlen", "pad", "done"}

\* The answer is with the reader, in its buffer or in the stream.
HwDnInv ==
    /\ hwBuf \in Seq(HwDnSyms) /\ hwDn \in Seq(HwDnSyms) /\ hwGot \in Seq(HwDnSyms)
    /\ hwStep.at \in HwSteps
    /\ hwAns = "none" => hwStep.at = "status" /\ hwBuf = <<>> /\ hwDn = <<>> /\ hwGot = <<>>
    /\ hwAns # "none" => \E r \in HwResponses : HwUnderWay(r)

\* The parts of a response are sequences of symbols.
LEMMA HwParts ==
    ASSUME NEW r \in HwResponses
    PROVE  /\ r.ok \in BOOLEAN /\ r.msg \in Nat /\ r.pad \in Nat
           /\ HwData(r) \in Seq(HwDnSyms) /\ HwPadded(r) \in Seq(HwDnSyms) /\ HwPadLen(r) \in Seq(HwDnSyms)
           /\ HwMessage(r) \in Seq(HwDnSyms) /\ HwMsgLen(r) \in Seq(HwDnSyms) /\ HwStatus(r) \in Seq(HwDnSyms)
           /\ [i \in 1..r.pad |-> <<"pad", i>>] \in Seq(HwDnSyms)
           /\ [i \in 1..r.msg |-> <<"msg", i>>] \in Seq(HwDnSyms)
           /\ Len([i \in 1..r.pad |-> <<"pad", i>>]) = r.pad
           /\ Len([i \in 1..r.msg |-> <<"msg", i>>]) = r.msg
           /\ <<"len", r.pad>> \in HwDnSyms /\ <<"len", r.msg>> \in HwDnSyms
           /\ <<"status", IF r.ok THEN 0 ELSE 1>> \in HwDnSyms
<1>1. r.ok \in BOOLEAN /\ r.msg \in Nat /\ r.pad \in Nat
  BY HwAssumption
<1>2. HwDown \in Seq(HwDnSyms)
  <2>1. {HwDown[i] : i \in DOMAIN HwDown} \subseteq HwDnSyms
    BY DEF HwDnSyms
  <2> QED
    BY <2>1, HwAssumption, SeqMonotonic
<1>3. HwData(r) \in Seq(HwDnSyms)
  BY <1>2, EmptySeq DEF HwData
<1>4. \A n \in Nat : <<"len", n>> \in HwDnSyms /\ <<"pad", n>> \in HwDnSyms /\ <<"msg", n>> \in HwDnSyms /\ <<"status", n>> \in HwDnSyms
  BY DEF HwDnSyms
<1>5. /\ [i \in 1..r.pad |-> <<"pad", i>>] \in Seq(HwDnSyms)
      /\ [i \in 1..r.msg |-> <<"msg", i>>] \in Seq(HwDnSyms)
      /\ Len([i \in 1..r.pad |-> <<"pad", i>>]) = r.pad
      /\ Len([i \in 1..r.msg |-> <<"msg", i>>]) = r.msg
  <2>1. ASSUME NEW n \in Nat, NEW k, \A i \in 1..n : <<k, i>> \in HwDnSyms
        PROVE  [i \in 1..n |-> <<k, i>>] \in Seq(HwDnSyms) /\ Len([i \in 1..n |-> <<k, i>>]) = n
    <3> DEFINE f == [i \in 1..n |-> <<k, i>>]
    <3>1. f \in [1..n -> HwDnSyms]
      BY <2>1
    <3>2. f \in Seq(HwDnSyms)
      BY <3>1, SeqDef
    <3>3. DOMAIN f = 1..n
      OBVIOUS
    <3> HIDE DEF f
    <3>4. Len(f) = n
      BY <3>2, <3>3
    <3> QED
      BY <3>2, <3>4 DEF f
  <2>2. \A n \in Nat : \A i \in 1..n : <<"pad", i>> \in HwDnSyms /\ <<"msg", i>> \in HwDnSyms
    <3>1. \A n \in Nat : \A i \in 1..n : i \in Nat
      OBVIOUS
    <3> QED
      BY <1>4, <3>1, Zenon
  <2>3. (\A i \in 1..r.pad : <<"pad", i>> \in HwDnSyms) /\ (\A i \in 1..r.msg : <<"msg", i>> \in HwDnSyms)
    BY <1>1, <2>2, Zenon
  <2> QED
    BY <1>1, <2>1, <2>3
<1>6. \A x \in HwDnSyms : <<x>> \in Seq(HwDnSyms)
  OBVIOUS
<1>7. \A x, y \in Seq(HwDnSyms) : x \o y \in Seq(HwDnSyms)
  BY ConcatProperties
<1>8. <<"len", r.pad>> \in HwDnSyms /\ <<"len", r.msg>> \in HwDnSyms /\ <<"status", IF r.ok THEN 0 ELSE 1>> \in HwDnSyms
  BY <1>1, <1>4
<1>9. HwPadded(r) \in Seq(HwDnSyms)
  BY <1>3, <1>5, <1>7, Zenon DEF HwPadded
<1>10. HwPadLen(r) \in Seq(HwDnSyms)
  BY <1>6, <1>7, <1>8, <1>9, Zenon DEF HwPadLen
<1>11. HwMessage(r) \in Seq(HwDnSyms)
  BY <1>5, <1>7, <1>10, Zenon DEF HwMessage
<1>12. HwMsgLen(r) \in Seq(HwDnSyms)
  BY <1>6, <1>7, <1>8, <1>11, Zenon DEF HwMsgLen
<1>13. HwStatus(r) \in Seq(HwDnSyms)
  BY <1>6, <1>7, <1>8, <1>12, Zenon DEF HwStatus
<1> QED
  BY <1>1, <1>3, <1>5, <1>8, <1>9, <1>10, <1>11, <1>12, <1>13

\* Three parts of a sequence.
HwThree(x, y, z) == (x \o y) \o z = x \o (y \o z)

\* They are one sequence however they are put together.
LEMMA HwAssocThree ==
    ASSUME NEW S
    PROVE  \A x, y, z \in Seq(S) : HwThree(x, y, z)
<1>1. HwJoins(S)
  BY HwAssoc, Zenon
<1> QED
  BY <1>1, Zenon DEF HwJoins, HwThree

\* Four parts of a sequence.
HwFour(e, f, g, h) == ((e \o f) \o g) \o h = e \o (f \o (g \o h))

\* So are four.
LEMMA HwAssocFour ==
    ASSUME NEW S
    PROVE  \A e, f, g, h \in Seq(S) : HwFour(e, f, g, h)
<1>1. \A x, y, z \in Seq(S) : (x \o y) \o z = x \o (y \o z)
  <2>1. HwJoins(S)
    BY HwAssoc, Zenon
  <2> QED
    BY <2>1, Zenon DEF HwJoins
<1>2. \A x, y \in Seq(S) : x \o y \in Seq(S)
  BY ConcatProperties
<1> SUFFICES ASSUME NEW e \in Seq(S), NEW f \in Seq(S), NEW g \in Seq(S), NEW h \in Seq(S)
             PROVE  HwFour(e, f, g, h)
  OBVIOUS
<1>3. \A u \in Seq(S) : (u \o g) \o h = u \o (g \o h)
  BY <1>1, Zenon
<1>4. \A w \in Seq(S) : (e \o f) \o w = e \o (f \o w)
  BY <1>1, Zenon
<1>5. e \o f \in Seq(S) /\ g \o h \in Seq(S)
  BY <1>2, Zenon
<1>6. ((e \o f) \o g) \o h = (e \o f) \o (g \o h)
  BY <1>3, <1>5, Zenon
<1>7. (e \o f) \o (g \o h) = e \o (f \o (g \o h))
  BY <1>4, <1>5, Zenon
<1> QED
  BY <1>6, <1>7, Zenon DEF HwFour

\* Two elements in a row.
LEMMA HwPair ==
    ASSUME NEW S, NEW x \in S, NEW y \in S
    PROVE  <<x>> \in Seq(S) /\ <<y>> \in Seq(S) /\ <<x, y>> = <<x>> \o <<y>>
<1>1. <<x>> \in Seq(S) /\ <<y>> \in Seq(S) /\ <<x, y>> \in Seq(S)
  OBVIOUS
<1>2. <<x>> \o <<y>> \in Seq(S) /\ Len(<<x>> \o <<y>>) = 2 /\ (<<x>> \o <<y>>)[1] = x /\ (<<x>> \o <<y>>)[2] = y
  OBVIOUS
<1>3. \A i \in 1 .. 2 : <<x, y>>[i] = (<<x>> \o <<y>>)[i]
  BY <1>2
<1> QED
  BY <1>1, <1>2, <1>3, SeqEqual

\* The response as the server sends it, and part by part.
HwNest(a, b, m, c, p, d) ==
    <<a, b>> \o m \o <<c>> \o p \o d = <<a>> \o (<<b>> \o (m \o (<<c>> \o (p \o d))))

\* A response, part by part.
LEMMA HwNested ==
    ASSUME NEW S, NEW a \in S, NEW b \in S, NEW c \in S, NEW m \in Seq(S), NEW p \in Seq(S), NEW d \in Seq(S)
    PROVE  HwNest(a, b, m, c, p, d)
<1>1. <<a, b>> = <<a>> \o <<b>> /\ <<a>> \in Seq(S) /\ <<b>> \in Seq(S) /\ <<c>> \in Seq(S)
  BY HwPair
<1>2. \A x, y \in Seq(S) : x \o y \in Seq(S)
  BY ConcatProperties
<1>3. <<a>> \o <<b>> \in Seq(S) /\ p \o d \in Seq(S)
  BY <1>1, <1>2, Zenon
<1>4. (<<a>> \o <<b>>) \o m \in Seq(S) /\ <<c>> \o (p \o d) \in Seq(S)
  BY <1>1, <1>2, <1>3, Zenon
<1>5. HwFour((<<a>> \o <<b>>) \o m, <<c>>, p, d)
  BY <1>1, <1>4, HwAssocFour
<1>6. HwFour(<<a>>, <<b>>, m, <<c>> \o (p \o d))
  BY <1>1, <1>4, HwAssocFour
<1> QED
  BY <1>1, <1>5, <1>6, Zenon DEF HwFour, HwNest

\* The answer: all of the response is on its way.
LEMMA HwAnswerKeeps ==
    ASSUME HwDnInv, NEW r \in HwResponses, HwAnswer(r)
    PROVE  HwDnInv'
<1>1. /\ hwAns = "none" /\ hwAns' = IF r.ok THEN "ok" ELSE "refused"
      /\ hwStep' = hwStep /\ hwBuf' = hwBuf /\ hwGot' = hwGot
  BY DEF HwAnswer
<1>2. hwStep.at = "status" /\ hwBuf = <<>> /\ hwGot = <<>>
  BY <1>1 DEF HwDnInv
<1>3. hwDn' = HwStatus(r)
  <2> DEFINE a == <<"status", IF r.ok THEN 0 ELSE 1>>
             b == <<"len", r.msg>>
             c == <<"len", r.pad>>
             m == [i \in 1..r.msg |-> <<"msg", i>>]
             p == [i \in 1..r.pad |-> <<"pad", i>>]
             d == HwData(r)
  <2>1. hwDn' = <<a, b>> \o m \o <<c>> \o p \o d
    BY DEF HwAnswer, HwData
  <2>2. HwStatus(r) = <<a>> \o (<<b>> \o (m \o (<<c>> \o (p \o d))))
    BY DEF HwStatus, HwMsgLen, HwMessage, HwPadLen, HwPadded
  <2>3. /\ a \in HwDnSyms /\ b \in HwDnSyms /\ c \in HwDnSyms
        /\ m \in Seq(HwDnSyms) /\ p \in Seq(HwDnSyms) /\ d \in Seq(HwDnSyms)
    BY HwParts
  <2> HIDE DEF a, b, c, m, p, d
  <2>4. HwNest(a, b, m, c, p, d)
    BY <2>3, HwNested
  <2> QED
    BY <2>1, <2>2, <2>4, Zenon DEF HwNest
<1>4. hwDn' \in Seq(HwDnSyms)
  BY <1>3, HwParts
<1>5. hwBuf' \o hwDn' = hwDn'
  BY <1>1, <1>2, <1>4, ConcatEmptySeq
<1>6. HwUnderWay(r)'
  BY <1>1, <1>2, <1>3, <1>5 DEF HwUnderWay
<1>7. hwAns' # "none"
  BY <1>1
<1> QED
  BY <1>1, <1>2, <1>4, <1>6, <1>7 DEF HwDnInv

\* A step of the parser takes what it names off the front.
LEMMA HwParsed ==
    ASSUME HwDnInv, NEW m \in Seq(HwDnSyms), NEW rest \in Seq(HwDnSyms),
           hwBuf \o hwDn = m \o rest, Len(m) <= Len(hwBuf)
    PROVE  /\ SubSeq(hwBuf, Len(m) + 1, Len(hwBuf)) \in Seq(HwDnSyms)
           /\ SubSeq(hwBuf, Len(m) + 1, Len(hwBuf)) \o hwDn = rest
           /\ \A i \in 1 .. Len(m) : hwBuf[i] = m[i]
<1>1. hwBuf \in Seq(HwDnSyms) /\ hwDn \in Seq(HwDnSyms)
  BY DEF HwDnInv
<1>2. HwCutTwice(HwDnSyms, hwBuf, hwDn, m, rest)
  BY <1>1, HwCutElsewhere
<1> QED
  BY <1>2 DEF HwCutTwice

\* A step of the parser takes one part of the response off the buffer.
LEMMA HwParseKeeps ==
    ASSUME HwDnInv, HwParse
    PROVE  HwDnInv'
<1>1. /\ hwAns' = hwAns /\ hwDn' = hwDn /\ hwGot' = hwGot /\ Len(hwBuf) >= HwNeeds
      /\ hwBuf' = SubSeq(hwBuf, HwNeeds + 1, Len(hwBuf))
  BY DEF HwParse
<1>2. hwAns # "none"
  <2> SUFFICES ASSUME hwAns = "none" PROVE FALSE
    OBVIOUS
  <2>1. hwStep.at = "status" /\ Len(hwBuf) = 0
    BY DEF HwDnInv
  <2> QED
    BY <1>1, <2>1 DEF HwNeeds
<1>3. PICK r \in HwResponses : HwUnderWay(r)
  BY <1>2 DEF HwDnInv
<1>4. hwGot \in Seq(HwDnSyms) /\ hwDn \in Seq(HwDnSyms)
  BY DEF HwDnInv
<1>5. SUFFICES hwBuf' \in Seq(HwDnSyms) /\ hwStep'.at \in HwSteps /\ HwUnderWay(r)'
  BY <1>1, <1>2, <1>3, <1>4 DEF HwDnInv
<1>6. CASE hwStep.at = "status"
  <2> DEFINE m == <<<<"status", IF r.ok THEN 0 ELSE 1>>>>
  <2>1. m \in Seq(HwDnSyms) /\ Len(m) = 1 /\ HwMsgLen(r) \in Seq(HwDnSyms)
    <3>1. <<"status", IF r.ok THEN 0 ELSE 1>> \in HwDnSyms /\ HwMsgLen(r) \in Seq(HwDnSyms)
      BY <1>3, HwParts
    <3>2. \A e \in HwDnSyms : <<e>> \in Seq(HwDnSyms) /\ Len(<<e>>) = 1
      OBVIOUS
    <3> QED
      BY <3>1, <3>2, Zenon
  <2>2. hwBuf \o hwDn = m \o HwMsgLen(r) /\ HwNeeds = 1
    BY <1>3, <1>6 DEF HwUnderWay, HwStatus, HwNeeds
  <2> HIDE DEF m
  <2>3. hwBuf' \in Seq(HwDnSyms) /\ hwBuf' \o hwDn = HwMsgLen(r)
    BY <1>1, <2>1, <2>2, HwParsed
  <2>4. hwStep' = [at |-> "msglen", len |-> 0]
    BY <1>6 DEF HwParse
  <2> QED
    BY <1>1, <1>3, <1>6, <2>3, <2>4 DEF HwUnderWay, HwSteps
<1>7. CASE hwStep.at = "msglen"
  <2> DEFINE m == <<<<"len", r.msg>>>>
  <2>1. m \in Seq(HwDnSyms) /\ Len(m) = 1 /\ m[1] = <<"len", r.msg>> /\ HwMessage(r) \in Seq(HwDnSyms)
    <3>1. <<"len", r.msg>> \in HwDnSyms /\ HwMessage(r) \in Seq(HwDnSyms)
      BY <1>3, HwParts
    <3>2. \A e \in HwDnSyms : <<e>> \in Seq(HwDnSyms) /\ Len(<<e>>) = 1 /\ <<e>>[1] = e
      OBVIOUS
    <3> QED
      BY <3>1, <3>2, Zenon
  <2>2. hwBuf \o hwDn = m \o HwMessage(r) /\ HwNeeds = 1
    BY <1>3, <1>7 DEF HwUnderWay, HwMsgLen, HwNeeds
  <2> HIDE DEF m
  <2>3. /\ hwBuf' \in Seq(HwDnSyms) /\ hwBuf' \o hwDn = HwMessage(r)
        /\ \A i \in 1 .. 1 : hwBuf[i] = m[i]
    BY <1>1, <2>1, <2>2, HwParsed
  <2>4. hwBuf' \in Seq(HwDnSyms) /\ hwBuf' \o hwDn = HwMessage(r) /\ hwBuf[1] = <<"len", r.msg>>
    BY <2>1, <2>3
  <2>5. hwStep' = [at |-> "msg", len |-> r.msg]
    BY <1>7, <2>4 DEF HwParse
  <2> QED
    BY <1>1, <1>3, <1>7, <2>4, <2>5 DEF HwUnderWay, HwSteps
<1>8. CASE hwStep.at = "msg"
  <2> DEFINE m == [i \in 1..r.msg |-> <<"msg", i>>]
  <2>1. m \in Seq(HwDnSyms) /\ Len(m) = r.msg /\ HwPadLen(r) \in Seq(HwDnSyms)
    BY <1>3, HwParts
  <2>2. hwBuf \o hwDn = m \o HwPadLen(r) /\ HwNeeds = r.msg
    BY <1>3, <1>8 DEF HwUnderWay, HwMessage, HwNeeds
  <2> HIDE DEF m
  <2>3. hwBuf' \in Seq(HwDnSyms) /\ hwBuf' \o hwDn = HwPadLen(r)
    BY <1>1, <2>1, <2>2, HwParsed
  <2>4. hwStep' = [at |-> "padlen", len |-> 0]
    BY <1>8 DEF HwParse
  <2> QED
    BY <1>1, <1>3, <1>8, <2>3, <2>4 DEF HwUnderWay, HwSteps
<1>9. CASE hwStep.at = "padlen"
  <2> DEFINE m == <<<<"len", r.pad>>>>
  <2>1. m \in Seq(HwDnSyms) /\ Len(m) = 1 /\ m[1] = <<"len", r.pad>> /\ HwPadded(r) \in Seq(HwDnSyms)
    <3>1. <<"len", r.pad>> \in HwDnSyms /\ HwPadded(r) \in Seq(HwDnSyms)
      BY <1>3, HwParts
    <3>2. \A e \in HwDnSyms : <<e>> \in Seq(HwDnSyms) /\ Len(<<e>>) = 1 /\ <<e>>[1] = e
      OBVIOUS
    <3> QED
      BY <3>1, <3>2, Zenon
  <2>2. hwBuf \o hwDn = m \o HwPadded(r) /\ HwNeeds = 1
    BY <1>3, <1>9 DEF HwUnderWay, HwPadLen, HwNeeds
  <2> HIDE DEF m
  <2>3. /\ hwBuf' \in Seq(HwDnSyms) /\ hwBuf' \o hwDn = HwPadded(r)
        /\ \A i \in 1 .. 1 : hwBuf[i] = m[i]
    BY <1>1, <2>1, <2>2, HwParsed
  <2>4. hwBuf' \in Seq(HwDnSyms) /\ hwBuf' \o hwDn = HwPadded(r) /\ hwBuf[1] = <<"len", r.pad>>
    BY <2>1, <2>3
  <2>5. hwStep' = [at |-> "pad", len |-> r.pad]
    BY <1>9, <2>4 DEF HwParse
  <2> QED
    BY <1>1, <1>3, <1>9, <2>4, <2>5 DEF HwUnderWay, HwSteps
<1>10. CASE hwStep.at = "pad"
  <2> DEFINE m == [i \in 1..r.pad |-> <<"pad", i>>]
  <2>1. m \in Seq(HwDnSyms) /\ Len(m) = r.pad /\ HwData(r) \in Seq(HwDnSyms)
    BY <1>3, HwParts
  <2>2. hwBuf \o hwDn = m \o HwData(r) /\ HwNeeds = r.pad
    BY <1>3, <1>10 DEF HwUnderWay, HwPadded, HwNeeds
  <2> HIDE DEF m
  <2>3. hwBuf' \in Seq(HwDnSyms) /\ hwBuf' \o hwDn = HwData(r)
    BY <1>1, <2>1, <2>2, HwParsed
  <2>4. hwStep' = [at |-> "done", len |-> 0]
    BY <1>10 DEF HwParse
  <2>5. hwGot' \o (hwBuf' \o hwDn') = HwData(r)
    <3>1. hwGot' = <<>>
      BY <1>1, <1>3, <1>10 DEF HwUnderWay
    <3> QED
      BY <1>1, <2>1, <2>3, <3>1, ConcatEmptySeq
  <2> QED
    BY <1>1, <1>3, <1>10, <2>3, <2>4, <2>5 DEF HwUnderWay, HwSteps
<1>11. hwStep.at # "done"
  BY DEF HwParse
<1> QED
  BY <1>6, <1>7, <1>8, <1>9, <1>10, <1>11 DEF HwDnInv, HwSteps

\* The parser reads ahead.
LEMMA HwPullKeeps ==
    ASSUME HwDnInv, NEW k \in Nat \ {0}, HwPull(k)
    PROVE  HwDnInv'
<1>1. /\ hwAns' = hwAns /\ hwGot' = hwGot /\ hwStep' = hwStep /\ k <= Len(hwDn) /\ hwStep.at # "done"
      /\ hwBuf' = hwBuf \o SubSeq(hwDn, 1, k) /\ hwDn' = SubSeq(hwDn, k + 1, Len(hwDn))
  BY DEF HwPull
<1>2. hwDn \in Seq(HwDnSyms) /\ hwBuf \in Seq(HwDnSyms) /\ hwGot \in Seq(HwDnSyms)
  BY DEF HwDnInv
<1>3. PICK x \in Seq(HwDnSyms) : x = SubSeq(hwDn, 1, k)
  BY <1>1, <1>2, HwCut
<1>4. hwDn' \in Seq(HwDnSyms) /\ x \o hwDn' = hwDn
  BY <1>1, <1>2, <1>3, HwCut
<1>5. hwBuf' \in Seq(HwDnSyms)
  BY <1>1, <1>2, <1>3, ConcatProperties
<1>6. hwBuf' \o hwDn' = hwBuf \o hwDn
  <2>1. \A u, v, w \in Seq(HwDnSyms) : (u \o v) \o w = u \o (v \o w)
    <3>1. HwJoins(HwDnSyms)
      BY HwAssoc, Zenon
    <3> QED
      BY <3>1, Zenon DEF HwJoins
  <2>2. (hwBuf \o x) \o hwDn' = hwBuf \o (x \o hwDn')
    BY <1>2, <1>3, <1>4, <2>1, Zenon
  <2> QED
    BY <1>1, <1>3, <1>4, <2>2, Zenon
<1>7. hwAns # "none"
  <2>1. Len(hwDn) # 0
    BY <1>1, <1>2
  <2> QED
    BY <2>1 DEF HwDnInv
<1>8. PICK r \in HwResponses : HwUnderWay(r)
  BY <1>7 DEF HwDnInv
<1>9. HwUnderWay(r)'
  BY <1>1, <1>6, <1>8 DEF HwUnderWay
<1> QED
  BY <1>1, <1>2, <1>4, <1>5, <1>7, <1>8, <1>9 DEF HwDnInv

\* A read takes the first bytes of what is buffered and then of the stream.
LEMMA HwReadKeeps ==
    ASSUME HwDnInv, NEW k \in Nat \ {0}, HwRead(k)
    PROVE  HwDnInv'
<1> DEFINE over == Min({k, Len(hwBuf)})
<1>1. hwDn \in Seq(HwDnSyms) /\ hwBuf \in Seq(HwDnSyms) /\ hwGot \in Seq(HwDnSyms)
  BY DEF HwDnInv
<1>2. PICK p \in Nat : p = Len(hwBuf)
  BY <1>1, LenProperties
<1>3. PICK q \in Nat : q = Len(hwDn)
  BY <1>1, LenProperties
<1>4. over = IF k <= p THEN k ELSE p
  <2>1. CASE k <= p
    BY <1>2, <2>1 DEF Min
  <2>2. CASE k > p
    BY <1>2, <2>2 DEF Min
  <2> QED
    BY <1>2, <2>1, <2>2
<1>5. /\ hwAns' = hwAns /\ hwStep' = hwStep /\ hwStep.at = "done" /\ k <= p + q
      /\ hwGot' = hwGot \o SubSeq(hwBuf, 1, over) \o SubSeq(hwDn, 1, k - over)
      /\ hwBuf' = SubSeq(hwBuf, over + 1, Len(hwBuf)) /\ hwDn' = SubSeq(hwDn, k - over + 1, Len(hwDn))
  BY <1>2, <1>3 DEF HwRead, HwServes
<1> HIDE DEF over
<1>6. over \in Nat /\ over <= Len(hwBuf) /\ k - over \in Nat /\ k - over <= Len(hwDn)
  BY <1>2, <1>3, <1>4, <1>5
<1>7. PICK x \in Seq(HwDnSyms) : x = SubSeq(hwBuf, 1, over)
  BY <1>1, <1>6, HwCut
<1>8. hwBuf' \in Seq(HwDnSyms) /\ x \o hwBuf' = hwBuf
  BY <1>1, <1>5, <1>6, <1>7, HwCut
<1>9. PICK y \in Seq(HwDnSyms) : y = SubSeq(hwDn, 1, k - over)
  BY <1>1, <1>6, HwCut
<1>10. hwDn' \in Seq(HwDnSyms) /\ y \o hwDn' = hwDn
  BY <1>1, <1>5, <1>6, <1>9, HwCut
<1>11. hwGot' = (hwGot \o x) \o y
  BY <1>5, <1>7, <1>9
<1>12. hwGot' \in Seq(HwDnSyms)
  BY <1>1, <1>7, <1>9, <1>11, ConcatProperties
<1>13. hwGot' \o (hwBuf' \o hwDn') = hwGot \o (hwBuf \o hwDn)
  <2>1. CASE y = <<>>
    <3>1. hwDn' = hwDn
      BY <1>10, <2>1, ConcatEmptySeq
    <3>2. hwGot' = hwGot \o x
      <4>1. hwGot \o x \in Seq(HwDnSyms)
        BY <1>1, <1>7, ConcatProperties
      <4> QED
        BY <1>11, <2>1, <4>1, ConcatEmptySeq
    <3>3. HwFour(hwGot, x, hwBuf', hwDn)
      BY <1>1, <1>7, <1>8, HwAssocFour
    <3>4. ((hwGot \o x) \o hwBuf') \o hwDn = hwGot \o (x \o (hwBuf' \o hwDn))
      BY <3>3 DEF HwFour
    <3>5. HwThree(x, hwBuf', hwDn)
      BY <1>1, <1>7, <1>8, HwAssocThree
    <3>6. hwGot \o x \in Seq(HwDnSyms)
      BY <1>12, <3>2
    <3>7. HwThree(hwGot \o x, hwBuf', hwDn)
      BY <1>1, <1>8, <3>6, HwAssocThree
    <3> QED
      BY <1>8, <3>1, <3>2, <3>4, <3>5, <3>7, Zenon DEF HwThree
  <2>2. CASE y # <<>>
    <3>1. over = p
      <4>1. Len(y) # 0
        BY <1>9, <2>2, EmptySeq
      <4>2. Len(y) = k - over
        BY <1>1, <1>6, <1>9, HwCut
      <4> QED
        BY <1>4, <1>6, <4>1, <4>2
    <3>2. hwBuf' = <<>> /\ x = hwBuf
      <4>1. hwBuf' = <<>>
        BY <1>2, <1>5, <3>1, SubSeqEmpty
      <4>2. x \o <<>> = x
        BY <1>7, ConcatEmptySeq
      <4> QED
        BY <1>8, <4>1, <4>2
    <3>3. hwBuf' \o hwDn' = hwDn'
      BY <1>10, <3>2, ConcatEmptySeq
    <3>4. HwFour(hwGot, hwBuf, y, hwDn')
      BY <1>1, <1>9, <1>10, HwAssocFour
    <3>5. ((hwGot \o hwBuf) \o y) \o hwDn' = hwGot \o (hwBuf \o (y \o hwDn'))
      BY <3>4 DEF HwFour
    <3> QED
      BY <1>10, <1>11, <3>2, <3>3, <3>5, Zenon
  <2> QED
    BY <2>1, <2>2
<1>14. hwAns # "none"
  BY <1>5 DEF HwDnInv
<1>15. PICK r \in HwResponses : HwUnderWay(r)
  BY <1>14 DEF HwDnInv
<1>16. HwUnderWay(r)'
  BY <1>5, <1>13, <1>15 DEF HwUnderWay
<1> QED
  BY <1>5, <1>8, <1>10, <1>12, <1>14, <1>15, <1>16 DEF HwDnInv, HwSteps

\* What the invariants say of what is read and written.
LEMMA HwStreamSound ==
    ASSUME HwUpInv, HwDnInv
    PROVE  HwWritten /\ HwReads
<1>1. HwWritten
  <2>1. hwUp \in Seq(HwUpSyms) /\ hwReq \o hwLeft \in Seq(HwUpSyms)
    BY ConcatProperties DEF HwUpInv
  <2>2. IsPrefix(hwUp, hwUp \o (hwReq \o hwLeft))
    BY <2>1, HwPrefix
  <2> QED
    BY <2>2 DEF HwWritten, HwUpInv, HwReqs
<1>2. IsPrefix(<<>>, HwDown)
  <2>1. <<>> \o HwDown = HwDown /\ IsPrefix(<<>>, <<>> \o HwDown)
    BY HwAssumption, EmptySeq, ConcatEmptySeq, HwPrefix
  <2> QED
    BY <2>1
<1>3. CASE hwAns = "none" \/ hwStep.at # "done"
  <2>1. hwGot = <<>>
    BY <1>3 DEF HwDnInv, HwUnderWay
  <2> QED
    BY <1>1, <1>2, <2>1 DEF HwReads
<1>4. CASE hwAns # "none" /\ hwStep.at = "done"
  <2>1. PICK r \in HwResponses : HwUnderWay(r)
    BY <1>4 DEF HwDnInv
  <2>2. r.ok \in BOOLEAN /\ HwData(r) \in Seq(HwDnSyms)
    BY <2>1, HwParts
  <2>3. PICK x \in Seq(HwDnSyms) : hwGot \o x = HwData(r)
    BY <1>4, <2>1, ConcatProperties DEF HwDnInv, HwUnderWay
  <2>4. hwGot \in Seq(HwDnSyms)
    BY DEF HwDnInv
  <2>5. CASE r.ok
    <3>1. hwAns = "ok" /\ hwGot \o x = HwDown
      BY <2>1, <2>3, <2>5 DEF HwUnderWay, HwData
    <3>2. IsPrefix(hwGot, hwGot \o x)
      BY <2>3, <2>4, HwPrefix
    <3> QED
      BY <1>1, <3>1, <3>2 DEF HwReads
  <2>6. CASE ~r.ok
    <3>1. hwGot \o x = <<>>
      BY <2>3, <2>6 DEF HwData
    <3>2. hwGot = <<>>
      BY <2>3, <2>4, <3>1, ConcatEqualIffEmpty
    <3> QED
      BY <1>1, <1>2, <3>2 DEF HwReads
  <2> QED
    BY <2>2, <2>5, <2>6
<1> QED
  BY <1>3, <1>4

\* k pieces of per bytes cover a payload of len, and no fewer do.
HwSpread(len, per, k) ==
    /\ k \in Nat /\ k > 1 /\ k * per >= len
    /\ \A i \in 1 .. k : /\ (i - 1) * per \in Nat /\ (i - 1) * per < len
                         /\ i * per = (i - 1) * per + per
                         /\ i < k => i * per < len

\* The number of fragments, and where each of them lies.
LEMMA HwCount ==
    ASSUME NEW len \in Nat, NEW per \in Nat \ {0}, len > per,
           NEW k, k = (len + per - 1) \div per
    PROVE  HwSpread(len, per, k)
<1>1. len + per - 1 \in Nat
  OBVIOUS
<1>2. PICK q \in Nat, r \in Nat : k = q /\ r < per /\ len + per - 1 = q * per + r
  BY <1>1
<1>3. q > 1 /\ q * per >= len
  <2>1. q * per >= len
    BY <1>2
  <2>2. q # 0 /\ q # 1
    BY <1>2, <2>1
  <2> QED
    BY <1>2, <2>1, <2>2
<1>4. \A j \in Nat : j < q => j * per < len
  <2> SUFFICES ASSUME NEW j \in Nat, j < q PROVE j * per < len
    OBVIOUS
  <2>1. (j + 1) * per <= q * per /\ (j + 1) * per = j * per + per /\ j * per \in Nat /\ q * per \in Nat
    BY <1>2
  <2> QED
    BY <1>2, <2>1
<1>5. ASSUME NEW i \in 1 .. q
      PROVE  /\ (i - 1) * per \in Nat /\ (i - 1) * per < len
             /\ i * per = (i - 1) * per + per
             /\ i < q => i * per < len
  <2>1. PICK j \in Nat : j = i - 1 /\ i = j + 1 /\ j < q
    BY <1>2, <1>5
  <2>2. j * per \in Nat /\ j * per < len /\ (j + 1) * per = j * per + per
    BY <1>2, <1>4, <2>1
  <2>3. i < q => i * per < len
    BY <1>4, <2>1
  <2> QED
    BY <2>1, <2>2, <2>3
<1> QED
  BY <1>2, <1>3, <1>5 DEF HwSpread

\* The smaller of two numbers.
LEMMA HwMin ==
    ASSUME NEW a \in Nat, NEW b \in Nat
    PROVE  Min({a, b}) = IF a <= b THEN a ELSE b
<1>1. CASE a <= b
  BY <1>1 DEF Min
<1>2. CASE a > b
  BY <1>2 DEF Min
<1> QED
  BY <1>1, <1>2

\* What fragment_udp_payload makes of a payload.
LEMMA HwFragmentsSplit ==
    ASSUME NEW len \in Nat, NEW max \in Nat, max > HwHeader
    PROVE  LET f == HwFragments(len, max) IN
           /\ DOMAIN f = 1 .. Len(f) /\ Len(f) \in Nat \ {0}
           /\ f[1].from = 0 /\ f[Len(f)].to = len
           /\ \A i \in DOMAIN f :
                /\ i > 1 => f[i].from = f[i - 1].to
                /\ f[i].to - f[i].from + HwHeader <= max /\ (len > 0 => f[i].from < f[i].to)
<1> DEFINE f == HwFragments(len, max)
<1>1. PICK per \in Nat \ {0} : per = max - HwHeader /\ max = per + HwHeader
  BY HwAssumption
<1>2. CASE len + HwHeader <= max
  <2>1. f = <<[from |-> 0, to |-> len]>>
    BY <1>2 DEF HwFragments
  <2>2. Len(f) = 1 /\ DOMAIN f = 1 .. 1 /\ f[1] = [from |-> 0, to |-> len]
    BY <2>1
  <2>3. f[1].from = 0 /\ f[1].to = len
    BY <2>2
  <2> HIDE DEF f
  <2>4. \A i \in DOMAIN f : i = 1
    BY <2>2
  <2> QED
    BY <1>2, <2>2, <2>3, <2>4, HwAssumption DEF f
<1>3. CASE ~(len + HwHeader <= max)
  <2>1. PICK k : k = (len + per - 1) \div per
    OBVIOUS
  <2>2. len > per
    BY <1>1, <1>3, HwAssumption
  <2>3. /\ k \in Nat /\ k > 1 /\ k * per >= len
        /\ \A i \in 1 .. k : /\ (i - 1) * per \in Nat /\ (i - 1) * per < len
                             /\ i * per = (i - 1) * per + per
                             /\ i < k => i * per < len
    <3>1. HwSpread(len, per, k)
      BY <1>1, <2>1, <2>2, HwCount
    <3> QED
      BY <3>1 DEF HwSpread
  <2>4. f = [i \in 1 .. k |-> [from |-> (i - 1) * per, to |-> Min({i * per, len})]]
    BY <1>1, <1>3, <2>1 DEF HwFragments
  <2>5. DOMAIN f = 1 .. k /\ Len(f) = k
    BY <2>3, <2>4
  <2>6. \A i \in 1 .. k : f[i].from = (i - 1) * per /\ f[i].to = IF i < k THEN i * per ELSE len
    <3> SUFFICES ASSUME NEW i \in 1 .. k
                 PROVE  f[i].from = (i - 1) * per /\ f[i].to = IF i < k THEN i * per ELSE len
      OBVIOUS
    <3>1. f[i].from = (i - 1) * per /\ f[i].to = Min({i * per, len})
      BY <2>4
    <3>2. PICK x \in Nat : x = i * per
      BY <1>1, <2>3
    <3>3. Min({x, len}) = IF x <= len THEN x ELSE len
      BY <3>2, HwMin
    <3>4. CASE i < k
      <4>1. x < len
        BY <2>3, <3>2, <3>4
      <4> QED
        BY <3>1, <3>2, <3>3, <3>4, <4>1
    <3>5. CASE ~(i < k)
      <4>1. i = k /\ x >= len
        BY <2>3, <3>2, <3>5
      <4> QED
        BY <3>1, <3>2, <3>3, <3>5, <4>1
    <3> QED
      BY <3>4, <3>5
  <2> HIDE DEF f
  <2>7. f[1].from = 0 /\ f[k].to = len
    <3>1. 1 \in 1 .. k /\ k \in 1 .. k /\ (1 - 1) * per = 0
      BY <1>1, <2>3
    <3>2. f[1].from = (1 - 1) * per
      BY <2>6, <3>1
    <3>3. f[k].to = len
      BY <2>3, <2>6, <3>1
    <3> QED
      BY <3>1, <3>2, <3>3
  <2>8. ASSUME NEW i \in 1 .. k
        PROVE  /\ i > 1 => f[i].from = f[i - 1].to
               /\ f[i].to - f[i].from <= per /\ f[i].from < f[i].to
    <3>1. f[i].from = (i - 1) * per /\ f[i].to = IF i < k THEN i * per ELSE len
      BY <2>6
    <3>2. PICK x \in Nat : x = (i - 1) * per /\ x < len /\ i * per = x + per /\ (i < k => i * per < len)
      BY <2>3
    <3>3. ASSUME i < k
          PROVE  f[i].to - f[i].from <= per /\ f[i].from < f[i].to
      <4>1. f[i].from = x /\ f[i].to = x + per
        BY <3>1, <3>2, <3>3
      <4>2. (x + per) - x <= per /\ x < x + per
        BY <1>1, <3>2
      <4> QED
        BY <4>1, <4>2
    <3>4. ASSUME i = k
          PROVE  f[i].to - f[i].from <= per /\ f[i].from < f[i].to
      <4>1. len <= x + per
        BY <2>3, <3>2, <3>4
      <4>2. f[i].from = x /\ f[i].to = len
        BY <2>3, <3>1, <3>2, <3>4
      <4> QED
        BY <1>1, <3>2, <4>1, <4>2
    <3>5. ASSUME i > 1 PROVE f[i].from = f[i - 1].to
      <4>1. i - 1 \in 1 .. k /\ i - 1 < k
        BY <2>3, <2>8, <3>5
      <4>2. f[i - 1].to = (i - 1) * per
        BY <2>6, <4>1
      <4> QED
        BY <3>1, <4>2
    <3> QED
      BY <2>3, <2>8, <3>3, <3>4, <3>5
  <2>9. \A i \in DOMAIN f : f[i].from \in Nat /\ f[i].to \in Nat
    <3>1. \A i \in 1 .. k : (i - 1) * per \in Nat /\ i * per \in Nat
      BY <1>1, <2>3
    <3> QED
      BY <2>5, <2>6, <3>1
  <2>10. \A i \in DOMAIN f : f[i].to - f[i].from + HwHeader <= max
    BY <1>1, <2>5, <2>8, <2>9, HwAssumption
  <2> QED
    BY <2>3, <2>5, <2>7, <2>8, <2>10 DEF f
<1> QED
  BY <1>2, <1>3

\* fragment_udp_payload splits every payload.
LEMMA HwSplitsAll == HwSplits
<1> SUFFICES ASSUME NEW len \in HwSizes, NEW max \in HwHeader + 1..HwMax
             PROVE  LET f == HwFragments(len, max) IN
                    /\ f[1].from = 0 /\ f[Len(f)].to = len
                    /\ \A i \in DOMAIN f :
                         /\ i > 1 => f[i].from = f[i - 1].to
                         /\ f[i].to - f[i].from + HwHeader <= max /\ (len > 0 => f[i].from < f[i].to)
  BY DEF HwSplits
<1>1. len \in Nat /\ max \in Nat /\ max > HwHeader
  BY HwAssumption
<1> QED
  BY <1>1, HwFragmentsSplit

\* An entry of the map: as many parts as it says, those that are there of one packet.
HwParted(e) ==
    /\ DOMAIN e = {"of", "parts", "old"}
    /\ e.of \in Nat /\ e.old \in BOOLEAN
    /\ e.parts \in [1 .. e.of -> Nat]
    /\ \A i, j \in 1 .. e.of : e.parts[i] # 0 /\ e.parts[j] # 0 => e.parts[i] = e.parts[j]

\* A datagram in the network carries an id that is in use, and an id is of one packet.
HwNetSound ==
    /\ \A d \in hwNet : /\ d.pkt \in Nat \ {0} /\ d.of \in Nat /\ d.n \in 1 .. d.of
                        /\ d.id \in hwRecent
    /\ \A d, e \in hwNet : d.id = e.id => d.pkt = e.pkt

\* What an entry has of the packets that are under way: nothing, or the parts of the one
\* that has its id.
HwFresh(i, e) ==
    /\ i \in hwRecent
    /\ \A d \in hwNet : d.id = i => \A j \in 1 .. e.of : e.parts[j] \in {0, d.pkt}

\* An entry that is not past its timeout belongs to the packet its id is used for.
HwDefragSound ==
    \A i \in DOMAIN hwDefrag :
        /\ HwParted(hwDefrag[i])
        /\ ~hwDefrag[i].old => HwFresh(i, hwDefrag[i])

\* What makes HwOnePacket inductive.
HwUdpInv == HwNetSound /\ HwDefragSound /\ HwOnePacket

\* A packet is sent under an id that is not in use.
LEMMA HwSendKeeps ==
    ASSUME HwUdpInv, NEW p \in DOMAIN HwPackets, NEW id, HwSend(p, id)
    PROVE  HwUdpInv'
<1>1. p \in Nat \ {0}
  BY HwAssumption
<1>2. PICK of : of = Len(HwFragments(HwPackets[p], HwMax))
  OBVIOUS
<1>3. of \in Nat
  <2>1. HwPackets[p] \in Nat /\ HwMax \in Nat /\ HwMax > HwHeader
    BY HwAssumption
  <2> QED
    BY <1>2, <2>1, HwFragmentsSplit
<1>4. /\ hwNet' \subseteq hwNet \cup {[pkt |-> p, id |-> id, n |-> n, of |-> of] : n \in 1 .. of}
      /\ hwRecent' = hwRecent \cup {id} /\ hwDefrag' = hwDefrag /\ hwOut' = hwOut
      /\ id \notin hwRecent
  BY <1>2 DEF HwSend
<1>5. \A d \in hwNet' : d \in hwNet \/ (d.pkt = p /\ d.id = id /\ d.of = of /\ d.n \in 1 .. of)
  BY <1>4
<1>6. \A d \in hwNet : d.id # id
  BY <1>4 DEF HwUdpInv, HwNetSound
<1>7. HwNetSound'
  <2>1. \A d \in hwNet' : /\ d.pkt \in Nat \ {0} /\ d.of \in Nat /\ d.n \in 1 .. d.of
                          /\ d.id \in hwRecent'
    BY <1>1, <1>3, <1>4, <1>5 DEF HwUdpInv, HwNetSound
  <2>2. \A d, e \in hwNet' : d.id = e.id => d.pkt = e.pkt
    BY <1>5, <1>6 DEF HwUdpInv, HwNetSound
  <2> QED
    BY <2>1, <2>2 DEF HwNetSound
<1>8. HwDefragSound'
  <2> SUFFICES ASSUME NEW i \in DOMAIN hwDefrag
               PROVE  HwParted(hwDefrag[i]) /\ (~hwDefrag[i].old => HwFresh(i, hwDefrag[i])')
    BY <1>4 DEF HwDefragSound, HwFresh
  <2>1. HwParted(hwDefrag[i])
    BY DEF HwUdpInv, HwDefragSound
  <2>2. ASSUME ~hwDefrag[i].old PROVE HwFresh(i, hwDefrag[i])'
    <3>1. HwFresh(i, hwDefrag[i])
      BY <2>2 DEF HwUdpInv, HwDefragSound
    <3>2. i # id
      BY <1>4, <3>1 DEF HwFresh
    <3> QED
      BY <1>4, <1>5, <3>1, <3>2 DEF HwFresh
  <2> QED
    BY <2>1, <2>2
<1> QED
  BY <1>4, <1>7, <1>8 DEF HwUdpInv, HwOnePacket

\* An entry stays sound while datagrams leave the network.
LEMMA HwLoseKeeps ==
    ASSUME HwUdpInv, NEW d \in hwNet, HwLose(d)
    PROVE  HwUdpInv'
<1>1. hwNet' \subseteq hwNet /\ hwRecent' = hwRecent /\ hwDefrag' = hwDefrag /\ hwOut' = hwOut
  BY DEF HwLose
<1>2. HwNetSound'
  BY <1>1 DEF HwUdpInv, HwNetSound
<1>3. HwDefragSound'
  <2> SUFFICES ASSUME NEW i \in DOMAIN hwDefrag
               PROVE  HwParted(hwDefrag[i]) /\ (~hwDefrag[i].old => HwFresh(i, hwDefrag[i])')
    BY <1>1 DEF HwDefragSound, HwFresh
  <2>1. HwParted(hwDefrag[i]) /\ (~hwDefrag[i].old => HwFresh(i, hwDefrag[i]))
    BY DEF HwUdpInv, HwDefragSound
  <2> QED
    BY <1>1, <2>1 DEF HwFresh
<1> QED
  BY <1>1, <1>2, <1>3 DEF HwUdpInv, HwOnePacket

\* The timeout passes: no id is in use, and no entry is fresh.
LEMMA HwTickKeeps ==
    ASSUME HwUdpInv, HwTick
    PROVE  HwUdpInv'
<1>1. HwNetSound' /\ hwOut' = hwOut
  BY DEF HwTick, HwNetSound
<1>2. HwDefragSound'
  <2>1. /\ DOMAIN hwDefrag' = DOMAIN hwDefrag
        /\ \A i \in DOMAIN hwDefrag : hwDefrag'[i] = [hwDefrag[i] EXCEPT !.old = TRUE]
    BY DEF HwTick
  <2> SUFFICES ASSUME NEW i \in DOMAIN hwDefrag
               PROVE  HwParted(hwDefrag'[i]) /\ hwDefrag'[i].old
    BY <2>1 DEF HwDefragSound
  <2>2. PICK e : e = hwDefrag[i] /\ HwParted(e)
    BY DEF HwUdpInv, HwDefragSound
  <2>3. PICK g : g = [e EXCEPT !.old = TRUE] /\ g = hwDefrag'[i]
    BY <2>1, <2>2
  <2>4. DOMAIN g = DOMAIN e /\ g.of = e.of /\ g.parts = e.parts /\ g.old = TRUE
    BY <2>2, <2>3 DEF HwParted
  <2>5. HwParted(g)
    <3>1. g.old \in BOOLEAN
      BY <2>4, Zenon
    <3>2. g.of \in Nat /\ g.parts \in [1 .. g.of -> Nat] /\ DOMAIN g = {"of", "parts", "old"}
      BY <2>2, <2>4 DEF HwParted
    <3>3. \A x, y \in 1 .. g.of : g.parts[x] # 0 /\ g.parts[y] # 0 => g.parts[x] = g.parts[y]
      BY <2>2, <2>4 DEF HwParted
    <3> QED
      BY <3>1, <3>2, <3>3, Zenon DEF HwParted
  <2>6. g.old
    BY <2>4, Zenon
  <2> QED
    BY <2>3, <2>5, <2>6, Zenon
<1> QED
  BY <1>1, <1>2 DEF HwUdpInv, HwOnePacket

\* The entry a fragment goes to has nothing of another packet.
LEMMA HwEntrySound ==
    ASSUME HwUdpInv, NEW d \in hwNet
    PROVE  /\ HwKept \subseteq DOMAIN hwDefrag /\ HwParted(HwEntry(d))
           /\ HwEntry(d).of = d.of => ~HwEntry(d).old /\ HwFresh(d.id, HwEntry(d))
<1>1. HwKept \subseteq DOMAIN hwDefrag
  BY DEF HwKept
<1>2. d.pkt \in Nat \ {0} /\ d.of \in Nat /\ d.n \in 1 .. d.of /\ d.id \in hwRecent
  BY DEF HwUdpInv, HwNetSound
<1>3. CASE HwEntry(d) = HwEmpty(d)
  <2>1. PICK e : e = HwEntry(d) /\ e = [of |-> d.of, parts |-> [i \in 1..d.of |-> 0], old |-> FALSE]
    BY <1>3 DEF HwEmpty
  <2>2. e.of = d.of /\ e.old = FALSE /\ e.parts = [i \in 1..d.of |-> 0]
    BY <2>1
  <2>3. \A j \in 1 .. d.of : e.parts[j] = 0
    BY <2>2
  <2>4. HwParted(e)
    BY <1>2, <2>1, <2>2, <2>3 DEF HwParted
  <2>5. HwFresh(d.id, e)
    BY <1>2, <2>2, <2>3 DEF HwFresh
  <2> QED
    BY <1>1, <2>1, <2>2, <2>4, <2>5
<1>4. CASE d.id \in HwKept /\ ~(hwDefrag[d.id].old /\ hwDefrag[d.id].of = d.of)
  <2>1. HwEntry(d) = hwDefrag[d.id]
    BY <1>4 DEF HwEntry
  <2>2. HwParted(hwDefrag[d.id]) /\ (~hwDefrag[d.id].old => HwFresh(d.id, hwDefrag[d.id]))
    BY <1>1, <1>4 DEF HwUdpInv, HwDefragSound
  <2> QED
    BY <1>1, <1>4, <2>1, <2>2
<1> QED
  BY <1>3, <1>4 DEF HwEntry

\* A datagram arrives: it fills an entry of its own packet, or completes it.
LEMMA HwDatagramKeeps ==
    ASSUME HwUdpInv, NEW d \in hwNet, HwDatagram(d)
    PROVE  HwUdpInv'
<1> DEFINE was == HwEntry(d)
           now == [was EXCEPT !.parts[d.n] = d.pkt]
           whole == \A i \in DOMAIN now.parts : now.parts[i] # 0
<1>1. hwNet' \subseteq hwNet /\ hwRecent' = hwRecent
  BY DEF HwDatagram
<1>2. HwNetSound'
  BY <1>1 DEF HwUdpInv, HwNetSound
<1>3. d.pkt \in Nat \ {0} /\ d.of \in Nat /\ d.n \in 1 .. d.of /\ d.id \in hwRecent
  BY DEF HwUdpInv, HwNetSound
<1>4. /\ HwKept \subseteq DOMAIN hwDefrag /\ HwParted(was)
      /\ was.of = d.of => ~was.old /\ HwFresh(d.id, was)
  BY HwEntrySound
<1>5. ASSUME NEW i, NEW e, HwFresh(i, e)
      PROVE  HwFresh(i, e)'
  BY <1>1, <1>5 DEF HwFresh
<1>6. ASSUME NEW i \in DOMAIN hwDefrag
      PROVE  \A e : e = hwDefrag[i] => HwParted(e) /\ (~e.old => HwFresh(i, e)')
  <2>1. HwParted(hwDefrag[i]) /\ (~hwDefrag[i].old => HwFresh(i, hwDefrag[i]))
    BY DEF HwUdpInv, HwDefragSound
  <2> QED
    BY <1>5, <2>1
<1>7. CASE d.of = 1
  <2>1. hwOut' = hwOut \cup {<<<<d.pkt, 1>>>>} /\ hwDefrag' = hwDefrag
    BY <1>7 DEF HwDatagram
  <2>2. HwDefragSound'
    BY <1>6, <2>1 DEF HwDefragSound
  <2>3. HwOnePacket'
    BY <2>1 DEF HwUdpInv, HwOnePacket
  <2> QED
    BY <1>2, <2>2, <2>3 DEF HwUdpInv
<1>8. CASE d.of # 1 /\ was.of # d.of
  <2>1. hwDefrag' = [i \in HwKept |-> hwDefrag[i]] /\ hwOut' = hwOut
    BY <1>8 DEF HwDatagram
  <2>2. DOMAIN hwDefrag' = HwKept /\ \A i \in HwKept : hwDefrag'[i] = hwDefrag[i]
    BY <2>1
  <2>3. HwDefragSound'
    BY <1>4, <1>6, <2>2 DEF HwDefragSound
  <2> QED
    BY <1>2, <2>1, <2>3 DEF HwUdpInv, HwOnePacket
<1>9. CASE d.of # 1 /\ was.of = d.of
  <2>1. PICK o, f : o = was.of /\ f = was.parts
    OBVIOUS
  <2>2. o = d.of /\ ~was.old /\ HwFresh(d.id, was)
    BY <1>4, <1>9, <2>1
  <2>3. f \in [1 .. o -> Nat] /\ was.old = FALSE /\ o \in Nat /\ DOMAIN was = {"of", "parts", "old"}
    BY <1>4, <2>1, <2>2 DEF HwParted
  <2>4. \A j \in 1 .. o : f[j] \in {0, d.pkt}
    BY <2>1, <2>2 DEF HwFresh
  <2>5. PICK g : g = [f EXCEPT ![d.n] = d.pkt]
    OBVIOUS
  <2>6. g \in [1 .. o -> Nat] /\ \A j \in 1 .. o : g[j] \in {0, d.pkt}
    BY <1>3, <2>2, <2>3, <2>4, <2>5
  <2>7. PICK e : e = now
    OBVIOUS
  <2>8. DOMAIN e = DOMAIN was /\ e.of = o /\ e.parts = g /\ e.old = FALSE
    BY <2>1, <2>3, <2>5, <2>7
  <2>9. HwParted(e)
    BY <2>3, <2>6, <2>8 DEF HwParted
  <2>10. HwFresh(d.id, e)'
    BY <1>1, <1>3, <2>6, <2>8 DEF HwFresh, HwUdpInv, HwNetSound
  <2>11. CASE whole
    <3>1. /\ hwOut' = hwOut \cup {[i \in DOMAIN now.parts |-> <<now.parts[i], i>>]}
          /\ hwDefrag' = [i \in HwKept \ {d.id} |-> hwDefrag[i]]
      BY <1>9, <2>11 DEF HwDatagram
    <3>2. PICK out : out = [i \in DOMAIN now.parts |-> <<now.parts[i], i>>] /\ hwOut' = hwOut \cup {out}
      BY <3>1
    <3>3. DOMAIN out = 1 .. o /\ \A i \in 1 .. o : out[i] = <<g[i], i>>
      BY <2>6, <2>7, <2>8, <3>2
    <3>4. \A i \in 1 .. o : g[i] = d.pkt
      BY <2>6, <2>7, <2>8, <2>11
    <3> HIDE DEF now
    <3>5. HwOnePacket'
      <4>1. \A i, j \in DOMAIN out : out[i][1] = out[j][1]
        BY <3>3, <3>4
      <4>2. \A x \in hwOut' : x \in hwOut \/ x = out
        BY <3>2
      <4>3. \A x \in hwOut : \A i, j \in DOMAIN x : x[i][1] = x[j][1]
        BY DEF HwUdpInv, HwOnePacket
      <4>4. \A x \in hwOut' : \A i, j \in DOMAIN x : x[i][1] = x[j][1]
        <5> SUFFICES ASSUME NEW x \in hwOut'
                     PROVE  \A i, j \in DOMAIN x : x[i][1] = x[j][1]
          OBVIOUS
        <5>1. CASE x \in hwOut
          BY <4>3, <5>1
        <5>2. CASE x = out
          BY <4>1, <5>2
        <5> QED
          BY <4>2, <5>1, <5>2
      <4> QED
        BY <4>4 DEF HwOnePacket
    <3>6. /\ DOMAIN hwDefrag' = HwKept \ {d.id}
          /\ \A i \in HwKept \ {d.id} : hwDefrag'[i] = hwDefrag[i]
      BY <3>1
    <3>7. HwDefragSound'
      BY <1>4, <1>6, <3>6 DEF HwDefragSound
    <3> QED
      BY <1>2, <3>5, <3>7 DEF HwUdpInv
  <2>12. CASE ~whole
    <3>1. hwDefrag' = HwPut(HwKept, d.id, e) /\ hwOut' = hwOut
      BY <1>9, <2>7, <2>12 DEF HwDatagram
    <3>2. /\ DOMAIN hwDefrag' = HwKept \cup {d.id} /\ hwDefrag'[d.id] = e
          /\ \A i \in HwKept \ {d.id} : hwDefrag'[i] = hwDefrag[i]
      BY <3>1 DEF HwPut
    <3>3. HwDefragSound'
      BY <1>4, <1>6, <2>9, <2>10, <3>2 DEF HwDefragSound
    <3> QED
      BY <1>2, <3>1, <3>3 DEF HwUdpInv, HwOnePacket
  <2> QED
    BY <2>11, <2>12
<1> QED
  BY <1>7, <1>8, <1>9

\* The datagrams of either end keep the invariant.
LEMMA HwDatagramsSound ==
    ASSUME HwUdpInv, HwDatagrams
    PROVE  HwUdpInv'
BY HwSendKeeps, HwLoseKeeps, HwDatagramKeeps, HwTickKeeps DEF HwDatagrams

\* All of it: what is written, what is read, and what is put together.
HwInv == HwUpInv /\ HwDnInv /\ HwUdpInv

\* A new stream and a new session satisfy the invariant.
LEMMA HwInitInv == HwInit => HwInv
<1> SUFFICES ASSUME HwInit PROVE HwInv
  OBVIOUS
<1>1. HwUpInv
  <2>1. HwReqs \in Seq(HwUpSyms)
    BY HwAssumption, SeqDef DEF HwReqs, HwUpSyms
  <2>2. HwUp \in Seq(HwUpSyms)
    <3>1. {HwUp[i] : i \in DOMAIN HwUp} \subseteq HwUpSyms
      BY DEF HwUpSyms
    <3> QED
      BY <3>1, HwAssumption, SeqMonotonic
  <2>3. hwUp = <<>> /\ hwReq = HwReqs /\ hwLeft = HwUp
    BY DEF HwInit, HwReqs
  <2>4. HwReqs \o HwUp \in Seq(HwUpSyms)
    BY <2>1, <2>2, ConcatProperties
  <2>5. <<>> \o (HwReqs \o HwUp) = HwReqs \o HwUp /\ <<>> \in Seq(HwUpSyms)
    BY <2>4, ConcatEmptySeq, EmptySeq
  <2> QED
    BY <2>1, <2>2, <2>3, <2>5 DEF HwUpInv
<1>2. HwDnInv
  BY EmptySeq DEF HwInit, HwDnInv, HwSteps
<1>3. HwUdpInv
  <2>1. DOMAIN hwDefrag = {}
    BY DEF HwInit
  <2> QED
    BY <2>1 DEF HwInit, HwUdpInv, HwNetSound, HwDefragSound, HwOnePacket
<1> QED
  BY <1>1, <1>2, <1>3 DEF HwInv

\* Every step keeps it.
LEMMA HwStepKeeps == HwInv /\ [HwStream \/ HwDatagrams]_hwVars => HwInv'
<1> SUFFICES ASSUME HwInv, [HwStream \/ HwDatagrams]_hwVars
             PROVE  HwInv'
  OBVIOUS
<1> USE DEF HwInv
<1>1. ASSUME UNCHANGED <<hwReq, hwLeft, hwUp>> PROVE HwUpInv'
  BY <1>1 DEF HwUpInv
<1>2. ASSUME UNCHANGED <<hwAns, hwDn, hwStep, hwBuf, hwGot>> PROVE HwDnInv'
  BY <1>2 DEF HwDnInv, HwUnderWay
<1>3. ASSUME UNCHANGED hwUdp PROVE HwUdpInv'
  BY <1>3 DEF hwUdp, HwUdpInv, HwNetSound, HwDefragSound, HwFresh, HwOnePacket
<1>4. \A n \in 1..HwAhead : n \in Nat \ {0}
  BY HwAssumption
<1>5. ASSUME NEW n \in 1..HwAhead, HwWrite(n) PROVE HwInv'
  <2>1. HwUpInv'
    BY <1>4, <1>5, HwWriteKeeps
  <2>2. UNCHANGED <<hwAns, hwDn, hwStep, hwBuf, hwGot>> /\ UNCHANGED hwUdp
    BY <1>5 DEF HwWrite
  <2> QED
    BY <1>2, <1>3, <2>1, <2>2
<1>6. ASSUME NEW n \in 1..HwAhead, HwPull(n) PROVE HwInv'
  <2>1. HwDnInv'
    BY <1>4, <1>6, HwPullKeeps
  <2>2. UNCHANGED <<hwReq, hwLeft, hwUp>> /\ UNCHANGED hwUdp
    BY <1>6 DEF HwPull
  <2> QED
    BY <1>1, <1>3, <2>1, <2>2
<1>7. ASSUME NEW n \in 1..HwAhead, HwRead(n) PROVE HwInv'
  <2>1. HwDnInv'
    BY <1>4, <1>7, HwReadKeeps
  <2>2. UNCHANGED <<hwReq, hwLeft, hwUp>> /\ UNCHANGED hwUdp
    BY <1>7 DEF HwRead
  <2> QED
    BY <1>1, <1>3, <2>1, <2>2
<1>8. ASSUME NEW r \in HwResponses, HwAnswer(r) PROVE HwInv'
  <2>1. HwDnInv'
    BY <1>8, HwAnswerKeeps
  <2>2. UNCHANGED <<hwReq, hwLeft, hwUp>> /\ UNCHANGED hwUdp
    BY <1>8 DEF HwAnswer
  <2> QED
    BY <1>1, <1>3, <2>1, <2>2
<1>9. ASSUME HwParse PROVE HwInv'
  <2>1. HwDnInv'
    BY <1>9, HwParseKeeps
  <2>2. UNCHANGED <<hwReq, hwLeft, hwUp>> /\ UNCHANGED hwUdp
    BY <1>9 DEF HwParse
  <2> QED
    BY <1>1, <1>3, <2>1, <2>2
<1>10. ASSUME HwSurface PROVE HwInv'
  <2>1. UNCHANGED <<hwAns, hwDn, hwStep, hwBuf, hwGot>> /\ UNCHANGED <<hwReq, hwLeft, hwUp>> /\ UNCHANGED hwUdp
    BY <1>10 DEF HwSurface
  <2> QED
    BY <1>1, <1>2, <1>3, <2>1
<1>11. ASSUME HwDatagrams PROVE HwInv'
  <2>1. HwUdpInv'
    BY <1>11, HwDatagramsSound
  <2>2. UNCHANGED hwTcp
    BY <1>11 DEF HwDatagrams, HwSend, HwLose, HwDatagram, HwTick
  <2>3. UNCHANGED <<hwAns, hwDn, hwStep, hwBuf, hwGot>> /\ UNCHANGED <<hwReq, hwLeft, hwUp>>
    BY <2>2 DEF hwTcp
  <2> QED
    BY <1>1, <1>2, <2>1, <2>3
<1>12. ASSUME UNCHANGED hwVars PROVE HwInv'
  BY <1>1, <1>2, <1>3, <1>12 DEF hwVars, hwTcp
<1> QED
  BY <1>5, <1>6, <1>7, <1>8, <1>9, <1>10, <1>11, <1>12 DEF HwStream

\* Hysteria2 streams and datagrams (Hy2TcpStream, process_udp_datagram): the server reads the
\* request and then what was written, the reader gets the payload behind the response and
\* nothing of a refused one, and no packet is put together from fragments of two, however
\* the stream splits and whatever the network loses or reorders, for any request, response,
\* payload and read-ahead, any number of packets and ids and any size of datagrams; and the
\* fragments of every payload cover it.
THEOREM HwSafe == HwInit /\ [][HwStream \/ HwDatagrams]_hwVars => []HwFaithful
<1>1. HwInv => HwFaithful
  BY HwStreamSound, HwSplitsAll DEF HwInv, HwUdpInv, HwFaithful
<1> QED
  BY <1>1, HwInitInv, HwStepKeeps, PTL

-----------------------------------------------------------------------------
(* The two ends of a VMess connection read what was written *)

\* Two sequences in a row.
LEMMA VmPut ==
    ASSUME NEW S, NEW x \in Seq(S), NEW y \in Seq(S)
    PROVE  /\ x \o y \in Seq(S) /\ Len(x) \in Nat /\ Len(y) \in Nat /\ Len(x \o y) = Len(x) + Len(y)
           /\ \A i \in 1..Len(x) : (x \o y)[i] = x[i]
           /\ \A i \in 1..Len(y) : (x \o y)[Len(x) + i] = y[i]
  BY ConcatProperties, LenProperties

\* A number repeated.
LEMMA VmRepeat ==
    ASSUME NEW u \in Nat, NEW v \in Nat
    PROVE  \E z : z = [i \in 1..u |-> v] /\ z \in Seq(Nat) /\ Len(z) = u
<1>1. [i \in 1..u |-> v] \in Seq(Nat) /\ Len([i \in 1..u |-> v]) = u
  BY SeqDef, LenProperties
<1> QED
  BY <1>1, Zenon

\* The address a request carries, and where it lies in it.
LEMMA VmAddrShape ==
    ASSUME NEW dst \in 0..255
    PROVE  /\ VmAddr(dst) \in Seq(Nat)
           /\ IF dst = 0 THEN Len(VmAddr(dst)) = 6 /\ VmAddr(dst)[2] = 1
              ELSE Len(VmAddr(dst)) = 3 + dst /\ VmAddr(dst)[2] = 2 /\ VmAddr(dst)[3] = dst
<1>1. PICK p : p = <<443>> /\ p \in Seq(Nat) /\ Len(p) = 1
  <2>1. <<443>> \in Seq(Nat) /\ Len(<<443>>) = 1
    OBVIOUS
  <2> QED
    BY <2>1, Zenon
<1>2. CASE dst = 0
  <2>1. PICK x : x = <<1, 9, 9, 9, 9>> /\ x \in Seq(Nat) /\ Len(x) = 5 /\ x[1] = 1
    <3>1. <<1, 9, 9, 9, 9>> \in Seq(Nat) /\ Len(<<1, 9, 9, 9, 9>>) = 5 /\ <<1, 9, 9, 9, 9>>[1] = 1
      OBVIOUS
    <3> QED
      BY <3>1, Zenon
  <2>2. VmAddr(dst) = p \o x
    BY <1>1, <1>2, <2>1 DEF VmAddr
  <2>3. p \o x \in Seq(Nat) /\ Len(p \o x) = 1 + 5 /\ (p \o x)[2] = x[1]
    BY <1>1, <2>1, VmPut
  <2>4. VmAddr(dst) \in Seq(Nat) /\ Len(VmAddr(dst)) = 6 /\ VmAddr(dst)[2] = 1
    BY <2>1, <2>2, <2>3
  <2> QED
    BY <1>2, <2>4, Zenon
<1>3. CASE dst # 0
  <2>1. PICK z : z = [i \in 1..dst |-> 7] /\ z \in Seq(Nat) /\ Len(z) = dst
    <3>1. dst \in Nat
      OBVIOUS
    <3> QED
      BY <3>1, VmRepeat
  <2>2. PICK y : y = <<2, dst>> /\ y \in Seq(Nat) /\ Len(y) = 2 /\ y[1] = 2 /\ y[2] = dst
    <3>1. <<2, dst>> \in Seq(Nat) /\ Len(<<2, dst>>) = 2 /\ <<2, dst>>[1] = 2 /\ <<2, dst>>[2] = dst
      OBVIOUS
    <3> QED
      BY <3>1, Zenon
  <2>3. PICK x : x = y \o z
    OBVIOUS
  <2>4. x \in Seq(Nat) /\ Len(x) = 2 + dst /\ x[1] = y[1] /\ x[2] = y[2]
    BY <2>1, <2>2, <2>3, VmPut
  <2>5. VmAddr(dst) = p \o x
    BY <1>1, <1>3, <2>1, <2>2, <2>3 DEF VmAddr
  <2>6. p \o x \in Seq(Nat) /\ Len(p \o x) = 1 + (2 + dst) /\ (p \o x)[2] = x[1] /\ (p \o x)[3] = x[2]
    BY <1>1, <2>4, VmPut
  <2> QED
    BY <1>3, <2>2, <2>4, <2>5, <2>6
<1> QED
  BY <1>2, <1>3

\* The inbound reads the target a request was made for, whatever its padding.
LEMMA VmRequestParses ==
    ASSUME NEW job, NEW pad \in Nat, job.cmd \in {1, 2}, job.dst \in 0..255
    PROVE  VmRequest(job, pad) \in Seq(Nat) /\ VmParse(VmRequest(job, pad)) = job.dst
<1>1. PICK dst \in 0..255 : dst = job.dst
  OBVIOUS
<1>2. PICK a : a = VmAddr(dst) /\ a \in Seq(Nat) /\ IF dst = 0 THEN Len(a) = 6 /\ a[2] = 1
                            ELSE Len(a) = 3 + dst /\ a[2] = 2 /\ a[3] = dst
  BY VmAddrShape
<1>3. PICK f : f = <<pad, job.cmd>> /\ f \in Seq(Nat) /\ Len(f) = 2 /\ f[1] = pad
  <2>1. <<pad, job.cmd>> \in Seq(Nat) /\ Len(<<pad, job.cmd>>) = 2 /\ <<pad, job.cmd>>[1] = pad
    OBVIOUS
  <2> QED
    BY <2>1, Zenon
<1>4. PICK z : z = [i \in 1..pad |-> 5] /\ z \in Seq(Nat) /\ Len(z) = pad
  BY VmRepeat
<1>5. PICK e : e = <<0, 0, 0, 0>> /\ e \in Seq(Nat) /\ Len(e) = 4
  <2>1. <<0, 0, 0, 0>> \in Seq(Nat) /\ Len(<<0, 0, 0, 0>>) = 4
    OBVIOUS
  <2> QED
    BY <2>1, Zenon
<1>6. PICK m \in Nat : m = Len(a)
  BY <1>2, LenProperties
<1>7. PICK fa : fa = f \o a /\ fa \in Seq(Nat) /\ Len(fa) = 2 + m /\ fa[1] = pad
                /\ \A i \in 1..m : fa[2 + i] = a[i]
  <2>1. f \o a \in Seq(Nat) /\ Len(f \o a) = 2 + m /\ (f \o a)[1] = f[1]
        /\ \A i \in 1..m : (f \o a)[2 + i] = a[i]
    BY <1>2, <1>3, <1>6, VmPut
  <2> QED
    BY <1>3, <2>1
<1>8. PICK fz : fz = fa \o z /\ fz \in Seq(Nat) /\ Len(fz) = 2 + m + pad
                /\ \A i \in 1..(2 + m) : fz[i] = fa[i]
  <2>1. fa \o z \in Seq(Nat) /\ Len(fa \o z) = 2 + m + pad
        /\ \A i \in 1..(2 + m) : (fa \o z)[i] = fa[i]
    BY <1>4, <1>6, <1>7, VmPut
  <2> QED
    BY <2>1
<1>9. PICK h : h = fz \o e /\ h \in Seq(Nat) /\ Len(h) = 6 + m + pad
               /\ \A i \in 1..(2 + m) : h[i] = fa[i]
  <2>1. fz \o e \in Seq(Nat) /\ Len(fz \o e) = (2 + m + pad) + 4
        /\ \A i \in 1..(2 + m + pad) : (fz \o e)[i] = fz[i]
    BY <1>5, <1>6, <1>8, VmPut
  <2> QED
    <3>1. Len(fz \o e) = 6 + m + pad
      BY <1>6, <2>1
    <3>2. \A i \in 1..(2 + m) : i \in 1..(2 + m + pad)
      BY <1>6
    <3>3. \A i \in 1..(2 + m) : (fz \o e)[i] = fa[i]
      BY <1>8, <2>1, <3>2, Zenon
    <3> QED
      BY <2>1, <3>1, <3>3, Zenon
<1>10. VmRequest(job, pad) = h
  BY <1>1, <1>2, <1>3, <1>4, <1>5, <1>7, <1>8, <1>9 DEF VmRequest
<1>11. h[1] = pad /\ Len(h) - 4 - h[1] = 2 + m
  <2>1. 1 \in 1..(2 + m)
    BY <1>6
  <2> QED
    <3>1. h[1] = pad
      BY <1>7, <1>9, <2>1, Zenon
    <3>2. Len(h) = 6 + m + pad
      BY <1>9, Zenon
    <3> QED
      BY <1>6, <3>1, <3>2
<1>12. Len(SubSeq(h, 3, 2 + m)) = m /\ \A i \in 1..m : SubSeq(h, 3, 2 + m)[i] = a[i]
  <2>1. \A i \in 3..2 + m : h[i] \in Nat
    <3>1. \A i \in 3..2 + m : i \in 1..Len(h)
      <4>1. Len(h) = 6 + m + pad
        BY <1>9, Zenon
      <4> QED
        BY <1>6, <4>1
    <3>2. h \in Seq(Nat)
      BY <1>9, Zenon
    <3> QED
      BY <3>1, <3>2, ElementOfSeq
  <2>2. m >= 1
    BY <1>2, <1>6
  <2>3. Len(SubSeq(h, 3, 2 + m)) = m /\ \A i \in 1..m : SubSeq(h, 3, 2 + m)[i] = h[3 + i - 1]
    BY <1>6, <2>1, <2>2, SubSeqProperties
  <2>4. \A i \in 1..m : h[2 + i] = fa[2 + i]
    <3>1. \A i \in 1..m : 2 + i \in 1..(2 + m)
      BY <1>6
    <3> QED
      BY <1>9, <3>1, Zenon
  <2>5. \A i \in 1..m : 3 + i - 1 = 2 + i
    BY <1>6
  <2> QED
    BY <1>6, <1>7, <2>3, <2>4, <2>5
<1>13. PICK b : b = SubSeq(h, 3, 2 + m)
  OBVIOUS
<1>14. VmParse(h) = IF Len(b) < 2 THEN VmNoTarget
                    ELSE IF b[2] = 1 THEN IF Len(b) < 6 THEN VmNoTarget ELSE 0
                    ELSE IF Len(b) < 3 \/ Len(b) < 3 + b[3] THEN VmNoTarget ELSE b[3]
  BY <1>11, <1>13 DEF VmParse
<1>15. Len(b) = m /\ \A i \in 1..m : b[i] = a[i]
  BY <1>12, <1>13
<1>16. VmParse(h) = dst
  <2>1. CASE dst = 0
    <3>1. m = 6 /\ a[2] = 1
      BY <1>2, <1>6, <2>1
    <3>2. Len(b) = 6 /\ b[2] = 1
      BY <1>15, <3>1
    <3> QED
      BY <1>14, <2>1, <3>2
  <2>2. CASE dst # 0
    BY <1>2, <1>6, <1>14, <1>15, <2>2
  <2> QED
    BY <2>1, <2>2
<1> QED
  BY <1>1, <1>9, <1>10, <1>16

\* The elements a + 1 to b of a sequence.
LEMMA VmPart ==
    ASSUME NEW S, NEW s \in Seq(S), NEW a \in Nat, NEW b \in Nat, a <= b, b <= Len(s)
    PROVE  /\ SubSeq(s, a + 1, b) \in Seq(S) /\ Len(SubSeq(s, a + 1, b)) = b - a
           /\ \A j \in 1..(b - a) : SubSeq(s, a + 1, b)[j] = s[a + j]
<1>1. \A i \in a + 1 .. b : s[i] \in S
  BY ElementOfSeq, LenProperties
<1>2. PICK m \in Int : m = a + 1
  OBVIOUS
<1>3. PICK t : t = SubSeq(s, m, b)
  OBVIOUS
<1>4. t \in Seq(S) /\ Len(t) = (IF m <= b THEN b - m + 1 ELSE 0) /\ \A i \in 1 .. b - m + 1 : t[i] = s[m + i - 1]
  BY <1>1, <1>2, <1>3, SubSeqProperties
<1>5. b - m + 1 = b - a /\ \A i \in 1..(b - a) : m + i - 1 = a + i
  BY <1>2
<1>6. (IF m <= b THEN b - m + 1 ELSE 0) = b - a
  BY <1>2
<1> QED
  BY <1>2, <1>3, <1>4, <1>5, <1>6

\* A part of a part of a sequence.
LEMMA VmPartOfPart ==
    ASSUME NEW S, NEW s \in Seq(S), NEW a \in Nat, NEW b \in Nat, a <= b, b <= Len(s),
           NEW x \in Nat, NEW y \in Nat, x <= y, y <= b - a
    PROVE  SubSeq(SubSeq(s, a + 1, b), x + 1, y) = SubSeq(s, a + x + 1, a + y)
<1>1. PICK t : t = SubSeq(s, a + 1, b)
  OBVIOUS
<1>2. t \in Seq(S) /\ Len(t) = b - a /\ \A j \in 1..(b - a) : t[j] = s[a + j]
  BY <1>1, VmPart
<1>3. PICK u : u = SubSeq(t, x + 1, y)
  OBVIOUS
<1>4. u \in Seq(S) /\ Len(u) = y - x /\ \A j \in 1..(y - x) : u[j] = t[x + j]
  BY <1>2, <1>3, VmPart
<1>5. PICK ax \in Nat : ax = a + x
  OBVIOUS
<1>6. PICK ay \in Nat : ay = a + y
  OBVIOUS
<1>7. ax <= ay /\ ay <= Len(s)
  BY <1>5, <1>6, LenProperties
<1>8. PICK v : v = SubSeq(s, ax + 1, ay)
  OBVIOUS
<1>9. v \in Seq(S) /\ Len(v) = ay - ax /\ \A j \in 1..(ay - ax) : v[j] = s[ax + j]
  BY <1>7, <1>8, VmPart
<1>10. Len(u) = Len(v) /\ Len(u) = y - x
  BY <1>4, <1>5, <1>6, <1>9
<1>11. ASSUME NEW j \in 1..Len(u) PROVE u[j] = v[j]
  <2>1. j \in 1..(y - x) /\ j \in 1..(ay - ax) /\ x + j \in 1..(b - a) /\ a + (x + j) = ax + j
    BY <1>5, <1>6, <1>10
  <2> QED
    BY <1>2, <1>4, <1>9, <2>1
<1>12. u = v
  BY <1>4, <1>9, <1>10, <1>11, SeqEqual
<1> QED
  BY <1>5, <1>6, <1>12, <1>1, <1>3, <1>8

-----------------------------------------------------------------------------

\* What may be on the way.
VmSymbol ==
    ({"len", "byte", "size"} \X Nat) \cup ({"tag"} \X (Nat \X Nat)) \cup ({"auth"} \X VmIds)
    \cup ({"request"} \X Seq(Nat)) \cup ({"response"} \X {"v"})

\* What a job writes: bytes or datagrams.
VmItems(job) == IF job.cmd = 1 THEN Nat ELSE Seq(Nat)

\* One direction of a job.
VmFlow(job, d) ==
    /\ job.cmd \in {1, 2} /\ job[d] \in Seq(VmItems(job))
    /\ job.cmd = 2 => \A i \in 1..Len(job[d]) : Len(job[d][i]) \in 1..VmChunk - 1

\* The states of a reader.
VmStates == {"prefix", "size", "request", "response", "len", "data", "hand", "closed", "error"}

\* The readers.
VmReaders == [st : VmStates, buf : Seq(VmSymbol), size : Nat, chunk : Seq(Nat), count : Nat]

\* The writers of a job.
VmWriters(job) == [todo : Seq(VmItems(job)), buf : Seq(VmSymbol), take : Nat, count : Nat]

\* What the chunk holds with which a writer passes from item a to item b.
VmUnit(job, d, a, b) == IF job.cmd = 2 THEN job[d][b] ELSE SubSeq(job[d], a + 1, b)

\* The chunk that holds c and was sealed with counter g, behind the first at symbols.
VmChunkAt(T, at, c, tag, g) ==
    /\ T[at + 1] = <<"len", Len(c) + tag>>
    /\ \A k \in 1..Len(c) : T[at + 1 + k] = <<"byte", c[k]>>
    /\ tag = 1 => T[at + 2 + Len(c)] = <<"tag", <<g, Len(c)>>>>

\* A chunk from one place to the next.
VmLink(job, d, tag, T, u, v, a, b, g, h) ==
    /\ a < b /\ (job.cmd = 2 => b = a + 1) /\ h = (g + 1) % VmNonces
    /\ v = u + 1 + Len(VmUnit(job, d, a, b)) + tag
    /\ VmChunkAt(T, u, VmUnit(job, d, a, b), tag, g)

\* All that was built: two symbols of a handshake and n chunks, chunk i from w[i] to w[i + 1],
\* which takes the writer from item q[i] to q[i + 1] and its counter from g[i] to g[i + 1].
VmFramed(job, d, tag, T, n, w, q, g) ==
    /\ T \in Seq(VmSymbol) /\ n \in Nat
    /\ w \in [0..n -> Nat] /\ q \in [0..n -> Nat] /\ g \in [0..n -> Nat]
    /\ w[0] = 2 /\ q[0] = 0 /\ g[0] = 0 /\ w[n] = Len(T)
    /\ d = "up" => T[2][2] \in Seq(Nat) /\ VmParse(T[2][2]) = job.dst
    /\ \A a \in 0..n : w[a] <= Len(T) /\ (a < n => w[a] < Len(T)) /\ q[a] <= Len(job[d])
    /\ \A a \in 0..n : a < n => VmLink(job, d, tag, T, w[a], w[a + 1], q[a], q[a + 1], g[a], g[a + 1])

\* What was built and is not read yet.
VmRest(V, T, p) == p \in Nat /\ p + Len(V) = Len(T) /\ \A j \in 1..Len(V) : V[j] = T[p + j]

\* A reader that has taken p symbols and is at chunk i.
VmReaderAt(job, d, r, taken, p, i, n, w, q, g) ==
    /\ r.st # "hand" => taken = SubSeq(job[d], 1, q[i]) /\ r.count = g[i]
    /\ r.st \in {"prefix", "request"} => Len(r.buf) <= 1
    /\ r.st \in {"prefix", "size"} => i = 0 /\ p = 0
    /\ r.st \in {"request", "response"} => i = 0 /\ p = 1
    /\ r.st = "len" => p = w[i]
    /\ r.st = "data" => i < n /\ p = w[i] + 1 /\ r.size + p = w[i + 1]
    /\ r.st = "hand" =>
         /\ i < n /\ p = w[i + 1] /\ r.count = g[i + 1]
         /\ Len(taken) \in Nat /\ q[i] <= Len(taken) /\ Len(taken) < q[i + 1]
         /\ taken = SubSeq(job[d], 1, Len(taken))
         /\ r.chunk = VmUnit(job, d, Len(taken), q[i + 1])

\* A writer whose last chunk, the n-th, is out or in its buffer.
VmWriterAt(job, d, o, n, q, g) ==
    /\ o.count = g[n]
    /\ o.buf = <<>> => o.todo = SubSeq(job[d], q[n] + 1, Len(job[d]))
    /\ o.buf # <<>> =>
         /\ n > 0 /\ o.todo = SubSeq(job[d], q[n - 1] + 1, Len(job[d]))
         /\ o.take = Len(VmUnit(job, d, q[n - 1], q[n]))

\* Reader, stream and writer of a direction.
VmLined(job, d, tag, r, syms, o, taken, T, n, w, q, g, p, i) ==
    /\ VmFramed(job, d, tag, T, n, w, q, g) /\ i \in 0..n
    /\ VmRest(r.buf \o (syms \o o.buf), T, p)
    /\ VmReaderAt(job, d, r, taken, p, i, n, w, q, g)
    /\ VmWriterAt(job, d, o, n, q, g)

\* They are in line, whatever the chunks and the places.
VmLine(job, d, tag, r, syms, o, taken) ==
    \E T, n, w, q, g, p, i : VmLined(job, d, tag, r, syms, o, taken, T, n, w, q, g, p, i)

\* What a chunk holds is never empty and fits in it.
LEMMA VmUnits ==
    ASSUME NEW job, NEW d, VmFlow(job, d), NEW a \in Nat, NEW b \in Nat, a < b, b <= Len(job[d])
    PROVE  /\ VmUnit(job, d, a, b) \in Seq(Nat) /\ Len(VmUnit(job, d, a, b)) \in Nat
           /\ Len(VmUnit(job, d, a, b)) > 0
           /\ job.cmd = 1 => Len(VmUnit(job, d, a, b)) = b - a
<1>1. CASE job.cmd = 1
  <2>1. job[d] \in Seq(Nat)
    BY <1>1 DEF VmFlow, VmItems
  <2>2. SubSeq(job[d], a + 1, b) \in Seq(Nat) /\ Len(SubSeq(job[d], a + 1, b)) = b - a
    BY <2>1, VmPart
  <2> QED
    BY <1>1, <2>2 DEF VmUnit
<1>2. CASE job.cmd = 2
  <2>1. job[d] \in Seq(Seq(Nat)) /\ \A i \in 1..Len(job[d]) : Len(job[d][i]) \in 1..VmChunk - 1
    BY <1>2 DEF VmFlow, VmItems
  <2>2. Len(job[d]) \in Nat
    BY <2>1, LenProperties
  <2>3. b \in 1..Len(job[d])
    BY <2>2
  <2>4. job[d][b] \in Seq(Nat) /\ Len(job[d][b]) \in 1..VmChunk - 1
    BY <2>1, <2>3, ElementOfSeq
  <2>5. Len(job[d][b]) \in Nat /\ Len(job[d][b]) > 0
    BY <2>4, LenProperties
  <2> QED
    BY <1>2, <2>4, <2>5 DEF VmUnit
<1> QED
  BY <1>1, <1>2 DEF VmFlow

\* A function on 0..n with one value more.
VmMore(f, n, x) == [a \in 0..(n + 1) |-> IF a = n + 1 THEN x ELSE f[a]]

\* A chunk lies where it lay when symbols come behind it.
LEMMA VmChunkStays ==
    ASSUME NEW T \in Seq(VmSymbol), NEW B \in Seq(VmSymbol), NEW at \in Nat, NEW c \in Seq(Nat),
           NEW tag \in {0, 1}, NEW g, VmChunkAt(T, at, c, tag, g), at + 1 + Len(c) + tag <= Len(T)
    PROVE  VmChunkAt(T \o B, at, c, tag, g)
<1>1. PICK L \in Nat : L = Len(T)
  BY LenProperties
<1>2. PICK l \in Nat : l = Len(c)
  BY LenProperties
<1>3. \A i \in 1..L : (T \o B)[i] = T[i]
  BY <1>1, VmPut
<1>4. at + 1 \in 1..L /\ \A k \in 1..l : at + 1 + k \in 1..L
  BY <1>1, <1>2
<1>5. tag = 1 => at + 2 + l \in 1..L
  BY <1>1, <1>2
<1> QED
  BY <1>2, <1>3, <1>4, <1>5, Zenon DEF VmChunkAt

\* A chunk that is put behind others lies there.
LEMMA VmChunkPut ==
    ASSUME NEW T \in Seq(VmSymbol), NEW B \in Seq(VmSymbol), NEW c \in Seq(Nat),
           NEW tag \in {0, 1}, NEW g, VmChunkAt(B, 0, c, tag, g), Len(B) = 1 + Len(c) + tag
    PROVE  VmChunkAt(T \o B, Len(T), c, tag, g)
<1>1. PICK L \in Nat : L = Len(T)
  BY LenProperties
<1>2. PICK l \in Nat : l = Len(c)
  BY LenProperties
<1>3. \A i \in 1..(1 + l + tag) : (T \o B)[L + i] = B[i]
  BY <1>1, <1>2, VmPut
<1>4. 1 \in 1..(1 + l + tag) /\ \A k \in 1..l : 1 + k \in 1..(1 + l + tag) /\ L + (1 + k) = L + 1 + k
  BY <1>1, <1>2
<1>5. tag = 1 => 2 + l \in 1..(1 + l + tag) /\ L + (2 + l) = L + 2 + l
  BY <1>1, <1>2
<1>6. /\ B[1] = <<"len", l + tag>>
      /\ \A k \in 1..l : B[1 + k] = <<"byte", c[k]>>
      /\ tag = 1 => B[2 + l] = <<"tag", <<g, l>>>>
  <2>1. 0 + 1 = 1 /\ 0 + 2 + l = 2 + l /\ \A k \in 1..l : 0 + 1 + k = 1 + k
    BY <1>2
  <2> QED
    BY <1>2, <2>1, Zenon DEF VmChunkAt
<1>7. (T \o B)[L + 1] = <<"len", l + tag>>
  BY <1>3, <1>4, <1>6, Zenon
<1>8. ASSUME NEW k \in 1..l PROVE (T \o B)[L + 1 + k] = <<"byte", c[k]>>
  BY <1>3, <1>4, <1>6, Zenon
<1>9. tag = 1 => (T \o B)[L + 2 + l] = <<"tag", <<g, l>>>>
  BY <1>3, <1>5, <1>6, Zenon
<1> QED
  BY <1>1, <1>2, <1>7, <1>8, <1>9, Zenon DEF VmChunkAt

\* What was built, with one chunk more.
LEMMA VmExtend ==
    ASSUME NEW job, NEW d, NEW tag \in {0, 1}, VmFlow(job, d), NEW T, NEW n, NEW w, NEW q, NEW g,
           VmFramed(job, d, tag, T, n, w, q, g),
           NEW B \in Seq(VmSymbol), NEW b \in Nat, q[n] < b, b <= Len(job[d]),
           job.cmd = 2 => b = q[n] + 1,
           VmChunkAt(B, 0, VmUnit(job, d, q[n], b), tag, g[n]),
           Len(B) = 1 + Len(VmUnit(job, d, q[n], b)) + tag
    PROVE  VmFramed(job, d, tag, T \o B, n + 1, VmMore(w, n, Len(T) + Len(B)), VmMore(q, n, b),
                    VmMore(g, n, (g[n] + 1) % VmNonces))
<1>1. /\ T \in Seq(VmSymbol) /\ n \in Nat
      /\ w \in [0..n -> Nat] /\ q \in [0..n -> Nat] /\ g \in [0..n -> Nat]
      /\ w[0] = 2 /\ q[0] = 0 /\ g[0] = 0 /\ w[n] = Len(T)
      /\ d = "up" => T[2][2] \in Seq(Nat) /\ VmParse(T[2][2]) = job.dst
  BY DEF VmFramed
<1>2. \A a \in 0..n : w[a] <= Len(T) /\ (a < n => w[a] < Len(T)) /\ q[a] <= Len(job[d])
  BY DEF VmFramed
<1>3. \A a \in 0..n : a < n => VmLink(job, d, tag, T, w[a], w[a + 1], q[a], q[a + 1], g[a], g[a + 1])
  BY DEF VmFramed
<1>4. PICK L \in Nat : L = Len(T)
  BY <1>1, LenProperties
<1>5. PICK x \in Nat : x = q[n]
  BY <1>1
<1>6. PICK h \in Nat : h = (g[n] + 1) % VmNonces
  BY <1>1, VmAssumption
<1>7. PICK c : c = VmUnit(job, d, x, b)
  OBVIOUS
<1>8. c \in Seq(Nat) /\ Len(c) \in Nat
  BY <1>5, <1>7, VmUnits
<1>9. PICK M \in Nat : M = Len(T) + Len(B) /\ M = L + 1 + Len(c) + tag
  BY <1>4, <1>5, <1>7, <1>8
<1>10. PICK W : W = VmMore(w, n, M)
  OBVIOUS
<1>11. PICK Q : Q = VmMore(q, n, b)
  OBVIOUS
<1>12. PICK G : G = VmMore(g, n, h)
  OBVIOUS
<1>13. /\ W \in [0..(n + 1) -> Nat] /\ W[n + 1] = M /\ \A a \in 0..n : W[a] = w[a]
       /\ Q \in [0..(n + 1) -> Nat] /\ Q[n + 1] = b /\ \A a \in 0..n : Q[a] = q[a]
       /\ G \in [0..(n + 1) -> Nat] /\ G[n + 1] = h /\ \A a \in 0..n : G[a] = g[a]
  <2>1. n \in Nat /\ w \in [0..n -> Nat] /\ q \in [0..n -> Nat] /\ g \in [0..n -> Nat]
    BY <1>1, Zenon
  <2>2. W \in [0..(n + 1) -> Nat] /\ W[n + 1] = M /\ \A a \in 0..n : W[a] = w[a]
    BY <2>1, <1>10 DEF VmMore
  <2>3. Q \in [0..(n + 1) -> Nat] /\ Q[n + 1] = b /\ \A a \in 0..n : Q[a] = q[a]
    BY <2>1, <1>11 DEF VmMore
  <2>4. G \in [0..(n + 1) -> Nat] /\ G[n + 1] = h /\ \A a \in 0..n : G[a] = g[a]
    BY <2>1, <1>12 DEF VmMore
  <2> QED
    BY <2>2, <2>3, <2>4
<1>14. T \o B \in Seq(VmSymbol) /\ Len(T \o B) = M /\ \A a \in 1..L : (T \o B)[a] = T[a]
  BY <1>1, <1>4, <1>9, VmPut
<1>15. n \in 0..n /\ 0 \in 0..n /\ 2 \in 1..L
  BY <1>1, <1>2, <1>4
<1>16. d = "up" => (T \o B)[2][2] \in Seq(Nat) /\ VmParse((T \o B)[2][2]) = job.dst
  BY <1>1, <1>14, <1>15
<1>17. ASSUME NEW a \in 0..(n + 1)
       PROVE  W[a] <= M /\ (a < n + 1 => W[a] < M) /\ Q[a] <= Len(job[d])
  <2>1. CASE a = n + 1
    <3>1. W[a] = M /\ Q[a] = b
      BY <1>13, <2>1, Zenon
    <3>2. ~(a < n + 1)
      BY <1>1, <2>1
    <3> QED
      BY <1>9, <3>1, <3>2
  <2>2. CASE a \in 0..n
    <3>1. W[a] = w[a] /\ Q[a] = q[a]
      BY <1>13, <2>2, Zenon
    <3>2. w[a] <= L /\ q[a] <= Len(job[d])
      BY <1>2, <1>4, <2>2, Zenon
    <3>3. w[a] \in Nat
      BY <1>1, <2>2, Zenon
    <3>4. L < M
      BY <1>4, <1>8, <1>9
    <3> QED
      BY <1>4, <1>9, <3>1, <3>2, <3>3, <3>4
  <2> QED
    BY <1>1, <2>1, <2>2
<1>18. ASSUME NEW a \in 0..(n + 1), a < n + 1
       PROVE  VmLink(job, d, tag, T \o B, W[a], W[a + 1], Q[a], Q[a + 1], G[a], G[a + 1])
  <2>1. CASE a = n
    <3>1. W[a] = L /\ W[a + 1] = M /\ Q[a] = x /\ Q[a + 1] = b /\ G[a] = g[n] /\ G[a + 1] = h
      BY <1>1, <1>4, <1>5, <1>13, <1>15, <2>1
    <3>2. VmChunkAt(T \o B, L, c, tag, g[n])
      BY <1>1, <1>4, <1>5, <1>7, <1>8, VmChunkPut
    <3> QED
      BY <1>5, <1>6, <1>7, <1>9, <3>1, <3>2 DEF VmLink
  <2>2. CASE a # n
    <3>1. a \in 0..n /\ a + 1 \in 0..n /\ a < n
      BY <1>1, <1>18, <2>2
    <3>2. W[a] = w[a] /\ W[a + 1] = w[a + 1] /\ Q[a] = q[a] /\ Q[a + 1] = q[a + 1] /\ G[a] = g[a] /\ G[a + 1] = g[a + 1]
      BY <1>13, <3>1
    <3>3. VmLink(job, d, tag, T, w[a], w[a + 1], q[a], q[a + 1], g[a], g[a + 1])
      BY <1>3, <3>1
    <3>4. w[a + 1] <= Len(T) /\ q[a + 1] <= Len(job[d]) /\ w[a] \in Nat /\ q[a] \in Nat /\ q[a + 1] \in Nat
      BY <1>1, <1>2, <3>1
    <3>5. q[a] < q[a + 1]
      BY <3>3 DEF VmLink
    <3>6. VmUnit(job, d, q[a], q[a + 1]) \in Seq(Nat)
      BY <3>4, <3>5, VmUnits
    <3>7. PICK u : u = VmUnit(job, d, q[a], q[a + 1])
      OBVIOUS
    <3>8. VmChunkAt(T, w[a], u, tag, g[a]) /\ w[a + 1] = w[a] + 1 + Len(u) + tag
      BY <3>3, <3>7 DEF VmLink
    <3>9. VmChunkAt(T \o B, w[a], u, tag, g[a])
      BY <1>1, <3>4, <3>6, <3>7, <3>8, VmChunkStays
    <3> QED
      BY <3>2, <3>3, <3>7, <3>9 DEF VmLink
  <2> QED
    BY <2>1, <2>2
<1>19. W[0] = 2 /\ Q[0] = 0 /\ G[0] = 0
  BY <1>1, <1>13, <1>15
<1>20. VmFramed(job, d, tag, T \o B, n + 1, W, Q, G)
  <2>1. n + 1 \in Nat
    BY <1>1
  <2> QED
    BY <2>1, <1>13, <1>14, <1>16, <1>17, <1>18, <1>19 DEF VmFramed
<1> QED
  BY <1>6, <1>9, <1>10, <1>11, <1>12, <1>20

\* A function on 1..n is a sequence.
LEMMA VmFunction ==
    ASSUME NEW S, NEW n \in Nat, NEW f \in [1..n -> S]
    PROVE  f \in Seq(S) /\ Len(f) = n
  BY SeqDef, LenProperties

\* A writer with the items from a on is offered k of them: it takes a datagram, or bytes.
VmOffered(job, d, tag, a, todo, k, data, take) ==
    /\ VmFlow(job, d) /\ a <= Len(job[d])
    /\ todo = SubSeq(job[d], a + 1, Len(job[d])) /\ todo # <<>> /\ k \in 1..Len(todo)
    /\ data = (IF job.cmd = 2 THEN Head(todo) ELSE SubSeq(todo, 1, k))
    /\ take = Min({Len(data), VmChunk - tag})

\* The writer goes on to item b.
VmTaken(job, d, a, b, data, take) ==
    /\ a < b /\ b <= Len(job[d]) /\ (job.cmd = 2 => b = a + 1)
    /\ take = Len(VmUnit(job, d, a, b))
    /\ \A i \in 1..take : data[i] = VmUnit(job, d, a, b)[i]

\* What it takes is what one chunk holds.
LEMMA VmTakes ==
    ASSUME NEW job, NEW d, NEW tag \in {0, 1}, NEW a \in Nat, NEW todo, NEW k, NEW data, NEW take,
           VmOffered(job, d, tag, a, todo, k, data, take)
    PROVE  \E b \in Nat : VmTaken(job, d, a, b, data, take)
<1>1. PICK J : J = job[d] /\ J \in Seq(VmItems(job))
  BY DEF VmOffered, VmFlow
<1>2. PICK L \in Nat : L = Len(J) /\ a <= L
  BY <1>1, LenProperties DEF VmOffered
<1>3. todo = SubSeq(J, a + 1, L) /\ todo # <<>> /\ k \in 1..Len(todo)
  BY <1>1, <1>2 DEF VmOffered
<1>4. /\ todo \in Seq(VmItems(job)) /\ Len(todo) = L - a
      /\ \A j \in 1..(L - a) : todo[j] = J[a + j]
  BY <1>1, <1>2, <1>3, VmPart
<1>5. a < L
  BY <1>2, <1>4, <1>3, EmptySeq
<1>6. CASE job.cmd = 2
  <2>1. data = J[a + 1]
    <3>1. Head(todo) = todo[1]
      BY <1>4
    <3> QED
      BY <1>2, <1>4, <1>5, <1>6, <3>1 DEF VmOffered
  <2>2. Len(data) \in 1..VmChunk - 1
    <3>1. a + 1 \in 1..Len(J) /\ \A i \in 1..Len(J) : Len(J[i]) \in 1..VmChunk - 1
      BY <1>1, <1>2, <1>5, <1>6 DEF VmOffered, VmFlow
    <3> QED
      BY <2>1, <3>1
  <2>3. take = Len(data)
    <3>1. Len(data) \in Nat /\ VmChunk - tag \in Nat /\ Len(data) <= VmChunk - tag
      BY <2>2, VmAssumption
    <3> QED
      BY <3>1, HwMin DEF VmOffered
  <2>4. VmUnit(job, d, a, a + 1) = data
    BY <1>1, <1>6, <2>1 DEF VmUnit
  <2>5. a + 1 \in Nat /\ a < a + 1 /\ a + 1 <= Len(job[d])
    BY <1>1, <1>2, <1>5
  <2> QED
    BY <2>3, <2>4, <2>5 DEF VmTaken
<1>7. CASE job.cmd = 1
  <2>1. J \in Seq(Nat) /\ todo \in Seq(Nat)
    BY <1>1, <1>4, <1>7 DEF VmItems
  <2>2. data = SubSeq(todo, 1, k)
    BY <1>7 DEF VmOffered
  <2>3. k \in Nat /\ 0 < k /\ k <= L - a /\ Len(todo) = L - a
    BY <1>2, <1>4, <1>3
  <2>4. 0 + 1 = 1 /\ k - 0 = k /\ \A j \in 1..k : 0 + j = j
    BY <2>3
  <2>5. Len(data) = k /\ \A j \in 1..k : data[j] = todo[j]
    <3>1. PICK z \in Nat : z = 0
      OBVIOUS
    <3>2. z <= k /\ k <= Len(todo)
      BY <2>3, <3>1
    <3>3. Len(SubSeq(todo, z + 1, k)) = k - z /\ \A j \in 1..(k - z) : SubSeq(todo, z + 1, k)[j] = todo[z + j]
      BY <2>1, <2>3, <3>2, VmPart
    <3> QED
      BY <2>2, <2>4, <3>1, <3>3
  <2>6. take \in Nat /\ 0 < take /\ take <= k
    <3>1. VmChunk - tag \in Nat /\ VmChunk - tag > 0
      BY VmAssumption
    <3>2. take = IF k <= VmChunk - tag THEN k ELSE VmChunk - tag
      BY <2>3, <2>5, <3>1, HwMin DEF VmOffered
    <3> QED
      BY <2>3, <3>1, <3>2
  <2>7. PICK b \in Nat : b = a + take
    BY <2>6
  <2>8. a < b /\ b <= L /\ b - a = take
    BY <1>2, <2>3, <2>6, <2>7
  <2>9. PICK c : c = SubSeq(J, a + 1, b)
    OBVIOUS
  <2>10. Len(c) = take /\ \A j \in 1..take : c[j] = J[a + j]
    <3>1. a \in Nat /\ b \in Nat /\ a <= b /\ b <= Len(J)
      BY <1>2, <2>8
    <3>2. Len(c) = b - a /\ \A j \in 1..(b - a) : c[j] = J[a + j]
      <4>1. /\ Len(SubSeq(J, a + 1, b)) = b - a
            /\ \A j \in 1..(b - a) : SubSeq(J, a + 1, b)[j] = J[a + j]
        BY <2>1, <3>1, VmPart, Zenon
      <4> QED
        BY <2>9, <4>1, Zenon
    <3> QED
      BY <2>8, <3>2, Zenon
  <2>11. VmUnit(job, d, a, b) = c
    BY <1>1, <1>7, <2>9 DEF VmUnit
  <2>12. \A j \in 1..take : j \in 1..k /\ j \in 1..(L - a)
    BY <2>3, <2>6
  <2>13. \A j \in 1..take : data[j] = c[j]
    BY <1>4, <2>5, <2>10, <2>12
  <2> QED
    BY <1>1, <1>2, <1>7, <2>8, <2>10, <2>11, <2>13 DEF VmTaken
<1> QED
  BY <1>6, <1>7 DEF VmOffered, VmFlow

\* The chunk it makes of them.
VmSeals(c, tag, g, take, data, B) ==
    /\ take = Len(c) /\ \A i \in 1..take : data[i] = c[i]
    /\ B = <<<<"len", take + tag>>>> \o [i \in 1..take |-> <<"byte", data[i]>>]
           \o IF tag = 1 THEN <<<<"tag", <<g, take>>>>>> ELSE <<>>

\* It is a chunk.
LEMMA VmSealed ==
    ASSUME NEW c \in Seq(Nat), NEW tag \in {0, 1}, NEW g \in Nat, NEW take, NEW data, NEW B,
           VmSeals(c, tag, g, take, data, B)
    PROVE  B \in Seq(VmSymbol) /\ Len(B) = 1 + take + tag /\ VmChunkAt(B, 0, c, tag, g)
<1>1. take \in Nat /\ take = Len(c)
  BY LenProperties DEF VmSeals
<1>2. PICK x : x = <<<<"len", take + tag>>>>
  OBVIOUS
<1>3. x \in Seq(VmSymbol) /\ Len(x) = 1 /\ x[1] = <<"len", take + tag>>
  <2>1. <<"len", take + tag>> \in VmSymbol
    BY <1>1 DEF VmSymbol
  <2> QED
    BY <1>2, <2>1
<1>4. PICK y : y = [i \in 1..take |-> <<"byte", data[i]>>]
  OBVIOUS
<1>5. y \in Seq(VmSymbol) /\ Len(y) = take /\ \A i \in 1..take : y[i] = <<"byte", c[i]>>
  <2>1. ASSUME NEW i \in 1..take PROVE y[i] = <<"byte", c[i]>> /\ <<"byte", c[i]>> \in VmSymbol
    <3>1. c[i] \in Nat
      BY <1>1, ElementOfSeq
    <3>2. data[i] = c[i]
      BY DEF VmSeals
    <3> QED
      BY <1>4, <3>1, <3>2 DEF VmSymbol
  <2>2. y \in [1..take -> VmSymbol]
    BY <1>4, <2>1
  <2> QED
    BY <1>1, <2>1, <2>2, VmFunction
<1>6. PICK z : z = IF tag = 1 THEN <<<<"tag", <<g, take>>>>>> ELSE <<>>
  OBVIOUS
<1>7. z \in Seq(VmSymbol) /\ Len(z) = tag /\ (tag = 1 => z[1] = <<"tag", <<g, take>>>>)
  <2>1. <<"tag", <<g, take>>>> \in VmSymbol
    BY <1>1 DEF VmSymbol
  <2>2. CASE tag = 1
    BY <1>6, <2>1, <2>2
  <2>3. CASE tag = 0
    BY <1>6, <2>3
  <2> QED
    BY <2>2, <2>3
<1>8. PICK xy : xy = x \o y
  OBVIOUS
<1>9. xy \in Seq(VmSymbol) /\ Len(xy) = 1 + take /\ xy[1] = x[1] /\ \A i \in 1..take : xy[1 + i] = y[i]
  <2>1. /\ x \o y \in Seq(VmSymbol) /\ Len(x \o y) = Len(x) + Len(y)
        /\ \A i \in 1..Len(x) : (x \o y)[i] = x[i]
        /\ \A i \in 1..Len(y) : (x \o y)[Len(x) + i] = y[i]
    <3>1. x \in Seq(VmSymbol) /\ y \in Seq(VmSymbol)
      BY <1>3, <1>5
    <3> QED
      BY <3>1, VmPut
  <2> QED
    BY <1>3, <1>5, <1>8, <2>1
<1>10. B = xy \o z
  BY <1>2, <1>4, <1>6, <1>8 DEF VmSeals
<1>11. /\ B \in Seq(VmSymbol) /\ Len(B) = 1 + take + tag
       /\ \A i \in 1..(1 + take) : B[i] = xy[i]
       /\ \A i \in 1..tag : B[1 + take + i] = z[i]
  BY <1>1, <1>7, <1>9, <1>10, VmPut
<1>12. B[0 + 1] = <<"len", Len(c) + tag>>
  BY <1>1, <1>3, <1>9, <1>11
<1>13. ASSUME NEW i \in 1..Len(c) PROVE B[0 + 1 + i] = <<"byte", c[i]>>
  <2>1. i \in 1..take /\ 1 + i \in 1..(1 + take) /\ 0 + 1 + i = 1 + i
    BY <1>1
  <2> QED
    BY <1>5, <1>9, <1>11, <2>1
<1>14. tag = 1 => B[0 + 2 + Len(c)] = <<"tag", <<g, Len(c)>>>>
  <2>1. ASSUME tag = 1 PROVE B[1 + take + 1] = z[1]
    BY <1>11, <2>1
  <2>2. 0 + 2 + Len(c) = 1 + take + 1
    BY <1>1
  <2> QED
    BY <1>1, <1>7, <2>1, <2>2
<1> QED
  BY <1>11, <1>12, <1>13, <1>14 DEF VmChunkAt

\* Symbols in a row.
LEMMA VmAssoc == \A x, y, z \in Seq(VmSymbol) : (x \o y) \o z = x \o (y \o z)
<1>1. HwJoins(VmSymbol)
  BY HwAssoc, Zenon
<1> QED
  BY <1>1, Zenon DEF HwJoins

\* What is left to read, with symbols more.
LEMMA VmRestMore ==
    ASSUME NEW V \in Seq(VmSymbol), NEW T \in Seq(VmSymbol), NEW B \in Seq(VmSymbol), NEW p, VmRest(V, T, p)
    PROVE  VmRest(V \o B, T \o B, p)
<1>1. p \in Nat /\ p + Len(V) = Len(T) /\ \A j \in 1..Len(V) : V[j] = T[p + j]
  BY DEF VmRest
<1>2. PICK v \in Nat : v = Len(V)
  BY LenProperties
<1>3. PICK b \in Nat : b = Len(B)
  BY LenProperties
<1>4. PICK t \in Nat : t = Len(T) /\ t = p + v
  BY <1>1, <1>2, LenProperties
<1>5. Len(V \o B) = v + b /\ (\A j \in 1..v : (V \o B)[j] = V[j]) /\ \A j \in 1..b : (V \o B)[v + j] = B[j]
  BY <1>2, <1>3, VmPut
<1>6. Len(T \o B) = t + b /\ (\A j \in 1..t : (T \o B)[j] = T[j]) /\ \A j \in 1..b : (T \o B)[t + j] = B[j]
  <2>1. /\ Len(T \o B) = Len(T) + Len(B) /\ (\A j \in 1..Len(T) : (T \o B)[j] = T[j])
        /\ \A j \in 1..Len(B) : (T \o B)[Len(T) + j] = B[j]
    BY VmPut
  <2> QED
    BY <1>3, <1>4, <2>1, Zenon
<1>7. ASSUME NEW j \in 1..(v + b) PROVE (V \o B)[j] = (T \o B)[p + j]
  <2>1. CASE j <= v
    <3>1. j \in 1..v /\ p + j \in 1..t
      BY <1>1, <1>4, <2>1
    <3> QED
      BY <1>1, <1>2, <1>5, <1>6, <3>1
  <2>2. CASE j > v
    <3>1. PICK i \in 1..b : j = v + i /\ p + j = t + i
      <4>1. j - v \in 1..b /\ j = v + (j - v) /\ p + j = t + (j - v)
        BY <1>1, <1>4, <2>2
      <4> QED
        BY <4>1
    <3> QED
      BY <1>5, <1>6, <3>1
  <2>3. j <= v \/ j > v
    BY <1>2
  <2> QED
    BY <2>1, <2>2, <2>3
<1>8. p + (v + b) = t + b
  BY <1>1, <1>4
<1> QED
  BY <1>1, <1>5, <1>6, <1>7, <1>8 DEF VmRest

\* The first symbols that are left, and what is left when they are read.
LEMMA VmRestDrop ==
    ASSUME NEW x \in Seq(VmSymbol), NEW y \in Seq(VmSymbol), NEW T \in Seq(VmSymbol), NEW p,
           VmRest(x \o y, T, p), NEW m \in Nat, m <= Len(x)
    PROVE  /\ \A j \in 1..Len(x) : x[j] = T[p + j]
           /\ p + Len(x) <= Len(T)
           /\ SubSeq(x, m + 1, Len(x)) \in Seq(VmSymbol)
           /\ VmRest(SubSeq(x, m + 1, Len(x)) \o y, T, p + m)
<1>1. PICK a \in Nat : a = Len(x)
  BY LenProperties
<1>2. PICK b \in Nat : b = Len(y)
  BY LenProperties
<1>3. PICK k \in Nat : a = m + k /\ k = a - m
  <2>1. a - m \in Nat /\ a = m + (a - m)
    BY <1>1
  <2> QED
    BY <2>1
<1>4. PICK z : z = SubSeq(x, m + 1, a)
  OBVIOUS
<1>5. z \in Seq(VmSymbol) /\ Len(z) = k /\ \A j \in 1..k : z[j] = x[m + j]
  <2>1. z \in Seq(VmSymbol) /\ Len(z) = a - m /\ \A j \in 1..(a - m) : z[j] = x[m + j]
    BY <1>1, <1>4, VmPart
  <2> QED
    BY <1>3, <2>1
<1>6. Len(x \o y) = a + b /\ (\A j \in 1..a : (x \o y)[j] = x[j]) /\ \A j \in 1..b : (x \o y)[a + j] = y[j]
  BY <1>1, <1>2, VmPut
<1>7. Len(z \o y) = k + b /\ (\A j \in 1..k : (z \o y)[j] = z[j]) /\ \A j \in 1..b : (z \o y)[k + j] = y[j]
  <2>1. z \in Seq(VmSymbol)
    BY <1>5
  <2>2. /\ Len(z \o y) = Len(z) + Len(y) /\ (\A j \in 1..Len(z) : (z \o y)[j] = z[j])
        /\ \A j \in 1..Len(y) : (z \o y)[Len(z) + j] = y[j]
    BY <2>1, VmPut
  <2> QED
    BY <1>2, <1>5, <2>2, Zenon
<1>8. p \in Nat /\ p + (a + b) = Len(T) /\ \A j \in 1..(a + b) : (x \o y)[j] = T[p + j]
  BY <1>6 DEF VmRest
<1>9. ASSUME NEW j \in 1..a PROVE x[j] = T[p + j]
  <2>1. j \in 1..(a + b)
    OBVIOUS
  <2> QED
    BY <1>6, <1>8, <2>1
<1>10. ASSUME NEW j \in 1..(k + b) PROVE (z \o y)[j] = T[p + m + j]
  <2>1. CASE j <= k
    <3>1. j \in 1..k /\ m + j \in 1..a /\ p + (m + j) = p + m + j
      <4>1. p \in Nat
        BY <1>8
      <4> QED
        BY <1>3, <2>1, <4>1
    <3> QED
      BY <1>5, <1>7, <1>9, <3>1
  <2>2. CASE j > k
    <3>1. PICK i \in Int : i = j - k
      OBVIOUS
    <3>2. i \in 1..b /\ j = k + i /\ p + m + j = p + (a + i) /\ a + i \in 1..(a + b)
      BY <1>8, <1>3, <2>2, <3>1
    <3>3. (z \o y)[j] = y[i] /\ y[i] = (x \o y)[a + i]
      BY <1>6, <1>7, <3>2, Zenon
    <3>4. (x \o y)[a + i] = T[p + (a + i)]
      BY <1>8, <3>2, Zenon
    <3> QED
      BY <3>2, <3>3, <3>4, Zenon
  <2>3. j <= k \/ j > k
    OBVIOUS
  <2> QED
    BY <2>1, <2>2, <2>3
<1>11. p + m \in Nat /\ p + m + (k + b) = Len(T) /\ p + a <= Len(T)
  <2>1. PICK t : t = Len(T)
    OBVIOUS
  <2>2. p \in Nat /\ p + (a + b) = t
    BY <1>8, <2>1, Zenon
  <2> QED
    BY <1>3, <2>1, <2>2
<1>12. VmRest(z \o y, T, p + m)
  BY <1>7, <1>10, <1>11, Zenon DEF VmRest
<1> QED
  BY <1>1, <1>4, <1>5, <1>9, <1>11, <1>12, Zenon

\* Symbols pass from one of three parts to the one before it.
VmMoved(e, f, h, m) ==
    /\ m <= Len(f) => (e \o SubSeq(f, 1, m)) \o (SubSeq(f, m + 1, Len(f)) \o h) = e \o (f \o h)
    /\ m <= Len(h) => e \o ((f \o SubSeq(h, 1, m)) \o SubSeq(h, m + 1, Len(h))) = e \o (f \o h)

\* The whole stays as it is.
LEMMA VmMoves ==
    ASSUME NEW S
    PROVE  \A e, f, h \in Seq(S) : \A m \in Nat : VmMoved(e, f, h, m)
<1>1. \A x, y, z \in Seq(S) : (x \o y) \o z = x \o (y \o z)
  <2>1. HwJoins(S)
    BY HwAssoc, Zenon
  <2> QED
    BY <2>1, Zenon DEF HwJoins
<1>2. \A x, y \in Seq(S) : x \o y \in Seq(S)
  BY ConcatProperties
<1> SUFFICES ASSUME NEW e \in Seq(S), NEW f \in Seq(S), NEW h \in Seq(S), NEW m \in Nat
             PROVE  VmMoved(e, f, h, m)
  OBVIOUS
<1>3. ASSUME m <= Len(f)
      PROVE  (e \o SubSeq(f, 1, m)) \o (SubSeq(f, m + 1, Len(f)) \o h) = e \o (f \o h)
  <2>1. PICK u : u = SubSeq(f, 1, m)
    OBVIOUS
  <2>2. PICK v : v = SubSeq(f, m + 1, Len(f))
    OBVIOUS
  <2>3. u \in Seq(S) /\ v \in Seq(S) /\ u \o v = f
    BY <1>3, <2>1, <2>2, HwCut
  <2>4. v \o h \in Seq(S)
    BY <1>2, <2>3, Zenon
  <2>5. \A w \in Seq(S) : (e \o u) \o w = e \o (u \o w)
    BY <1>1, <2>3, Zenon
  <2>6. (e \o u) \o (v \o h) = e \o (u \o (v \o h))
    BY <2>4, <2>5, Zenon
  <2>7. u \o (v \o h) = (u \o v) \o h
    <3>1. \A z \in Seq(S) : (u \o v) \o z = u \o (v \o z)
      BY <1>1, <2>3, Zenon
    <3> QED
      BY <3>1, Zenon
  <2> QED
    BY <2>1, <2>2, <2>3, <2>6, <2>7, Zenon
<1>4. ASSUME m <= Len(h)
      PROVE  e \o ((f \o SubSeq(h, 1, m)) \o SubSeq(h, m + 1, Len(h))) = e \o (f \o h)
  <2>1. PICK u : u = SubSeq(h, 1, m)
    OBVIOUS
  <2>2. PICK v : v = SubSeq(h, m + 1, Len(h))
    OBVIOUS
  <2>3. u \in Seq(S) /\ v \in Seq(S) /\ u \o v = h
    BY <1>4, <2>1, <2>2, HwCut
  <2>4. (f \o u) \o v = f \o (u \o v)
    BY <1>1, <2>3, Zenon
  <2> QED
    BY <2>1, <2>2, <2>3, <2>4, Zenon
<1> QED
  BY <1>3, <1>4 DEF VmMoved

\* Values of a function that taken one more.
LEMMA VmMoreKeeps ==
    ASSUME NEW n \in Nat, NEW f, NEW x
    PROVE  VmMore(f, n, x)[n + 1] = x /\ \A a \in 0..n : VmMore(f, n, x)[a] = f[a]
  BY DEF VmMore

\* A reader stays where it is when a chunk is built.
LEMMA VmReaderMore ==
    ASSUME NEW job, NEW d, NEW r, NEW taken, NEW p, NEW n \in Nat, NEW i \in 0..n, NEW w, NEW q, NEW g,
           NEW x, NEW y, NEW z, VmReaderAt(job, d, r, taken, p, i, n, w, q, g)
    PROVE  VmReaderAt(job, d, r, taken, p, i, n + 1, VmMore(w, n, x), VmMore(q, n, y), VmMore(g, n, z))
<1>1. PICK W : W = VmMore(w, n, x)
  OBVIOUS
<1>2. PICK Q : Q = VmMore(q, n, y)
  OBVIOUS
<1>3. PICK G : G = VmMore(g, n, z)
  OBVIOUS
<1>4. W[i] = w[i] /\ Q[i] = q[i] /\ G[i] = g[i]
  BY <1>1, <1>2, <1>3, VmMoreKeeps
<1>5. i < n => W[i + 1] = w[i + 1] /\ Q[i + 1] = q[i + 1] /\ G[i + 1] = g[i + 1] /\ i < n + 1
  <2>1. i < n => i + 1 \in 0..n /\ i < n + 1
    OBVIOUS
  <2> QED
    BY <1>1, <1>2, <1>3, <2>1, VmMoreKeeps
<1> QED
  BY <1>1, <1>2, <1>3, <1>4, <1>5, Zenon DEF VmReaderAt

\* A write builds a chunk.
LEMMA VmBuildKeeps ==
    ASSUME NEW d, VmFlow(vmJob, d), vmTag \in {0, 1}, NEW r \in VmReaders, NEW syms \in Seq(VmSymbol),
           NEW o \in VmWriters(vmJob), NEW taken, NEW k,
           o.buf = <<>>, o.todo # <<>>, k \in 1..Len(o.todo),
           VmLine(vmJob, d, vmTag, r, syms, o, taken)
    PROVE  /\ VmBuilt(o, k) \in VmWriters(vmJob) /\ VmBuilt(o, k).buf # <<>>
           /\ VmLine(vmJob, d, vmTag, r, syms, VmBuilt(o, k), taken)
<1>1. PICK T, n, w, q, g, p, i : VmLined(vmJob, d, vmTag, r, syms, o, taken, T, n, w, q, g, p, i)
  BY DEF VmLine
<1>2. /\ VmFramed(vmJob, d, vmTag, T, n, w, q, g) /\ i \in 0..n
      /\ VmRest(r.buf \o (syms \o o.buf), T, p)
      /\ VmReaderAt(vmJob, d, r, taken, p, i, n, w, q, g)
      /\ VmWriterAt(vmJob, d, o, n, q, g)
  BY <1>1 DEF VmLined
<1>3. n \in Nat /\ T \in Seq(VmSymbol) /\ q[n] \in Nat /\ g[n] \in Nat /\ q[n] <= Len(vmJob[d])
  BY <1>2 DEF VmFramed
<1>4. o.count = g[n] /\ o.todo = SubSeq(vmJob[d], q[n] + 1, Len(vmJob[d]))
  BY <1>2 DEF VmWriterAt
<1>5. PICK data : data = IF vmJob.cmd = 2 THEN Head(o.todo) ELSE SubSeq(o.todo, 1, k)
  OBVIOUS
<1>6. PICK take : take = Min({Len(data), VmChunk - vmTag})
  OBVIOUS
<1>7. VmOffered(vmJob, d, vmTag, q[n], o.todo, k, data, take)
  BY <1>3, <1>4, <1>5, <1>6, Zenon DEF VmOffered
<1>8. PICK b \in Nat : /\ q[n] < b /\ b <= Len(vmJob[d]) /\ (vmJob.cmd = 2 => b = q[n] + 1)
                       /\ take = Len(VmUnit(vmJob, d, q[n], b))
                       /\ \A j \in 1..take : data[j] = VmUnit(vmJob, d, q[n], b)[j]
  <2>1. PICK b \in Nat : VmTaken(vmJob, d, q[n], b, data, take)
    BY <1>3, <1>7, VmTakes
  <2> QED
    BY <2>1 DEF VmTaken
<1>9. PICK c : c = VmUnit(vmJob, d, q[n], b)
  OBVIOUS
<1>10. c \in Seq(Nat) /\ Len(c) \in Nat /\ take = Len(c)
  BY <1>3, <1>8, <1>9, VmUnits
<1>11. PICK B : B = <<<<"len", take + vmTag>>>> \o [j \in 1..take |-> <<"byte", data[j]>>]
                    \o IF vmTag = 1 THEN <<<<"tag", <<o.count, take>>>>>> ELSE <<>>
  OBVIOUS
<1>12. VmSeals(c, vmTag, g[n], take, data, B)
  BY <1>4, <1>8, <1>9, <1>11, Zenon DEF VmSeals
<1>13. B \in Seq(VmSymbol) /\ Len(B) = 1 + take + vmTag /\ VmChunkAt(B, 0, c, vmTag, g[n])
  BY <1>3, <1>10, <1>12, VmSealed
<1>14. PICK x : x = [o EXCEPT !.take = take, !.count = (@ + 1) % VmNonces, !.buf = B]
  OBVIOUS
<1>15. VmBuilt(o, k) = x
  BY <1>5, <1>6, <1>11, <1>14, Zenon DEF VmBuilt, VmUdp
<1>16. PICK h \in Nat : h = (g[n] + 1) % VmNonces
  BY <1>3, VmAssumption
<1>17. x.todo = o.todo /\ x.buf = B /\ x.take = take /\ x.count = h /\ x \in VmWriters(vmJob)
  BY <1>4, <1>10, <1>13, <1>14, <1>16 DEF VmWriters
<1>18. B # <<>>
  BY <1>10, <1>13
<1>19. PICK W : W = VmMore(w, n, Len(T) + Len(B))
  OBVIOUS
<1>20. PICK Q : Q = VmMore(q, n, b)
  OBVIOUS
<1>21. PICK G : G = VmMore(g, n, h)
  OBVIOUS
<1>22. VmFramed(vmJob, d, vmTag, T \o B, n + 1, W, Q, G)
  <2>1. Len(B) = 1 + Len(VmUnit(vmJob, d, q[n], b)) + vmTag /\ VmChunkAt(B, 0, VmUnit(vmJob, d, q[n], b), vmTag, g[n])
    BY <1>9, <1>10, <1>13
  <2> QED
    BY <1>2, <1>8, <1>13, <1>16, <1>19, <1>20, <1>21, <2>1, VmExtend
<1>23. VmReaderAt(vmJob, d, r, taken, p, i, n + 1, W, Q, G) /\ i \in 0..(n + 1)
  BY <1>2, <1>3, <1>19, <1>20, <1>21, VmReaderMore
<1>24. VmWriterAt(vmJob, d, x, n + 1, Q, G)
  <2>1. Q[n + 1] = b /\ G[n + 1] = h /\ Q[n] = q[n]
    <3>1. n \in 0..n
      BY <1>3
    <3> QED
      BY <1>3, <1>20, <1>21, <3>1, VmMoreKeeps
  <2>2. n + 1 > 0 /\ (n + 1) - 1 = n
    BY <1>3
  <2>3. x.todo = SubSeq(vmJob[d], Q[n] + 1, Len(vmJob[d])) /\ x.take = Len(VmUnit(vmJob, d, Q[n], Q[n + 1]))
    BY <1>4, <1>9, <1>10, <1>17, <2>1
  <2> QED
    BY <1>17, <1>18, <2>1, <2>2, <2>3 DEF VmWriterAt
<1>25. VmRest(r.buf \o (syms \o x.buf), T \o B, p)
  <2>1. r.buf \in Seq(VmSymbol)
    BY DEF VmReaders
  <2>2. PICK u : u = r.buf /\ u \in Seq(VmSymbol)
    BY <2>1
  <2>3. syms \o <<>> = syms
    BY ConcatEmptySeq
  <2>4. VmRest(u \o syms, T, p)
    BY <1>2, <2>2, <2>3
  <2>5. u \o syms \in Seq(VmSymbol)
    BY <2>2, ConcatProperties
  <2>6. VmRest((u \o syms) \o B, T \o B, p)
    BY <1>3, <1>13, <2>4, <2>5, VmRestMore
  <2>7. (u \o syms) \o B = u \o (syms \o B)
    BY <1>13, <2>2, VmAssoc, Zenon
  <2> QED
    BY <1>17, <2>2, <2>6, <2>7
<1>26. VmLined(vmJob, d, vmTag, r, syms, x, taken, T \o B, n + 1, W, Q, G, p, i)
  BY <1>22, <1>23, <1>24, <1>25 DEF VmLined
<1>27. VmLine(vmJob, d, vmTag, r, syms, x, taken)
  BY <1>26, Zenon DEF VmLine
<1> QED
  BY <1>15, <1>17, <1>18, <1>27

\* A writer whose chunk goes from item a to item b.
VmWriting(job, d, a, b, todo, take) ==
    /\ VmFlow(job, d) /\ a < b /\ b <= Len(job[d]) /\ (job.cmd = 2 => b = a + 1)
    /\ todo = SubSeq(job[d], a + 1, Len(job[d])) /\ take = Len(VmUnit(job, d, a, b))

\* What it has left when the chunk is out.
VmLeft(job, todo, take) == IF job.cmd = 2 THEN Tail(todo) ELSE SubSeq(todo, take + 1, Len(todo))

\* These are the items from b on.
LEMMA VmGoesOn ==
    ASSUME NEW job, NEW d, NEW a \in Nat, NEW b \in Nat, NEW todo, NEW take,
           VmWriting(job, d, a, b, todo, take)
    PROVE  VmLeft(job, todo, take) = SubSeq(job[d], b + 1, Len(job[d]))
<1>1. /\ VmFlow(job, d) /\ a < b /\ b <= Len(job[d]) /\ (job.cmd = 2 => b = a + 1)
      /\ todo = SubSeq(job[d], a + 1, Len(job[d])) /\ take = Len(VmUnit(job, d, a, b))
  BY DEF VmWriting
<1>2. PICK J : J = job[d] /\ J \in Seq(VmItems(job))
  BY <1>1 DEF VmFlow
<1>3. PICK L \in Nat : L = Len(J) /\ b <= L
  BY <1>2, <1>1, LenProperties
<1>4. ASSUME job.cmd = 2 PROVE Tail(todo) = SubSeq(J, b + 1, L)
  <2>1. a + 1 \in 1..L /\ L \in (a + 1)..L
    BY <1>3, <1>1
  <2>2. Tail(SubSeq(J, a + 1, L)) = SubSeq(J, a + 1 + 1, L)
    BY <1>2, <1>3, <2>1, HeadTailOfSubSeq
  <2> QED
    BY <1>2, <1>3, <1>4, <1>1, <2>2
<1>5. ASSUME job.cmd = 1 PROVE SubSeq(todo, take + 1, Len(todo)) = SubSeq(J, b + 1, L)
  <2>1. take = b - a
    BY <1>5, <1>1, VmUnits
  <2>2. PICK t \in Nat : t = b - a
    BY <1>1
  <2>3. PICK l \in Nat : l = L - a
    <3>1. L - a \in Nat
      BY <1>3, <1>1
    <3> QED
      BY <3>1
  <2>4. a <= L /\ t <= l /\ a + t = b /\ a + l = L
    BY <1>3, <1>1, <2>2, <2>3
  <2>5. SubSeq(SubSeq(J, a + 1, L), t + 1, l) = SubSeq(J, a + t + 1, a + l)
    BY <1>2, <1>3, <2>2, <2>3, <2>4, VmPartOfPart
  <2>6. Len(todo) = l
    BY <1>2, <1>3, <1>1, <2>3, <2>4, VmPart
  <2> QED
    BY <1>2, <1>3, <1>1, <2>1, <2>2, <2>4, <2>5, <2>6
<1> QED
  BY <1>2, <1>3, <1>4, <1>5, <1>1 DEF VmLeft, VmFlow

\* The stream takes m symbols of a chunk.
LEMMA VmFlushKeeps ==
    ASSUME NEW d, VmFlow(vmJob, d), NEW r \in VmReaders, NEW syms \in Seq(VmSymbol),
           NEW o \in VmWriters(vmJob), NEW taken, NEW m \in Nat, o.buf # <<>>, m <= Len(o.buf),
           VmLine(vmJob, d, vmTag, r, syms, o, taken)
    PROVE  /\ VmFlushed(o, m) \in VmWriters(vmJob) /\ syms \o SubSeq(o.buf, 1, m) \in Seq(VmSymbol)
           /\ VmLine(vmJob, d, vmTag, r, syms \o SubSeq(o.buf, 1, m), VmFlushed(o, m), taken)
<1>1. PICK T, n, w, q, g, p, i : VmLined(vmJob, d, vmTag, r, syms, o, taken, T, n, w, q, g, p, i)
  BY DEF VmLine
<1>2. /\ VmFramed(vmJob, d, vmTag, T, n, w, q, g) /\ i \in 0..n
      /\ VmRest(r.buf \o (syms \o o.buf), T, p)
      /\ VmReaderAt(vmJob, d, r, taken, p, i, n, w, q, g)
      /\ VmWriterAt(vmJob, d, o, n, q, g)
  BY <1>1 DEF VmLined
<1>3. o.count = g[n] /\ n > 0 /\ o.todo = SubSeq(vmJob[d], q[n - 1] + 1, Len(vmJob[d]))
      /\ o.take = Len(VmUnit(vmJob, d, q[n - 1], q[n]))
  BY <1>2 DEF VmWriterAt
<1>4. /\ n \in Nat /\ q \in [0..n -> Nat]
      /\ \A a \in 0..n : q[a] <= Len(vmJob[d])
      /\ \A a \in 0..n : a < n => VmLink(vmJob, d, vmTag, T, w[a], w[a + 1], q[a], q[a + 1], g[a], g[a + 1])
  BY <1>2 DEF VmFramed
<1>5. PICK a \in 0..n : a = n - 1 /\ a < n /\ a + 1 = n
  <2>1. n - 1 \in 0..n /\ n - 1 < n /\ (n - 1) + 1 = n
    BY <1>3, <1>4
  <2> QED
    BY <2>1
<1>6. n \in 0..n
  BY <1>4
<1>7. q[a] \in Nat /\ q[n] \in Nat /\ q[n] <= Len(vmJob[d])
  BY <1>4, <1>5, <1>6
<1>8. VmLink(vmJob, d, vmTag, T, w[a], w[n], q[a], q[n], g[a], g[n])
  BY <1>4, <1>5
<1>9. q[a] < q[n] /\ (vmJob.cmd = 2 => q[n] = q[a] + 1)
  BY <1>8 DEF VmLink
<1>10. PICK B : B = o.buf /\ B \in Seq(VmSymbol)
  BY DEF VmWriters
<1>11. PICK todo : todo = o.todo /\ todo \in Seq(VmItems(vmJob)) /\ o.take \in Nat
  BY DEF VmWriters
<1>12. PICK left : left = VmLeft(vmJob, todo, o.take)
  OBVIOUS
<1>13. left = SubSeq(vmJob[d], q[n] + 1, Len(vmJob[d]))
  <2>1. todo = SubSeq(vmJob[d], q[a] + 1, Len(vmJob[d])) /\ o.take = Len(VmUnit(vmJob, d, q[a], q[n]))
    BY <1>3, <1>5, <1>11
  <2>2. VmWriting(vmJob, d, q[a], q[n], todo, o.take)
    BY <1>7, <1>9, <2>1 DEF VmWriting
  <2> QED
    <3>1. PICK b \in Nat : b = q[a]
      BY <1>7
    <3>2. PICK c \in Nat : c = q[n]
      BY <1>7
    <3>3. PICK t : t = o.take
      OBVIOUS
    <3>4. VmWriting(vmJob, d, b, c, todo, t)
      BY <2>2, <3>1, <3>2, <3>3
    <3>5. VmLeft(vmJob, todo, t) = SubSeq(vmJob[d], c + 1, Len(vmJob[d]))
      BY <3>4, VmGoesOn
    <3> QED
      BY <1>12, <3>2, <3>3, <3>5
<1>14. left \in Seq(VmItems(vmJob))
  <2>1. vmJob[d] \in Seq(VmItems(vmJob))
    BY DEF VmFlow
  <2>2. Len(vmJob[d]) \in Nat
    BY <2>1, LenProperties
  <2> QED
    BY <1>7, <1>13, <2>1, <2>2, VmPart
<1>15. PICK C : C = SubSeq(B, m + 1, Len(B))
  OBVIOUS
<1>16. PICK D : D = SubSeq(B, 1, m)
  OBVIOUS
<1>17. C \in Seq(VmSymbol) /\ D \in Seq(VmSymbol) /\ Len(C) = Len(B) - m
  BY <1>10, <1>15, <1>16, HwCut
<1>18. PICK x : x = VmFlushed(o, m)
  OBVIOUS
<1>19. x = [o EXCEPT !.buf = C, !.todo = IF m < Len(B) THEN todo ELSE left]
  BY <1>10, <1>11, <1>12, <1>15, <1>18 DEF VmFlushed, VmUdp, VmLeft
<1>20. /\ x.buf = C /\ x.todo = (IF m < Len(B) THEN todo ELSE left) /\ x.take = o.take /\ x.count = o.count
       /\ x \in VmWriters(vmJob)
  BY <1>11, <1>14, <1>17, <1>19 DEF VmWriters
<1>21. Len(B) \in Nat /\ (C = <<>> <=> m = Len(B))
  BY <1>10, <1>17, LenProperties, EmptySeq
<1>22. VmWriterAt(vmJob, d, x, n, q, g)
  <2>1. CASE m = Len(B)
    <3>1. x.buf = <<>> /\ x.todo = left
      BY <1>20, <1>21, <2>1
    <3> QED
      BY <1>3, <1>13, <1>20, <3>1 DEF VmWriterAt
  <2>2. CASE m < Len(B)
    <3>1. x.buf # <<>> /\ x.todo = todo
      BY <1>20, <1>21, <2>2
    <3> QED
      BY <1>3, <1>11, <1>20, <3>1 DEF VmWriterAt
  <2> QED
    BY <1>10, <1>21, <2>1, <2>2
<1>23. VmRest(r.buf \o ((syms \o D) \o x.buf), T, p)
  <2>1. r.buf \in Seq(VmSymbol)
    BY DEF VmReaders
  <2>2. VmMoved(r.buf, syms, B, m)
    BY <1>10, <2>1, VmMoves
  <2>3. r.buf \o ((syms \o D) \o C) = r.buf \o (syms \o B)
    BY <1>10, <1>15, <1>16, <2>2 DEF VmMoved
  <2> QED
    BY <1>2, <1>10, <1>20, <2>3
<1>24. VmLined(vmJob, d, vmTag, r, syms \o D, x, taken, T, n, w, q, g, p, i)
  BY <1>2, <1>22, <1>23, Zenon DEF VmLined
<1>25. VmLine(vmJob, d, vmTag, r, syms \o D, x, taken)
  BY <1>24, Zenon DEF VmLine
<1>26. syms \o D \in Seq(VmSymbol)
  BY <1>17, ConcatProperties
<1> QED
  BY <1>10, <1>16, <1>18, <1>20, <1>25, <1>26

\* The reader takes m symbols from the stream.
LEMMA VmFillKeeps ==
    ASSUME NEW job, NEW d, NEW tag, NEW r \in VmReaders, NEW syms \in Seq(VmSymbol),
           NEW o \in VmWriters(job), NEW taken, NEW m \in Nat, m <= Len(syms),
           r.st \in {"prefix", "request"} => Len(r.buf) + m <= 1,
           VmLine(job, d, tag, r, syms, o, taken),
           NEW x, x = [r EXCEPT !.buf = @ \o SubSeq(syms, 1, m)]
    PROVE  /\ x \in VmReaders /\ SubSeq(syms, m + 1, Len(syms)) \in Seq(VmSymbol)
           /\ VmLine(job, d, tag, x, SubSeq(syms, m + 1, Len(syms)), o, taken)
<1>1. PICK T, n, w, q, g, p, i : VmLined(job, d, tag, r, syms, o, taken, T, n, w, q, g, p, i)
  BY DEF VmLine
<1>2. /\ VmFramed(job, d, tag, T, n, w, q, g) /\ i \in 0..n
      /\ VmRest(r.buf \o (syms \o o.buf), T, p)
      /\ VmReaderAt(job, d, r, taken, p, i, n, w, q, g)
      /\ VmWriterAt(job, d, o, n, q, g)
  BY <1>1 DEF VmLined
<1>3. PICK A : A = SubSeq(syms, 1, m)
  OBVIOUS
<1>4. PICK R : R = SubSeq(syms, m + 1, Len(syms))
  OBVIOUS
<1>5. A \in Seq(VmSymbol) /\ R \in Seq(VmSymbol) /\ Len(A) = m
  BY <1>3, <1>4, HwCut
<1>6. PICK u : u = r.buf /\ u \in Seq(VmSymbol)
  BY DEF VmReaders
<1>7. u \o A \in Seq(VmSymbol) /\ Len(u \o A) = Len(u) + m
  <2>1. u \in Seq(VmSymbol) /\ A \in Seq(VmSymbol)
    BY <1>5, <1>6
  <2>2. u \o A \in Seq(VmSymbol) /\ Len(u \o A) = Len(u) + Len(A)
    BY <2>1, VmPut
  <2> QED
    BY <1>5, <2>2
<1>8. /\ x.buf = u \o A /\ x.st = r.st /\ x.size = r.size /\ x.chunk = r.chunk /\ x.count = r.count
      /\ x \in VmReaders
  BY <1>3, <1>6, <1>7 DEF VmReaders
<1>9. VmReaderAt(job, d, x, taken, p, i, n, w, q, g)
  <2>1. r.st \in {"prefix", "request"} => Len(x.buf) <= 1
    BY <1>6, <1>7, <1>8
  <2> QED
    BY <1>2, <1>8, <2>1, Zenon DEF VmReaderAt
<1>10. VmRest(x.buf \o (R \o o.buf), T, p)
  <2>1. o.buf \in Seq(VmSymbol)
    BY DEF VmWriters
  <2>2. VmMoved(u, syms, o.buf, m)
    BY <1>6, <2>1, VmMoves
  <2>3. (u \o A) \o (R \o o.buf) = u \o (syms \o o.buf)
    BY <1>3, <1>4, <2>2 DEF VmMoved
  <2> QED
    BY <1>2, <1>6, <1>8, <2>3
<1>11. VmLined(job, d, tag, x, R, o, taken, T, n, w, q, g, p, i)
  BY <1>2, <1>9, <1>10, Zenon DEF VmLined
<1>12. VmLine(job, d, tag, x, R, o, taken)
  BY <1>11, Zenon DEF VmLine
<1> QED
  BY <1>4, <1>5, <1>8, <1>12

\* A reader takes m symbols of its buffer: what is left of the line.
LEMMA VmReadStep ==
    ASSUME NEW job, NEW d, NEW tag, NEW r \in VmReaders, NEW syms \in Seq(VmSymbol),
           NEW o \in VmWriters(job), NEW taken, NEW T, NEW n, NEW w, NEW q, NEW g, NEW p, NEW i,
           VmLined(job, d, tag, r, syms, o, taken, T, n, w, q, g, p, i),
           NEW x, NEW m \in Nat, m <= Len(r.buf), x.buf = SubSeq(r.buf, m + 1, Len(r.buf)),
           NEW e, NEW j \in 0..n, VmReaderAt(job, d, x, e, p + m, j, n, w, q, g)
    PROVE  VmLine(job, d, tag, x, syms, o, e)
<1>1. /\ VmFramed(job, d, tag, T, n, w, q, g) /\ VmRest(r.buf \o (syms \o o.buf), T, p)
      /\ VmWriterAt(job, d, o, n, q, g)
  BY DEF VmLined
<1>2. r.buf \in Seq(VmSymbol) /\ o.buf \in Seq(VmSymbol) /\ T \in Seq(VmSymbol)
  BY <1>1 DEF VmReaders, VmWriters, VmFramed
<1>3. PICK u : u = r.buf /\ u \in Seq(VmSymbol) /\ m <= Len(u)
  BY <1>2
<1>4. PICK v : v = syms \o o.buf /\ v \in Seq(VmSymbol)
  BY <1>2, ConcatProperties
<1>5. VmRest(u \o v, T, p)
  BY <1>1, <1>3, <1>4
<1>6. VmRest(SubSeq(u, m + 1, Len(u)) \o v, T, p + m)
  BY <1>2, <1>3, <1>4, <1>5, VmRestDrop
<1>7. VmRest(x.buf \o (syms \o o.buf), T, p + m)
  BY <1>3, <1>4, <1>6
<1>8. VmLined(job, d, tag, x, syms, o, e, T, n, w, q, g, p + m, j)
  BY <1>1, <1>7, Zenon DEF VmLined
<1> QED
  BY <1>8, Zenon DEF VmLine

\* What is in the buffer of a reader.
LEMMA VmBuffered ==
    ASSUME NEW job, NEW d, NEW tag, NEW r \in VmReaders, NEW syms \in Seq(VmSymbol),
           NEW o \in VmWriters(job), NEW taken, NEW T, NEW n, NEW w, NEW q, NEW g, NEW p, NEW i,
           VmLined(job, d, tag, r, syms, o, taken, T, n, w, q, g, p, i)
    PROVE  /\ \A j \in 1..Len(r.buf) : r.buf[j] = T[p + j]
           /\ p \in Nat /\ Len(r.buf) \in Nat /\ p + Len(r.buf) <= Len(T)
<1>1. VmFramed(job, d, tag, T, n, w, q, g) /\ VmRest(r.buf \o (syms \o o.buf), T, p)
  BY DEF VmLined
<1>2. r.buf \in Seq(VmSymbol) /\ o.buf \in Seq(VmSymbol) /\ T \in Seq(VmSymbol) /\ p \in Nat
  BY <1>1 DEF VmReaders, VmWriters, VmFramed, VmRest
<1>3. PICK u : u = r.buf /\ u \in Seq(VmSymbol) /\ Len(u) \in Nat
  BY <1>2, LenProperties
<1>4. PICK v : v = syms \o o.buf /\ v \in Seq(VmSymbol)
  BY <1>2, ConcatProperties
<1>5. VmRest(u \o v, T, p)
  BY <1>1, <1>3, <1>4
<1>6. PICK m \in Nat : m = 0 /\ m <= Len(u)
  BY <1>3
<1>7. (\A j \in 1..Len(u) : u[j] = T[p + j]) /\ p + Len(u) <= Len(T)
  <2>1. u \in Seq(VmSymbol) /\ v \in Seq(VmSymbol) /\ T \in Seq(VmSymbol) /\ m <= Len(u)
    BY <1>2, <1>3, <1>4, <1>6
  <2> QED
    BY <1>5, <2>1, VmRestDrop
<1> QED
  BY <1>2, <1>3, <1>7

\* Chunk i holds c.
VmHolds(job, d, tag, T, w, q, g, i, c) ==
    /\ c \in Seq(Nat) /\ Len(c) \in Nat /\ c = VmUnit(job, d, q[i], q[i + 1])
    /\ w[i] \in Nat /\ w[i + 1] = w[i] + 1 + Len(c) + tag /\ w[i + 1] <= Len(T)
    /\ VmChunkAt(T, w[i], c, tag, g[i]) /\ g[i + 1] = (g[i] + 1) % VmNonces /\ g[i] \in Nat
    /\ q[i] \in Nat /\ q[i + 1] \in Nat /\ q[i] < q[i + 1] /\ q[i + 1] <= Len(job[d])
    /\ job.cmd = 2 => q[i + 1] = q[i] + 1

\* Every chunk holds something.
LEMMA VmChunkOf ==
    ASSUME NEW job, NEW d, NEW tag \in {0, 1}, VmFlow(job, d), NEW T, NEW n, NEW w, NEW q, NEW g,
           VmFramed(job, d, tag, T, n, w, q, g), NEW i \in 0..n, i < n
    PROVE  \E c : VmHolds(job, d, tag, T, w, q, g, i, c)
<1>1. /\ n \in Nat /\ w \in [0..n -> Nat] /\ q \in [0..n -> Nat] /\ g \in [0..n -> Nat]
      /\ \A a \in 0..n : w[a] <= Len(T) /\ (a < n => w[a] < Len(T)) /\ q[a] <= Len(job[d])
      /\ \A a \in 0..n : a < n => VmLink(job, d, tag, T, w[a], w[a + 1], q[a], q[a + 1], g[a], g[a + 1])
  BY DEF VmFramed
<1>2. i + 1 \in 0..n
  BY <1>1
<1>3. /\ w[i] \in Nat /\ w[i + 1] <= Len(T) /\ q[i] \in Nat /\ q[i + 1] \in Nat /\ q[i + 1] <= Len(job[d])
      /\ g[i] \in Nat
  BY <1>1, <1>2
<1>4. VmLink(job, d, tag, T, w[i], w[i + 1], q[i], q[i + 1], g[i], g[i + 1])
  BY <1>1
<1>5. PICK c : c = VmUnit(job, d, q[i], q[i + 1])
  OBVIOUS
<1>6. /\ q[i] < q[i + 1] /\ (job.cmd = 2 => q[i + 1] = q[i] + 1) /\ g[i + 1] = (g[i] + 1) % VmNonces
      /\ w[i + 1] = w[i] + 1 + Len(c) + tag /\ VmChunkAt(T, w[i], c, tag, g[i])
  BY <1>4, <1>5 DEF VmLink
<1>7. c \in Seq(Nat) /\ Len(c) \in Nat
  BY <1>3, <1>5, <1>6, VmUnits
<1> QED
  BY <1>3, <1>5, <1>6, <1>7, Zenon DEF VmHolds

\* The fields of a reader.
LEMMA VmRecord ==
    ASSUME NEW a \in VmStates, NEW b \in Seq(VmSymbol), NEW c \in Nat, NEW e \in Seq(Nat), NEW f \in Nat
    PROVE  [st |-> a, buf |-> b, size |-> c, chunk |-> e, count |-> f] \in VmReaders
  BY DEF VmReaders

\* A reader gets a length.
VmLength(r, x) == x = [r EXCEPT !.st = "data", !.size = r.buf[1][2], !.buf = Tail(@)]

\* The line is kept.
LEMMA VmLengthKeeps ==
    ASSUME NEW job, NEW d, NEW tag \in {0, 1}, VmFlow(job, d), NEW r \in VmReaders, NEW syms \in Seq(VmSymbol),
           NEW o \in VmWriters(job), NEW taken, VmLine(job, d, tag, r, syms, o, taken),
           r.st = "len", Len(r.buf) >= 1,
           NEW x, VmLength(r, x)
    PROVE  x \in VmReaders /\ VmLine(job, d, tag, x, syms, o, taken)
<1>1. PICK T, n, w, q, g, p, i : VmLined(job, d, tag, r, syms, o, taken, T, n, w, q, g, p, i)
  BY DEF VmLine
<1>2. VmFramed(job, d, tag, T, n, w, q, g) /\ i \in 0..n /\ VmReaderAt(job, d, r, taken, p, i, n, w, q, g)
  BY <1>1 DEF VmLined
<1>3. p = w[i] /\ taken = SubSeq(job[d], 1, q[i]) /\ r.count = g[i]
  BY <1>2 DEF VmReaderAt
<1>4. /\ \A j \in 1..Len(r.buf) : r.buf[j] = T[p + j]
      /\ p \in Nat /\ Len(r.buf) \in Nat /\ p + Len(r.buf) <= Len(T)
  BY <1>1, VmBuffered
<1>5. n \in Nat /\ w[n] = Len(T) /\ T \in Seq(VmSymbol)
  BY <1>2 DEF VmFramed
<1>6. i < n
  <2>1. w[i] # w[n]
    BY <1>3, <1>4, <1>5, LenProperties
  <2> QED
    BY <1>2, <1>5, <2>1
<1>7. PICK c : VmHolds(job, d, tag, T, w, q, g, i, c)
  BY <1>2, <1>6, VmChunkOf
<1>8. Len(c) \in Nat /\ w[i] \in Nat /\ w[i + 1] = w[i] + 1 + Len(c) + tag /\ VmChunkAt(T, w[i], c, tag, g[i])
  BY <1>7 DEF VmHolds
<1>9. r.buf[1] = T[p + 1]
  BY <1>4
<1>10. r.buf[1] = <<"len", Len(c) + tag>>
  BY <1>3, <1>8, <1>9 DEF VmChunkAt
<1>11. r.buf[1][2] = Len(c) + tag
  BY <1>10
<1>12. PICK s \in Nat : s = Len(c) + tag
  BY <1>8
<1>13. r.buf \in Seq(VmSymbol) /\ r.buf # <<>>
  BY <1>4 DEF VmReaders
<1>14. Tail(r.buf) \in Seq(VmSymbol) /\ Tail(r.buf) = SubSeq(r.buf, 1 + 1, Len(r.buf))
  BY <1>13, HeadTailProperties, TailIsSubSeq
<1>15. /\ x.st = "data" /\ x.size = s /\ x.buf = Tail(r.buf) /\ x.count = r.count /\ x \in VmReaders
  <2>1. PICK t : t = Tail(r.buf) /\ t \in Seq(VmSymbol)
    BY <1>14
  <2>2. x = [r EXCEPT !.st = "data", !.size = s, !.buf = t]
    BY <1>11, <1>12, <2>1 DEF VmLength
  <2>3. r = [st |-> r.st, buf |-> r.buf, size |-> r.size, chunk |-> r.chunk, count |-> r.count]
    BY DEF VmReaders
  <2>4. r.chunk \in Seq(Nat) /\ r.count \in Nat
    BY DEF VmReaders
  <2>5. x = [st |-> "data", buf |-> t, size |-> s, chunk |-> r.chunk, count |-> r.count]
    BY <2>2, <2>3
  <2>6. x \in VmReaders
    <3>1. "data" \in VmStates
      BY DEF VmStates
    <3>2. t \in Seq(VmSymbol)
      BY <2>1
    <3> QED
      BY <2>5, <2>4, <3>1, <3>2, VmRecord
  <2> QED
    BY <2>1, <2>5, <2>6
<1>16. VmReaderAt(job, d, x, taken, p + 1, i, n, w, q, g)
  <2>1. p + 1 = w[i] + 1 /\ s + (p + 1) = w[i + 1]
    <3>1. PICK l \in Nat : l = Len(c)
      BY <1>8
    <3>2. PICK v : v = w[i + 1]
      OBVIOUS
    <3>3. v = p + 1 + l + tag
      BY <1>3, <1>8, <3>1, <3>2
    <3>4. s + (p + 1) = v
      <4>1. s = l + tag
        BY <1>12, <3>1
      <4>2. p \in Nat
        BY <1>4
      <4> QED
        BY <3>3, <4>1, <4>2
    <3> QED
      BY <1>3, <3>2, <3>4
  <2> QED
    BY <1>3, <1>6, <1>15, <2>1 DEF VmReaderAt
<1>17. VmLine(job, d, tag, x, syms, o, taken)
  <2>1. x.buf = SubSeq(r.buf, 1 + 1, Len(r.buf))
    BY <1>14, <1>15
  <2>2. PICK m \in Nat : m = 1
    OBVIOUS
  <2> QED
    BY <1>1, <1>2, <1>16, <2>1, <2>2, VmReadStep
<1> QED
  BY <1>15, <1>17

\* A reader opens a chunk.
VmOpen(r, tag, x) ==
    x = [r EXCEPT !.count = (@ + 1) % VmNonces, !.buf = SubSeq(@, r.size + 1, Len(@)),
               !.size = 0, !.chunk = [j \in 1..(r.size - tag) |-> r.buf[j][2]],
               !.st = IF tag = 1 => r.buf[r.size] = <<"tag", <<r.count, r.size - 1>>>>
                      THEN "hand" ELSE "error"]

\* The chunk opens and the line is kept.
LEMMA VmOpenKeeps ==
    ASSUME NEW job, NEW d, NEW tag \in {0, 1}, VmFlow(job, d), NEW r \in VmReaders, NEW syms \in Seq(VmSymbol),
           NEW o \in VmWriters(job), NEW taken, VmLine(job, d, tag, r, syms, o, taken),
           r.st = "data", Len(r.buf) >= r.size, NEW x, VmOpen(r, tag, x)
    PROVE  x \in VmReaders /\ x.st = "hand" /\ VmLine(job, d, tag, x, syms, o, taken)
<1>1. PICK T, n, w, q, g, p, i : VmLined(job, d, tag, r, syms, o, taken, T, n, w, q, g, p, i)
  BY DEF VmLine
<1>2. VmFramed(job, d, tag, T, n, w, q, g) /\ i \in 0..n /\ VmReaderAt(job, d, r, taken, p, i, n, w, q, g)
  BY <1>1 DEF VmLined
<1>3. i < n /\ p = w[i] + 1 /\ r.size + p = w[i + 1] /\ taken = SubSeq(job[d], 1, q[i]) /\ r.count = g[i]
  BY <1>2 DEF VmReaderAt
<1>4. /\ \A j \in 1..Len(r.buf) : r.buf[j] = T[p + j]
      /\ p \in Nat /\ Len(r.buf) \in Nat /\ p + Len(r.buf) <= Len(T)
  BY <1>1, VmBuffered
<1>5. PICK c : VmHolds(job, d, tag, T, w, q, g, i, c)
  BY <1>2, <1>3, VmChunkOf
<1>6. /\ c \in Seq(Nat) /\ Len(c) \in Nat /\ w[i] \in Nat /\ w[i + 1] = w[i] + 1 + Len(c) + tag
      /\ VmChunkAt(T, w[i], c, tag, g[i])
  BY <1>5 DEF VmHolds
<1>7. PICK s \in Nat : s = r.size
  BY DEF VmReaders
<1>8. PICK l \in Nat : l = Len(c)
  BY <1>6
<1>9. PICK u \in Nat : u = w[i]
  BY <1>6
<1>10. s = l + tag /\ p = u + 1 /\ s - tag = l
  <2>1. PICK v : v = w[i + 1]
    OBVIOUS
  <2>2. v = u + 1 + l + tag /\ s + p = v /\ p = u + 1
    BY <1>3, <1>6, <1>7, <1>8, <1>9, <2>1
  <2> QED
    BY <2>2
<1>11. PICK B : B = r.buf /\ B \in Seq(VmSymbol) /\ s <= Len(B)
  BY <1>4, <1>7 DEF VmReaders
<1>12. \A j \in 1..s : B[j] = T[p + j]
  BY <1>4, <1>7, <1>11
<1>13. /\ \A j \in 1..l : T[u + 1 + j] = <<"byte", c[j]>>
       /\ tag = 1 => T[u + 2 + l] = <<"tag", <<g[i], l>>>>
  BY <1>6, <1>8, <1>9 DEF VmChunkAt
<1>14. ASSUME NEW j \in 1..l PROVE B[j][2] = c[j]
  <2>1. j \in 1..s /\ p + j = u + 1 + j
    BY <1>10
  <2>2. B[j] = <<"byte", c[j]>>
    BY <1>12, <1>13, <2>1
  <2> QED
    BY <2>2
<1>15. [j \in 1..(s - tag) |-> B[j][2]] = c
  <2>1. c = [j \in 1..l |-> c[j]]
    BY <1>6, <1>8
  <2> QED
    BY <1>10, <1>14, <2>1
<1>16. tag = 1 => B[s] = <<"tag", <<r.count, s - 1>>>>
  <2>1. ASSUME tag = 1 PROVE B[s] = <<"tag", <<r.count, s - 1>>>>
    <3>1. s \in 1..s /\ p + s = u + 2 + l /\ s - 1 = l
      BY <1>10, <2>1
    <3>2. B[s] = T[u + 2 + l]
      BY <1>12, <3>1
    <3> QED
      BY <1>3, <1>13, <2>1, <3>1, <3>2
  <2> QED
    BY <2>1
<1>17. PICK C : C = SubSeq(B, s + 1, Len(B))
  OBVIOUS
<1>18. C \in Seq(VmSymbol)
  BY <1>11, <1>17, HwCut
<1>19. PICK h \in Nat : h = (r.count + 1) % VmNonces /\ h = g[i + 1]
  <2>1. g[i + 1] = (g[i] + 1) % VmNonces /\ g[i] \in Nat
    BY <1>5 DEF VmHolds
  <2>2. (g[i] + 1) % VmNonces \in Nat
    BY <2>1, VmAssumption
  <2> QED
    BY <1>3, <2>1, <2>2
<1>20. x = [st |-> "hand", buf |-> C, size |-> 0, chunk |-> c, count |-> h]
  <2>1. r = [st |-> r.st, buf |-> r.buf, size |-> r.size, chunk |-> r.chunk, count |-> r.count]
    BY DEF VmReaders
  <2>2. x = [r EXCEPT !.count = h, !.buf = C, !.size = 0, !.chunk = c, !.st = "hand"]
    <3>1. (tag = 1 => r.buf[r.size] = <<"tag", <<r.count, r.size - 1>>>>)
      BY <1>7, <1>11, <1>16
    <3>2. SubSeq(r.buf, r.size + 1, Len(r.buf)) = C /\ [j \in 1..(r.size - tag) |-> r.buf[j][2]] = c
      BY <1>7, <1>11, <1>15, <1>17
    <3> QED
      BY <1>19, <3>1, <3>2, Zenon DEF VmOpen
  <2> QED
    BY <2>1, <2>2
<1>21. x \in VmReaders
  <2>1. "hand" \in VmStates /\ 0 \in Nat
    BY DEF VmStates
  <2> QED
    BY <1>6, <1>18, <1>20, <2>1, VmRecord
<1>22. PICK L \in Nat : L = Len(taken) /\ L = q[i] /\ q[i] < q[i + 1] /\ taken = SubSeq(job[d], 1, L)
  <2>1. q[i] \in Nat /\ q[i + 1] \in Nat /\ q[i] < q[i + 1] /\ q[i + 1] <= Len(job[d])
    BY <1>5 DEF VmHolds
  <2>2. job[d] \in Seq(VmItems(job)) /\ Len(job[d]) \in Nat
    BY LenProperties DEF VmFlow
  <2>3. q[i] <= Len(job[d])
    BY <2>1, <2>2
  <2>4. Len(SubSeq(job[d], 1, q[i])) = q[i]
    BY <2>1, <2>2, <2>3, HwCut
  <2> QED
    BY <1>3, <2>1, <2>4
<1>23. VmReaderAt(job, d, x, taken, p + s, i, n, w, q, g)
  <2>1. p + s = w[i + 1]
    BY <1>3, <1>4, <1>7
  <2>2. c = VmUnit(job, d, Len(taken), q[i + 1])
    BY <1>5, <1>22 DEF VmHolds
  <2>3. x.st = "hand" /\ x.count = g[i + 1] /\ x.chunk = c
    BY <1>19, <1>20
  <2>4. Len(taken) \in Nat /\ q[i] <= Len(taken) /\ Len(taken) < q[i + 1] /\ taken = SubSeq(job[d], 1, Len(taken))
    BY <1>22
  <2> QED
    BY <1>3, <2>1, <2>2, <2>3, <2>4 DEF VmReaderAt
<1>24. VmLine(job, d, tag, x, syms, o, taken)
  <2>1. x.buf = SubSeq(r.buf, s + 1, Len(r.buf)) /\ s <= Len(r.buf)
    BY <1>11, <1>17, <1>20
  <2> QED
    BY <1>1, <1>2, <1>23, <2>1, VmReadStep
<1>25. x.st = "hand"
  BY <1>20
<1> QED
  BY <1>21, <1>24, <1>25

\* A caller takes m bytes of a chunk, or a datagram.
VmHanded(job, r, m, taken) == taken \o IF job.cmd = 2 THEN <<r.chunk>> ELSE SubSeq(r.chunk, 1, m)

\* ... and the reader that is left.
VmHeld(r, m, x) ==
    x = [r EXCEPT !.chunk = SubSeq(@, m + 1, Len(@)), !.st = IF m = Len(r.chunk) THEN "len" ELSE "hand"]

\* The items up to a, and the chunk that goes on from there, taken in part.
VmHandsOn(job, d, a, b, m) ==
    LET c == VmUnit(job, d, a, b)
        e == IF m = Len(c) THEN b ELSE a + m IN
    /\ SubSeq(job[d], 1, a) \o (IF job.cmd = 2 THEN <<c>> ELSE SubSeq(c, 1, m)) = SubSeq(job[d], 1, e)
    /\ e \in Nat /\ e <= Len(job[d]) /\ (m < Len(c) => e < b /\ SubSeq(c, m + 1, Len(c)) = VmUnit(job, d, e, b))

\* These are the items up to e.
LEMMA VmHands ==
    ASSUME NEW job, NEW d, VmFlow(job, d), NEW a \in Nat, NEW b \in Nat, a < b, b <= Len(job[d]),
           job.cmd = 2 => b = a + 1, NEW m \in Nat, m <= Len(VmUnit(job, d, a, b)),
           job.cmd = 2 => m = Len(VmUnit(job, d, a, b))
    PROVE  VmHandsOn(job, d, a, b, m)
<1>1. PICK J : J = job[d] /\ J \in Seq(VmItems(job))
  BY DEF VmFlow
<1>2. PICK L \in Nat : L = Len(J) /\ b <= L
  BY <1>1, LenProperties
<1>3. PICK c : c = VmUnit(job, d, a, b)
  OBVIOUS
<1>4. CASE job.cmd = 2
  <2>1. c = J[b] /\ m = Len(c) /\ b = a + 1
    BY <1>1, <1>3, <1>4 DEF VmUnit
  <2>2. 1 \in 1..L /\ b \in 1..L /\ b - 1 = a
    BY <1>2, <2>1
  <2>3. SubSeq(J, 1, b) = SubSeq(J, 1, b - 1) \o <<J[b]>>
    BY <1>1, <1>2, <2>2, SubSeqRecursiveSecond
  <2>4. SubSeq(J, 1, a) \o <<c>> = SubSeq(J, 1, b)
    BY <2>1, <2>2, <2>3
  <2>5. ~(m < Len(c))
    BY <2>1
  <2> QED
    BY <1>1, <1>2, <1>3, <1>4, <2>1, <2>4, <2>5 DEF VmHandsOn
<1>5. CASE job.cmd = 1
  <2>1. J \in Seq(Nat) /\ c = SubSeq(J, a + 1, b) /\ Len(c) = b - a
    BY <1>1, <1>3, <1>5, VmUnits DEF VmItems, VmFlow, VmUnit
  <2>2. PICK l \in Nat : l = b - a /\ l = Len(c) /\ m <= l
    BY <1>3, <2>1
  <2>3. PICK e \in Nat : e = a + m
    OBVIOUS
  <2>4. e = (IF m = Len(c) THEN b ELSE a + m) /\ e <= L
    BY <1>2, <2>2, <2>3
  <2>5. SubSeq(c, 1, m) = SubSeq(J, a + 1, e)
    <3>1. PICK z \in Nat : z = 0
      OBVIOUS
    <3>2. SubSeq(SubSeq(J, a + 1, b), z + 1, m) = SubSeq(J, a + z + 1, a + m)
      BY <1>2, <2>1, <2>2, <3>1, VmPartOfPart
    <3>3. z + 1 = 1 /\ a + z + 1 = a + 1
      BY <3>1
    <3> QED
      BY <2>1, <2>3, <3>2, <3>3
  <2>6. SubSeq(J, 1, a) \o SubSeq(J, a + 1, e) = SubSeq(J, 1, e)
    <3>1. 1 \in 1..Len(J) + 1 /\ a \in 1 - 1..Len(J) /\ e \in a..Len(J)
      BY <1>2, <2>3, <2>4
    <3> QED
      BY <2>1, <3>1, ConcatAdjacentSubSeq
  <2>7. SubSeq(c, m + 1, l) = SubSeq(J, e + 1, b)
    <3>1. SubSeq(SubSeq(J, a + 1, b), m + 1, l) = SubSeq(J, a + m + 1, a + l)
      BY <1>2, <2>1, <2>2, VmPartOfPart
    <3>2. a + m + 1 = e + 1 /\ a + l = b
      BY <2>2, <2>3
    <3> QED
      BY <2>1, <3>1, <3>2
  <2>8. m < Len(c) => e < b /\ SubSeq(c, m + 1, Len(c)) = VmUnit(job, d, e, b)
    <3>1. m < l => e < b
      BY <2>2, <2>3
    <3>2. VmUnit(job, d, e, b) = SubSeq(J, e + 1, b)
      BY <1>1, <1>5 DEF VmUnit
    <3> QED
      BY <2>2, <2>7, <3>1, <3>2
  <2>9. SubSeq(job[d], 1, a) \o SubSeq(c, 1, m) = SubSeq(job[d], 1, e)
    BY <1>1, <2>5, <2>6
  <2> QED
    BY <1>1, <1>2, <1>3, <1>5, <2>4, <2>8, <2>9 DEF VmHandsOn
<1> QED
  BY <1>4, <1>5 DEF VmFlow

\* The line is kept.
LEMMA VmHandKeeps ==
    ASSUME NEW job, NEW d, NEW tag \in {0, 1}, VmFlow(job, d), NEW r \in VmReaders, NEW syms \in Seq(VmSymbol),
           NEW o \in VmWriters(job), NEW taken, VmLine(job, d, tag, r, syms, o, taken),
           r.st = "hand", NEW m \in Nat, m <= Len(r.chunk), job.cmd = 2 => m = Len(r.chunk),
           NEW x, VmHeld(r, m, x)
    PROVE  x \in VmReaders /\ VmLine(job, d, tag, x, syms, o, VmHanded(job, r, m, taken))
<1>1. PICK T, n, w, q, g, p, i : VmLined(job, d, tag, r, syms, o, taken, T, n, w, q, g, p, i)
  BY DEF VmLine
<1>2. VmFramed(job, d, tag, T, n, w, q, g) /\ i \in 0..n /\ VmReaderAt(job, d, r, taken, p, i, n, w, q, g)
  BY <1>1 DEF VmLined
<1>3. /\ i < n /\ p = w[i + 1] /\ r.count = g[i + 1]
      /\ Len(taken) \in Nat /\ q[i] <= Len(taken) /\ Len(taken) < q[i + 1]
      /\ taken = SubSeq(job[d], 1, Len(taken)) /\ r.chunk = VmUnit(job, d, Len(taken), q[i + 1])
  BY <1>2 DEF VmReaderAt
<1>4. PICK c0 : VmHolds(job, d, tag, T, w, q, g, i, c0)
  BY <1>2, <1>3, VmChunkOf
<1>5. PICK b \in Nat : b = q[i + 1] /\ b <= Len(job[d]) /\ q[i] \in Nat /\ (job.cmd = 2 => b = q[i] + 1)
  BY <1>4 DEF VmHolds
<1>6. PICK a \in Nat : a = Len(taken) /\ q[i] <= a /\ a < b /\ taken = SubSeq(job[d], 1, a)
  BY <1>3, <1>5
<1>7. job.cmd = 2 => b = a + 1
  BY <1>5, <1>6
<1>8. PICK c : c = r.chunk /\ c \in Seq(Nat) /\ c = VmUnit(job, d, a, b)
  BY <1>3, <1>5, <1>6 DEF VmReaders
<1>9. VmHandsOn(job, d, a, b, m)
  BY <1>5, <1>6, <1>7, <1>8, VmHands
<1>10. PICK e : e = IF m = Len(c) THEN b ELSE a + m
  OBVIOUS
<1>11. PICK f : f = VmHanded(job, r, m, taken)
  OBVIOUS
<1>12. /\ e \in Nat /\ e <= Len(job[d]) /\ f = SubSeq(job[d], 1, e)
       /\ m < Len(c) => e < b /\ SubSeq(c, m + 1, Len(c)) = VmUnit(job, d, e, b)
  BY <1>6, <1>8, <1>9, <1>10, <1>11 DEF VmHandsOn, VmHanded
<1>13. Len(f) = e
  <2>1. job[d] \in Seq(VmItems(job))
    BY DEF VmFlow
  <2> QED
    BY <1>12, <2>1, HwCut
<1>14. PICK C : C = SubSeq(c, m + 1, Len(c)) /\ C \in Seq(Nat)
  BY <1>8, HwCut
<1>15. PICK st : st = IF m = Len(c) THEN "len" ELSE "hand"
  OBVIOUS
<1>16. x = [st |-> st, buf |-> r.buf, size |-> r.size, chunk |-> C, count |-> r.count]
  <2>1. r = [st |-> r.st, buf |-> r.buf, size |-> r.size, chunk |-> r.chunk, count |-> r.count]
    BY DEF VmReaders
  <2>2. x = [r EXCEPT !.chunk = C, !.st = st]
    BY <1>8, <1>14, <1>15 DEF VmHeld
  <2> QED
    BY <2>1, <2>2
<1>17. x \in VmReaders
  <2>1. st \in VmStates
    BY <1>15 DEF VmStates
  <2>2. r.buf \in Seq(VmSymbol) /\ r.size \in Nat /\ r.count \in Nat
    BY DEF VmReaders
  <2> QED
    BY <1>14, <1>16, <2>1, <2>2, VmRecord
<1>18. n \in Nat /\ i + 1 \in 0..n /\ p \in Nat /\ Len(c) \in Nat
  <2>1. n \in Nat
    BY <1>2 DEF VmFramed
  <2>2. p \in Nat
    BY <1>1 DEF VmLined, VmRest
  <2> QED
    BY <1>2, <1>3, <1>8, <2>1, <2>2, LenProperties
<1>19. PICK z \in Nat : z = 0 /\ p + z = p /\ z + 1 = 1 /\ z <= Len(r.buf) /\ x.buf = SubSeq(r.buf, z + 1, Len(r.buf))
  <2>1. r.buf \in Seq(VmSymbol) /\ x.buf = r.buf
    BY <1>16 DEF VmReaders
  <2>2. SubSeq(r.buf, 1, Len(r.buf)) = r.buf /\ Len(r.buf) \in Nat
    BY <2>1, SubSeqFull, LenProperties
  <2>3. p + 0 = p /\ 0 + 1 = 1 /\ 0 <= Len(r.buf)
    BY <1>18, <2>2
  <2>4. x.buf = SubSeq(r.buf, 0 + 1, Len(r.buf))
    BY <2>1, <2>2, <2>3
  <2> QED
    BY <2>3, <2>4
<1>20. CASE m = Len(c)
  <2>1. VmReaderAt(job, d, x, f, p + z, i + 1, n, w, q, g)
    <3>1. e = q[i + 1]
      BY <1>5, <1>10, <1>20
    <3>2. x.st = "len" /\ x.count = g[i + 1]
      BY <1>3, <1>15, <1>16, <1>20
    <3>3. f = SubSeq(job[d], 1, q[i + 1]) /\ p + z = w[i + 1]
      BY <1>3, <1>12, <1>19, <3>1
    <3> QED
      BY <3>2, <3>3 DEF VmReaderAt
  <2>2. VmLine(job, d, tag, x, syms, o, f)
    BY <1>1, <1>18, <1>19, <2>1, VmReadStep
  <2> QED
    BY <1>11, <1>17, <2>2
<1>21. CASE m < Len(c)
  <2>1. VmReaderAt(job, d, x, f, p + z, i, n, w, q, g)
    <3>1. e < b /\ C = VmUnit(job, d, e, b) /\ q[i] <= e
      <4>1. e < b /\ C = VmUnit(job, d, e, b)
        BY <1>12, <1>14, <1>21
      <4>2. e = a + m
        BY <1>10, <1>18, <1>21
      <4>3. q[i] <= a + m
        BY <1>5, <1>6
      <4> QED
        BY <4>1, <4>2, <4>3
    <3>2. x.st = "hand" /\ x.count = g[i + 1] /\ x.chunk = C
      BY <1>3, <1>15, <1>16, <1>18, <1>21
    <3>3. Len(f) \in Nat /\ q[i] <= Len(f) /\ Len(f) < q[i + 1] /\ f = SubSeq(job[d], 1, Len(f))
      BY <1>5, <1>12, <1>13, <3>1
    <3>4. C = VmUnit(job, d, Len(f), q[i + 1])
      BY <1>5, <1>13, <3>1
    <3>5. i < n /\ p + z = w[i + 1]
      BY <1>3, <1>19
    <3> QED
      BY <3>2, <3>3, <3>4, <3>5 DEF VmReaderAt
  <2>2. VmLine(job, d, tag, x, syms, o, f)
    BY <1>1, <1>2, <1>19, <2>1, VmReadStep
  <2> QED
    BY <1>11, <1>17, <2>2
<1> QED
  BY <1>8, <1>18, <1>20, <1>21

\* A reader takes a symbol of the handshake.
LEMMA VmHandshakeKeeps ==
    ASSUME NEW job, NEW d, NEW tag, VmFlow(job, d), NEW r \in VmReaders, NEW syms \in Seq(VmSymbol),
           NEW o \in VmWriters(job), NEW taken, VmLine(job, d, tag, r, syms, o, taken),
           r.st \in {"prefix", "size", "request", "response"}, r.buf # <<>>,
           NEW x, x.buf = Tail(r.buf), x.count = r.count,
           x.st = CASE r.st = "prefix" -> "request" [] r.st = "size" -> "response" [] OTHER -> "len"
    PROVE  /\ VmLine(job, d, tag, x, syms, o, taken)
           /\ d = "up" /\ r.st = "request" => VmParse(r.buf[1][2]) = job.dst
<1>1. PICK T, n, w, q, g, p, i : VmLined(job, d, tag, r, syms, o, taken, T, n, w, q, g, p, i)
  BY DEF VmLine
<1>2. VmFramed(job, d, tag, T, n, w, q, g) /\ i \in 0..n /\ VmReaderAt(job, d, r, taken, p, i, n, w, q, g)
  BY <1>1 DEF VmLined
<1>3. /\ i = 0 /\ p \in {0, 1} /\ taken = SubSeq(job[d], 1, q[i]) /\ r.count = g[i]
      /\ r.st \in {"prefix", "size"} => p = 0
      /\ r.st \in {"request", "response"} => p = 1
      /\ r.st \in {"prefix", "request"} => Len(r.buf) <= 1
  BY <1>2 DEF VmReaderAt
<1>4. /\ \A j \in 1..Len(r.buf) : r.buf[j] = T[p + j]
      /\ p \in Nat /\ Len(r.buf) \in Nat /\ p + Len(r.buf) <= Len(T)
  BY <1>1, VmBuffered
<1>5. r.buf \in Seq(VmSymbol) /\ Len(r.buf) >= 1
  <2>1. r.buf \in Seq(VmSymbol)
    BY DEF VmReaders
  <2> QED
    BY <1>4, <2>1, EmptySeq
<1>6. Tail(r.buf) = SubSeq(r.buf, 1 + 1, Len(r.buf)) /\ Len(Tail(r.buf)) = Len(r.buf) - 1
  BY <1>5, TailIsSubSeq, HeadTailProperties
<1>7. r.buf[1] = T[p + 1]
  BY <1>4, <1>5
<1>8. w[0] = 2 /\ (d = "up" => VmParse(T[2][2]) = job.dst)
  BY <1>2 DEF VmFramed
<1>9. VmReaderAt(job, d, x, taken, p + 1, i, n, w, q, g)
  <2>1. CASE r.st \in {"prefix", "size"}
    <3>1. x.st \in {"request", "response"} /\ p + 1 = 1
      BY <1>3, <2>1
    <3>2. x.st = "request" => Len(x.buf) <= 1
      BY <1>3, <1>4, <1>6, <2>1
    <3> QED
      BY <1>3, <3>1, <3>2 DEF VmReaderAt
  <2>2. CASE r.st \in {"request", "response"}
    <3>1. x.st = "len" /\ p + 1 = w[i]
      BY <1>3, <1>8, <2>2
    <3> QED
      BY <1>3, <3>1 DEF VmReaderAt
  <2> QED
    BY <2>1, <2>2
<1>10. VmLine(job, d, tag, x, syms, o, taken)
  <2>1. PICK m \in Nat : m = 1
    OBVIOUS
  <2>2. x.buf = SubSeq(r.buf, m + 1, Len(r.buf)) /\ m <= Len(r.buf)
    BY <1>5, <1>6, <2>1
  <2>3. VmReaderAt(job, d, x, taken, p + m, i, n, w, q, g)
    BY <1>9, <2>1
  <2> QED
    BY <1>1, <1>2, <2>2, <2>3, VmReadStep
<1>11. d = "up" /\ r.st = "request" => VmParse(r.buf[1][2]) = job.dst
  BY <1>3, <1>7, <1>8
<1> QED
  BY <1>10, <1>11

\* A reader at the end of a stream whose writer has nothing left has read everything.
LEMMA VmEndKeeps ==
    ASSUME NEW job, NEW d, NEW tag \in {0, 1}, VmFlow(job, d), NEW r \in VmReaders,
           NEW o \in VmWriters(job), NEW taken, VmLine(job, d, tag, r, <<>>, o, taken),
           r.st \in {"size", "response", "len", "data"}, Len(r.buf) < VmNeed(r), o.todo = <<>>
    PROVE  r.st = "len" /\ r.buf = <<>> /\ taken = job[d]
<1>1. PICK T, n, w, q, g, p, i : VmLined(job, d, tag, r, <<>>, o, taken, T, n, w, q, g, p, i)
  BY DEF VmLine
<1>2. /\ VmFramed(job, d, tag, T, n, w, q, g) /\ i \in 0..n
      /\ VmRest(r.buf \o (<<>> \o o.buf), T, p)
      /\ VmReaderAt(job, d, r, taken, p, i, n, w, q, g)
      /\ VmWriterAt(job, d, o, n, q, g)
  BY <1>1 DEF VmLined
<1>3. PICK J : J = job[d] /\ J \in Seq(VmItems(job))
  BY DEF VmFlow
<1>4. PICK L \in Nat : L = Len(J)
  BY <1>3, LenProperties
<1>5. n \in Nat /\ n \in 0..n /\ T \in Seq(VmSymbol) /\ w \in [0..n -> Nat] /\ q \in [0..n -> Nat]
      /\ \A a \in 0..n : w[a] <= Len(T) /\ (a < n => w[a] < Len(T)) /\ q[a] <= L
  BY <1>2, <1>3, <1>4 DEF VmFramed
<1>6. ASSUME NEW a \in Nat, a < L PROVE SubSeq(J, a + 1, L) # <<>>
  <2>1. Len(SubSeq(J, a + 1, L)) = L - a
    BY <1>3, <1>4, <1>6, VmPart
  <2>2. L - a # 0
    BY <1>6
  <2> QED
    BY <2>1, <2>2
<1>7. o.buf = <<>>
  <2>1. SUFFICES ASSUME o.buf # <<>> PROVE FALSE
    OBVIOUS
  <2>2. n > 0 /\ o.todo = SubSeq(J, q[n - 1] + 1, L)
    BY <1>2, <1>3, <1>4, <2>1 DEF VmWriterAt
  <2>3. PICK a \in 0..n : a = n - 1 /\ a < n
    <3>1. n - 1 \in 0..n /\ n - 1 < n
      BY <1>5, <2>2
    <3> QED
      BY <3>1
  <2>4. PICK c : VmHolds(job, d, tag, T, w, q, g, a, c)
    BY <1>2, <2>3, VmChunkOf
  <2>5. q[a] \in Nat /\ q[a + 1] \in Nat /\ q[a] < q[a + 1] /\ q[a + 1] <= L
    BY <1>3, <1>4, <2>4 DEF VmHolds
  <2>6. PICK b \in Nat : b = q[a] /\ b < L
    BY <1>4, <2>5
  <2>7. SubSeq(J, b + 1, L) # <<>>
    BY <1>6, <2>6
  <2> QED
    BY <2>2, <2>3, <2>6, <2>7
<1>8. q[n] = L
  <2>1. o.todo = SubSeq(J, q[n] + 1, L)
    BY <1>2, <1>3, <1>4, <1>7 DEF VmWriterAt
  <2>2. PICK b \in Nat : b = q[n] /\ b <= L
    BY <1>5
  <2>3. ~(b < L)
    BY <1>6, <2>1, <2>2
  <2> QED
    BY <2>2, <2>3
<1>9. PICK u : u = r.buf /\ u \in Seq(VmSymbol) /\ Len(u) \in Nat
  BY LenProperties DEF VmReaders
<1>10. p \in Nat /\ p + Len(u) = Len(T)
  <2>1. r.buf \o (<<>> \o o.buf) = u
    BY <1>7, <1>9, ConcatEmptySeq, EmptySeq
  <2> QED
    BY <1>2, <2>1 DEF VmRest
<1>11. r.st = "len"
  <2>1. r.st \notin {"size", "response"}
    <3>1. SUFFICES ASSUME r.st \in {"size", "response"} PROVE FALSE
      OBVIOUS
    <3>2. p <= 1 /\ Len(u) < 1
      BY <1>2, <1>9, <3>1 DEF VmReaderAt, VmNeed
    <3>3. 0 \in 0..n /\ w[0] = 2
      BY <1>2, <1>5 DEF VmFramed
    <3>4. Len(T) >= 2 /\ Len(T) \in Nat
      BY <1>5, <3>3, LenProperties
    <3> QED
      BY <1>9, <1>10, <3>2, <3>4
  <2>2. SUFFICES ASSUME r.st = "data" PROVE FALSE
    BY <2>1
  <2>3. i < n /\ r.size + p = w[i + 1] /\ r.size \in Nat
    BY <1>2, <2>2 DEF VmReaderAt, VmReaders
  <2>4. i + 1 \in 0..n
    BY <1>2, <1>5, <2>3
  <2>5. w[i + 1] <= Len(T)
    BY <1>5, <2>4
  <2>6. Len(u) < r.size
    BY <1>9, <2>2 DEF VmNeed
  <2> QED
    BY <1>9, <1>10, <2>3, <2>5, <2>6
<1>12. u = <<>> /\ Len(u) = 0
  <2>1. Len(u) < 1
    BY <1>9, <1>11 DEF VmNeed
  <2> QED
    BY <1>9, <2>1, EmptySeq
<1>13. i = n
  <2>1. p = w[i] /\ w[i] = Len(T)
    BY <1>2, <1>10, <1>11, <1>12 DEF VmReaderAt
  <2>2. w[i] \in Nat
    BY <1>2, <1>5
  <2>3. ~(i < n)
    BY <1>2, <1>5, <2>1, <2>2
  <2> QED
    BY <1>2, <1>5, <2>3
<1>14. taken = J
  <2>1. taken = SubSeq(J, 1, L)
    BY <1>2, <1>3, <1>8, <1>11, <1>13 DEF VmReaderAt
  <2> QED
    BY <1>3, <1>4, <2>1, SubSeqFull
<1> QED
  BY <1>3, <1>9, <1>11, <1>12, <1>14

\* A reader that waits for more and meets an end or an error stays in line.
LEMMA VmStopKeeps ==
    ASSUME NEW job, NEW d, NEW tag, NEW r \in VmReaders, NEW syms, NEW o, NEW taken,
           VmLine(job, d, tag, r, syms, o, taken), r.st # "hand",
           NEW st \in {"closed", "error"}, NEW x, x = [r EXCEPT !.st = st]
    PROVE  x \in VmReaders /\ x.st = st /\ VmLine(job, d, tag, x, syms, o, taken)
<1>1. PICK T, n, w, q, g, p, i : VmLined(job, d, tag, r, syms, o, taken, T, n, w, q, g, p, i)
  BY DEF VmLine
<1>2. /\ VmFramed(job, d, tag, T, n, w, q, g) /\ i \in 0..n
      /\ VmRest(r.buf \o (syms \o o.buf), T, p)
      /\ VmReaderAt(job, d, r, taken, p, i, n, w, q, g)
      /\ VmWriterAt(job, d, o, n, q, g)
  BY <1>1 DEF VmLined
<1>3. x \in VmReaders /\ x.st = st /\ x.buf = r.buf /\ x.count = r.count
  BY DEF VmReaders, VmStates
<1>4. VmReaderAt(job, d, x, taken, p, i, n, w, q, g)
  BY <1>2, <1>3 DEF VmReaderAt
<1>5. VmLined(job, d, tag, x, syms, o, taken, T, n, w, q, g, p, i)
  BY <1>2, <1>3, <1>4 DEF VmLined
<1> QED
  BY <1>3, <1>5, Zenon DEF VmLine

-----------------------------------------------------------------------------
\* One direction as it stands.
VmEnd(d) == VmLine(vmJob, d, vmTag, vmIn[d], vmWire[d].syms, vmOut[d], vmGot[d])

\* Nothing has gone down, not even the response header.
VmSilent ==
    /\ vmSrv # "relay" /\ vmIn["down"] \in {VmReader("size"), VmReader("error")}
    /\ vmWire["down"].syms = <<>> /\ (vmWire["down"].eof => vmSrv = "dead")
    /\ vmOut["down"] = [todo |-> vmJob["down"], buf |-> <<>>, take |-> 0, count |-> 0]
    /\ vmGot["down"] = <<>>

\* The types the proof needs.
VmTyped ==
    /\ vmJob \in VmJobs /\ vmTag \in VmTags
    /\ vmOut \in [VmDirs -> VmWriters(vmJob)] /\ vmIn \in [VmDirs -> VmReaders]
    /\ vmWire \in [VmDirs -> [eof : BOOLEAN, syms : Seq(VmSymbol)]]
    /\ vmGot = [d \in VmDirs |-> vmGot[d]]

\* The inbound has dropped the connection while it had more to write down, or may have.
VmCutOff(d) == d = "down" /\ vmSrv = "dead"

\* A stream ends when its writer has nothing left or was dropped; so does a reader.
VmEnds(d) ==
    /\ vmWire[d].eof => vmOut[d].todo = <<>> \/ VmCutOff(d)
    /\ vmIn[d].st = "error" => VmCutOff(d)
    /\ vmIn[d].st = "closed" => vmGot[d] = vmJob[d] \/ (VmCutOff(d) /\ vmOut[d].todo # <<>>)

\* Up, everything from the request on is in line; down, everything from the response
\* header on, once the inbound has sent it.
VmInv ==
    /\ VmTyped /\ VmEnd("up") /\ (VmEnd("down") \/ VmSilent)
    /\ vmSrv = "accept" => VmSilent
    /\ vmSrv = "relay" => VmEnd("down") /\ vmDst = vmJob.dst
    /\ \A d \in VmDirs : VmEnds(d)

\* Both directions of a job are flows.
LEMMA VmFlows ==
    ASSUME NEW job \in VmJobs, NEW d \in VmDirs
    PROVE  VmFlow(job, d)
<1>1. job.cmd \in {1, 2}
  BY VmAssumption
<1>2. CASE job.cmd = 1
  <2>1. job[d] \in Seq(Nat)
    BY VmAssumption, <1>2 DEF VmDirs
  <2> QED
    BY <1>2, <2>1 DEF VmFlow, VmItems
<1>3. CASE job.cmd = 2
  <2>1. job[d] \in Seq(Seq(Nat)) /\ \A i \in 1..Len(job[d]) : Len(job[d][i]) \in 1..VmChunk - 1
    <3>1. IF job.cmd = 1 THEN job[d] \in Seq(Nat)
          ELSE /\ job[d] \in Seq(Seq(Nat))
               /\ \A i \in 1..Len(job[d]) : Len(job[d][i]) \in 1..VmChunk - 1
      BY VmAssumption, Zenon DEF VmDirs
    <3>2. job.cmd # 1
      BY <1>3
    <3> QED
      BY <3>1, <3>2, Zenon
  <2> QED
    BY <1>3, <2>1 DEF VmFlow, VmItems
<1> QED
  BY <1>1, <1>2, <1>3

\* Before the first chunk, with nothing but the handshake built.
LEMMA VmStarts ==
    ASSUME NEW job, NEW d \in VmDirs, VmFlow(job, d), NEW tag, NEW T \in Seq(VmSymbol), Len(T) = 2,
           d = "up" => T[2][2] \in Seq(Nat) /\ VmParse(T[2][2]) = job.dst,
           NEW o, o = [todo |-> job[d], buf |-> <<>>, take |-> 0, count |-> 0],
           NEW r, r = VmReader(IF d = "up" THEN "prefix" ELSE "size")
    PROVE  VmLine(job, d, tag, r, T, o, <<>>)
<1>1. PICK f : f = [a \in 0..0 |-> 0]
  OBVIOUS
<1>2. PICK w : w = [a \in 0..0 |-> 2]
  OBVIOUS
<1>3. f \in [0..0 -> Nat] /\ w \in [0..0 -> Nat] /\ f[0] = 0 /\ w[0] = 2
  BY <1>1, <1>2
<1>4. PICK J : J = job[d] /\ J \in Seq(VmItems(job)) /\ Len(J) \in Nat
  BY LenProperties DEF VmFlow
<1>5. VmFramed(job, d, tag, T, 0, w, f, f)
  <2>1. \A a \in 0..0 : a = 0
    OBVIOUS
  <2> QED
    BY <1>3, <1>4, <2>1 DEF VmFramed
<1>6. r.buf \o (T \o o.buf) = T
  <2>1. r.buf = <<>> /\ o.buf = <<>>
    BY DEF VmReader
  <2> QED
    BY <2>1, ConcatEmptySeq
<1>7. VmRest(r.buf \o (T \o o.buf), T, 0)
  <2>1. \A j \in 1..Len(T) : 0 + j = j
    OBVIOUS
  <2>2. VmRest(T, T, 0)
    BY <2>1 DEF VmRest
  <2> QED
    BY <1>6, <2>2, Zenon
<1>8. VmReaderAt(job, d, r, <<>>, 0, 0, 0, w, f, f)
  <2>1. SubSeq(J, 1, 0) = <<>>
    BY <1>4, SubSeqEmpty
  <2>2. r.st \in {"prefix", "size"} /\ r.buf = <<>> /\ r.count = 0
    BY DEF VmReader
  <2> QED
    BY <1>3, <1>4, <2>1, <2>2 DEF VmReaderAt
<1>9. VmWriterAt(job, d, o, 0, f, f)
  <2>1. SubSeq(J, 0 + 1, Len(J)) = J
    BY <1>4, SubSeqFull
  <2>2. o.count = 0 /\ o.buf = <<>> /\ o.todo = J
    BY <1>4
  <2> QED
    BY <1>3, <1>4, <2>1, <2>2 DEF VmWriterAt
<1>10. VmLined(job, d, tag, r, T, o, <<>>, T, 0, w, f, f, 0, 0)
  BY <1>5, <1>7, <1>8, <1>9 DEF VmLined
<1> QED
  BY <1>10, Zenon DEF VmLine

\* The writer of a job nobody has written anything of.
LEMMA VmFresh ==
    ASSUME NEW job, NEW d, VmFlow(job, d)
    PROVE  [todo |-> job[d], buf |-> <<>>, take |-> 0, count |-> 0] \in VmWriters(job)
<1>1. job[d] \in Seq(VmItems(job))
  BY DEF VmFlow
<1>2. <<>> \in Seq(VmSymbol)
  OBVIOUS
<1> QED
  BY <1>1, <1>2 DEF VmWriters

\* Initially.
LEMMA VmInitInv == VmInit => VmInv
<1>1. SUFFICES ASSUME VmInit PROVE VmInv
  OBVIOUS
<1>2. vmJob \in VmJobs /\ vmTag \in VmTags
  BY <1>1 DEF VmInit
<1>3. \A d \in VmDirs : VmFlow(vmJob, d)
  BY <1>2, VmFlows
<1>4. PICK pad \in VmPadding :
         vmWire = [d \in VmDirs |-> [eof |-> FALSE, syms |->
             IF d = "up" THEN <<<<"auth", vmId>>, <<"request", VmRequest(vmJob, pad)>>>> ELSE <<>>]]
  BY <1>1 DEF VmInit
<1>5. PICK R : R = VmRequest(vmJob, pad)
  OBVIOUS
<1>6. R \in Seq(Nat) /\ VmParse(R) = vmJob.dst
  <2>1. pad \in Nat /\ vmJob.cmd \in {1, 2} /\ vmJob.dst \in 0..255
    BY <1>2, VmAssumption
  <2> QED
    BY <1>5, <2>1, VmRequestParses
<1>7. PICK T : T = <<<<"auth", vmId>>, <<"request", R>>>>
  OBVIOUS
<1>8. T \in Seq(VmSymbol) /\ Len(T) = 2 /\ T[2][2] = R
  <2>1. vmId \in VmIds
    BY <1>1 DEF VmInit
  <2>2. <<"auth", vmId>> \in VmSymbol /\ <<"request", R>> \in VmSymbol
    BY <1>6, <2>1 DEF VmSymbol
  <2> QED
    BY <1>7, <2>2
<1>9. VmReader("prefix") \in VmReaders /\ VmReader("size") \in VmReaders
  BY DEF VmReader, VmReaders, VmStates
<1>10. "up" \in VmDirs /\ "down" \in VmDirs /\ \A d \in VmDirs : d = "up" \/ d = "down"
  BY DEF VmDirs
<1>11. /\ vmWire["up"] = [eof |-> FALSE, syms |-> T] /\ vmWire["down"] = [eof |-> FALSE, syms |-> <<>>]
       /\ vmIn["up"] = VmReader("prefix") /\ vmIn["down"] = VmReader("size")
       /\ vmOut["up"] = [todo |-> vmJob["up"], buf |-> <<>>, take |-> 0, count |-> 0]
       /\ vmOut["down"] = [todo |-> vmJob["down"], buf |-> <<>>, take |-> 0, count |-> 0]
       /\ vmGot["up"] = <<>> /\ vmGot["down"] = <<>>
  BY <1>1, <1>4, <1>5, <1>7, <1>10 DEF VmInit
<1>12. VmTyped
  <2>1. \A d \in VmDirs : vmOut[d] \in VmWriters(vmJob) /\ vmIn[d] \in VmReaders
    BY <1>3, <1>9, <1>10, <1>11, VmFresh
  <2>2. \A d \in VmDirs : vmWire[d] \in [eof : BOOLEAN, syms : Seq(VmSymbol)]
    <3>1. FALSE \in BOOLEAN /\ <<>> \in Seq(VmSymbol)
      OBVIOUS
    <3>2. \A s \in Seq(VmSymbol) : [eof |-> FALSE, syms |-> s] \in [eof : BOOLEAN, syms : Seq(VmSymbol)]
      BY <3>1, Zenon
    <3> QED
      BY <1>8, <1>10, <1>11, <3>1, <3>2, Zenon
  <2>3. /\ vmOut = [d \in VmDirs |-> vmOut[d]] /\ vmIn = [d \in VmDirs |-> vmIn[d]]
        /\ vmWire = [d \in VmDirs |-> vmWire[d]] /\ vmGot = [d \in VmDirs |-> vmGot[d]]
    BY <1>1, <1>4 DEF VmInit
  <2>4. vmOut \in [VmDirs -> VmWriters(vmJob)] /\ vmIn \in [VmDirs -> VmReaders]
    BY <2>1, <2>3, Zenon
  <2>5. vmWire \in [VmDirs -> [eof : BOOLEAN, syms : Seq(VmSymbol)]]
    BY <2>2, <2>3, Zenon
  <2> QED
    BY <1>2, <2>3, <2>4, <2>5 DEF VmTyped
<1>13. VmEnd("up")
  <2>1. PICK d \in VmDirs : d = "up"
    BY <1>10
  <2>2. VmFlow(vmJob, d)
    BY <1>3
  <2>3. vmIn["up"] = VmReader(IF d = "up" THEN "prefix" ELSE "size")
    BY <1>11, <2>1
  <2>4. VmLine(vmJob, d, vmTag, vmIn["up"], T, vmOut["up"], <<>>)
    BY <1>6, <1>8, <1>11, <2>1, <2>2, <2>3, VmStarts
  <2> QED
    BY <1>11, <2>1, <2>4 DEF VmEnd
<1>14. vmSrv = "accept" /\ VmSilent
  BY <1>1, <1>11 DEF VmInit, VmSilent
<1>15. \A d \in VmDirs : VmEnds(d)
  BY <1>10, <1>11 DEF VmEnds, VmReader
<1> QED
  BY <1>12, <1>13, <1>14, <1>15 DEF VmInv

\* The other direction is left as it is.
VmOther(d) == \A e \in VmDirs : e # d =>
    /\ vmIn'[e] = vmIn[e] /\ vmOut'[e] = vmOut[e] /\ vmWire'[e] = vmWire[e] /\ vmGot'[e] = vmGot[e]

\* A step of one direction that keeps its line.
LEMMA VmKeeps ==
    ASSUME VmInv, NEW d \in VmDirs, VmTyped', VmOther(d), VmEnd(d)',
           vmJob' = vmJob, vmTag' = vmTag, vmDst' = vmDst, vmSrv' \in {vmSrv, "dead"},
           d = "down" => vmSrv # "accept", VmEnds(d)'
    PROVE  VmInv'
<1>1. /\ VmEnd("up") /\ (VmEnd("down") \/ VmSilent)
      /\ vmSrv = "accept" => VmSilent
      /\ vmSrv = "relay" => VmEnd("down") /\ vmDst = vmJob.dst
      /\ \A e \in VmDirs : VmEnds(e)
  BY DEF VmInv
<1>2. d \in {"up", "down"} /\ "up" \in VmDirs /\ "down" \in VmDirs
  BY DEF VmDirs
<1>3. \A e \in VmDirs : e # d /\ VmEnd(e) => VmEnd(e)'
  BY Zenon DEF VmEnd, VmOther
<1>4. d = "up" /\ VmSilent => VmSilent'
  BY <1>2, "up" # "down" DEF VmSilent, VmOther
<1>5. VmEnd("up")' /\ (VmEnd("down")' \/ VmSilent')
  <2>1. CASE d = "up"
    BY <1>1, <1>2, <1>3, <1>4, <2>1
  <2>2. CASE d = "down"
    BY <1>1, <1>2, <1>3, <2>2
  <2> QED
    BY <1>2, <2>1, <2>2
<1>6. vmSrv' = "accept" => VmSilent'
  BY <1>1, <1>2, <1>4
<1>7. vmSrv' = "relay" => VmEnd("down")' /\ vmDst' = vmJob'.dst
  BY <1>1, <1>2, <1>3
<1>8. ASSUME NEW e \in VmDirs PROVE VmEnds(e)'
  <2>1. CASE e = d
    BY <2>1, Zenon
  <2>2. CASE e # d
    <3>1. VmCutOff(e) => VmCutOff(e)'
      BY DEF VmCutOff
    <3>2. vmIn'[e] = vmIn[e] /\ vmOut'[e] = vmOut[e] /\ vmWire'[e] = vmWire[e] /\ vmGot'[e] = vmGot[e]
      BY <2>2, Zenon DEF VmOther
    <3>3. VmEnds(e)
      BY <1>1
    <3> QED
      BY <3>1, <3>2, <3>3, Zenon DEF VmEnds
  <2> QED
    BY <2>1, <2>2
<1> QED
  BY <1>5, <1>6, <1>7, <1>8, Zenon DEF VmInv

\* What one direction of the invariant says.
LEMMA VmAt ==
    ASSUME VmInv, NEW d \in VmDirs
    PROVE  /\ VmFlow(vmJob, d) /\ vmTag \in {0, 1}
           /\ vmIn[d] \in VmReaders /\ vmOut[d] \in VmWriters(vmJob)
           /\ vmWire[d].syms \in Seq(VmSymbol) /\ vmWire[d].eof \in BOOLEAN
           /\ VmEnds(d)
           /\ d = "up" => VmEnd(d)
           /\ d = "down" /\ vmSrv = "relay" => VmEnd(d) /\ vmSrv # "accept"
           /\ d = "down" /\ (vmWire["down"].syms # <<>> \/ vmIn["down"].st \notin {"size", "error"} \/ vmIn["down"].buf # <<>>)
                => VmEnd(d) /\ vmSrv # "accept"
<1>1. VmTyped
  BY DEF VmInv
<1>2. VmFlow(vmJob, d)
  BY <1>1, VmFlows DEF VmTyped
<1>3. vmTag \in {0, 1}
  BY <1>1, VmAssumption DEF VmTyped
<1>4. vmIn[d] \in VmReaders /\ vmOut[d] \in VmWriters(vmJob) /\ vmWire[d] \in [eof : BOOLEAN, syms : Seq(VmSymbol)]
  BY <1>1 DEF VmTyped
<1>5. vmWire[d].syms \in Seq(VmSymbol) /\ vmWire[d].eof \in BOOLEAN
  BY <1>4, Zenon
<1>6. VmEnds(d)
  BY DEF VmInv
<1>7. d = "up" => VmEnd(d)
  BY DEF VmInv
<1>8. d = "down" /\ vmSrv = "relay" => VmEnd(d) /\ vmSrv # "accept"
  BY DEF VmInv
<1>9. d = "down" /\ (vmWire["down"].syms # <<>> \/ vmIn["down"].st \notin {"size", "error"} \/ vmIn["down"].buf # <<>>)
        => VmEnd(d) /\ vmSrv # "accept"
  <2>1. VmSilent => vmWire["down"].syms = <<>> /\ vmIn["down"].st \in {"size", "error"} /\ vmIn["down"].buf = <<>>
    BY DEF VmSilent, VmReader
  <2> QED
    BY <2>1 DEF VmInv
<1> QED
  BY <1>2, <1>3, <1>4, <1>5, <1>6, <1>7, <1>8, <1>9

\* What one entry of a function becomes, and what becomes of the others.
LEMMA VmOne ==
    ASSUME NEW S, NEW D, NEW f \in [D -> S], NEW d \in D, NEW x \in S, NEW h, h = [f EXCEPT ![d] = x]
    PROVE  h \in [D -> S] /\ h[d] = x /\ \A e \in D : e # d => h[e] = f[e]
OBVIOUS

\* poll_write keeps the line of its direction.
LEMMA VmPollWriteKeeps ==
    ASSUME VmInv, NEW d \in VmDirs, NEW n \in 1..VmAhead, VmPollWrite(d, n), VmEnd(d),
           vmSrv' = vmSrv, d = "down" => vmSrv = "relay"
    PROVE  VmInv'
<1>1. PICK k \in 1..Len(vmOut[d].todo) :
         LET o == IF vmOut[d].buf = <<>> THEN VmBuilt(vmOut[d], k) ELSE vmOut[d] IN
         /\ n <= Len(o.buf)
         /\ vmWire' = [vmWire EXCEPT ![d].syms = @ \o SubSeq(o.buf, 1, n)]
         /\ vmOut' = [vmOut EXCEPT ![d] = VmFlushed(o, n)]
  BY DEF VmPollWrite
<1>2. PICK o : o = IF vmOut[d].buf = <<>> THEN VmBuilt(vmOut[d], k) ELSE vmOut[d]
  OBVIOUS
<1>3. /\ n <= Len(o.buf) /\ vmOut' = [vmOut EXCEPT ![d] = VmFlushed(o, n)]
      /\ vmWire' = [vmWire EXCEPT ![d].syms = @ \o SubSeq(o.buf, 1, n)]
  BY <1>1, <1>2
<1>4. vmOut[d].todo # <<>> /\ UNCHANGED <<vmJob, vmId, vmTag, vmIn, vmGot, vmSrv, vmDst>>
  BY DEF VmPollWrite
<1>5. PICK r \in VmReaders : r = vmIn[d]
  BY VmAt
<1>6. PICK s \in Seq(VmSymbol) : s = vmWire[d].syms
  BY VmAt
<1>7. PICK taken : taken = vmGot[d]
  OBVIOUS
<1>8. PICK b \in VmWriters(vmJob) : b = vmOut[d]
  BY VmAt
<1>9. VmLine(vmJob, d, vmTag, r, s, b, taken)
  BY <1>5, <1>6, <1>7, <1>8 DEF VmEnd
<1>10. VmFlow(vmJob, d) /\ vmTag \in {0, 1} /\ VmEnds(d) /\ ~VmCutOff(d)
  BY VmAt DEF VmCutOff
<1>11. o \in VmWriters(vmJob) /\ o.buf # <<>> /\ VmLine(vmJob, d, vmTag, r, s, o, taken)
  <2>1. CASE b.buf = <<>>
    <3>1. o = VmBuilt(b, k) /\ b.todo # <<>> /\ k \in 1..Len(b.todo)
      BY <1>1, <1>2, <1>4, <1>8, <2>1
    <3> QED
      BY <1>9, <1>10, <2>1, <3>1, VmBuildKeeps
  <2>2. CASE b.buf # <<>>
    BY <1>2, <1>8, <1>9, <2>2
  <2> QED
    BY <2>1, <2>2
<1>12. PICK m \in Nat : m = n
  BY VmAssumption
<1>13. /\ VmFlushed(o, m) \in VmWriters(vmJob) /\ s \o SubSeq(o.buf, 1, m) \in Seq(VmSymbol)
       /\ VmLine(vmJob, d, vmTag, r, s \o SubSeq(o.buf, 1, m), VmFlushed(o, m), taken)
  BY <1>3, <1>10, <1>11, <1>12, VmFlushKeeps
<1>14. PICK z \in VmWriters(vmJob) : z = VmFlushed(o, m)
  BY <1>13
<1>15. PICK t \in Seq(VmSymbol) : t = s \o SubSeq(o.buf, 1, m)
  BY <1>13
<1>16. VmTyped
  BY DEF VmInv
<1>17. vmOut' \in [VmDirs -> VmWriters(vmJob)] /\ vmOut'[d] = z /\ \A e \in VmDirs : e # d => vmOut'[e] = vmOut[e]
  BY <1>3, <1>12, <1>14, <1>16, VmOne DEF VmTyped
<1>18. /\ vmWire' \in [VmDirs -> [eof : BOOLEAN, syms : Seq(VmSymbol)]]
       /\ vmWire'[d].syms = t /\ vmWire'[d].eof = vmWire[d].eof
       /\ \A e \in VmDirs : e # d => vmWire'[e] = vmWire[e]
  BY <1>3, <1>6, <1>12, <1>15, <1>16 DEF VmTyped
<1>19. VmTyped'
  BY <1>4, <1>16, <1>17, <1>18 DEF VmTyped
<1>20. VmOther(d)
  BY <1>4, <1>17, <1>18 DEF VmOther
<1>21. VmEnd(d)'
  BY <1>4, <1>5, <1>7, <1>13, <1>14, <1>15, <1>17, <1>18 DEF VmEnd
<1>22. VmEnds(d)'
  <2>1. ~vmWire'[d].eof
    BY <1>4, <1>10, <1>18 DEF VmEnds
  <2>2. vmIn'[d] = vmIn[d] /\ vmGot'[d] = vmGot[d] /\ vmJob' = vmJob
    BY <1>4
  <2> QED
    BY <1>10, <2>1, <2>2, Zenon DEF VmEnds
<1>23. vmSrv' = vmSrv /\ (d = "down" => vmSrv # "accept")
  OBVIOUS
<1> QED
  BY <1>4, <1>19, <1>20, <1>21, <1>22, <1>23, VmKeeps

\* A step of a reader that leaves the stream alone.
LEMMA VmReaderKeeps ==
    ASSUME VmInv, NEW d \in VmDirs, NEW x \in VmReaders, NEW y,
           VmLine(vmJob, d, vmTag, x, vmWire[d].syms, vmOut[d], y),
           vmIn' = [vmIn EXCEPT ![d] = x], vmGot' = [vmGot EXCEPT ![d] = y],
           vmJob' = vmJob, vmTag' = vmTag, vmDst' = vmDst, vmSrv' = vmSrv, vmOut' = vmOut, vmWire' = vmWire,
           d = "down" => vmSrv # "accept",
           x.st = "error" => VmCutOff(d),
           x.st = "closed" => y = vmJob[d] \/ (VmCutOff(d) /\ vmOut[d].todo # <<>>)
    PROVE  VmInv'
<1>1. VmTyped
  BY DEF VmInv
<1>2. vmIn' \in [VmDirs -> VmReaders] /\ vmIn'[d] = x /\ \A e \in VmDirs : e # d => vmIn'[e] = vmIn[e]
  BY <1>1, VmOne DEF VmTyped
<1>3. /\ vmGot' = [e \in VmDirs |-> vmGot'[e]] /\ vmGot'[d] = y
      /\ \A e \in VmDirs : e # d => vmGot'[e] = vmGot[e]
  BY <1>1 DEF VmTyped
<1>4. VmTyped'
  BY <1>1, <1>2, <1>3 DEF VmTyped
<1>5. VmOther(d)
  BY <1>2, <1>3 DEF VmOther
<1>6. VmEnd(d)'
  BY <1>2, <1>3 DEF VmEnd
<1>7. VmEnds(d)'
  <2>1. VmEnds(d) /\ (VmCutOff(d) => VmCutOff(d)')
    BY VmAt DEF VmCutOff
  <2> QED
    BY <1>2, <1>3, <2>1, Zenon DEF VmEnds
<1> QED
  BY <1>4, <1>5, <1>6, <1>7, VmKeeps

\* What was handed out stays as it is.
LEMMA VmGotStays ==
    ASSUME VmInv, vmGot' = vmGot, NEW d \in VmDirs
    PROVE  vmGot' = [vmGot EXCEPT ![d] = vmGot[d]]
BY DEF VmInv, VmTyped

\* poll_fill keeps the line.
LEMMA VmFillStep ==
    ASSUME VmInv, NEW d \in VmDirs, NEW k \in 1..VmAhead, VmFill(d, k)
    PROVE  VmInv'
<1>1. PICK r \in VmReaders : r = vmIn[d]
  BY VmAt
<1>2. PICK s \in Seq(VmSymbol) : s = vmWire[d].syms
  BY VmAt
<1>3. PICK o \in VmWriters(vmJob) : o = vmOut[d]
  BY VmAt
<1>4. PICK m \in Nat : m = k /\ m > 0
  BY VmAssumption
<1>5. /\ Len(r.buf) < VmNeed(r) /\ m <= Len(s)
      /\ r.st \in {"prefix", "request"} => m <= VmNeed(r)
      /\ vmIn' = [vmIn EXCEPT ![d].buf = @ \o SubSeq(s, 1, m)]
      /\ vmWire' = [vmWire EXCEPT ![d].syms = SubSeq(s, m + 1, Len(s))]
      /\ UNCHANGED <<vmJob, vmId, vmTag, vmOut, vmGot, vmSrv, vmDst, vmLock>>
  <2>1. vmWire' = [vmWire EXCEPT ![d].syms = SubSeq(@, k + 1, Len(@))]
    BY DEF VmFill
  <2>2. vmWire' = [vmWire EXCEPT ![d].syms = SubSeq(s, m + 1, Len(s))]
    BY <2>1, <1>2, <1>4
  <2> QED
    BY <1>1, <1>2, <1>4, <2>2 DEF VmFill
<1>6. s # <<>>
  BY <1>4, <1>5
<1>7. VmEnd(d) /\ (d = "down" => vmSrv # "accept")
  BY <1>2, <1>6, VmAt DEF VmDirs
<1>8. PICK taken : taken = vmGot[d]
  OBVIOUS
<1>9. VmLine(vmJob, d, vmTag, r, s, o, taken)
  BY <1>1, <1>2, <1>3, <1>7, <1>8 DEF VmEnd
<1>10. r.st \in {"prefix", "request"} => Len(r.buf) + m <= 1
  <2>1. Len(r.buf) \in Nat
    BY LenProperties DEF VmReaders
  <2>2. r.st \in {"prefix", "request"} => VmNeed(r) = 1
    BY DEF VmNeed
  <2> QED
    BY <1>4, <1>5, <2>1, <2>2
<1>11. PICK x : x = [r EXCEPT !.buf = @ \o SubSeq(s, 1, m)]
  OBVIOUS
<1>12. /\ x \in VmReaders /\ SubSeq(s, m + 1, Len(s)) \in Seq(VmSymbol)
       /\ VmLine(vmJob, d, vmTag, x, SubSeq(s, m + 1, Len(s)), o, taken)
  BY <1>5, <1>9, <1>10, <1>11, VmFillKeeps
<1>13. PICK t \in Seq(VmSymbol) : t = SubSeq(s, m + 1, Len(s))
  BY <1>12
<1>14. VmTyped
  BY DEF VmInv
<1>15. vmIn' = [vmIn EXCEPT ![d] = x]
  BY <1>1, <1>5, <1>11, <1>14 DEF VmTyped
<1>16. vmIn' \in [VmDirs -> VmReaders] /\ vmIn'[d] = x /\ \A e \in VmDirs : e # d => vmIn'[e] = vmIn[e]
  BY <1>12, <1>14, <1>15, VmOne DEF VmTyped
<1>17. /\ vmWire' \in [VmDirs -> [eof : BOOLEAN, syms : Seq(VmSymbol)]]
       /\ vmWire'[d].syms = t /\ vmWire'[d].eof = vmWire[d].eof
       /\ \A e \in VmDirs : e # d => vmWire'[e] = vmWire[e]
  BY <1>5, <1>13, <1>14 DEF VmTyped
<1>18. VmTyped'
  BY <1>5, <1>14, <1>16, <1>17 DEF VmTyped
<1>19. VmOther(d)
  BY <1>5, <1>16, <1>17 DEF VmOther
<1>20. VmEnd(d)'
  BY <1>3, <1>5, <1>8, <1>12, <1>13, <1>16, <1>17 DEF VmEnd
<1>21. VmEnds(d)'
  <2>1. VmEnds(d) /\ (VmCutOff(d) => VmCutOff(d)')
    BY <1>5, VmAt DEF VmCutOff
  <2>2. vmIn'[d].st = vmIn[d].st
    BY <1>1, <1>11, <1>16 DEF VmReaders
  <2>3. vmGot'[d] = vmGot[d] /\ vmOut'[d] = vmOut[d] /\ vmJob' = vmJob
    BY <1>5
  <2> QED
    BY <1>17, <2>1, <2>2, <2>3, Zenon DEF VmEnds
<1> QED
  BY <1>5, <1>7, <1>18, <1>19, <1>20, <1>21, VmKeeps

\* A reader that waits for more stops; one that is cut off may do so anywhere, another
\* has read everything.
LEMMA VmStops ==
    ASSUME VmInv, NEW d \in VmDirs, NEW st \in {"closed", "error"},
           vmIn[d].st \in {"size", "response", "len", "data"}, Len(vmIn[d].buf) < VmNeed(vmIn[d]),
           vmIn' = [vmIn EXCEPT ![d].st = st],
           UNCHANGED <<vmJob, vmTag, vmOut, vmWire, vmGot, vmSrv, vmDst>>,
           st = "error" => VmCutOff(d), st = "closed" => vmIn[d].st = "len",
           st = "closed" => vmGot[d] = vmJob[d] \/ (VmCutOff(d) /\ vmOut[d].todo # <<>>)
    PROVE  VmInv'
<1>1. PICK r \in VmReaders : r = vmIn[d]
  BY VmAt
<1>2. PICK x : x = [r EXCEPT !.st = st]
  OBVIOUS
<1>3. VmTyped
  BY DEF VmInv
<1>4. vmIn' = [vmIn EXCEPT ![d] = x]
  BY <1>1, <1>2, <1>3 DEF VmTyped
<1>5. vmGot' = [vmGot EXCEPT ![d] = vmGot[d]]
  BY VmGotStays
<1>6. x \in VmReaders /\ x.st = st /\ x.buf = r.buf /\ x.size = r.size /\ x.chunk = r.chunk /\ x.count = r.count
  BY <1>2 DEF VmReaders, VmStates
<1>7. CASE VmEnd(d) /\ (d = "down" => vmSrv # "accept")
  <2>1. r.st # "hand" /\ VmLine(vmJob, d, vmTag, r, vmWire[d].syms, vmOut[d], vmGot[d])
    BY <1>1, <1>7 DEF VmEnd
  <2>2. VmLine(vmJob, d, vmTag, x, vmWire[d].syms, vmOut[d], vmGot[d])
    BY <1>2, <2>1, VmStopKeeps
  <2>3. (x.st = "error" => VmCutOff(d)) /\ (x.st = "closed" => vmGot[d] = vmJob[d] \/ (VmCutOff(d) /\ vmOut[d].todo # <<>>))
    BY <1>6
  <2>4. vmJob' = vmJob /\ vmTag' = vmTag /\ vmDst' = vmDst /\ vmSrv' = vmSrv /\ vmOut' = vmOut /\ vmWire' = vmWire
    OBVIOUS
  <2>5. PICK y : y = vmGot[d] /\ vmGot' = [vmGot EXCEPT ![d] = y]
    BY <1>5
  <2>6. x.st = "closed" => y = vmJob[d] \/ (VmCutOff(d) /\ vmOut[d].todo # <<>>)
    BY <2>3, <2>5
  <2>7. VmLine(vmJob, d, vmTag, x, vmWire[d].syms, vmOut[d], y)
    BY <2>2, <2>5
  <2>8. PICK z \in VmReaders : z = x
    BY <1>6
  <2>9. (d = "down" => vmSrv # "accept") /\ (z.st = "error" => VmCutOff(d))
    BY <1>7, <2>3, <2>8
  <2>10. vmIn' = [vmIn EXCEPT ![d] = z] /\ VmLine(vmJob, d, vmTag, z, vmWire[d].syms, vmOut[d], y)
    BY <1>4, <2>7, <2>8
  <2>11. z.st = "closed" => y = vmJob[d] \/ (VmCutOff(d) /\ vmOut[d].todo # <<>>)
    BY <2>6, <2>8
  <2>12. vmGot' = [vmGot EXCEPT ![d] = y]
    BY <2>5
  <2> QED
    BY <2>4, <2>9, <2>10, <2>11, <2>12, VmReaderKeeps
<1>8. CASE ~(VmEnd(d) /\ (d = "down" => vmSrv # "accept"))
  <2>1. d = "down" /\ vmIn["down"].st \in {"size", "error"} /\ vmIn["down"].st = "size"
    BY <1>8, VmAt DEF VmDirs
  <2>2. st = "error" /\ VmCutOff(d)
    BY <2>1
  <2>3. vmSrv = "dead" /\ vmSrv' = "dead" /\ VmCutOff(d)'
    BY <2>2 DEF VmCutOff
  <2>4. VmSilent
    BY <1>8, <2>1, <2>3 DEF VmInv
  <2>5. x = VmReader("error")
    <3>1. r = VmReader("size")
      BY <1>1, <2>1, <2>4 DEF VmSilent, VmReader
    <3> QED
      BY <1>2, <2>2, <3>1 DEF VmReader
  <2>6. vmIn' \in [VmDirs -> VmReaders] /\ vmIn'[d] = x /\ \A e \in VmDirs : e # d => vmIn'[e] = vmIn[e]
    <3>1. x \in VmReaders /\ vmIn \in [VmDirs -> VmReaders]
      BY <1>3, <1>6 DEF VmTyped
    <3> QED
      BY <1>4, <3>1, VmOne
  <2>7. VmSilent'
    BY <2>1, <2>3, <2>4, <2>5, <2>6 DEF VmSilent
  <2>8. VmTyped'
    BY <1>3, <2>6 DEF VmTyped
  <2>9. VmEnd("up")'
    <3>1. VmEnd("up") /\ vmIn'["up"] = vmIn["up"]
      BY <2>1, <2>6 DEF VmInv, VmDirs
    <3> QED
      BY <3>1 DEF VmEnd
  <2>10. \A e \in VmDirs : VmEnds(e)'
    <3>1. ASSUME NEW e \in VmDirs PROVE VmEnds(e)'
      <4>1. VmEnds(e) /\ (VmCutOff(e) => VmCutOff(e)')
        BY VmAt DEF VmCutOff
      <4>2. CASE e = d
        BY <1>6, <2>2, <2>3, <2>6, <4>1, <4>2, Zenon DEF VmEnds
      <4>3. CASE e # d
        <5>1. vmIn'[e] = vmIn[e]
          BY <2>6, <4>3
        <5> QED
          BY <4>1, <5>1, Zenon DEF VmEnds
      <4> QED
        BY <4>2, <4>3
    <3> QED
      BY <3>1
  <2> QED
    BY <2>3, <2>7, <2>8, <2>9, <2>10 DEF VmInv
<1> QED
  BY <1>7, <1>8

\* The end of a stream is a clean one unless the writer was dropped.
LEMMA VmEofStep ==
    ASSUME VmInv, NEW d \in VmDirs, VmEof(d)
    PROVE  VmInv'
<1>1. PICK r \in VmReaders : r = vmIn[d]
  BY VmAt
<1>2. PICK o \in VmWriters(vmJob) : o = vmOut[d]
  BY VmAt
<1>3. PICK st \in {"closed", "error"} : st = IF r.st = "len" /\ r.buf = <<>> THEN "closed" ELSE "error"
  OBVIOUS
<1>4. /\ r.st \in {"size", "response", "len", "data"} /\ Len(r.buf) < VmNeed(r) /\ vmWire[d].eof /\ vmWire[d].syms = <<>>
      /\ vmIn' = [vmIn EXCEPT ![d].st = st]
      /\ UNCHANGED <<vmJob, vmId, vmTag, vmOut, vmWire, vmGot, vmSrv, vmDst, vmLock>>
  BY <1>1, <1>3 DEF VmEof
<1>5. VmEnds(d) /\ VmFlow(vmJob, d) /\ vmTag \in {0, 1}
  BY VmAt
<1>6. CASE o.todo # <<>>
  <2>1. VmCutOff(d)
    BY <1>2, <1>4, <1>5, <1>6 DEF VmEnds
  <2>2. st = "closed" => r.st = "len"
    BY <1>3
  <2> QED
    BY <1>1, <1>2, <1>4, <1>6, <2>1, <2>2, VmStops
<1>7. CASE o.todo = <<>> /\ VmEnd(d)
  <2>1. VmLine(vmJob, d, vmTag, r, <<>>, o, vmGot[d])
    BY <1>1, <1>2, <1>4, <1>7 DEF VmEnd
  <2>2. r.st = "len" /\ r.buf = <<>> /\ vmGot[d] = vmJob[d]
    BY <1>4, <1>5, <1>7, <2>1, VmEndKeeps
  <2>3. st = "closed"
    BY <1>3, <2>2
  <2> QED
    BY <1>1, <1>4, <2>2, <2>3, VmStops
<1>8. CASE o.todo = <<>> /\ ~VmEnd(d)
  <2>1. d = "down" /\ vmSrv # "relay"
    BY <1>8, VmAt DEF VmDirs
  <2>2. VmSilent
    BY <1>8, <2>1 DEF VmInv
  <2>3. r.st = "size"
    BY <1>1, <1>4, <2>1, <2>2 DEF VmSilent, VmReader
  <2>4. st = "error"
    BY <1>3, <2>3
  <2>5. VmCutOff(d)
    BY <1>4, <2>1, <2>2 DEF VmSilent, VmCutOff
  <2> QED
    BY <1>1, <1>4, <2>1, <2>4, <2>5, VmStops
<1> QED
  BY <1>6, <1>7, <1>8

\* A length and a chunk are cut from the buffer.
LEMMA VmCutStep ==
    ASSUME VmInv, NEW d \in VmDirs, VmCut(d)
    PROVE  VmInv'
<1>1. PICK r \in VmReaders : r = vmIn[d]
  BY VmAt
<1>2. PICK o \in VmWriters(vmJob) : o = vmOut[d]
  BY VmAt
<1>3. PICK s \in Seq(VmSymbol) : s = vmWire[d].syms
  BY VmAt
<1>4. PICK x : x =
         IF r.st = "len" THEN [r EXCEPT !.st = "data", !.size = r.buf[1][2], !.buf = Tail(@)]
         ELSE [r EXCEPT !.count = (@ + 1) % VmNonces, !.buf = SubSeq(@, r.size + 1, Len(@)),
               !.size = 0, !.chunk = [j \in 1..(r.size - vmTag) |-> r.buf[j][2]],
               !.st = IF vmTag = 1 => r.buf[r.size] = <<"tag", <<r.count, r.size - 1>>>>
                      THEN "hand" ELSE "error"]
  OBVIOUS
<1>5. /\ r.st \in {"len", "data"} /\ Len(r.buf) >= VmNeed(r) /\ vmIn' = [vmIn EXCEPT ![d] = x]
      /\ UNCHANGED <<vmJob, vmId, vmTag, vmOut, vmWire, vmGot, vmSrv, vmDst, vmLock>>
  BY <1>1, <1>4, Zenon DEF VmCut
<1>6. VmEnd(d) /\ (d = "down" => vmSrv # "accept") /\ VmFlow(vmJob, d) /\ vmTag \in {0, 1}
  BY <1>1, <1>5, VmAt DEF VmDirs
<1>7. PICK taken : taken = vmGot[d]
  OBVIOUS
<1>8. VmLine(vmJob, d, vmTag, r, s, o, taken)
  BY <1>1, <1>2, <1>3, <1>6, <1>7 DEF VmEnd
<1>9. x \in VmReaders /\ x.st \in {"data", "hand"} /\ VmLine(vmJob, d, vmTag, x, s, o, taken)
  <2>1. CASE r.st = "len"
    <3>1. VmLength(r, x)
      BY <1>4, <2>1 DEF VmLength
    <3>2. Len(r.buf) >= 1
      BY <1>5, <2>1 DEF VmNeed
    <3>3. x.st = "data"
      BY <3>1 DEF VmLength, VmReaders
    <3> QED
      BY <1>6, <1>8, <2>1, <3>1, <3>2, <3>3, VmLengthKeeps
  <2>2. CASE r.st = "data"
    <3>1. r.st # "len"
      BY <2>2
    <3>2. VmOpen(r, vmTag, x)
      BY <1>4, <3>1, Zenon DEF VmOpen
    <3>3. Len(r.buf) >= r.size
      BY <1>5, <2>2 DEF VmNeed
    <3> QED
      BY <1>6, <1>8, <2>2, <3>2, <3>3, VmOpenKeeps
  <2> QED
    BY <1>5, <2>1, <2>2
<1>10. vmGot' = [vmGot EXCEPT ![d] = taken]
  BY <1>5, <1>7, VmGotStays
<1>11. /\ vmJob' = vmJob /\ vmTag' = vmTag /\ vmDst' = vmDst
       /\ vmSrv' = vmSrv /\ vmOut' = vmOut /\ vmWire' = vmWire
  BY <1>5
<1>12. VmLine(vmJob, d, vmTag, x, vmWire[d].syms, vmOut[d], taken)
  BY <1>2, <1>3, <1>9
<1>13. x.st # "error" /\ x.st # "closed"
  BY <1>9
<1> QED
  BY <1>5, <1>6, <1>9, <1>10, <1>11, <1>12, <1>13, VmReaderKeeps, Zenon

\* A chunk is handed out, in parts or, a datagram, whole.
LEMMA VmHandStep ==
    ASSUME VmInv, NEW d \in VmDirs, NEW n \in 1..VmAhead, VmHand(d, n)
    PROVE  VmInv'
<1>1. PICK r \in VmReaders : r = vmIn[d]
  BY VmAt
<1>2. PICK o \in VmWriters(vmJob) : o = vmOut[d]
  BY VmAt
<1>3. PICK s \in Seq(VmSymbol) : s = vmWire[d].syms
  BY VmAt
<1>4. PICK m \in Nat : m = n
  BY VmAssumption
<1>5. PICK taken : taken = vmGot[d]
  OBVIOUS
<1>6. /\ r.st = "hand" /\ m <= Len(r.chunk) /\ (vmJob.cmd = 2 => m = Len(r.chunk))
      /\ UNCHANGED <<vmJob, vmId, vmTag, vmOut, vmWire, vmSrv, vmDst>>
  BY <1>1, <1>4 DEF VmHand, VmUdp
<1>7. VmEnd(d) /\ (d = "down" => vmSrv # "accept") /\ VmFlow(vmJob, d) /\ vmTag \in {0, 1}
  BY <1>1, <1>6, VmAt DEF VmDirs
<1>8. VmLine(vmJob, d, vmTag, r, s, o, taken)
  BY <1>1, <1>2, <1>3, <1>5, <1>7 DEF VmEnd
<1>9. PICK x : VmHeld(r, m, x)
  BY DEF VmHeld
<1>10. x \in VmReaders /\ VmLine(vmJob, d, vmTag, x, s, o, VmHanded(vmJob, r, m, taken))
  BY <1>6, <1>7, <1>8, <1>9, VmHandKeeps
<1>11. vmIn' = [vmIn EXCEPT ![d] = x]
  <2>1. vmIn' = [vmIn EXCEPT ![d].chunk = SubSeq(@, n + 1, Len(@)),
                             ![d].st = IF n = Len(vmIn[d].chunk) THEN "len" ELSE "hand"]
    BY DEF VmHand
  <2>2. vmIn \in [VmDirs -> VmReaders]
    BY DEF VmInv, VmTyped
  <2> QED
    BY <1>1, <1>4, <1>9, <2>1, <2>2 DEF VmHeld
<1>12. vmGot' = [vmGot EXCEPT ![d] = VmHanded(vmJob, r, m, taken)]
  <2>1. vmGot' = [vmGot EXCEPT ![d] = vmGot[d] \o IF VmUdp THEN <<vmIn[d].chunk>> ELSE SubSeq(vmIn[d].chunk, 1, n)]
    BY DEF VmHand
  <2> QED
    BY <1>1, <1>4, <1>5, <2>1, Zenon DEF VmHanded, VmUdp
<1>13. /\ vmJob' = vmJob /\ vmTag' = vmTag /\ vmDst' = vmDst
       /\ vmSrv' = vmSrv /\ vmOut' = vmOut /\ vmWire' = vmWire
  BY <1>6
<1>14. VmLine(vmJob, d, vmTag, x, vmWire[d].syms, vmOut[d], VmHanded(vmJob, r, m, taken))
  BY <1>2, <1>3, <1>10
<1>15. x.st # "error" /\ x.st # "closed"
  BY <1>9 DEF VmHeld, VmReaders
<1> QED
  BY <1>7, <1>10, <1>11, <1>12, <1>13, <1>14, <1>15, VmReaderKeeps, Zenon

\* The client takes the response header.
LEMMA VmResponseStep ==
    ASSUME VmInv, VmResponse
    PROVE  VmInv'
<1>1. PICK d \in VmDirs : d = "down"
  BY DEF VmDirs
<1>2. PICK r \in VmReaders : r = vmIn[d]
  BY VmAt
<1>3. PICK o \in VmWriters(vmJob) : o = vmOut[d]
  BY VmAt
<1>4. PICK s \in Seq(VmSymbol) : s = vmWire[d].syms
  BY VmAt
<1>5. PICK taken : taken = vmGot[d]
  OBVIOUS
<1>6. /\ r.st \in {"size", "response"} /\ r.buf # <<>>
      /\ UNCHANGED <<vmJob, vmId, vmTag, vmOut, vmWire, vmGot, vmSrv, vmDst, vmLock>>
  BY <1>1, <1>2 DEF VmResponse
<1>7. VmEnd(d) /\ vmSrv # "accept" /\ VmFlow(vmJob, d)
  BY <1>1, <1>2, <1>6, VmAt
<1>8. VmLine(vmJob, d, vmTag, r, s, o, taken)
  BY <1>2, <1>3, <1>4, <1>5, <1>7 DEF VmEnd
<1>9. PICK x : x = [r EXCEPT !.buf = Tail(@), !.st = IF @ = "size" THEN "response" ELSE "len"]
  OBVIOUS
<1>10. x \in VmReaders
  <2>1. r.buf \in Seq(VmSymbol)
    BY DEF VmReaders
  <2>2. Tail(r.buf) \in Seq(VmSymbol)
    BY <1>6, <2>1
  <2> QED
    BY <1>9, <2>2 DEF VmReaders, VmStates
<1>11. x.buf = Tail(r.buf) /\ x.count = r.count /\ x.st = IF r.st = "size" THEN "response" ELSE "len"
  BY <1>9 DEF VmReaders
<1>12. x.st = CASE r.st = "prefix" -> "request" [] r.st = "size" -> "response" [] OTHER -> "len"
  BY <1>6, <1>11
<1>13. VmLine(vmJob, d, vmTag, x, s, o, taken)
  BY <1>6, <1>7, <1>8, <1>11, <1>12, VmHandshakeKeeps
<1>14. vmIn' = [vmIn EXCEPT ![d] = x]
  <2>1. vmIn' = [vmIn EXCEPT !["down"].buf = Tail(@),
                             !["down"].st = IF @ = "size" THEN "response" ELSE "len"]
    BY DEF VmResponse
  <2>2. vmIn \in [VmDirs -> VmReaders]
    BY DEF VmInv, VmTyped
  <2> QED
    BY <1>1, <1>2, <1>9, <2>1, <2>2
<1>15. vmGot' = [vmGot EXCEPT ![d] = taken]
  BY <1>5, <1>6, VmGotStays
<1>16. /\ vmJob' = vmJob /\ vmTag' = vmTag /\ vmDst' = vmDst
       /\ vmSrv' = vmSrv /\ vmOut' = vmOut /\ vmWire' = vmWire
  BY <1>6
<1>17. VmLine(vmJob, d, vmTag, x, vmWire[d].syms, vmOut[d], taken)
  BY <1>3, <1>4, <1>13
<1>18. x.st # "error" /\ x.st # "closed"
  BY <1>11
<1> QED
  BY <1>7, <1>10, <1>14, <1>15, <1>16, <1>17, <1>18, VmReaderKeeps, Zenon

\* Before the request is read the inbound has opened nothing and has one symbol at most.
LEMMA VmAccepting ==
    ASSUME NEW job, NEW d, NEW tag, NEW r \in VmReaders, NEW syms, NEW o, NEW taken,
           VmLine(job, d, tag, r, syms, o, taken), r.st \in {"prefix", "request"}, r.buf # <<>>
    PROVE  Tail(r.buf) = <<>> /\ r.count = 0
<1>1. PICK T, n, w, q, g, p, i : VmLined(job, d, tag, r, syms, o, taken, T, n, w, q, g, p, i)
  BY DEF VmLine
<1>2. VmFramed(job, d, tag, T, n, w, q, g) /\ VmReaderAt(job, d, r, taken, p, i, n, w, q, g)
  BY <1>1 DEF VmLined
<1>3. i = 0 /\ Len(r.buf) <= 1 /\ r.count = g[i]
  BY <1>2 DEF VmReaderAt
<1>4. r.count = 0
  BY <1>2, <1>3 DEF VmFramed
<1>5. r.buf \in Seq(VmSymbol)
  BY DEF VmReaders
<1>6. Len(r.buf) \in Nat /\ Len(r.buf) # 0
  BY <1>5, EmptySeq, LenProperties
<1>7. Tail(r.buf) \in Seq(VmSymbol) /\ Len(Tail(r.buf)) = Len(r.buf) - 1
  BY <1>5, HeadTailProperties
<1>8. Len(Tail(r.buf)) = 0
  <2>1. PICK k \in Nat : k = Len(r.buf)
    BY <1>6
  <2>2. k <= 1 /\ k # 0 /\ Len(Tail(r.buf)) = k - 1
    BY <1>3, <1>6, <1>7, <2>1
  <2>3. \A j \in Nat : j <= 1 /\ j # 0 => j - 1 = 0
    OBVIOUS
  <2>4. k - 1 = 0
    BY <2>2, <2>3, Zenon
  <2> QED
    BY <2>2, <2>4, Zenon
<1> QED
  BY <1>4, <1>7, <1>8, EmptySeq

\* The request is parsed and the response header goes out.
LEMMA VmRequestStep ==
    ASSUME VmInv, VmAccept, vmIn["up"].st = "request"
    PROVE  VmInv'
<1>1. PICK d \in VmDirs : d = "up"
  BY DEF VmDirs
<1>2. PICK r \in VmReaders : r = vmIn[d]
  BY VmAt
<1>3. PICK o \in VmWriters(vmJob) : o = vmOut[d]
  BY VmAt
<1>4. PICK s \in Seq(VmSymbol) : s = vmWire[d].syms
  BY VmAt
<1>5. PICK taken : taken = vmGot[d]
  OBVIOUS
<1>6. /\ vmSrv = "accept" /\ r.buf # <<>> /\ r.st = "request"
      /\ vmDst' = VmParse(r.buf[1][2])
      /\ vmSrv' = IF vmDst' = VmNoTarget THEN "dead" ELSE "relay"
      /\ vmIn' = [vmIn EXCEPT !["up"] = VmReader("len")]
      /\ vmDst' # VmNoTarget => vmWire' = [vmWire EXCEPT !["down"].syms = VmHeader]
      /\ UNCHANGED <<vmJob, vmId, vmTag, vmOut, vmGot, vmLock>>
  BY <1>1, <1>2 DEF VmAccept
<1>7. VmEnd(d) /\ VmFlow(vmJob, d)
  BY <1>1, VmAt
<1>8. VmLine(vmJob, d, vmTag, r, s, o, taken)
  BY <1>2, <1>3, <1>4, <1>5, <1>7 DEF VmEnd
<1>9. PICK x : x = VmReader("len")
  OBVIOUS
<1>10. x \in VmReaders /\ x.buf = <<>> /\ x.count = 0 /\ x.st = "len"
  BY <1>9 DEF VmReader, VmReaders, VmStates
<1>11. Tail(r.buf) = <<>> /\ r.count = 0
  BY <1>6, <1>8, VmAccepting
<1>12. x.st = CASE r.st = "prefix" -> "request" [] r.st = "size" -> "response" [] OTHER -> "len"
  BY <1>6, <1>10
<1>13. x.buf = Tail(r.buf) /\ x.count = r.count /\ r.st \in {"prefix", "size", "request", "response"}
  BY <1>6, <1>10, <1>11
<1>14. VmLine(vmJob, d, vmTag, x, s, o, taken) /\ VmParse(r.buf[1][2]) = vmJob.dst
  <2>1. d = "up" /\ r.st = "request" /\ r.buf # <<>> /\ r.st \in {"prefix", "size", "request", "response"}
    BY <1>1, <1>6
  <2>2. x.buf = Tail(r.buf) /\ x.count = r.count
    BY <1>13
  <2> QED
    BY <1>7, <1>8, <1>12, <2>1, <2>2, VmHandshakeKeeps
<1>15. vmDst' = vmJob.dst /\ vmSrv' = "relay" /\ vmWire' = [vmWire EXCEPT !["down"].syms = VmHeader]
  <2>1. vmJob.dst \in 0..255
    BY VmAssumption DEF VmInv, VmTyped
  <2>2. vmDst' # VmNoTarget
    <3>1. PICK t \in 0..255 : t = vmJob.dst
      BY <2>1
    <3>2. vmDst' = t
      BY <1>6, <1>14, <3>1, Zenon
    <3> QED
      BY <3>2 DEF VmNoTarget
  <2> QED
    BY <1>6, <1>14, <2>2
<1>16. VmTyped /\ VmSilent
  BY <1>6 DEF VmInv
<1>17. "up" \in VmDirs /\ "down" \in VmDirs /\ "up" # "down" /\ \A e \in VmDirs : e = "up" \/ e = "down"
  BY DEF VmDirs
<1>18. VmHeader \in Seq(VmSymbol) /\ Len(VmHeader) = 2
  <2>1. <<"size", 4>> \in VmSymbol /\ <<"response", "v">> \in VmSymbol
    BY DEF VmSymbol
  <2> QED
    BY <2>1 DEF VmHeader
<1>19. vmIn' \in [VmDirs -> VmReaders] /\ vmIn'["up"] = x /\ vmIn'["down"] = vmIn["down"]
  BY <1>6, <1>9, <1>10, <1>16, <1>17 DEF VmTyped
<1>20. PICK H \in Seq(VmSymbol) : H = VmHeader /\ Len(H) = 2
  BY <1>18
<1>21. /\ vmWire' \in [VmDirs -> [eof : BOOLEAN, syms : Seq(VmSymbol)]]
       /\ vmWire'["down"].syms = H /\ vmWire'["up"] = vmWire["up"]
       /\ \A e \in VmDirs : vmWire'[e].eof = vmWire[e].eof
  BY <1>15, <1>16, <1>17, <1>20 DEF VmTyped
<1>22. VmTyped'
  BY <1>6, <1>16, <1>19, <1>21 DEF VmTyped
<1>23. VmEnd("up")'
  BY <1>1, <1>3, <1>4, <1>5, <1>6, <1>14, <1>19, <1>21 DEF VmEnd
<1>24. VmEnd("down")'
  <2>1. PICK e \in VmDirs : e = "down"
    BY <1>17
  <2>2. VmFlow(vmJob, e)
    BY VmAt
  <2>3. PICK z : z = VmReader("size")
    OBVIOUS
  <2>4. z = VmReader(IF e = "up" THEN "prefix" ELSE "size")
    BY <2>1, <2>3
  <2>5. PICK v : v = [todo |-> vmJob[e], buf |-> <<>>, take |-> 0, count |-> 0]
    OBVIOUS
  <2>6. VmLine(vmJob, e, vmTag, z, H, v, <<>>)
    BY <1>20, <2>1, <2>2, <2>4, <2>5, VmStarts
  <2>7. vmIn'["down"] = z /\ vmOut'["down"] = v /\ vmGot'["down"] = <<>>
    <3>1. VmEnds(e)
      BY VmAt
    <3>2. vmIn["down"].st # "error"
      BY <1>6, <2>1, <3>1 DEF VmEnds, VmCutOff
    <3>3. vmIn["down"] = z
      BY <1>16, <2>3, <3>2 DEF VmSilent, VmReader
    <3> QED
      BY <1>6, <1>16, <1>19, <2>1, <2>3, <2>5, <3>3 DEF VmSilent
  <2> QED
    BY <1>6, <1>21, <2>1, <2>6, <2>7 DEF VmEnd
<1>25. ASSUME NEW e \in VmDirs PROVE VmEnds(e)'
  <2>1. VmEnds(e) /\ ~VmCutOff(e)
    BY <1>6, VmAt DEF VmCutOff
  <2>2. vmIn'[e].st \notin {"error", "closed"} \/ vmIn'[e] = vmIn[e]
    BY <1>10, <1>17, <1>19
  <2> QED
    BY <1>6, <1>21, <2>1, <2>2, Zenon DEF VmEnds
<1> QED
  BY <1>6, <1>15, <1>22, <1>23, <1>24, <1>25 DEF VmInv

\* The inbound drops the connection.
LEMMA VmDropKeeps ==
    ASSUME VmInv, vmSrv' = "dead", vmWire' = VmDropped, UNCHANGED <<vmJob, vmTag, vmOut, vmIn, vmGot, vmDst>>
    PROVE  VmInv'
<1>1. VmTyped /\ "up" \in VmDirs /\ "down" \in VmDirs
  BY DEF VmInv, VmDirs
<1>2. /\ vmWire' \in [VmDirs -> [eof : BOOLEAN, syms : Seq(VmSymbol)]]
      /\ \A e \in VmDirs : vmWire'[e].syms = vmWire[e].syms
      /\ \A e \in VmDirs : e # "down" => vmWire'[e] = vmWire[e]
  BY <1>1 DEF VmDropped, VmTyped
<1>3. VmTyped'
  BY <1>1, <1>2 DEF VmTyped
<1>4. \A e \in VmDirs : VmEnd(e) => VmEnd(e)'
  BY <1>2, Zenon DEF VmEnd
<1>5. VmSilent => VmSilent'
  BY <1>1, <1>2 DEF VmSilent
<1>6. ASSUME NEW e \in VmDirs PROVE VmEnds(e)'
  <2>1. VmEnds(e)
    BY VmAt
  <2>2. CASE e = "down"
    <3>1. VmCutOff(e)'
      BY <2>2 DEF VmCutOff
    <3>2. VmCutOff(e) => VmCutOff(e)'
      BY <3>1
    <3> QED
      BY <2>1, <3>1, <3>2, Zenon DEF VmEnds
  <2>3. CASE e # "down"
    <3>1. ~VmCutOff(e) /\ vmWire'[e] = vmWire[e]
      BY <1>2, <2>3 DEF VmCutOff
    <3> QED
      BY <2>1, <3>1, Zenon DEF VmEnds
  <2> QED
    BY <2>2, <2>3
<1> QED
  BY <1>1, <1>3, <1>4, <1>5, <1>6 DEF VmInv

\* accept: a known uuid, an unknown one, or the request.
LEMMA VmAcceptStep ==
    ASSUME VmInv, VmAccept
    PROVE  VmInv'
<1>1. PICK d \in VmDirs : d = "up"
  BY DEF VmDirs
<1>2. PICK r \in VmReaders : r = vmIn[d]
  BY VmAt
<1>3. vmSrv = "accept" /\ r.buf # <<>> /\ UNCHANGED <<vmJob, vmId, vmTag, vmOut, vmGot, vmLock>>
  BY <1>1, <1>2 DEF VmAccept
<1>4. PICK taken : taken = vmGot[d]
  OBVIOUS
<1>5. VmEnd(d) /\ VmFlow(vmJob, d)
  BY <1>1, VmAt
<1>6. CASE vmIn["up"].st = "prefix" /\ vmIn' = [vmIn EXCEPT !["up"] = VmReader("request")]
           /\ UNCHANGED <<vmSrv, vmDst, vmWire>>
  <2>1. PICK o \in VmWriters(vmJob) : o = vmOut[d]
    BY VmAt
  <2>2. PICK s \in Seq(VmSymbol) : s = vmWire[d].syms
    BY VmAt
  <2>3. VmLine(vmJob, d, vmTag, r, s, o, taken)
    BY <1>2, <1>4, <1>5, <2>1, <2>2 DEF VmEnd
  <2>4. PICK x : x = VmReader("request")
    OBVIOUS
  <2>5. x \in VmReaders /\ x.buf = <<>> /\ x.count = 0 /\ x.st = "request"
    BY <2>4 DEF VmReader, VmReaders, VmStates
  <2>6. r.st = "prefix"
    BY <1>1, <1>2, <1>6
  <2>7. Tail(r.buf) = <<>> /\ r.count = 0
    BY <1>3, <2>3, <2>6, VmAccepting
  <2>8. x.st = CASE r.st = "prefix" -> "request" [] r.st = "size" -> "response" [] OTHER -> "len"
    BY <2>5, <2>6
  <2>9. x.buf = Tail(r.buf) /\ x.count = r.count /\ r.st \in {"prefix", "size", "request", "response"}
    BY <2>5, <2>6, <2>7
  <2>10. VmLine(vmJob, d, vmTag, x, s, o, taken)
    BY <1>3, <1>5, <2>3, <2>8, <2>9, VmHandshakeKeeps
  <2>11. vmIn' = [vmIn EXCEPT ![d] = x]
    BY <1>1, <1>6, <2>4
  <2>12. vmGot' = [vmGot EXCEPT ![d] = taken]
    BY <1>3, <1>4, VmGotStays
  <2>13. d # "down"
    BY <1>1
  <2>14. /\ vmJob' = vmJob /\ vmTag' = vmTag /\ vmDst' = vmDst
         /\ vmSrv' = vmSrv /\ vmOut' = vmOut /\ vmWire' = vmWire
    BY <1>3, <1>6
  <2>15. VmLine(vmJob, d, vmTag, x, vmWire[d].syms, vmOut[d], taken)
    BY <2>1, <2>2, <2>10
  <2>16. x.st # "error" /\ x.st # "closed"
    BY <2>5
  <2> QED
    BY <2>5, <2>11, <2>12, <2>13, <2>14, <2>15, <2>16, VmReaderKeeps, Zenon
<1>7. CASE vmSrv' = "dead" /\ vmWire' = VmDropped /\ UNCHANGED <<vmIn, vmDst>>
  BY <1>3, <1>7, VmDropKeeps
<1>8. CASE vmIn["up"].st = "request"
  BY <1>8, VmRequestStep
<1> QED
  BY <1>6, <1>7, <1>8 DEF VmAccept

\* A writer shuts down with nothing left.
LEMMA VmShutdownStep ==
    ASSUME VmInv, NEW d \in VmDirs, VmShutdown(d)
    PROVE  VmInv'
<1>1. /\ (d = "down" => vmSrv = "relay") /\ vmOut[d].todo = <<>>
      /\ vmWire' = [vmWire EXCEPT ![d].eof = TRUE]
      /\ UNCHANGED <<vmJob, vmId, vmTag, vmOut, vmIn, vmGot, vmSrv, vmDst, vmLock>>
  BY DEF VmShutdown
<1>2. VmEnd(d) /\ (d = "down" => vmSrv # "accept")
  BY <1>1, VmAt DEF VmDirs
<1>3. VmTyped
  BY DEF VmInv
<1>4. \A e \in VmDirs : vmWire[e] \in [eof : BOOLEAN, syms : Seq(VmSymbol)]
  BY <1>3 DEF VmTyped
<1>5. vmWire'[d].syms = vmWire[d].syms /\ \A e \in VmDirs : e # d => vmWire'[e] = vmWire[e]
  BY <1>1, <1>3 DEF VmTyped
<1>6. vmWire' \in [VmDirs -> [eof : BOOLEAN, syms : Seq(VmSymbol)]]
  BY <1>1, <1>3 DEF VmTyped
<1>7. VmTyped' /\ VmOther(d) /\ VmEnd(d)'
  BY <1>1, <1>2, <1>3, <1>5, <1>6 DEF VmTyped, VmOther, VmEnd
<1>8. VmEnds(d)'
  <2>1. VmEnds(d) /\ (VmCutOff(d) => VmCutOff(d)') /\ vmOut'[d].todo = <<>>
    BY <1>1, VmAt DEF VmCutOff
  <2> QED
    BY <1>1, <2>1, Zenon DEF VmEnds
<1> QED
  BY <1>1, <1>2, <1>7, <1>8, VmKeeps

\* Steps that move nothing.
LEMMA VmStill ==
    ASSUME VmInv, UNCHANGED <<vmJob, vmTag, vmOut, vmWire, vmIn, vmGot, vmDst, vmSrv>>
    PROVE  VmInv'
<1>1. PICK d \in VmDirs : d = "up"
  BY DEF VmDirs
<1>2. VmTyped' /\ VmEnd(d)' /\ VmOther(d)
  BY <1>1 DEF VmInv, VmTyped, VmEnd, VmOther
<1>3. VmEnds(d)'
  BY VmAt DEF VmEnds, VmCutOff
<1>4. d # "down"
  BY <1>1
<1> QED
  BY <1>2, <1>3, <1>4, VmKeeps

\* Every step keeps the invariant.
LEMMA VmStepInv == VmInv /\ [VmNext]_vmVars => VmInv'
<1>1. SUFFICES ASSUME VmInv, [VmNext]_vmVars PROVE VmInv'
  OBVIOUS
<1>2. "up" \in VmDirs /\ "down" \in VmDirs
  BY DEF VmDirs
<1>3. ASSUME NEW n \in 1..VmAhead, VmClientWrite(n) PROVE VmInv'
  <2>1. PICK d \in VmDirs : d = "up"
    BY <1>2
  <2>2. VmEnd(d) /\ d # "down"
    BY <1>1, <2>1, VmAt
  <2>3. VmPollWrite(d, n) /\ vmSrv' = vmSrv
    BY <1>3, <2>1 DEF VmClientWrite, VmPollWrite
  <2> QED
    BY <1>1, <2>2, <2>3, VmPollWriteKeeps
<1>4. ASSUME NEW n \in 1..VmAhead, VmServerWrite(n) PROVE VmInv'
  <2>1. PICK d \in VmDirs : d = "down"
    BY <1>2
  <2>2. VmEnd(d) /\ vmSrv = "relay"
    BY <1>1, <1>4, <2>1, VmAt DEF VmServerWrite
  <2>3. VmPollWrite(d, n) /\ vmSrv' = vmSrv
    BY <1>4, <2>1 DEF VmServerWrite, VmPollWrite
  <2> QED
    BY <1>1, <2>2, <2>3, VmPollWriteKeeps
<1>5. ASSUME NEW d \in VmDirs, NEW n \in 1..VmAhead, VmFill(d, n) \/ VmHand(d, n) PROVE VmInv'
  BY <1>1, <1>5, VmFillStep, VmHandStep
<1>6. ASSUME NEW d \in VmDirs, VmCut(d) \/ VmEof(d) \/ VmShutdown(d) PROVE VmInv'
  BY <1>1, <1>6, VmCutStep, VmEofStep, VmShutdownStep
<1>7. ASSUME VmResponse \/ VmAccept PROVE VmInv'
  BY <1>1, <1>7, VmResponseStep, VmAcceptStep
<1>8. ASSUME VmLockRecv \/ VmLockSend \/ UNCHANGED vmVars PROVE VmInv'
  BY <1>1, <1>8, VmStill DEF VmLockRecv, VmLockSend, vmVars
<1>9. ASSUME VmTimeout PROVE VmInv'
  BY <1>1, <1>9, VmDropKeeps DEF VmTimeout
<1>10. ASSUME VmReset PROVE VmInv'
  <2>1. PICK d \in VmDirs : d = "down"
    BY <1>2
  <2>2. VmCutOff(d)
    BY <1>10, <2>1 DEF VmReset, VmCutOff
  <2> QED
    BY <1>1, <1>10, <2>1, <2>2, VmStops DEF VmReset
<1>11. CASE VmClient
  BY <1>2, <1>3, <1>5, <1>6, <1>7, <1>10, <1>11 DEF VmClient
<1>12. CASE VmServer
  BY <1>2, <1>4, <1>5, <1>6, <1>7, <1>8, <1>12 DEF VmServer
<1> QED
  BY <1>1, <1>8, <1>9, <1>11, <1>12 DEF VmNext

\* A reader in line has handed out a part of what was written.
LEMMA VmLineDelivers ==
    ASSUME NEW job, NEW d, VmFlow(job, d), NEW tag, NEW r \in VmReaders, NEW syms, NEW o, NEW taken,
           VmLine(job, d, tag, r, syms, o, taken)
    PROVE  IsPrefix(taken, job[d])
<1>1. PICK T, n, w, q, g, p, i : VmLined(job, d, tag, r, syms, o, taken, T, n, w, q, g, p, i)
  BY DEF VmLine
<1>2. /\ VmFramed(job, d, tag, T, n, w, q, g) /\ i \in 0..n
      /\ VmReaderAt(job, d, r, taken, p, i, n, w, q, g)
  BY <1>1 DEF VmLined
<1>3. PICK J : J = job[d] /\ J \in Seq(VmItems(job)) /\ Len(J) \in Nat
  BY LenProperties DEF VmFlow
<1>4. PICK k \in Nat : taken = SubSeq(J, 1, k) /\ k <= Len(J)
  <2>1. CASE r.st = "hand"
    <3>1. /\ Len(taken) \in Nat /\ Len(taken) < q[i + 1] /\ i < n
          /\ taken = SubSeq(J, 1, Len(taken))
      BY <1>2, <1>3, <2>1 DEF VmReaderAt
    <3>2. i + 1 \in 0..n /\ n \in Nat
      BY <1>2, <3>1 DEF VmFramed
    <3>3. q[i + 1] \in Nat /\ q[i + 1] <= Len(J)
      BY <1>2, <1>3, <3>2 DEF VmFramed
    <3>4. PICK k \in Nat : k = Len(taken)
      BY <3>1
    <3>5. k <= Len(J)
      <4>1. PICK b \in Nat : b = q[i + 1]
        BY <3>3
      <4>2. k < b /\ b <= Len(J)
        BY <3>1, <3>3, <3>4, <4>1
      <4> QED
        BY <1>3, <4>1, <4>2
    <3>6. taken = SubSeq(J, 1, k)
      BY <3>1, <3>4, Zenon
    <3> QED
      BY <3>5, <3>6, Zenon
  <2>2. CASE r.st # "hand"
    <3>1. taken = SubSeq(J, 1, q[i])
      BY <1>2, <1>3, <2>2 DEF VmReaderAt
    <3>2. q[i] \in Nat /\ q[i] <= Len(J)
      BY <1>2, <1>3 DEF VmFramed
    <3> QED
      BY <3>1, <3>2
  <2> QED
    BY <2>1, <2>2
<1>5. IsPrefix(taken, J)
  <2>1. /\ taken \in Seq(VmItems(job)) /\ Len(taken) = k
        /\ \A j \in 1..k : taken[j] = J[j]
    BY <1>3, <1>4
  <2>2. SubSeq(J, 1, Len(taken)) = taken
    BY <1>4, <2>1
  <2> QED
    BY <1>3, <1>4, <2>1, <2>2 DEF IsPrefix
<1> QED
  BY <1>3, <1>5

\* What the invariant is for.
LEMMA VmInvDelivers == VmInv => VmDelivers
<1>1. SUFFICES ASSUME VmInv PROVE VmDelivers
  OBVIOUS
<1>2. ASSUME NEW d \in VmDirs
      PROVE  IsPrefix(vmGot[d], vmJob[d])
  <2>1. VmFlow(vmJob, d) /\ vmIn[d] \in VmReaders
    BY <1>1, VmAt
  <2>2. CASE VmEnd(d)
    <3>1. PICK r \in VmReaders : r = vmIn[d]
      BY <2>1
    <3>2. VmLine(vmJob, d, vmTag, r, vmWire[d].syms, vmOut[d], vmGot[d])
      BY <2>2, <3>1 DEF VmEnd
    <3> QED
      BY <2>1, <3>1, <3>2, VmLineDelivers
  <2>3. CASE d = "down" /\ VmSilent
    <3>1. vmGot[d] = <<>>
      BY <2>3 DEF VmSilent
    <3>2. PICK J : J = vmJob[d] /\ J \in Seq(VmItems(vmJob)) /\ Len(J) \in Nat
      BY <2>1, LenProperties DEF VmFlow
    <3>3. SubSeq(J, 1, 0) = <<>> /\ Len(<<>>) = 0
      BY <3>2, SubSeqEmpty
    <3>4. IsPrefix(<<>>, J)
      BY <3>2, <3>3 DEF IsPrefix
    <3> QED
      BY <3>1, <3>2, <3>4
  <2> QED
    BY <1>1, <2>2, <2>3 DEF VmInv, VmDirs
<1>3. vmSrv = "relay" => vmDst = vmJob.dst
  BY <1>1 DEF VmInv
<1>4. \A d \in VmDirs : VmEnds(d)
  BY <1>1 DEF VmInv
<1> QED
  BY <1>2, <1>3, <1>4, Zenon DEF VmDelivers, VmWhole, VmRightTarget, VmCleanEnd, VmEnds, VmCutOff

\* Each end of a VMess connection reads what the other wrote, in order and from the
\* first byte or datagram on, whatever part of a chunk the stream takes or gives at a
\* time and however often the nonce counter has wrapped; no chunk fails to open, a clean
\* end comes after everything unless the inbound dropped the connection before it had
\* written everything, and the inbound dials the target the outbound asked for.
THEOREM VmSafe == VmInit /\ [][VmNext]_vmVars => []VmDelivers
<1>1. VmInit => VmInv
  BY VmInitInv
<1>2. VmInv /\ [VmNext]_vmVars => VmInv'
  BY VmStepInv
<1>3. VmInv => VmDelivers
  BY VmInvDelivers
<1> QED
  BY <1>1, <1>2, <1>3, PTL
=============================================================================
