-------------------------------- MODULE Dial --------------------------------
(***************************************************************************)
(* How an outbound gets a TCP connection to its server: connect_tcp_target *)
(* resolves it and orders the addresses (families interleaved, recently    *)
(* failed last), connect_tcp_any starts an attempt after each delay or     *)
(* failure until one connects or the call's time is up, and PoolOutbound   *)
(* in front of it keeps a queue of spare streams that one task refills.    *)
(* Callers and the filler run at the same time; the failed addresses are   *)
(* shared by all of them.  Time is counted in ticks, per call.             *)
(***************************************************************************)
EXTENDS Naturals, Sequences, FiniteSets, SequencesExt

CONSTANTS DlConfigs,    \* the outbounds, see DlAssumption
          DlCallers,    \* callers of connect_stream_base
          DlFillers,    \* names for the filling tasks the pool may have at work
          DlMaxStreams  \* bound: connections made

\* An outbound has a server with addresses of two families, prefer_ipv6, attempt_delay
\* and connect_timeout (in ticks), the size of its pool (0: none) and its callers.
ASSUME DlAssumption ==
    \A o \in DlConfigs :
        /\ o.v4 \cap o.v6 = {} /\ o.v4 \cup o.v6 # {} /\ o.prefer6 \in BOOLEAN
        /\ o.delay \in Nat /\ o.timeout \in Nat /\ o.size \in Nat /\ o.calls \subseteq DlCallers

DlActors == DlCallers \cup DlFillers

VARIABLES
    dlCfg,     \* the outbound
    dlFailed,  \* FAILED_ADDRS younger than its TTL
    dlDial,    \* per actor: its connect_tcp_target
    dlMade,    \* connections made
    dlPool,    \* spare streams in the channel
    dlFilling, \* is_filling
    dlTask,    \* per filler: "idle", "count", "dial", "send" or "rest", and tries left
    dlCaller   \* per caller: "none", "new", "dial", "got" or "failed"

dlVars == <<dlCfg, dlFailed, dlDial, dlMade, dlPool, dlFilling, dlTask, dlCaller>>

\* A call: the addresses left to try, those being tried, those that refused, the
\* ticks until the next attempt and until connect_timeout.
DlNoDial == [pc |-> "none", left |-> <<>>, run |-> {}, bad |-> {}, wait |-> 0, due |-> 0]

DlAddrs == dlCfg.v4 \cup dlCfg.v6

\* Earlier connections may have left any addresses marked.
DlInit ==
    /\ dlCfg \in DlConfigs /\ dlFailed \in SUBSET DlAddrs /\ dlMade = 0 /\ dlPool = 0 /\ dlFilling = FALSE
    /\ dlDial = [a \in DlActors |-> DlNoDial]
    /\ dlTask = [f \in DlFillers |-> [pc |-> "idle", left |-> 0]]
    /\ dlCaller = [c \in DlCallers |-> IF c \in dlCfg.calls THEN "new" ELSE "none"]

-----------------------------------------------------------------------------
(* order_addrs *)

\* One of each in turn, then what is left of the longer.
DlInterleave(s, t) ==
    LET n == Len(s) + Len(t)
        k == IF Len(s) < Len(t) THEN Len(s) ELSE Len(t)
        rest == IF Len(s) > k THEN s ELSE t IN
    [i \in 1..n |-> IF i > 2 * k THEN rest[i - k]
                    ELSE IF i % 2 = 1 THEN s[(i + 1) \div 2] ELSE t[i \div 2]]

\* The stable sort by recently_failed.
DlOrder(s) ==
    LET bad(x) == x \in dlFailed
        good(x) == x \notin dlFailed IN
    SelectSeq(s, good) \o SelectSeq(s, bad)

\* Each family is shuffled; the preferred one begins.
DlOrders ==
    {DlOrder(IF dlCfg.prefer6 THEN DlInterleave(s, f) ELSE DlInterleave(f, s)) :
        s \in SetToSeqs(dlCfg.v6), f \in SetToSeqs(dlCfg.v4)}

-----------------------------------------------------------------------------
(* connect_tcp_target and connect_tcp_any *)

DlStart(a) == dlDial' = [dlDial EXCEPT ![a] = [DlNoDial EXCEPT !.pc = "resolve"]]

DlRunning(a) == dlDial[a].pc = "run"

\* The next attempt, if an address is left; the loop sleeps anew after it.
DlNextAttempt(d) ==
    IF d.left = <<>> THEN d
    ELSE [d EXCEPT !.run = @ \cup {Head(d.left)}, !.left = Tail(@), !.wait = dlCfg.delay]

\* resolve_target_all has answered: the addresses are put in order and the first is
\* tried. Without an answer, or with an empty one, the call fails before any attempt.
DlResolve(a) ==
    /\ dlDial[a].pc = "resolve"
    /\ \/ \E o \in DlOrders :
            dlDial' = [dlDial EXCEPT ![a] = DlNextAttempt([@ EXCEPT !.pc = "run", !.left = o, !.due = dlCfg.timeout])]
       \/ dlDial' = [dlDial EXCEPT ![a].pc = "lost"]
    /\ UNCHANGED <<dlCfg, dlFailed, dlMade, dlPool, dlFilling, dlTask, dlCaller>>

\* Mutant: the delay passes and starts nothing.
DlDelayIdle(a) ==
    /\ DlRunning(a) /\ dlDial[a].left # <<>> /\ dlDial[a].wait = 0
    /\ dlDial' = [dlDial EXCEPT ![a].wait = dlCfg.delay]
    /\ UNCHANGED <<dlCfg, dlFailed, dlMade, dlPool, dlFilling, dlTask, dlCaller>>

\* attempt_delay has passed.
DlDelay(a) ==
    /\ DlRunning(a) /\ dlDial[a].left # <<>> /\ dlDial[a].wait = 0
    /\ dlDial' = [dlDial EXCEPT ![a] = DlNextAttempt(@)]
    /\ UNCHANGED <<dlCfg, dlFailed, dlMade, dlPool, dlFilling, dlTask, dlCaller>>

\* Time passes, but not past a timer that is due.
DlTick(a) ==
    /\ DlRunning(a) /\ dlDial[a].due > 0 /\ (dlDial[a].left = <<>> \/ dlDial[a].wait > 0)
    /\ dlDial' = [dlDial EXCEPT ![a].due = @ - 1, ![a].wait = IF dlDial[a].left = <<>> THEN @ ELSE @ - 1]
    /\ UNCHANGED <<dlCfg, dlFailed, dlMade, dlPool, dlFilling, dlTask, dlCaller>>

\* An address connects; the other attempts are dropped.
DlConnected(a, x) ==
    /\ DlRunning(a) /\ x \in dlDial[a].run /\ dlMade < DlMaxStreams
    /\ dlFailed' = dlFailed \ {x}
    /\ dlMade' = dlMade + 1
    /\ dlDial' = [dlDial EXCEPT ![a] = [DlNoDial EXCEPT !.pc = "ok"]]
    /\ UNCHANGED <<dlCfg, dlPool, dlFilling, dlTask, dlCaller>>

\* An address refuses: the next starts at once; the last one's failure is the call's
\* (which drops the cached DNS answer: DnRemoveMem of DnsFlight).
DlRefused(a, x) ==
    /\ DlRunning(a) /\ x \in dlDial[a].run
    /\ dlFailed' = dlFailed \cup {x}
    /\ LET d == DlNextAttempt([dlDial[a] EXCEPT !.run = @ \ {x}, !.bad = @ \cup {x}]) IN
       IF d.run = {} THEN dlDial' = [dlDial EXCEPT ![a] = [d EXCEPT !.pc = "err"]]
       ELSE dlDial' = [dlDial EXCEPT ![a] = d]
    /\ UNCHANGED <<dlCfg, dlMade, dlPool, dlFilling, dlTask, dlCaller>>

\* connect_timeout: the attempts still running are dropped, none is marked.
DlTimeout(a) ==
    /\ DlRunning(a) /\ dlDial[a].due = 0
    /\ dlDial' = [dlDial EXCEPT ![a] = [@ EXCEPT !.pc = "late", !.run = {}]]
    /\ UNCHANGED <<dlCfg, dlFailed, dlMade, dlPool, dlFilling, dlTask, dlCaller>>

DlTimer(a) == DlDelay(a) \/ DlTick(a) \/ DlTimeout(a)

\* FAILED_ADDR_TTL passes.
DlForgive(x) ==
    /\ x \in dlFailed /\ dlFailed' = dlFailed \ {x}
    /\ UNCHANGED <<dlCfg, dlDial, dlMade, dlPool, dlFilling, dlTask, dlCaller>>

-----------------------------------------------------------------------------
(* PoolOutbound *)

DlReturned(a) == dlDial[a].pc \in {"ok", "err", "late", "lost"}

\* fill: one task at a time.
DlFill ==
    LET idle == {f \in DlFillers : dlTask[f].pc = "idle"} IN
    IF dlFilling \/ dlCfg.size = 0 THEN UNCHANGED <<dlFilling, dlTask>>
    ELSE /\ dlFilling' = TRUE
         /\ dlTask' = [dlTask EXCEPT ![CHOOSE f \in idle : TRUE].pc = "count"]

\* connect_stream_base takes a spare stream, or starts the filler and dials itself; an
\* outbound without a pool only dials.
DlTake(c) ==
    /\ dlCaller[c] = "new"
    /\ \/ dlPool > 0 /\ dlPool' = dlPool - 1
          /\ dlCaller' = [dlCaller EXCEPT ![c] = "got"]
          /\ UNCHANGED <<dlDial, dlFilling, dlTask>>
       \/ dlPool = 0 /\ DlFill /\ DlStart(c)
          /\ dlCaller' = [dlCaller EXCEPT ![c] = "dial"]
          /\ UNCHANGED dlPool
    /\ UNCHANGED <<dlCfg, dlFailed, dlMade>>

DlReturn(c) ==
    /\ dlCaller[c] = "dial" /\ DlReturned(c)
    /\ dlCaller' = [dlCaller EXCEPT ![c] = IF dlDial[c].pc = "ok" THEN "got" ELSE "failed"]
    /\ dlDial' = [dlDial EXCEPT ![c] = DlNoDial]
    /\ UNCHANGED <<dlCfg, dlFailed, dlMade, dlPool, dlFilling, dlTask>>

\* The filler counts once what is missing.
DlCount(f) ==
    /\ dlTask[f].pc = "count"
    /\ dlTask' = [dlTask EXCEPT ![f] = [pc |-> "next", left |-> dlCfg.size - dlPool]]
    /\ UNCHANGED <<dlCfg, dlFailed, dlDial, dlMade, dlPool, dlFilling, dlCaller>>

DlFillNext(f) ==
    /\ dlTask[f].pc = "next" /\ dlTask[f].left > 0
    /\ dlTask' = [dlTask EXCEPT ![f].pc = "dial"] /\ DlStart(f)
    /\ UNCHANGED <<dlCfg, dlFailed, dlMade, dlPool, dlFilling, dlCaller>>

\* A stream is to be sent; without one the filler rests a second.
DlFillDialled(f) ==
    /\ dlTask[f].pc = "dial" /\ DlReturned(f)
    /\ dlDial' = [dlDial EXCEPT ![f] = DlNoDial]
    /\ dlTask' = IF dlDial[f].pc = "ok" THEN [dlTask EXCEPT ![f].pc = "send"]
                 ELSE [dlTask EXCEPT ![f] = [pc |-> "next", left |-> @.left - 1]]
    /\ UNCHANGED <<dlCfg, dlFailed, dlMade, dlPool, dlFilling, dlCaller>>

\* tx.send waits while the channel is full.
DlFillSent(f) ==
    /\ dlTask[f].pc = "send" /\ dlPool < dlCfg.size
    /\ dlPool' = dlPool + 1
    /\ dlTask' = [dlTask EXCEPT ![f] = [pc |-> "next", left |-> @.left - 1]]
    /\ UNCHANGED <<dlCfg, dlFailed, dlDial, dlMade, dlFilling, dlCaller>>

\* The guard resets the flag when the task ends.
DlFillDone(f) ==
    /\ dlTask[f].pc = "next" /\ dlTask[f].left = 0
    /\ dlTask' = [dlTask EXCEPT ![f].pc = "idle"] /\ dlFilling' = FALSE
    /\ UNCHANGED <<dlCfg, dlFailed, dlDial, dlMade, dlPool, dlCaller>>

DlNext ==
    \/ \E a \in DlActors : DlResolve(a) \/ DlTimer(a) \/ \E x \in DlAddrs : DlConnected(a, x) \/ DlRefused(a, x)
    \/ \E x \in DlAddrs : DlForgive(x)
    \/ \E c \in DlCallers : DlTake(c) \/ DlReturn(c)
    \/ \E f \in DlFillers :
         DlCount(f) \/ DlFillNext(f) \/ DlFillDialled(f) \/ DlFillSent(f) \/ DlFillDone(f)

-----------------------------------------------------------------------------
(* Properties *)

\* A call fails only when every address has refused it, in whatever order delays and
\* refusals start the attempts (connect_tcp_any).
DlFailsLast == \A a \in DlActors : dlDial[a].pc = "err" => dlDial[a].bad = DlAddrs

\* How many addresses of one family a call tries in a row, o[i] to o[j], at least the
\* one it begins with if that is not of the preferred family.
DlInARow(o, i, j) == j - i + (IF i = 1 /\ (o[1] \in dlCfg.v6 <=> ~dlCfg.prefer6) THEN 1 ELSE 0)

\* Every address is tried once, the healthy ones before the failed ones. The families
\* of the healthy ones alternate from the preferred one on, except that a failed
\* address leaves its turn to the other family: as long as a healthy address waits,
\* the other family is tried in a row only as often as the waiting one has failed
\* addresses (order_addrs).
DlWellOrdered ==
    \A o \in DlOrders :
        /\ IsInjective(o) /\ ToSet(o) = DlAddrs
        /\ \A i, j \in DOMAIN o : i < j /\ o[i] \in dlFailed => o[j] \in dlFailed
        /\ \A fam \in {dlCfg.v4, dlCfg.v6}, i, j \in DOMAIN o, k \in DOMAIN o :
              /\ i <= j /\ j < k /\ o[k] \in fam \ dlFailed
              /\ \A m \in i..j : o[m] \notin fam
              => DlInARow(o, i, j) <= Cardinality(dlFailed \cap fam)

\* The filler never waits on a full pool with a stream in its hand: what it dials
\* fits, whatever callers take meanwhile (fill and is_filling).
DlRoomForAll == \A f \in DlFillers : dlTask[f].pc = "send" => dlPool < dlCfg.size

\* Silent addresses do not use up the time of the others: a call that times out has
\* tried them all, or one for every attempt_delay in connect_timeout (connect_tcp_any).
DlGetsTurn ==
    \A a \in DlActors : LET d == dlDial[a] IN
        d.pc = "late" /\ d.left # <<>> => (Cardinality(DlAddrs) - Len(d.left)) * dlCfg.delay >= dlCfg.timeout

\* A call ends, whatever the addresses do.
DlEnds == \A a \in DlActors : [](DlRunning(a) => <>~DlRunning(a))

\* A dial tries the addresses in the right order and in time without waiting for a
\* silent one, ends, and the pool's filler fits what it dials.
DlDials == [](DlFailsLast /\ DlWellOrdered /\ DlGetsTurn /\ DlRoomForAll) /\ DlEnds
=============================================================================
