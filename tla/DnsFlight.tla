----------------------------- MODULE DnsFlight -----------------------------
(***************************************************************************)
(* The response cache of a DNS server for one question: a map in memory in *)
(* front of a table on disk, and the single flight by which concurrent     *)
(* misses share one upstream query.  Queries run on several threads, may   *)
(* be cancelled at an await, and the cached answer may be invalidated.     *)
(***************************************************************************)
EXTENDS Naturals, FiniteSets

CONSTANT DnQueries  \* queries for the question, each made once

ASSUME DnAssumption == "none" \notin DnQueries

VARIABLES
    dnQ,      \* per query: where it is, why it looks at the cache, the response
              \* it has read, the leader it follows
    dnMem,    \* the entry in memory: the query whose response it is, or "none"
    dnDisk,   \* the entry in the table
    dnStale,  \* responses whose expiry has passed
    dnFlight, \* the leader in `inflight`, or "none"
    dnOut,    \* what each leader sent: "none", "ok" or "err"
    dnDrop    \* invalidate: "no", "disk" (memory done) or "done"

dnVars == <<dnQ, dnMem, dnDisk, dnStale, dnFlight, dnOut, dnDrop>>
dnCache == <<dnMem, dnDisk, dnStale>>

DnAt(pc, why) == [pc |-> pc, why |-> why, val |-> "none", lead |-> "none"]

DnInit ==
    /\ dnQ = [q \in DnQueries |-> DnAt("mem", "first")]
    /\ dnMem = "none" /\ dnDisk = "none" /\ dnStale = {}
    /\ dnFlight = "none"
    /\ dnOut = [q \in DnQueries |-> "none"]
    /\ dnDrop = "no"

DnFresh(e) == e # "none" /\ e \notin dnStale

\* A query that is over keeps nothing.
DnGo(q, pc) == dnQ' = [dnQ EXCEPT ![q] = IF pc \in {"done", "gone"} THEN DnAt(pc, "first")
                                         ELSE [@ EXCEPT !.pc = pc]]

\* What a miss means: join the flight, or ask upstream.
DnMiss(q) == IF dnQ[q].why = "first" THEN "join" ELSE "ask"

\* A query that leads and has its response without an exchange drops the lead.
DnHit(q) == IF dnQ[q].why = "lead" THEN "drop" ELSE "done"

\* DnsCache::get looks in memory, drops an expired entry ...
DnGetMem(q) ==
    /\ dnQ[q].pc = "mem"
    /\ DnGo(q, IF DnFresh(dnMem) THEN DnHit(q) ELSE "disk")
    /\ dnMem' = IF DnFresh(dnMem) THEN dnMem ELSE "none"
    /\ UNCHANGED <<dnDisk, dnStale, dnFlight, dnOut, dnDrop>>

\* ... then on disk; a read that fails is a miss.
DnGetDisk(q) ==
    /\ dnQ[q].pc = "disk"
    /\ \/ /\ DnFresh(dnDisk)
          /\ dnQ' = [dnQ EXCEPT ![q].pc = "remember", ![q].val = dnDisk]
       \/ dnDisk \in dnStale /\ DnGo(q, "purge")
       \/ DnGo(q, DnMiss(q))
    /\ UNCHANGED <<dnCache, dnFlight, dnOut, dnDrop>>

\* A response read from disk goes into memory, whatever happened to it since.
DnRemember(q) ==
    /\ dnQ[q].pc = "remember"
    /\ dnMem' = dnQ[q].val
    /\ DnGo(q, DnHit(q))
    /\ UNCHANGED <<dnDisk, dnStale, dnFlight, dnOut, dnDrop>>

\* remember empties a full map first, this entry with it.
DnEvict ==
    /\ dnMem # "none" /\ dnMem' = "none"
    /\ UNCHANGED <<dnQ, dnDisk, dnStale, dnFlight, dnOut, dnDrop>>

DnPurge(q) ==
    /\ dnQ[q].pc = "purge"
    /\ dnDisk' = "none"
    /\ DnGo(q, DnMiss(q))
    /\ UNCHANGED <<dnMem, dnStale, dnFlight, dnOut, dnDrop>>

\* DnsCache::join; the leader looks at the cache once more.
DnJoin(q) ==
    /\ dnQ[q].pc = "join"
    /\ IF dnFlight = "none"
       THEN /\ dnFlight' = q
            /\ dnQ' = [dnQ EXCEPT ![q] = DnAt("mem", "lead")]
       ELSE /\ dnQ' = [dnQ EXCEPT ![q].pc = "follow", ![q].lead = dnFlight]
            /\ UNCHANGED dnFlight
    /\ UNCHANGED <<dnCache, dnOut, dnDrop>>

\* Mutant: the end of the channel is not noticed.
DnFollowDeaf(q) ==
    /\ dnQ[q].pc = "follow" /\ dnOut[dnQ[q].lead] # "none"
    /\ DnGo(q, "done")
    /\ UNCHANGED <<dnCache, dnFlight, dnOut, dnDrop>>

\* follow: the outcome is there, or the channel is gone without one and the query
\* looks after itself.
DnFollow(q) ==
    /\ dnQ[q].pc = "follow"
    /\ \/ dnOut[dnQ[q].lead] # "none" /\ DnGo(q, "done")
       \/ /\ dnOut[dnQ[q].lead] = "none" /\ dnFlight # dnQ[q].lead
          /\ dnQ' = [dnQ EXCEPT ![q] = DnAt("mem", "fall")]
    /\ UNCHANGED <<dnCache, dnFlight, dnOut, dnDrop>>

\* exchange_and_store: an error, a response that may be cached, one with TTL 0.
DnAsked(q, res) ==
    /\ dnQ[q].pc = "ask"
    /\ \/ res = "keep" /\ DnGo(q, "setmem")
       \/ res # "keep" /\ dnQ[q].why # "lead" /\ DnGo(q, "done")
       \/ /\ res # "keep" /\ dnQ[q].why = "lead"
          /\ dnQ' = [dnQ EXCEPT ![q].pc = "check", ![q].val = IF res = "err" THEN res ELSE @]
    /\ UNCHANGED <<dnCache, dnFlight, dnOut, dnDrop>>

\* DnsCache::set: memory, then disk, which may fail.
DnSetMem(q) ==
    /\ dnQ[q].pc = "setmem"
    /\ dnMem' = q
    /\ DnGo(q, "setdisk")
    /\ UNCHANGED <<dnDisk, dnStale, dnFlight, dnOut, dnDrop>>

DnSetDisk(q) ==
    /\ dnQ[q].pc = "setdisk"
    /\ dnDisk' \in {q, dnDisk}
    /\ DnGo(q, IF dnQ[q].why = "lead" THEN "check" ELSE "done")
    /\ UNCHANGED <<dnMem, dnStale, dnFlight, dnOut, dnDrop>>

\* has_followers; with none the leader is just dropped.
DnCheck(q) ==
    /\ dnQ[q].pc = "check"
    /\ DnGo(q, IF \E f \in DnQueries : dnQ[f].pc = "follow" /\ dnQ[f].lead = q THEN "send" ELSE "drop")
    /\ UNCHANGED <<dnCache, dnFlight, dnOut, dnDrop>>

\* FlightLeader::finish takes the sender out, sends, and forgets the leader.
DnFinish(q) ==
    /\ dnQ[q].pc = "send"
    /\ dnFlight' = "none"
    /\ dnOut' = [dnOut EXCEPT ![q] = IF dnQ[q].val = "err" THEN "err" ELSE "ok"]
    /\ DnGo(q, "done")
    /\ UNCHANGED <<dnCache, dnDrop>>

\* Drop of FlightLeader removes whatever `inflight` has for the question.
DnDropped(q) ==
    /\ dnQ[q].pc = "drop"
    /\ dnFlight' = "none"
    /\ DnGo(q, "done")
    /\ UNCHANGED <<dnCache, dnOut, dnDrop>>

\* The caller goes away while the query awaits; a leader's drop releases the flight.
DnCancel(q) ==
    /\ dnQ[q].pc \in {"ask", "follow"}
    /\ DnGo(q, "gone")
    /\ dnFlight' = IF dnQ[q].why = "lead" THEN "none" ELSE dnFlight
    /\ UNCHANGED <<dnCache, dnOut, dnDrop>>

\* Time passes.
DnExpire(q) ==
    /\ q \in {dnMem, dnDisk} \ dnStale
    /\ dnStale' = dnStale \cup {q}
    /\ UNCHANGED <<dnQ, dnMem, dnDisk, dnFlight, dnOut, dnDrop>>

\* invalidate, once: DnsCache::remove takes the entry out of memory, then off the disk.
DnRemoveMem ==
    /\ dnDrop = "no"
    /\ dnMem' = "none" /\ dnDrop' = "disk"
    /\ UNCHANGED <<dnQ, dnDisk, dnStale, dnFlight, dnOut>>

DnRemoveDisk ==
    /\ dnDrop = "disk"
    /\ dnDisk' = "none" /\ dnDrop' = "done"
    /\ UNCHANGED <<dnQ, dnMem, dnStale, dnFlight, dnOut>>

DnStep(q) ==
    \/ DnGetMem(q) \/ DnGetDisk(q) \/ DnRemember(q) \/ DnPurge(q) \/ DnJoin(q) \/ DnFollow(q)
    \/ \E res \in {"err", "keep", "zero"} : DnAsked(q, res)
    \/ DnSetMem(q) \/ DnSetDisk(q) \/ DnCheck(q) \/ DnFinish(q) \/ DnDropped(q)

DnNext ==
    \/ \E q \in DnQueries : DnStep(q) \/ DnCancel(q) \/ DnExpire(q)
    \/ DnEvict \/ DnRemoveMem \/ DnRemoveDisk

DnSpec == DnInit /\ [][DnNext]_dnVars

-----------------------------------------------------------------------------
(* Properties *)

DnLeads(q) == dnQ[q].why = "lead" /\ dnQ[q].pc \notin {"done", "gone"}

\* One query leads at a time, and it is the one in `inflight`: no leader removes
\* the flight of the next (join, finish, Drop of FlightLeader).
DnOneFlight == \A q \in DnQueries : DnLeads(q) <=> dnFlight = q

\* No query that has begun waits for ever, also when a query joins between has_followers() and
\* the drop, or the leader is cancelled: each is answered or goes away itself.
DnAnswered ==
    \A q \in DnQueries : dnQ[q] # DnAt("mem", "first") ~> dnQ[q].pc \in {"done", "gone"}

\* At most one upstream query per key is led at a time, and every caller is served.
DnServes == []DnOneFlight /\ DnAnswered
=============================================================================
