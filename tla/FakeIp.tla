------------------------------- MODULE FakeIp -------------------------------
(***************************************************************************)
(* The FakeIP server: every domain that is asked for gets an address of a  *)
(* range, and the address leads back to the domain.  Lookups run on        *)
(* several threads; the cursor and the entries are in the cache, whose     *)
(* commits are visible at once and durable after the next flush: a clean   *)
(* stop keeps all of them, a crash those before the last flush.            *)
(***************************************************************************)
EXTENDS Naturals, FiniteSets

CONSTANTS
    FiLookups,  \* lookups, each made once
    FiDomain,   \* lookup |-> the domain it asks for
    FiHosts,    \* addresses in the range
    FiMaxBoots  \* bound: restarts

ASSUME FiAssumption ==
    FiHosts \in Nat \ {0} /\ FiMaxBoots \in Nat /\ \A l \in FiLookups : FiDomain[l] # "none"

VARIABLES
    fiJob,    \* per lookup: where it is, the cursor it took, the cursor it saves
    fiCursor, \* ipv4_cursor
    fiSaved,  \* the cursor in the cache
    fiAddr,   \* domain |-> address, or FiNoHost
    fiPtr,    \* address |-> domain, or "none"
    fiGiven,  \* (domain, address) pairs answered that no crash took back (history)
    fiTop,    \* one more than the highest cursor whose entries are in the cache (history)
    fiTorn,   \* domains whose lookup ended between the two entries (history)
    fiKept,   \* all this at the last flush: what a crash leaves
    fiBehind, \* a restart has read a cursor that entries in the cache had overtaken (history)
    fiTook,   \* cursors taken in all (history)
    fiBoots

fiCache == <<fiSaved, fiAddr, fiPtr, fiGiven, fiTop>>
fiVars == <<fiJob, fiCursor, fiCache, fiTorn, fiKept, fiBehind, fiTook, fiBoots>>

FiDomains == {FiDomain[l] : l \in FiLookups}
FiHost(c) == c % FiHosts
FiNoHost == FiHosts

FiAt(pc) == [pc |-> pc, cur |-> 0, save |-> 0]

FiHalf(ls) == {FiDomain[l] : l \in {k \in ls : fiJob[k].pc = "ptr"}}

\* What a flush makes durable.
FiNow == [saved |-> fiSaved, addr |-> fiAddr, ptr |-> fiPtr, given |-> fiGiven, top |-> fiTop,
          half |-> FiHalf(FiLookups)]

FiInit ==
    /\ fiJob = [l \in FiLookups |-> FiAt("get")]
    /\ fiCursor = 0 /\ fiSaved = 0
    /\ fiAddr = [d \in FiDomains |-> FiNoHost]
    /\ fiPtr = [h \in 0..FiHosts - 1 |-> "none"]
    /\ fiGiven = {} /\ fiTop = 0 /\ fiTorn = {}
    /\ fiKept = FiNow
    /\ fiBehind = FALSE /\ fiTook = 0 /\ fiBoots = 0

FiGo(l, pc) == fiJob' = [fiJob EXCEPT ![l] = IF pc = "done" THEN FiAt(pc) ELSE [@ EXCEPT !.pc = pc]]
FiAnswer(l, h) == fiGiven' = fiGiven \cup {<<FiDomain[l], h>>}

\* resolve_internal: a domain that has an address keeps it, unless the cache cannot
\* be read.
FiGet(l) ==
    /\ fiJob[l].pc = "get"
    /\ \/ fiAddr[FiDomain[l]] # FiNoHost /\ FiGo(l, "done") /\ FiAnswer(l, fiAddr[FiDomain[l]])
       \/ FiGo(l, "take") /\ UNCHANGED fiGiven
    /\ UNCHANGED <<fiCursor, fiSaved, fiAddr, fiPtr, fiTop, fiTorn, fiKept, fiBehind, fiTook, fiBoots>>

\* Mutant: the cursor is read here and written back with save_cursor.
FiTakeRead(l) ==
    /\ fiJob[l].pc = "take"
    /\ fiJob' = [fiJob EXCEPT ![l].pc = "load", ![l].cur = fiCursor]
    /\ fiTook' = fiTook + 1
    /\ UNCHANGED <<fiCursor, fiCache, fiTorn, fiKept, fiBehind, fiBoots>>

\* next_ipv4_cursor: fetch_add ...
FiTake(l) ==
    /\ fiJob[l].pc = "take"
    /\ fiJob' = [fiJob EXCEPT ![l].pc = "load", ![l].cur = fiCursor]
    /\ fiCursor' = fiCursor + 1
    /\ fiTook' = fiTook + 1
    /\ UNCHANGED <<fiCache, fiTorn, fiKept, fiBehind, fiBoots>>

\* ... and save_cursor, which loads the cursor ...
FiLoad(l) ==
    /\ fiJob[l].pc = "load"
    /\ fiJob' = [fiJob EXCEPT ![l].pc = "save", ![l].save = fiCursor]
    /\ UNCHANGED <<fiCursor, fiCache, fiTorn, fiKept, fiBehind, fiTook, fiBoots>>

\* ... and stores it, in whatever order the threads come; an error is ignored.
FiSave(l) ==
    /\ fiJob[l].pc = "save"
    /\ fiSaved' \in {fiJob[l].save, fiSaved}
    /\ FiGo(l, "addr")
    /\ UNCHANGED <<fiCursor, fiAddr, fiPtr, fiGiven, fiTop, fiTorn, fiKept, fiBehind, fiTook, fiBoots>>

\* The domain's entry ...
FiSetAddr(l) ==
    /\ fiJob[l].pc = "addr"
    /\ fiAddr' = [fiAddr EXCEPT ![FiDomain[l]] = FiHost(fiJob[l].cur)]
    /\ fiTop' = IF fiTop <= fiJob[l].cur THEN fiJob[l].cur + 1 ELSE fiTop
    /\ FiGo(l, "ptr")
    /\ UNCHANGED <<fiCursor, fiSaved, fiPtr, fiGiven, fiTorn, fiKept, fiBehind, fiTook, fiBoots>>

\* ... the way back, and the answer.
FiSetPtr(l) ==
    /\ fiJob[l].pc = "ptr"
    /\ fiPtr' = [fiPtr EXCEPT ![FiHost(fiJob[l].cur)] = FiDomain[l]]
    /\ FiGo(l, "done")
    /\ FiAnswer(l, FiHost(fiJob[l].cur))
    /\ UNCHANGED <<fiCursor, fiSaved, fiAddr, fiTop, fiTorn, fiKept, fiBehind, fiTook, fiBoots>>

\* An entry that cannot be stored fails the lookup.
FiFails(l) ==
    /\ fiJob[l].pc \in {"addr", "ptr"}
    /\ FiGo(l, "done")
    /\ fiTorn' = fiTorn \cup FiHalf({l})
    /\ UNCHANGED <<fiCursor, fiCache, fiKept, fiBehind, fiTook, fiBoots>>

\* The flusher of the cache, at any moment (RedbStore); once no restart is left a
\* flush would go unnoticed.
FiFlush ==
    /\ fiBoots < FiMaxBoots /\ fiKept # FiNow
    /\ fiKept' = FiNow
    /\ UNCHANGED <<fiJob, fiCursor, fiCache, fiTorn, fiBehind, fiTook, fiBoots>>

\* The process stops between two of these steps and starts again with what is in
\* the cache then; load_cursor, which begins anew when the cursor cannot be read.
FiRestart(left) ==
    /\ fiBoots < FiMaxBoots /\ fiBoots' = fiBoots + 1
    /\ fiSaved' = left.saved /\ fiAddr' = left.addr /\ fiPtr' = left.ptr
    /\ fiGiven' = left.given /\ fiTop' = left.top
    /\ fiKept' = [left EXCEPT !.half = {}]
    /\ fiCursor' \in {left.saved, 0}
    /\ fiBehind' = (fiBehind \/ fiCursor' < left.top)
    /\ fiTorn' = fiTorn \cup FiHalf(FiLookups) \cup left.half
    /\ fiJob' = [l \in FiLookups |-> IF fiJob[l].pc = "get" THEN fiJob[l] ELSE FiAt("done")]
    /\ UNCHANGED fiTook

\* A clean stop flushes the cache first; a crash leaves what the last flush wrote.
FiStop == FiRestart(FiNow)
FiCrash == FiRestart(fiKept)

FiNext ==
    \/ \E l \in FiLookups :
         FiGet(l) \/ FiTake(l) \/ FiLoad(l) \/ FiSave(l) \/ FiSetAddr(l) \/ FiSetPtr(l) \/ FiFails(l)
    \/ FiFlush \/ FiStop \/ FiCrash

FiSpec == FiInit /\ [][FiNext]_fiVars

-----------------------------------------------------------------------------
(* Properties *)

\* An address that was answered leads back to its domain and to no other, however
\* lookups of the same and of other domains, flushes, stops and crashes interleave
\* (resolve_internal, reverse_lookup, load_cursor): until the range is used up, or a
\* restart reads a cursor that was saved out of order, or none, and that stored entries
\* have overtaken.  A crash takes back the answers after the last flush and none before
\* it.  An address leads nowhere only while a lookup that found it is ahead of the
\* one that stores the way back, or after that one failed or was cut off between
\* the two entries.
FiLeadsBack ==
    fiTook <= FiHosts /\ ~fiBehind =>
        \A g \in fiGiven :
            \/ fiPtr[g[2]] = g[1]
            \/ /\ fiPtr[g[2]] = "none"
               /\ g[1] \in fiTorn \cup FiHalf(FiLookups)
=============================================================================
