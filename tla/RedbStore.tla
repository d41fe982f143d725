----------------------------- MODULE RedbStore -----------------------------
(***************************************************************************)
(* The cache database: writes commit without an fsync and mark the         *)
(* database dirty; a thread makes them durable now and then; shutdown_redb *)
(* and the drop of the last handle do so at the end and release the lock   *)
(* of the file.  The process may crash at any step.                        *)
(***************************************************************************)
EXTENDS Naturals, FiniteSets

CONSTANTS
    RdStores,     \* handles the program opens: caches with their writers
    RdMaxCommits, \* bound: cache writes
    RdMaxRuns     \* bound: starts of the program, crashes included

ASSUME RdAssumption == "free" \notin RdStores /\ RdMaxCommits \in Nat /\ RdMaxRuns \in Nat

VARIABLES
    rdStore,  \* per handle: "none", "open", "txn" (in a write), "mark" (committed)
    rdMem,    \* commits the open database has
    rdDur,    \* commits a crash leaves
    rdDirty,  \* SharedDb::dirty
    rdTxn,    \* who has the write transaction; redb allows one
    rdCached, \* REDB_CACHE has the database
    rdOpen,   \* the file is locked by this process
    rdJob,    \* flush_cached by the flusher and by shutdown_redb
    rdFlush,  \* who holds FLUSH_LOCK
    rdFailed, \* a flush has failed since the start (history)
    rdRuns

rdVars == <<rdStore, rdMem, rdDur, rdDirty, rdTxn, rdCached, rdOpen, rdJob, rdFlush, rdFailed, rdRuns>>
rdDisk == <<rdMem, rdDur, rdFailed>>

RdJobs == {"flusher", "stop"}

RdInit ==
    /\ rdStore = [s \in RdStores |-> "none"]
    /\ rdMem = 0 /\ rdDur = 0 /\ rdDirty = FALSE
    /\ rdTxn = "free" /\ rdFlush = "free"
    /\ rdCached = FALSE /\ rdOpen = FALSE
    /\ rdJob = [j \in RdJobs |-> "idle"]
    /\ rdFailed = FALSE /\ rdRuns = 1

\* A job that has cloned the handle keeps the database open.
RdHolds(j) == rdJob[j] \in {"swap", "commit"}
RdHandles == {s \in RdStores : rdStore[s] # "none"}

\* with_cache_size: the shared database, or a new one if the file can be locked;
\* an open that fails leaves the caller without a store.
RdOpen(s) ==
    /\ rdStore[s] = "none" /\ rdJob["stop"] = "idle"
    /\ rdCached \/ ~rdOpen
    /\ rdStore' = [rdStore EXCEPT ![s] = "open"]
    /\ rdCached' = TRUE /\ rdOpen' = TRUE
    /\ IF rdOpen THEN UNCHANGED <<rdDirty, rdMem>> ELSE rdDirty' = FALSE /\ rdMem' = rdDur
    /\ UNCHANGED <<rdDur, rdFailed, rdTxn, rdJob, rdFlush, rdRuns>>

\* begin_cache_write: a write waits for the transaction before it.
RdBegin(s) ==
    /\ rdStore[s] = "open" /\ rdTxn = "free" /\ rdMem < RdMaxCommits
    /\ rdTxn' = s
    /\ rdStore' = [rdStore EXCEPT ![s] = "txn"]
    /\ UNCHANGED <<rdDisk, rdDirty, rdCached, rdOpen, rdJob, rdFlush, rdRuns>>

\* An error inside set, delete, merge or drain drops the transaction.
RdAbort(s) ==
    /\ rdStore[s] = "txn"
    /\ rdTxn' = "free"
    /\ rdStore' = [rdStore EXCEPT ![s] = "open"]
    /\ UNCHANGED <<rdDisk, rdDirty, rdCached, rdOpen, rdJob, rdFlush, rdRuns>>

\* commit_cache_write: the commit, with Durability::None ...
RdCommit(s) ==
    /\ rdStore[s] = "txn"
    /\ rdMem' = rdMem + 1
    /\ rdTxn' = "free"
    /\ rdStore' = [rdStore EXCEPT ![s] = "mark"]
    /\ UNCHANGED <<rdDur, rdFailed, rdDirty, rdCached, rdOpen, rdJob, rdFlush, rdRuns>>

\* ... and the mark.
RdMark(s) ==
    /\ rdStore[s] = "mark"
    /\ rdDirty' = TRUE
    /\ rdStore' = [rdStore EXCEPT ![s] = "open"]
    /\ UNCHANGED <<rdDisk, rdTxn, rdCached, rdOpen, rdJob, rdFlush, rdRuns>>

\* Drop of SharedDb, when no handle is left: a dirty database is flushed, which may
\* fail, and the file is unlocked.
RdLastDrop(still) ==
    /\ rdOpen' = (rdOpen /\ still)
    /\ IF still \/ ~rdOpen \/ ~rdDirty THEN UNCHANGED <<rdDur, rdFailed, rdDirty>>
       ELSE /\ rdDirty' = FALSE
            /\ \/ rdDur' = rdMem /\ UNCHANGED rdFailed
               \/ rdFailed' = TRUE /\ UNCHANGED rdDur

RdDropStore(s) ==
    /\ rdStore[s] = "open"
    /\ rdStore' = [rdStore EXCEPT ![s] = "none"]
    /\ RdLastDrop(RdHandles # {s} \/ rdCached \/ \E j \in RdJobs : RdHolds(j))
    /\ UNCHANGED <<rdMem, rdTxn, rdCached, rdJob, rdFlush, rdRuns>>

\* flush_all and shutdown_redb: the lock, then the handles in the cache.
RdFlushStart(j) ==
    /\ rdJob[j] = "idle" /\ rdFlush = "free"
    /\ rdJob' = [rdJob EXCEPT ![j] = IF rdCached THEN "swap" ELSE "clear"]
    /\ rdFlush' = j
    /\ UNCHANGED <<rdDisk, rdStore, rdDirty, rdTxn, rdCached, rdOpen, rdRuns>>

\* A job drops the handles it cloned; the last one would close the file.
RdRelease(j) == rdOpen' = (rdOpen /\ (RdHandles # {} \/ rdCached \/ \E k \in RdJobs \ {j} : RdHolds(k)))

\* SharedDb::flush swaps the mark; a clean database is left alone ...
RdSwap(j) ==
    /\ rdJob[j] = "swap"
    /\ rdDirty' = FALSE
    /\ IF rdDirty THEN rdJob' = [rdJob EXCEPT ![j] = "commit"] /\ UNCHANGED rdOpen
       ELSE rdJob' = [rdJob EXCEPT ![j] = "clear"] /\ RdRelease(j)
    /\ UNCHANGED <<rdDisk, rdStore, rdTxn, rdCached, rdFlush, rdRuns>>

\* ... and an empty durable commit persists all before it.
RdFlushCommit(j) ==
    /\ rdJob[j] = "commit" /\ rdTxn = "free"
    /\ rdDur' = rdMem
    /\ rdJob' = [rdJob EXCEPT ![j] = "clear"]
    /\ RdRelease(j)
    /\ UNCHANGED <<rdMem, rdFailed, rdStore, rdDirty, rdTxn, rdCached, rdFlush, rdRuns>>

\* A flush that fails leaves the mark for the next one.
RdFlushFails(j) ==
    /\ rdJob[j] = "commit" /\ rdTxn = "free"
    /\ rdDirty' = TRUE /\ rdFailed' = TRUE
    /\ rdJob' = [rdJob EXCEPT ![j] = "clear"]
    /\ RdRelease(j)
    /\ UNCHANGED <<rdMem, rdDur, rdStore, rdTxn, rdCached, rdFlush, rdRuns>>

\* Mutant: the thread flushes once and ends.
RdFlushedOnce ==
    /\ rdJob["flusher"] = "clear"
    /\ rdJob' = [rdJob EXCEPT !["flusher"] = "done"]
    /\ rdFlush' = IF rdFlush = "flusher" THEN "free" ELSE rdFlush
    /\ UNCHANGED <<rdDisk, rdStore, rdDirty, rdTxn, rdCached, rdOpen, rdRuns>>

\* start_flusher: the thread sleeps again ...
RdFlushed ==
    /\ rdJob["flusher"] = "clear"
    /\ rdJob' = [rdJob EXCEPT !["flusher"] = "idle"]
    /\ rdFlush' = IF rdFlush = "flusher" THEN "free" ELSE rdFlush
    /\ UNCHANGED <<rdDisk, rdStore, rdDirty, rdTxn, rdCached, rdOpen, rdRuns>>

\* ... and shutdown_redb empties the cache; handles that are still out keep the
\* database open.
RdStopped ==
    /\ rdJob["stop"] = "clear"
    /\ rdCached' = FALSE
    /\ RdLastDrop(RdHandles # {} \/ \E j \in RdJobs : RdHolds(j))
    /\ rdJob' = [rdJob EXCEPT !["stop"] = "done"]
    /\ rdFlush' = "free"
    /\ UNCHANGED <<rdMem, rdStore, rdTxn, rdRuns>>

\* A start in the same process after a stop (Android).
RdAgain ==
    /\ rdJob["stop"] = "done" /\ rdRuns < RdMaxRuns
    /\ rdJob' = [rdJob EXCEPT !["stop"] = "idle"]
    /\ rdRuns' = rdRuns + 1
    /\ UNCHANGED <<rdDisk, rdStore, rdDirty, rdTxn, rdCached, rdOpen, rdFlush>>

\* A crash, or a kill, and a new process: only what is durable is left.
RdCrash ==
    /\ rdRuns < RdMaxRuns
    /\ rdRuns' = rdRuns + 1
    /\ rdMem' = rdDur /\ rdDirty' = FALSE /\ rdFailed' = FALSE
    /\ rdStore' = [s \in RdStores |-> "none"]
    /\ rdTxn' = "free" /\ rdFlush' = "free" /\ rdCached' = FALSE /\ rdOpen' = FALSE
    /\ rdJob' = [j \in RdJobs |-> "idle"]
    /\ UNCHANGED rdDur

RdWrite(s) == RdAbort(s) \/ RdCommit(s) \/ RdMark(s)
RdFlusher == RdFlushStart("flusher") \/ RdSwap("flusher") \/ RdFlushed
RdStop == RdSwap("stop") \/ RdFlushCommit("stop") \/ RdFlushFails("stop") \/ RdStopped

RdNext ==
    \/ \E s \in RdStores : RdOpen(s) \/ RdBegin(s) \/ RdWrite(s) \/ RdDropStore(s)
    \/ RdFlusher \/ RdFlushCommit("flusher") \/ RdFlushFails("flusher")
    \/ RdFlushStart("stop") \/ RdStop
    \/ RdAgain \/ RdCrash

-----------------------------------------------------------------------------
(* Properties *)

RdTypeOK ==
    /\ rdDur \in 0..rdMem /\ rdMem \in 0..RdMaxCommits
    /\ rdTxn # "free" => rdTxn \in RdStores /\ rdStore[rdTxn] = "txn"
    /\ rdCached => rdOpen
    /\ RdHandles # {} => rdOpen

\* No commit is forgotten: while the open database has writes that a crash would
\* lose, it is marked, or the writer is about to mark it, or a flush has taken the
\* mark and is about to commit (commit_cache_write against SharedDb::flush).
RdCovered ==
    rdOpen /\ rdDur < rdMem =>
        \/ rdDirty
        \/ \E s \in RdStores : rdStore[s] = "mark"
        \/ \E j \in RdJobs : rdJob[j] = "commit"

\* Once shutdown_redb has returned and the last store is gone the file is unlocked,
\* so that the next start can open it: no flush keeps a handle (FLUSH_LOCK).
RdReleased == rdJob["stop"] = "done" /\ RdHandles = {} => ~rdOpen

\* A database that was closed has everything on disk, late writers included, unless
\* a flush failed (Drop of SharedDb).
RdClosedIsDurable == ~rdOpen /\ ~rdFailed => rdDur = rdMem

\* Every write becomes durable, unless the process dies or flushes fail first.
RdEventuallyDurable ==
    \A n \in 1..RdMaxCommits : rdMem >= n ~> (rdDur >= n \/ rdMem < n \/ rdFailed)

RdSound == RdTypeOK /\ RdCovered /\ RdReleased /\ RdClosedIsDurable

\* What the cache was given survives: no commit is forgotten, a closed database is
\* complete and released, and every write becomes durable in the end.
RdDurable == []RdSound /\ RdEventuallyDurable
=============================================================================
