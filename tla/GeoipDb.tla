------------------------------ MODULE GeoipDb -------------------------------
(***************************************************************************)
(* A GeoIP database: the file, its mapped reader, and the updates that     *)
(* download a new one. The scheduled updater and requests of the API share *)
(* one temporary file and one lock; the process can stop between any two   *)
(* steps, and a request that is dropped in the middle of a file operation  *)
(* leaves the operation to a thread that finishes it later. The database   *)
(* is one with a URL; without one nothing is ever downloaded.              *)
(***************************************************************************)
EXTENDS Naturals

CONSTANTS
    GdApi,      \* update requests of the API, one each
    GdInterval, \* update_interval
    GdMaxNow,   \* bound: the time
    GdMaxBoots  \* bound: starts of the program

ASSUME GdAssumption ==
    /\ GdInterval \in Nat \ {0} /\ GdMaxNow \in Nat /\ GdMaxBoots \in Nat
    /\ GdApi \cap {"boot", "timer", "free"} = {}

VARIABLES
    gdDisk,   \* the file and the temporary one: "none", "junk" or "good"; and as they were at first
    gdReader, \* what lookups use
    gdCall,   \* per caller of update_db: where it is, and what it is downloading
    gdLock,   \* update_lock
    gdLate,   \* a file operation of a dropped request: "no", "write", "rename", or "done"
    gdUp,     \* "off", "boot" (in ensure_db) or "up"; starts so far, and when the last was
    gdTime,   \* now; when the updater wakes; the timestamp in the cache, 0 without one, and as
              \* it was last flushed; could the cache be read when the updater was scheduled
    gdKeeps,  \* is a cache configured for the timestamp
    gdSince   \* the last success or attempt of the updater, or the first time it is up;
              \* forgotten, 0, by a stop that leaves no timestamp (history)

gdVars == <<gdDisk, gdReader, gdCall, gdLock, gdLate, gdUp, gdTime, gdKeeps, gdSince>>

GdCallers == GdApi \cup {"boot", "timer"}
GdFree == "free"
GdCalls == [c \in GdCallers |-> [pc |-> "idle", body |-> "none"]]

GdInit ==
    /\ gdDisk \in {[file |-> f, tmp |-> "none", first |-> f] : f \in {"none", "junk", "good"}}
    /\ gdReader = "none" /\ gdCall = GdCalls /\ gdLock = GdFree /\ gdLate = "no"
    /\ gdUp = [at |-> "off", boots |-> 0, start |-> 0]
    /\ gdTime = [now |-> 1, wake |-> 0, stamp |-> 0, kept |-> 0, read |-> TRUE]
    /\ gdKeeps \in BOOLEAN /\ gdSince = 0

-----------------------------------------------------------------------------
(* The schedule *)

\* next_update_delay: what is left of the interval since the timestamp; the whole
\* interval without a cache, when the timestamp cannot be read, and when there is none,
\* in which case it is set to now, or that fails.
GdScheduled(t) ==
    LET whole == [t EXCEPT !.wake = t.now + GdInterval, !.read = TRUE]
        left == [t EXCEPT !.wake = IF t.stamp + GdInterval > t.now THEN t.stamp + GdInterval ELSE t.now,
                          !.read = TRUE]
    IN  IF ~gdKeeps THEN {whole}
        ELSE {[whole EXCEPT !.read = FALSE]} \cup
             IF t.stamp = 0 THEN {whole, [whole EXCEPT !.stamp = t.now]} ELSE {left}

\* spawn_updater, once ensure_db has returned.
GdRuns(t) ==
    /\ gdUp' = [gdUp EXCEPT !.at = "up", !.start = t.now]
    /\ gdTime' \in GdScheduled(t)

\* init_geoip_db: a file that is there and valid is opened; otherwise the start waits
\* for an update.
GdStart ==
    /\ gdUp.at = "off" /\ gdUp.boots < GdMaxBoots
    /\ \/ /\ gdDisk.file = "good" /\ gdReader' = "good"
          /\ gdUp' = [at |-> "up", boots |-> gdUp.boots + 1, start |-> gdTime.now]
          /\ gdTime' \in GdScheduled(gdTime)
          /\ gdSince' = IF gdSince = 0 THEN gdTime.now ELSE gdSince
          /\ UNCHANGED gdCall
       \/ /\ gdDisk.file # "good" /\ gdUp' = [at |-> "boot", boots |-> gdUp.boots + 1, start |-> gdUp.start]
          /\ gdCall' = [gdCall EXCEPT !["boot"].pc = "lock"]
          /\ UNCHANGED <<gdReader, gdTime, gdSince>>
    /\ UNCHANGED <<gdDisk, gdLock, gdLate, gdKeeps>>

\* The cache's flush thread (Cache::set commits with Durability::None).
GdFlush ==
    /\ gdUp.at # "off" /\ gdTime.kept # gdTime.stamp
    /\ gdTime' = [gdTime EXCEPT !.kept = gdTime.stamp]
    /\ UNCHANGED <<gdDisk, gdReader, gdCall, gdLock, gdLate, gdUp, gdKeeps, gdSince>>

\* The process stops, at any point. A clean stop closes the cache, which flushes it; a
\* crash takes the timestamp back to the last flush.
GdStop ==
    /\ gdUp.at # "off"
    /\ gdUp' = [gdUp EXCEPT !.at = "off"]
    /\ gdCall' = [c \in GdCallers |->
                     IF c \in GdApi /\ gdCall[c].pc # "idle" THEN [pc |-> "done", body |-> "none"]
                     ELSE GdCalls[c]]
    /\ gdReader' = "none" /\ gdLock' = GdFree
    /\ gdLate' = IF gdLate = "done" THEN "done" ELSE "no"
    /\ \E left \in {gdTime.stamp, gdTime.kept} :
         /\ gdTime' = [gdTime EXCEPT !.stamp = left, !.kept = left]
         /\ gdSince' = IF left = 0 THEN 0 ELSE gdSince
    /\ UNCHANGED <<gdDisk, gdKeeps>>

\* Time passes; the updater's timer is punctual.
GdTick ==
    /\ gdTime.now < GdMaxNow
    /\ gdUp.at = "up" /\ gdCall["timer"].pc = "idle" => gdTime.now < gdTime.wake
    /\ gdTime' = [gdTime EXCEPT !.now = @ + 1]
    /\ UNCHANGED <<gdDisk, gdReader, gdCall, gdLock, gdLate, gdUp, gdKeeps, gdSince>>

\* The timer fires, or a request arrives.
GdBegin(c) ==
    /\ gdUp.at = "up" /\ gdCall[c].pc = "idle"
    /\ \/ c = "timer" /\ gdTime.now >= gdTime.wake /\ gdSince' = gdTime.now
       \/ c \in GdApi /\ UNCHANGED gdSince
    /\ gdCall' = [gdCall EXCEPT ![c].pc = "lock"]
    /\ UNCHANGED <<gdDisk, gdReader, gdLock, gdLate, gdUp, gdTime, gdKeeps>>

-----------------------------------------------------------------------------
(* update_db *)

\* Mutant: the updates do not wait for each other.
GdLockFree(c) ==
    /\ gdCall[c].pc = "lock"
    /\ gdLock' = c /\ gdCall' = [gdCall EXCEPT ![c].pc = "get"]
    /\ UNCHANGED <<gdDisk, gdReader, gdLate, gdUp, gdTime, gdKeeps, gdSince>>

\* The lock that keeps updates apart.
GdLock(c) ==
    /\ gdCall[c].pc = "lock" /\ gdLock = GdFree
    /\ gdLock' = c /\ gdCall' = [gdCall EXCEPT ![c].pc = "get"]
    /\ UNCHANGED <<gdDisk, gdReader, gdLate, gdUp, gdTime, gdKeeps, gdSince>>

\* A call ends: record_update_success sets the timestamp, or that fails; the updater
\* waits an interval, the start goes on or fails.
GdEnd(c, ok) ==
    \E stamp \in {gdTime.stamp} \cup (IF ok /\ gdKeeps THEN {gdTime.now} ELSE {}) :
       LET t == [gdTime EXCEPT !.stamp = stamp] IN
       /\ gdLock' = GdFree
       /\ gdCall' = [gdCall EXCEPT ![c] = [pc |-> IF c \in GdApi THEN "done" ELSE "idle", body |-> "none"]]
       /\ gdSince' = IF ok \/ c = "timer" THEN gdTime.now ELSE gdSince
       /\ IF c = "boot" /\ ok THEN GdRuns(t)
          ELSE /\ gdUp' = [gdUp EXCEPT !.at = IF c = "boot" THEN "off" ELSE @]
               /\ gdTime' = IF c = "timer" THEN [t EXCEPT !.wake = t.now + GdInterval, !.read = TRUE] ELSE t

GdGo(c, pc) ==
    gdCall' = [gdCall EXCEPT ![c].pc = pc] /\ UNCHANGED <<gdReader, gdLock, gdUp, gdTime, gdSince>>

GdFails(c) == GdEnd(c, FALSE) /\ gdDisk' = [gdDisk EXCEPT !.tmp = "none"] /\ UNCHANGED gdReader

\* download_db: the answer, or an error; File::create empties the temporary file ...
GdDownload(c, body) ==
    /\ gdCall[c].pc = "get"
    /\ \/ /\ gdCall' = [gdCall EXCEPT ![c] = [pc |-> "write", body |-> body]]
          /\ gdDisk' = [gdDisk EXCEPT !.tmp = "junk"]
          /\ UNCHANGED <<gdReader, gdLock, gdUp, gdTime, gdSince>>
       \/ GdFails(c)
    /\ UNCHANGED <<gdLate, gdKeeps>>

\* ... which is then written and synced, or not.
GdWrite(c) ==
    /\ gdCall[c].pc = "write"
    /\ \/ gdDisk' = [gdDisk EXCEPT !.tmp = gdCall[c].body] /\ GdGo(c, "verify")
       \/ GdFails(c)
    /\ UNCHANGED <<gdLate, gdKeeps>>

\* load_db_file on the temporary file.
GdVerify(c) ==
    /\ gdCall[c].pc = "verify"
    /\ \/ gdDisk.tmp = "good" /\ GdGo(c, "rename") /\ UNCHANGED gdDisk
       \/ gdDisk.tmp # "good" /\ GdFails(c)
    /\ UNCHANGED <<gdLate, gdKeeps>>

\* The rename, which may fail.
GdRename(c) ==
    /\ gdCall[c].pc = "rename"
    /\ \/ /\ gdDisk.tmp # "none"
          /\ gdDisk' = [gdDisk EXCEPT !.file = gdDisk.tmp, !.tmp = "none"] /\ GdGo(c, "load")
       \/ GdFails(c)
    /\ UNCHANGED <<gdLate, gdKeeps>>

\* The new file is opened and its time recorded; an error leaves the old reader.
GdLoad(c) ==
    /\ gdCall[c].pc = "load"
    /\ \/ gdDisk.file = "good" /\ gdReader' = "good" /\ GdEnd(c, TRUE)
       \/ UNCHANGED gdReader /\ GdEnd(c, FALSE)
    /\ UNCHANGED <<gdDisk, gdLate, gdKeeps>>

\* The client of a request goes away: its call is dropped at an await, and a file
\* operation that is under way is left to a thread.
GdDropped(c) ==
    /\ c \in GdApi /\ gdCall[c].pc \in {"lock", "get", "write", "rename"}
    /\ gdCall' = [gdCall EXCEPT ![c] = [pc |-> "done", body |-> "none"]]
    /\ gdLock' = IF gdLock = c THEN GdFree ELSE gdLock
    /\ gdLate' \in IF gdLate = "no" /\ gdLock = c
                   THEN {"no", IF gdCall[c].pc = "rename" THEN "rename" ELSE "write"} ELSE {gdLate}
    /\ UNCHANGED <<gdDisk, gdReader, gdUp, gdTime, gdKeeps, gdSince>>

\* The thread gets to it. What it creates or writes is the temporary file, or the
\* database if the file it has opened was renamed meanwhile, or a file without a name.
GdLateStep ==
    /\ gdLate \in {"write", "rename"} /\ gdLate' = "done"
    /\ \/ gdLate = "write" /\ \E f \in {"file", "tmp"} : gdDisk' = [gdDisk EXCEPT ![f] = "junk"]
       \/ gdLate = "rename" /\ gdDisk.tmp # "none"
          /\ gdDisk' = [gdDisk EXCEPT !.file = gdDisk.tmp, !.tmp = "none"]
       \/ UNCHANGED gdDisk
    /\ UNCHANGED <<gdReader, gdCall, gdLock, gdUp, gdTime, gdKeeps, gdSince>>

GdUpdate(c) ==
    \/ GdLock(c) \/ (\E body \in {"good", "junk"} : GdDownload(c, body))
    \/ GdWrite(c) \/ GdVerify(c) \/ GdRename(c) \/ GdLoad(c)

GdNext ==
    \/ GdStart \/ GdFlush \/ GdStop \/ GdTick \/ GdLateStep
    \/ \E c \in GdCallers : GdBegin(c) \/ GdUpdate(c) \/ GdDropped(c)

GdSpec == GdInit /\ [][GdNext]_gdVars

-----------------------------------------------------------------------------
(* Properties *)

\* Neither a stop between two steps nor two updates at once put an invalid file in the
\* place of the database, as long as no file operation of a dropped request comes late
\* (update_db: update_lock, verification, rename).
GdNeverTorn == gdDisk.file = "junk" => gdDisk.first = "junk" \/ gdLate = "done"

\* With a cache for the timestamp that can be read, restarts do not put the update off:
\* the next one is at most an interval after the last, or after the start that it was
\* overdue at. No stop, clean or not, counts as one that starts the interval anew once
\* a timestamp has been flushed; before the first flush a crash does (gdSince).
GdOnTime ==
    gdKeeps /\ gdTime.read /\ gdUp.at = "up" /\ gdCall["timer"].pc = "idle" =>
        gdTime.wake <= gdSince + GdInterval \/ gdTime.wake = gdUp.start

\* The database on disk stays usable and is updated in time.
GdSound == GdNeverTorn /\ GdOnTime
=============================================================================
