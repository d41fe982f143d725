---------------------------- MODULE StorageProofs ----------------------------
(***************************************************************************)
(* What the program keeps on disk survives crashes, failures and requests  *)
(* that run at the same time: the store of the management server, the      *)
(* GeoIP database and the cache database, for any number of requests,      *)
(* keys, handles, crashes and starts.                                      *)
(***************************************************************************)
EXTENDS PersistStore, GeoipDb, RedbStore, TLAPS

-----------------------------------------------------------------------------
(* The store of the management server *)

PsImages == [torn : BOOLEAN, has : SUBSET PsKeys, data : [PsKeys -> SUBSET PsReqs]]
PsPcs == {"new", "lock", "copy", "write", "rename", "done", "gone"}
PsStates == [pc : PsPcs, key : PsKeys \cup {"none"}, seen : SUBSET PsKeys, copy : PsImages]

PsTypeOK ==
    /\ psData \in [PsKeys -> SUBSET PsReqs] /\ psHas \subseteq PsKeys
    /\ psReq \in [PsReqs -> PsStates]
    /\ psTmp \in PsImages /\ psFile \in PsImages /\ psFailed \in BOOLEAN

\* flush_lock is held from before the copy until the file is in place.
PsHolding(r) == psReq[r].pc \in {"copy", "write", "rename"}
PsLocked == \A r \in PsReqs : psLock = r <=> PsHolding(r)

\* What is written is a whole copy, and the file that gets renamed is the holder's.
PsWhole == \A r \in PsReqs :
    /\ ~psReq[r].copy.torn
    /\ psReq[r].pc \in {"new", "lock"} => psReq[r].seen = {}
    /\ psReq[r].pc \in {"write", "rename"} => psReq[r].seen = PsKeys
    /\ psReq[r].pc = "rename" => psTmp = psReq[r].copy

\* A change is in the map from the moment it is made until the process dies.
PsMade == \A r \in PsReqs :
    /\ psReq[r].pc # "new" => psReq[r].key \in PsKeys
    /\ psReq[r].pc = "lock" \/ PsHolding(r) => r \in psData[psReq[r].key]

\* Along a key: the file, the copy that will replace it, the map.
PsOrdered == ~psFailed => \A k \in PsKeys :
    /\ psFile.data[k] \subseteq psData[k]
    /\ \A r \in PsReqs : PsHolding(r) /\ k \in psReq[r].seen =>
         /\ psFile.data[k] \subseteq psReq[r].copy.data[k]
         /\ psReq[r].copy.data[k] \subseteq psData[k]
         /\ k = psReq[r].key => r \in psReq[r].copy.data[k]

PsInv == PsTypeOK /\ PsLocked /\ PsWhole /\ PsMade /\ PsOrdered /\ PsSound

\* The first state satisfies the invariant.
LEMMA PsInitInv == PsInit => PsInv
<1> SUFFICES ASSUME PsInit PROVE PsInv
  OBVIOUS
<1>1. PsEmpty \in PsImages /\ ~PsEmpty.torn /\ \A k \in PsKeys : PsEmpty.data[k] = {}
  BY DEF PsEmpty, PsImages
<1>2. PsTypeOK
  BY <1>1 DEF PsInit, PsTypeOK, PsStates, PsPcs
<1> QED
  BY <1>1, <1>2, PsAssumption
     DEF PsInit, PsInv, PsLocked, PsHolding, PsWhole, PsMade, PsOrdered, PsSound, PsNeverTorn, PsAnsweredIsSaved

\* The map changes; no flush is under way for the request yet.
LEMMA PsChangeInv ==
  ASSUME PsInv, NEW r \in PsReqs, NEW k \in PsKeys, NEW set \in BOOLEAN, PsChange(r, k, set)
  PROVE  PsInv'
<1>1. /\ psReq' = [psReq EXCEPT ![r].pc = "lock", ![r].key = k] /\ psReq[r].pc = "new"
      /\ psData' = [psData EXCEPT ![k] = @ \cup {r}]
      /\ psLock' = psLock /\ psTmp' = psTmp /\ psFile' = psFile /\ psFailed' = psFailed
      /\ psHas' = IF set THEN psHas \cup {k} ELSE psHas \ {k}
  BY DEF PsChange
<1>2. /\ psReq'[r].pc = "lock" /\ psReq'[r].key = k /\ psReq'[r].seen = psReq[r].seen
      /\ psReq'[r].copy = psReq[r].copy
      /\ \A s \in PsReqs : s # r => psReq'[s] = psReq[s]
  BY <1>1 DEF PsInv, PsTypeOK, PsStates
<1>3. \A s \in PsReqs : PsHolding(s)' <=> PsHolding(s)
  BY <1>1, <1>2 DEF PsHolding
<1>4. r \in psData'[k] /\ \A j \in PsKeys : psData[j] \subseteq psData'[j]
  BY <1>1 DEF PsInv, PsTypeOK
<1>5. PsTypeOK'
  <2>1. PICK q : q = [psReq[r] EXCEPT !.pc = "lock", !.key = k]
    OBVIOUS
  <2>2. q \in PsStates
    BY <2>1 DEF PsInv, PsTypeOK, PsStates, PsPcs
  <2>3. psReq' \in [PsReqs -> PsStates]
    BY <1>1, <2>1, <2>2 DEF PsInv, PsTypeOK
  <2> QED
    BY <1>1, <2>3 DEF PsInv, PsTypeOK
<1>6. PsLocked'
  BY <1>1, <1>3 DEF PsInv, PsLocked
<1>7. PsWhole'
  BY <1>1, <1>2 DEF PsInv, PsWhole
<1>8. PsMade'
  BY <1>1, <1>2, <1>3, <1>4 DEF PsInv, PsMade, PsHolding
<1>9. PsOrdered'
  <2>1. \A s \in PsReqs : psReq'[s].seen = psReq[s].seen /\ psReq'[s].copy = psReq[s].copy
                           /\ (PsHolding(s) => psReq'[s].key = psReq[s].key)
    BY <1>1, <1>2 DEF PsHolding
  <2> QED
    BY <1>1, <1>3, <1>4, <2>1 DEF PsInv, PsOrdered
<1>10. PsSound'
  BY <1>1, <1>2 DEF PsInv, PsSound, PsNeverTorn, PsAnsweredIsSaved
<1> QED
  BY <1>5, <1>6, <1>7, <1>8, <1>9, <1>10 DEF PsInv

\* flush_lock is taken.
LEMMA PsLockInv ==
  ASSUME PsInv, NEW r \in PsReqs, PsLock(r)
  PROVE  PsInv'
<1>1. /\ psReq' = [psReq EXCEPT ![r].pc = "copy"] /\ psReq[r].pc = "lock" /\ psLock = "free" /\ psLock' = r
      /\ psData' = psData /\ psHas' = psHas /\ psTmp' = psTmp /\ psFile' = psFile /\ psFailed' = psFailed
  BY DEF PsLock, psMem
<1>2. /\ psReq'[r].pc = "copy" /\ psReq'[r].key = psReq[r].key /\ psReq'[r].seen = psReq[r].seen
      /\ psReq'[r].copy = psReq[r].copy
      /\ \A s \in PsReqs : s # r => psReq'[s] = psReq[s]
  BY <1>1 DEF PsInv, PsTypeOK, PsStates
<1>3. \A s \in PsReqs : ~PsHolding(s) /\ (PsHolding(s)' <=> s = r)
  BY <1>1, <1>2, PsAssumption DEF PsInv, PsLocked, PsHolding
<1>4. PsTypeOK'
  BY <1>1 DEF PsInv, PsTypeOK, PsStates, PsPcs
<1>5. PsLocked' /\ PsWhole'
  BY <1>1, <1>2, <1>3 DEF PsInv, PsLocked, PsWhole
<1>6. PsMade' /\ PsOrdered'
  BY <1>1, <1>2, <1>3 DEF PsInv, PsWhole, PsMade, PsOrdered
<1>7. PsSound'
  BY <1>1, <1>2 DEF PsInv, PsSound, PsNeverTorn, PsAnsweredIsSaved
<1> QED
  BY <1>4, <1>5, <1>6, <1>7 DEF PsInv

\* An entry is copied: the map's value, which holds at least what the file's does.
LEMMA PsCopyInv ==
  ASSUME PsInv, NEW r \in PsReqs, NEW k \in PsKeys, PsCopy(r, k)
  PROVE  PsInv'
<1>1. /\ psReq[r].pc = "copy" /\ k \notin psReq[r].seen
      /\ psData' = psData /\ psHas' = psHas /\ psTmp' = psTmp /\ psFile' = psFile /\ psFailed' = psFailed
      /\ psLock' = psLock /\ psReq[r] \in PsStates /\ psReq[r].copy \in PsImages
  BY DEF PsCopy, psMem, PsInv, PsTypeOK, PsStates
<1> DEFINE seen == psReq[r].seen \cup {k}
           copy == [torn |-> FALSE, has |-> psReq[r].copy.has \cup (psHas \cap {k}),
                    data |-> [psReq[r].copy.data EXCEPT ![k] = psData[k]]]
<1>2. psReq' = [psReq EXCEPT ![r].seen = seen, ![r].copy = copy]
  BY DEF PsCopy
<1>3. /\ seen \subseteq PsKeys /\ copy \in PsImages /\ ~copy.torn /\ copy.data[k] = psData[k]
      /\ \A j \in PsKeys : j # k => copy.data[j] = psReq[r].copy.data[j] /\ (j \in seen <=> j \in psReq[r].seen)
      /\ k \in seen
  BY <1>1 DEF PsInv, PsTypeOK, PsStates, PsImages
<1> HIDE DEF seen, copy
<1>4. /\ psReq'[r].pc = "copy" /\ psReq'[r].key = psReq[r].key /\ psReq'[r].seen = seen
      /\ psReq'[r].copy = copy
      /\ \A s \in PsReqs : s # r => psReq'[s] = psReq[s]
      /\ psReq' \in [PsReqs -> PsStates]
  BY <1>1, <1>2, <1>3 DEF PsInv, PsTypeOK, PsStates
<1>5. \A s \in PsReqs : PsHolding(s)' <=> PsHolding(s)
  BY <1>1, <1>4 DEF PsHolding
<1>6. PsTypeOK' /\ PsLocked' /\ PsWhole'
  BY <1>1, <1>3, <1>4, <1>5 DEF PsInv, PsTypeOK, PsLocked, PsWhole
<1>7. PsMade'
  BY <1>1, <1>4, <1>5 DEF PsInv, PsMade
<1>8. PsOrdered'
  <2> SUFFICES ASSUME ~psFailed, NEW j \in PsKeys, NEW s \in PsReqs, PsHolding(s)', j \in psReq'[s].seen
               PROVE  /\ psFile.data[j] \subseteq psReq'[s].copy.data[j]
                      /\ psReq'[s].copy.data[j] \subseteq psData[j]
                      /\ j = psReq'[s].key => s \in psReq'[s].copy.data[j]
    BY <1>1 DEF PsInv, PsOrdered
  <2>1. CASE s # r \/ j # k
    BY <1>3, <1>4, <1>5, <2>1 DEF PsInv, PsOrdered
  <2>2. CASE s = r /\ j = k
    BY <1>1, <1>3, <1>4, <2>2 DEF PsInv, PsOrdered, PsMade, PsHolding
  <2> QED
    BY <2>1, <2>2
<1>9. PsSound'
  BY <1>1, <1>4 DEF PsInv, PsSound, PsNeverTorn, PsAnsweredIsSaved
<1> QED
  BY <1>6, <1>7, <1>8, <1>9 DEF PsInv

\* The temporary file is written, by the holder of the lock alone.
LEMMA PsWriteInv ==
  ASSUME PsInv, NEW r \in PsReqs, PsWrite(r) \/ PsWritten(r)
  PROVE  PsInv'
<1>1. /\ psData' = psData /\ psHas' = psHas /\ psFile' = psFile /\ psFailed' = psFailed /\ psLock' = psLock
      /\ PsHolding(r) /\ psReq[r].pc # "rename" /\ psReq[r].seen = PsKeys
      /\ psReq' = [psReq EXCEPT ![r].pc = IF psReq[r].pc = "copy" THEN "write" ELSE "rename"]
      /\ psReq[r].pc # "copy" => psTmp' = psReq[r].copy
  BY DEF PsWrite, PsWritten, psMem, PsHolding, PsInv, PsWhole
<1>2. /\ psReq'[r].pc = IF psReq[r].pc = "copy" THEN "write" ELSE "rename"
      /\ psReq'[r].key = psReq[r].key /\ psReq'[r].seen = psReq[r].seen /\ psReq'[r].copy = psReq[r].copy
      /\ \A s \in PsReqs : s # r => psReq'[s] = psReq[s]
  BY <1>1 DEF PsInv, PsTypeOK, PsStates
<1>3. \A s \in PsReqs : (PsHolding(s)' <=> PsHolding(s)) /\ (s # r => ~PsHolding(s))
  BY <1>1, <1>2 DEF PsHolding, PsInv, PsLocked
<1>4. PsTypeOK'
  <2>1. psReq' \in [PsReqs -> PsStates]
    BY <1>1 DEF PsInv, PsTypeOK, PsStates, PsPcs
  <2>2. psTmp' \in PsImages
    <3>1. PsTorn \in PsImages
      BY DEF PsTorn, PsEmpty, PsImages
    <3>2. psReq[r].copy \in PsImages
      BY DEF PsInv, PsTypeOK, PsStates
    <3> QED
      BY <3>1, <3>2 DEF PsWrite, PsWritten
  <2> QED
    BY <1>1, <2>1, <2>2 DEF PsInv, PsTypeOK
<1>5. PsLocked'
  BY <1>1, <1>3 DEF PsInv, PsLocked
<1>6. PsWhole'
  BY <1>1, <1>2, <1>3 DEF PsInv, PsWhole, PsHolding
<1>7. PsMade'
  BY <1>1, <1>2, <1>3 DEF PsInv, PsMade, PsHolding
<1>8. PsOrdered'
  <2>1. \A s \in PsReqs : psReq'[s].seen = psReq[s].seen /\ psReq'[s].copy = psReq[s].copy /\ psReq'[s].key = psReq[s].key
    BY <1>2
  <2> QED
    BY <1>1, <1>3, <2>1 DEF PsInv, PsOrdered
<1>9. PsSound'
  BY <1>1, <1>2 DEF PsInv, PsSound, PsNeverTorn, PsAnsweredIsSaved
<1> QED
  BY <1>4, <1>5, <1>6, <1>7, <1>9, <1>8 DEF PsInv

\* The flush ends: the copy takes the file's place, or the failure is noted.
LEMMA PsEndInv ==
  ASSUME PsInv, NEW r \in PsReqs, PsRename(r) \/ PsFails(r)
  PROVE  PsInv'
<1>1. /\ psData' = psData /\ psHas' = psHas /\ psTmp' = psTmp /\ psLock' = "free"
      /\ PsHolding(r) /\ psReq' = [psReq EXCEPT ![r].pc = "done", ![r].copy = PsEmpty]
  BY DEF PsRename, PsFails, psMem, PsHolding
<1>2. \/ psFile' = psReq[r].copy /\ psFailed' = psFailed /\ psReq[r].seen = PsKeys
      \/ psFile' = psFile /\ psFailed' = TRUE
  BY DEF PsRename, PsFails, PsInv, PsWhole
<1>3. PsEmpty \in PsImages /\ ~PsEmpty.torn
  BY DEF PsEmpty, PsImages
<1>4. /\ psReq'[r].pc = "done" /\ psReq'[r].key = psReq[r].key /\ psReq'[r].copy = PsEmpty
      /\ \A s \in PsReqs : s # r => psReq'[s] = psReq[s]
  BY <1>1 DEF PsInv, PsTypeOK, PsStates
<1>5. \A s \in PsReqs : ~PsHolding(s)' /\ (s # r => ~PsHolding(s))
  BY <1>1, <1>4 DEF PsHolding, PsInv, PsLocked
<1>6. PsTypeOK'
  <2>1. psReq' \in [PsReqs -> PsStates]
    <3>1. PICK q : q = [psReq[r] EXCEPT !.pc = "done", !.copy = PsEmpty]
      OBVIOUS
    <3>2. q \in PsStates
      BY <1>3, <3>1 DEF PsInv, PsTypeOK, PsStates, PsPcs
    <3> QED
      BY <1>1, <3>1, <3>2 DEF PsInv, PsTypeOK
  <2>2. psFile' \in PsImages
    BY <1>2 DEF PsInv, PsTypeOK, PsStates
  <2> QED
    BY <1>1, <1>2, <2>1, <2>2 DEF PsInv, PsTypeOK
<1>7. PsLocked' /\ PsWhole'
  BY <1>1, <1>3, <1>4, <1>5, PsAssumption DEF PsInv, PsLocked, PsWhole, PsHolding
<1>8. PsMade'
  BY <1>1, <1>4, <1>5 DEF PsInv, PsMade, PsHolding
<1>9. PsOrdered'
  BY <1>1, <1>2, <1>5 DEF PsInv, PsOrdered
<1>10. PsSound'
  <2>1. ~psFile'.torn
    BY <1>2 DEF PsInv, PsSound, PsNeverTorn, PsWhole
  <2>2. ASSUME ~psFailed', NEW s \in PsReqs, psReq'[s].pc = "done"
        PROVE  s \in psFile'.data[psReq'[s].key]
    <3>1. psFile' = psReq[r].copy /\ psReq[r].seen = PsKeys /\ ~psFailed
      BY <1>2, <2>2
    <3>2. psReq'[s].key = psReq[s].key /\ psReq[s].key \in PsKeys
      BY <1>1, <1>4, <2>2 DEF PsInv, PsMade, PsHolding
    <3>3. CASE s = r
      BY <1>1, <3>1, <3>2, <3>3 DEF PsInv, PsOrdered
    <3>4. CASE s # r
      BY <1>1, <1>4, <2>2, <3>1, <3>2, <3>4 DEF PsInv, PsOrdered, PsSound, PsNeverTorn, PsAnsweredIsSaved
    <3> QED
      BY <3>3, <3>4
  <2> QED
    BY <2>1, <2>2 DEF PsSound, PsNeverTorn, PsAnsweredIsSaved
<1> QED
  BY <1>6, <1>7, <1>8, <1>9, <1>10 DEF PsInv

\* The process dies and the next one reads the file.
LEMMA PsCrashInv ==
  ASSUME PsInv, PsCrash
  PROVE  PsInv'
<1>1. /\ psData' = psFile.data /\ psHas' = psFile.has /\ psLock' = "free" /\ psTmp' = psTmp
      /\ psFile' = psFile /\ psFailed' = psFailed
      /\ psReq' = [r \in PsReqs |-> IF psReq[r].pc \in {"new", "done"} THEN psReq[r]
                                    ELSE [psReq[r] EXCEPT !.pc = "gone", !.copy = PsEmpty]]
  BY DEF PsCrash
<1>2. PsEmpty \in PsImages /\ ~PsEmpty.torn
  BY DEF PsEmpty, PsImages
<1>3. ASSUME NEW r \in PsReqs
      PROVE  /\ psReq'[r] \in PsStates /\ psReq'[r].pc \in {"new", "done", "gone"}
             /\ psReq'[r].pc # "gone" => psReq'[r] = psReq[r]
             /\ psReq'[r].key = psReq[r].key /\ ~psReq'[r].copy.torn
             /\ psReq'[r].pc = "new" => psReq[r].pc = "new"
             /\ ~PsHolding(r)'
  <2>1. psReq[r] \in PsStates /\ ~psReq[r].copy.torn
    BY DEF PsInv, PsTypeOK, PsWhole
  <2>2. CASE psReq[r].pc \in {"new", "done"}
    BY <1>1, <2>1, <2>2 DEF PsHolding
  <2>3. CASE psReq[r].pc \notin {"new", "done"}
    <3>1. psReq'[r] = [psReq[r] EXCEPT !.pc = "gone", !.copy = PsEmpty]
      BY <1>1, <2>3
    <3> QED
      BY <1>2, <2>1, <3>1 DEF PsStates, PsPcs, PsHolding
  <2> QED
    BY <2>2, <2>3
<1>4. PsTypeOK'
  BY <1>1, <1>3 DEF PsInv, PsTypeOK, PsImages
<1>5. PsLocked' /\ PsWhole'
  BY <1>1, <1>3, PsAssumption DEF PsInv, PsLocked, PsWhole
<1>6. PsMade' /\ PsOrdered'
  BY <1>1, <1>3 DEF PsInv, PsMade, PsOrdered
<1>7. PsSound'
  BY <1>1, <1>3 DEF PsInv, PsSound, PsNeverTorn, PsAnsweredIsSaved
<1> QED
  BY <1>4, <1>5, <1>6, <1>7 DEF PsInv

\* The file of the management server is whole at every moment, and a change that was
\* answered is in it and stays there, unless a write has failed.
THEOREM PsSafe == PsSpec => []PsSound
<1>1. PsInit => PsInv
  BY PsInitInv
<1>2. PsInv /\ [PsNext]_psVars => PsInv'
  <2> SUFFICES ASSUME PsInv, [PsNext]_psVars PROVE PsInv'
    OBVIOUS
  <2>1. CASE UNCHANGED psVars
    BY <2>1 DEF psVars, PsInv, PsTypeOK, PsLocked, PsHolding, PsWhole, PsMade, PsOrdered, PsSound, PsNeverTorn,
                PsAnsweredIsSaved
  <2> QED
    BY <2>1, PsChangeInv, PsLockInv, PsCopyInv, PsWriteInv, PsEndInv, PsCrashInv DEF PsNext
<1>3. PsInv => PsSound
  BY DEF PsInv
<1> QED
  BY <1>1, <1>2, <1>3, PTL DEF PsSpec

-----------------------------------------------------------------------------
(* The GeoIP database *)

GdFiles == {"none", "junk", "good"}
GdPcs == {"idle", "lock", "get", "write", "verify", "rename", "load", "done"}
GdCallStates == [pc : GdPcs, body : GdFiles]
GdTimes == [now : Nat \ {0}, wake : Nat, stamp : Nat, kept : Nat, read : BOOLEAN]

GdTypeOK ==
    /\ gdDisk \in [file : GdFiles, tmp : GdFiles, first : GdFiles]
    /\ gdCall \in [GdCallers -> GdCallStates]
    /\ gdLate \in {"no", "write", "rename", "done"}
    /\ gdUp \in [at : {"off", "boot", "up"}, boots : Nat, start : Nat]
    /\ gdTime \in GdTimes
    /\ gdKeeps \in BOOLEAN /\ gdSince \in Nat

\* Downloads, checks and renames are made by the holder of update_lock.
GdBusy(c) == gdCall[c].pc \in {"get", "write", "verify", "rename", "load"}
GdLocked == \A c \in GdCallers : gdLock = c <=> GdBusy(c)

\* What is about to be renamed has been found valid, unless a late write came after.
GdVerified == \A c \in GdCallers : gdCall[c].pc = "rename" /\ gdLate # "done" => gdDisk.tmp = "good"

\* The timestamp, and what of it was flushed, is no later than the last success,
\* attempt or start; and a stop that left none has forgotten those.
GdStamped ==
    /\ gdSince <= gdTime.now
    /\ gdTime.stamp <= gdSince /\ gdTime.kept <= gdSince
    /\ gdUp.at # "up" /\ gdTime.stamp = 0 => gdSince = 0

\* ensure_db's update is under way only while the program starts, all others only
\* while it is up.
GdBooting ==
    /\ gdCall["boot"].pc # "idle" => gdUp.at = "boot"
    /\ \A c \in GdCallers : c # "boot" /\ gdCall[c].pc \notin {"idle", "done"} => gdUp.at = "up"

GdInv == GdTypeOK /\ GdLocked /\ GdVerified /\ GdBooting /\ GdStamped /\ GdSound

\* The first state satisfies the invariant.
LEMMA GdInitInv == GdInit => GdInv
<1> SUFFICES ASSUME GdInit PROVE GdInv
  OBVIOUS
<1>1. "timer" \in GdCallers /\ "boot" \in GdCallers /\ GdFree \notin GdCallers
  BY GdAssumption DEF GdCallers, GdFree
<1>2. GdTypeOK
  BY DEF GdInit, GdTypeOK, GdFiles, GdCallStates, GdPcs, GdCalls, GdTimes
<1> QED
  BY <1>1, <1>2 DEF GdInit, GdInv, GdLocked, GdBusy, GdVerified, GdBooting, GdStamped, GdSound, GdNeverTorn, GdOnTime, GdCalls, GdFiles

\* What next_update_delay makes of a timestamp.
LEMMA GdScheduledFacts ==
  ASSUME GdTypeOK, NEW t \in GdTimes, NEW x \in GdScheduled(t)
  PROVE  /\ x \in GdTimes /\ x.now = t.now /\ x.kept = t.kept
         /\ x.stamp = t.stamp \/ (t.stamp = 0 /\ x.stamp = t.now)
         /\ gdKeeps /\ x.read =>
              \/ t.stamp = 0 /\ x.wake = t.now + GdInterval
              \/ t.stamp # 0 /\ t.stamp + GdInterval > t.now /\ x.wake = t.stamp + GdInterval
              \/ t.stamp # 0 /\ x.wake = t.now
<1> DEFINE whole == [t EXCEPT !.wake = t.now + GdInterval, !.read = TRUE]
           lw == IF t.stamp + GdInterval > t.now THEN t.stamp + GdInterval ELSE t.now
           left == [t EXCEPT !.wake = lw, !.read = TRUE]
           unread == [whole EXCEPT !.read = FALSE]
           fresh == [whole EXCEPT !.stamp = t.now]
<1>1. /\ t.now + GdInterval \in Nat /\ lw \in Nat /\ t.now \in Nat
      /\ lw = t.now \/ (lw = t.stamp + GdInterval /\ t.stamp + GdInterval > t.now)
  BY GdAssumption DEF GdTimes
<1>2. \/ ~gdKeeps /\ x = whole
      \/ x = unread
      \/ t.stamp = 0 /\ (x = whole \/ x = fresh)
      \/ t.stamp # 0 /\ x = left
  BY DEF GdScheduled
<1> HIDE DEF lw
<1>3. whole \in GdTimes /\ whole.now = t.now /\ whole.kept = t.kept /\ whole.stamp = t.stamp /\ whole.wake = t.now + GdInterval
  BY <1>1 DEF GdTimes
<1>4. left \in GdTimes /\ left.now = t.now /\ left.kept = t.kept /\ left.stamp = t.stamp /\ left.wake = lw
  BY <1>1 DEF GdTimes
<1>5. unread \in GdTimes /\ unread.now = t.now /\ unread.kept = t.kept /\ unread.stamp = t.stamp /\ unread.read = FALSE
  BY <1>1 DEF GdTimes
<1>6. fresh \in GdTimes /\ fresh.now = t.now /\ fresh.kept = t.kept /\ fresh.stamp = t.now /\ fresh.wake = t.now + GdInterval
  BY <1>1 DEF GdTimes
<1> HIDE DEF whole, left, unread, fresh
<1> QED
  BY <1>1, <1>2, <1>3, <1>4, <1>5, <1>6

\* What a state of the callers means for the lock when one of them changes.
LEMMA GdOthers ==
  ASSUME GdInv, NEW c \in GdCallers, GdBusy(c)
  PROVE  gdLock = c /\ c # GdFree /\ \A d \in GdCallers : d # GdFree /\ (d # c => ~GdBusy(d) /\ gdCall[d].pc # "rename")
  BY GdAssumption DEF GdInv, GdLocked, GdBusy, GdCallers, GdFree

\* The end of a call keeps the schedule: after a success or an attempt of the updater
\* the next update is an interval away.
LEMMA GdEndInv ==
  ASSUME GdInv, NEW c \in GdCallers, NEW ok \in BOOLEAN, GdBusy(c), GdEnd(c, ok), gdKeeps' = gdKeeps,
         gdLate' = gdLate, gdDisk' \in [file : GdFiles, tmp : GdFiles, first : GdFiles]
  PROVE  GdTypeOK' /\ GdLocked' /\ GdVerified' /\ GdBooting' /\ GdStamped' /\ GdOnTime'
<1> DEFINE next == [pc |-> IF c \in GdApi THEN "done" ELSE "idle", body |-> "none"]
<1>1. PICK stamp \in {gdTime.stamp} \cup (IF ok /\ gdKeeps THEN {gdTime.now} ELSE {}) :
        LET u == [gdTime EXCEPT !.stamp = stamp] IN
        /\ gdLock' = GdFree /\ gdCall' = [gdCall EXCEPT ![c] = next]
        /\ gdSince' = IF ok \/ c = "timer" THEN gdTime.now ELSE gdSince
        /\ c = "boot" /\ ok => gdUp' = [gdUp EXCEPT !.at = "up", !.start = u.now] /\ gdTime' \in GdScheduled(u)
        /\ ~(c = "boot" /\ ok) =>
             /\ gdUp' = [gdUp EXCEPT !.at = IF c = "boot" THEN "off" ELSE @]
             /\ gdTime' = IF c = "timer" THEN [u EXCEPT !.wake = u.now + GdInterval, !.read = TRUE] ELSE u
  BY Zenon DEF GdEnd, GdRuns
<1> DEFINE t == [gdTime EXCEPT !.stamp = stamp]
<1>2. /\ t \in GdTimes /\ t.now = gdTime.now /\ t.wake = gdTime.wake /\ t.kept = gdTime.kept /\ t.read = gdTime.read
      /\ t.stamp = gdTime.stamp \/ (ok /\ t.stamp = gdTime.now)
  BY <1>1 DEF GdInv, GdTypeOK, GdTimes
<1>3. /\ c = "boot" /\ ok => gdUp' = [gdUp EXCEPT !.at = "up", !.start = t.now] /\ gdTime' \in GdScheduled(t)
      /\ ~(c = "boot" /\ ok) =>
             /\ gdUp' = [gdUp EXCEPT !.at = IF c = "boot" THEN "off" ELSE @]
             /\ gdTime' = IF c = "timer" THEN [t EXCEPT !.wake = t.now + GdInterval, !.read = TRUE] ELSE t
  BY <1>1, Zenon
<1>4. gdLock' = GdFree /\ gdCall' = [gdCall EXCEPT ![c] = next] /\ gdSince' = IF ok \/ c = "timer" THEN gdTime.now ELSE gdSince
  BY <1>1, Zenon
<1> HIDE DEF t
<1>5. /\ gdCall' \in [GdCallers -> GdCallStates] /\ ~GdBusy(c)' /\ gdCall'[c] = next /\ next.pc \in {"idle", "done"}
      /\ c \notin GdApi => next.pc = "idle"
      /\ \A d \in GdCallers : d # c => gdCall'[d] = gdCall[d] /\ ~GdBusy(d) /\ ~GdBusy(d)'
  BY <1>4, GdOthers DEF GdInv, GdTypeOK, GdCallStates, GdPcs, GdFiles, GdBusy
<1>6. /\ GdInterval \in Nat /\ gdSince \in Nat /\ gdSince <= gdTime.now /\ "timer" \in GdCallers /\ "timer" \notin GdApi
      /\ gdTime.now \in Nat \ {0} /\ gdUp.start \in Nat /\ gdUp.at \in {"off", "boot", "up"} /\ gdUp.boots \in Nat
      /\ gdTime.stamp \in Nat /\ gdTime.kept \in Nat /\ gdTime.stamp <= gdSince /\ gdTime.kept <= gdSince
      /\ "boot" \in GdCallers /\ "boot" \notin GdApi
  BY GdAssumption DEF GdCallers, GdInv, GdTypeOK, GdStamped, GdTimes
<1>7. GdLocked' /\ GdVerified'
  BY <1>4, <1>5, GdAssumption DEF GdLocked, GdVerified, GdFree, GdCallers, GdBusy
<1>8. gdUp.at = IF c = "boot" THEN "boot" ELSE "up"
  BY DEF GdBusy, GdInv, GdBooting
<1>9. GdBooting'
  <2>1. CASE c = "boot"
    <3>1. \A d \in GdCallers : d # "boot" => gdCall'[d].pc \in {"idle", "done"}
      BY <1>5, <1>8, <2>1 DEF GdInv, GdBooting
    <3>2. gdCall'["boot"].pc = "idle"
      BY <1>5, <1>6, <2>1
    <3> QED
      BY <3>1, <3>2 DEF GdBooting
  <2>2. CASE c # "boot"
    <3>1. gdUp'.at = "up" /\ gdCall'["boot"].pc = "idle"
      BY <1>5, <1>6, <1>3, <1>8, <2>2 DEF GdInv, GdTypeOK, GdBooting
    <3> QED
      BY <3>1 DEF GdBooting
  <2> QED
    BY <2>1, <2>2
<1>10. CASE c = "boot" /\ ok
  <2>1. /\ gdTime' \in GdTimes /\ gdTime'.now = gdTime.now /\ gdTime'.kept = gdTime.kept
        /\ gdTime'.stamp = t.stamp \/ gdTime'.stamp = gdTime.now
        /\ gdKeeps /\ gdTime'.read =>
              \/ t.stamp = 0 /\ gdTime'.wake = t.now + GdInterval
              \/ t.stamp # 0 /\ t.stamp + GdInterval > t.now /\ gdTime'.wake = t.stamp + GdInterval
              \/ t.stamp # 0 /\ gdTime'.wake = t.now
    BY <1>3, <1>2, <1>10, GdScheduledFacts DEF GdInv
  <2>2. gdSince' = gdTime.now /\ gdUp' = [gdUp EXCEPT !.at = "up", !.start = t.now]
    BY <1>3, <1>4, <1>10
  <2>3. gdUp'.at = "up" /\ gdUp' \in [at : {"off", "boot", "up"}, boots : Nat, start : Nat]
    BY <1>2, <1>6, <2>2 DEF GdInv, GdTypeOK
  <2>4. GdTypeOK'
    BY <1>4, <1>2, <1>5, <1>6, <1>10, <2>1, <2>2, <2>3 DEF GdInv, GdTypeOK
  <2>5. GdStamped'
    BY <1>2, <1>6, <2>1, <2>2, <2>3 DEF GdStamped
  <2>6. GdOnTime'
    BY <1>2, <1>6, <2>1, <2>2 DEF GdOnTime
  <2> QED
    BY <1>7, <1>9, <2>4, <2>5, <2>6
<1>11. CASE c = "timer"
  <2>1. /\ gdTime' \in GdTimes /\ gdTime'.now = gdTime.now /\ gdTime'.kept = gdTime.kept
        /\ gdTime'.stamp = t.stamp /\ gdTime'.wake = gdTime.now + GdInterval /\ gdSince' = gdTime.now
    <3>1. gdTime' = [t EXCEPT !.wake = t.now + GdInterval, !.read = TRUE] /\ gdSince' = gdTime.now
      BY <1>3, <1>4, <1>11
    <3>2. t.now + GdInterval \in Nat /\ t.now + GdInterval = gdTime.now + GdInterval
      BY <1>2, <1>6
    <3> QED
      BY <1>2, <3>1, <3>2 DEF GdTimes
  <2>2. gdUp'.at = "up" /\ gdUp' \in [at : {"off", "boot", "up"}, boots : Nat, start : Nat]
    BY <1>3, <1>8, <1>11 DEF GdInv, GdTypeOK
  <2>3. GdTypeOK'
    BY <1>5, <1>6, <1>11, <2>1, <2>2 DEF GdInv, GdTypeOK
  <2>4. GdStamped'
    BY <1>2, <1>6, <2>1, <2>2 DEF GdStamped
  <2>5. GdOnTime'
    BY <1>6, <2>1 DEF GdOnTime
  <2> QED
    BY <1>7, <1>9, <2>3, <2>4, <2>5
<1>12. CASE c # "timer" /\ ~(c = "boot" /\ ok)
  <2>1. /\ gdTime' = t /\ gdUp' = [gdUp EXCEPT !.at = IF c = "boot" THEN "off" ELSE @]
        /\ gdSince' = IF ok THEN gdTime.now ELSE gdSince
        /\ gdCall'["timer"] = gdCall["timer"]
    BY <1>3, <1>4, <1>5, <1>6, <1>12
  <2>2. /\ gdUp'.start = gdUp.start /\ gdUp' \in [at : {"off", "boot", "up"}, boots : Nat, start : Nat]
        /\ c = "boot" => gdUp'.at = "off" /\ ~ok /\ gdUp.at = "boot"
        /\ c # "boot" => gdUp'.at = "up" /\ gdUp.at = "up"
    BY <1>8, <1>12, <2>1 DEF GdInv, GdTypeOK
  <2>3. GdTypeOK'
    BY <1>2, <1>5, <1>6, <2>1, <2>2 DEF GdInv, GdTypeOK
  <2>4. GdStamped'
    <3>1. gdSince' >= gdSince /\ gdSince' \in Nat /\ gdSince' <= gdTime.now /\ (ok => gdSince' = gdTime.now)
      BY <1>6, <2>1
    <3>2. c = "boot" => t.stamp = gdTime.stamp /\ gdSince' = gdSince /\ (gdTime.stamp = 0 => gdSince = 0)
      BY <1>2, <1>12, <2>1, <2>2 DEF GdInv, GdStamped
    <3> QED
      BY <1>2, <1>6, <2>1, <2>2, <3>1, <3>2 DEF GdStamped
  <2>5. GdOnTime'
    BY <1>2, <1>6, <2>1, <2>2 DEF GdInv, GdTypeOK, GdTimes, GdSound, GdOnTime
  <2> QED
    BY <1>7, <1>9, <2>3, <2>4, <2>5
<1> QED
  BY <1>10, <1>11, <1>12

\* A step of a call that holds the lock and goes on leaves the schedule alone.
LEMMA GdGoInv ==
  ASSUME GdInv, NEW c \in GdCallers, GdBusy(c), NEW n \in GdCallStates, n.pc \in {"write", "verify", "rename", "load"},
         gdCall' = [gdCall EXCEPT ![c] = n], UNCHANGED <<gdReader, gdLock, gdUp, gdTime, gdSince, gdKeeps, gdLate>>,
         gdDisk' \in [file : GdFiles, tmp : GdFiles, first : GdFiles],
         n.pc = "rename" => gdDisk'.tmp = "good" \/ gdLate = "done"
  PROVE  GdTypeOK' /\ GdLocked' /\ GdVerified' /\ GdBooting' /\ GdStamped' /\ GdOnTime'
<1>1. /\ gdCall' \in [GdCallers -> GdCallStates] /\ gdCall'[c] = n /\ GdBusy(c)' /\ gdLock = c
      /\ \A d \in GdCallers : d # c => gdCall'[d] = gdCall[d] /\ ~GdBusy(d) /\ ~GdBusy(d)' /\ gdCall[d].pc # "rename"
  BY GdOthers DEF GdInv, GdTypeOK, GdBusy
<1>2. /\ "timer" \in GdCallers /\ (gdCall'["timer"].pc = "idle" <=> gdCall["timer"].pc = "idle")
      /\ "boot" \in GdCallers /\ (gdCall'["boot"].pc = "idle" <=> gdCall["boot"].pc = "idle")
  BY <1>1 DEF GdCallers, GdBusy
<1>3. \A d \in GdCallers : d # "boot" /\ gdCall'[d].pc \notin {"idle", "done"} => gdUp.at = "up"
  BY <1>1 DEF GdInv, GdBooting, GdBusy
<1>4. GdTypeOK'
  BY <1>1 DEF GdInv, GdTypeOK
<1>5. GdLocked' /\ GdVerified'
  BY <1>1 DEF GdInv, GdLocked, GdVerified
<1>6. GdBooting' /\ GdStamped' /\ GdOnTime'
  BY <1>2, <1>3 DEF GdInv, GdSound, GdBooting, GdStamped, GdOnTime
<1> QED
  BY <1>4, <1>5, <1>6

\* The program starts or stops, and time passes.
LEMMA GdProcessInv ==
  ASSUME GdInv, GdStart \/ GdFlush \/ GdStop \/ GdTick
  PROVE  GdInv'
<1>1. /\ "timer" \in GdCallers /\ "boot" \in GdCallers /\ "timer" # "boot" /\ GdFree \notin GdCallers
      /\ "timer" \notin GdApi /\ "boot" \notin GdApi /\ GdInterval \in Nat
      /\ gdTime \in GdTimes
  BY GdAssumption DEF GdCallers, GdFree, GdInv, GdTypeOK
<1>2. CASE GdStart /\ gdDisk.file = "good"
  <2>1. /\ gdUp' = [at |-> "up", boots |-> gdUp.boots + 1, start |-> gdTime.now]
        /\ gdTime' \in GdScheduled(gdTime)
        /\ gdSince' = IF gdSince = 0 THEN gdTime.now ELSE gdSince
        /\ gdCall' = gdCall /\ gdDisk' = gdDisk /\ gdLock' = gdLock /\ gdLate' = gdLate /\ gdKeeps' = gdKeeps
    BY <1>2 DEF GdStart
  <2>2. /\ gdTime' \in GdTimes /\ gdTime'.now = gdTime.now /\ gdTime'.kept = gdTime.kept
        /\ gdTime'.stamp = gdTime.stamp \/ (gdTime.stamp = 0 /\ gdTime'.stamp = gdTime.now)
        /\ gdKeeps /\ gdTime'.read =>
              \/ gdTime.stamp = 0 /\ gdTime'.wake = gdTime.now + GdInterval
              \/ gdTime.stamp # 0 /\ gdTime.stamp + GdInterval > gdTime.now /\ gdTime'.wake = gdTime.stamp + GdInterval
              \/ gdTime.stamp # 0 /\ gdTime'.wake = gdTime.now
    BY <1>1, <2>1, GdScheduledFacts DEF GdInv
  <2>3. /\ gdSince \in Nat /\ gdSince <= gdTime.now /\ gdTime.stamp <= gdSince /\ gdTime.kept <= gdSince
        /\ gdTime.stamp = 0 => gdSince = 0
        /\ gdTime.now \in Nat \ {0} /\ gdTime.stamp \in Nat /\ gdTime.kept \in Nat
    BY <1>1, <1>2 DEF GdInv, GdTypeOK, GdStamped, GdStart, GdTimes
  <2>4. GdTypeOK'
    <3>1. gdUp' \in [at : {"off", "boot", "up"}, boots : Nat, start : Nat] /\ gdSince' \in Nat
      BY <2>1, <2>3 DEF GdInv, GdTypeOK
    <3> QED
      BY <2>1, <2>2, <3>1 DEF GdInv, GdTypeOK
  <2>5. GdLocked' /\ GdVerified' /\ GdBooting' /\ GdNeverTorn'
    BY <1>2, <2>1 DEF GdStart, GdInv, GdLocked, GdVerified, GdBooting, GdBusy, GdSound, GdNeverTorn
  <2>6. GdStamped'
    BY <2>1, <2>2, <2>3 DEF GdStamped
  <2>7. GdOnTime'
    BY <1>1, <2>1, <2>2, <2>3 DEF GdOnTime
  <2> QED
    BY <2>4, <2>5, <2>6, <2>7 DEF GdInv, GdSound
<1>3. CASE GdStart /\ gdDisk.file # "good"
  <2>1. /\ gdUp' = [at |-> "boot", boots |-> gdUp.boots + 1, start |-> gdUp.start]
        /\ gdCall' = [gdCall EXCEPT !["boot"].pc = "lock"]
        /\ gdTime' = gdTime /\ gdSince' = gdSince
        /\ gdDisk' = gdDisk /\ gdLock' = gdLock /\ gdLate' = gdLate /\ gdKeeps' = gdKeeps
    BY <1>3 DEF GdStart
  <2>2. GdTypeOK'
    <3>1. gdCall' \in [GdCallers -> GdCallStates]
      BY <1>1, <2>1 DEF GdInv, GdTypeOK, GdCallStates, GdPcs
    <3>2. gdUp' \in [at : {"off", "boot", "up"}, boots : Nat, start : Nat]
      BY <2>1 DEF GdInv, GdTypeOK
    <3> QED
      BY <2>1, <3>1, <3>2 DEF GdInv, GdTypeOK
  <2>3. ~GdBusy("boot")
    BY <1>3 DEF GdStart, GdInv, GdBooting, GdBusy
  <2>4. GdLocked' /\ GdVerified' /\ GdBooting' /\ GdNeverTorn'
    <3>1. /\ gdUp'.at = "boot" /\ gdUp.at = "off" /\ gdCall'["boot"].pc = "lock"
          /\ \A d \in GdCallers : d # "boot" => gdCall'[d] = gdCall[d]
      BY <1>1, <1>3, <2>1 DEF GdStart, GdInv, GdTypeOK, GdCallStates
    <3>2. GdBooting'
      BY <1>1, <3>1 DEF GdInv, GdBooting
    <3>3. GdLocked'
      BY <1>1, <2>1, <2>3, <3>1 DEF GdInv, GdLocked, GdBusy
    <3>4. GdVerified' /\ GdNeverTorn'
      BY <1>1, <2>1, <3>1 DEF GdInv, GdVerified, GdSound, GdNeverTorn
    <3> QED
      BY <3>2, <3>3, <3>4
  <2>5. GdStamped' /\ GdOnTime'
    <3>1. gdUp'.at = "boot" /\ gdUp.at = "off"
      BY <1>3, <2>1 DEF GdStart
    <3> QED
      BY <2>1, <3>1 DEF GdInv, GdStamped, GdOnTime
  <2> QED
    BY <2>2, <2>4, <2>5 DEF GdInv, GdSound
<1>4. CASE GdStop
  <2>1. /\ gdUp' = [gdUp EXCEPT !.at = "off"] /\ gdDisk' = gdDisk
        /\ gdLock' = GdFree /\ gdKeeps' = gdKeeps /\ gdLate' = IF gdLate = "done" THEN "done" ELSE "no"
        /\ gdCall' = [c \in GdCallers |->
                         IF c \in GdApi /\ gdCall[c].pc # "idle" THEN [pc |-> "done", body |-> "none"] ELSE GdCalls[c]]
    BY <1>4 DEF GdStop
  <2>2. PICK left \in {gdTime.stamp, gdTime.kept} :
          gdTime' = [gdTime EXCEPT !.stamp = left, !.kept = left] /\ gdSince' = IF left = 0 THEN 0 ELSE gdSince
    BY <1>4, Zenon DEF GdStop
  <2>3. /\ gdTime' \in GdTimes /\ gdTime'.now = gdTime.now /\ gdTime'.stamp = left /\ gdTime'.kept = left
        /\ left \in Nat /\ left <= gdSince /\ gdSince \in Nat /\ gdSince <= gdTime.now /\ gdTime.now \in Nat
    BY <2>2 DEF GdInv, GdTypeOK, GdStamped, GdTimes
  <2>4. gdUp'.at = "off" /\ gdUp' \in [at : {"off", "boot", "up"}, boots : Nat, start : Nat]
    BY <2>1 DEF GdInv, GdTypeOK
  <2>5. /\ gdCall' \in [GdCallers -> GdCallStates] /\ gdCall'["timer"].pc = "idle" /\ gdCall'["boot"].pc = "idle"
        /\ \A c \in GdCallers : ~GdBusy(c)' /\ gdCall'[c].pc \in {"idle", "done"}
    BY <1>1, <2>1 DEF GdCalls, GdCallStates, GdPcs, GdFiles, GdBusy
  <2>6. GdTypeOK'
    BY <2>1, <2>5, <2>2, <2>3, <2>4 DEF GdInv, GdTypeOK
  <2>7. GdLocked' /\ GdVerified' /\ GdBooting' /\ GdNeverTorn'
    BY <1>1, <2>1, <2>5 DEF GdInv, GdLocked, GdVerified, GdBooting, GdSound, GdNeverTorn
  <2>8. GdStamped' /\ GdOnTime'
    BY <2>2, <2>3, <2>4 DEF GdStamped, GdOnTime
  <2> QED
    BY <2>6, <2>7, <2>8 DEF GdInv, GdSound
<1>5. CASE GdTick
  <2>1. /\ gdTime' = [gdTime EXCEPT !.now = @ + 1] /\ gdUp' = gdUp /\ gdCall' = gdCall /\ gdSince' = gdSince
        /\ gdDisk' = gdDisk /\ gdLock' = gdLock /\ gdLate' = gdLate /\ gdKeeps' = gdKeeps
    BY <1>5 DEF GdTick
  <2>2. GdTypeOK'
    BY <1>1, <2>1 DEF GdInv, GdTypeOK, GdTimes
  <2>3. GdLocked' /\ GdVerified' /\ GdBooting' /\ GdNeverTorn'
    BY <2>1 DEF GdInv, GdLocked, GdVerified, GdBooting, GdBusy, GdSound, GdNeverTorn
  <2>4. GdStamped' /\ GdOnTime'
    BY <1>1, <2>1 DEF GdInv, GdTypeOK, GdTimes, GdStamped, GdSound, GdOnTime
  <2> QED
    BY <2>2, <2>3, <2>4 DEF GdInv, GdSound
<1>6. CASE GdFlush
  <2>1. /\ gdTime' = [gdTime EXCEPT !.kept = gdTime.stamp] /\ gdUp' = gdUp /\ gdCall' = gdCall /\ gdSince' = gdSince
        /\ gdDisk' = gdDisk /\ gdLock' = gdLock /\ gdLate' = gdLate /\ gdKeeps' = gdKeeps
    BY <1>6 DEF GdFlush
  <2>2. /\ gdTime' \in GdTimes /\ gdTime'.now = gdTime.now /\ gdTime'.wake = gdTime.wake
        /\ gdTime'.stamp = gdTime.stamp /\ gdTime'.kept = gdTime.stamp /\ gdTime'.read = gdTime.read
    BY <1>1, <2>1 DEF GdTimes
  <2>3. GdTypeOK'
    BY <2>1, <2>2 DEF GdInv, GdTypeOK
  <2>4. GdLocked' /\ GdVerified' /\ GdBooting' /\ GdNeverTorn'
    BY <2>1 DEF GdInv, GdLocked, GdVerified, GdBooting, GdBusy, GdSound, GdNeverTorn
  <2>5. GdStamped' /\ GdOnTime'
    BY <2>1, <2>2 DEF GdInv, GdStamped, GdSound, GdOnTime
  <2> QED
    BY <2>3, <2>4, <2>5 DEF GdInv, GdSound
<1> QED
  BY <1>2, <1>3, <1>4, <1>5, <1>6

\* A call arrives or gets the lock.
LEMMA GdCallInv ==
  ASSUME GdInv, NEW c \in GdCallers, GdBegin(c) \/ GdLock(c)
  PROVE  GdInv'
<1> DEFINE pc == IF gdCall[c].pc = "idle" THEN "lock" ELSE "get"
<1>1. /\ gdCall' = [gdCall EXCEPT ![c].pc = pc] /\ ~GdBusy(c)
      /\ gdDisk' = gdDisk /\ gdLate' = gdLate /\ gdUp' = gdUp /\ gdTime' = gdTime /\ gdKeeps' = gdKeeps
  BY DEF GdBegin, GdLock, GdBusy
<1>2. /\ gdCall' \in [GdCallers -> GdCallStates] /\ gdCall'[c].pc = pc /\ gdCall'[c].pc # "rename"
      /\ \A d \in GdCallers : d # c => gdCall'[d] = gdCall[d]
  BY <1>1 DEF GdInv, GdTypeOK, GdCallStates, GdPcs
<1>3. "timer" \in GdCallers /\ "boot" \in GdCallers /\ GdFree \notin GdCallers /\ "boot" \notin GdApi /\ "boot" # "timer"
  BY GdAssumption DEF GdCallers, GdFree
<1>4. GdLocked'
  BY <1>1, <1>2, <1>3 DEF GdInv, GdLocked, GdBusy, GdBegin, GdLock
<1>5. GdVerified' /\ GdNeverTorn'
  BY <1>1, <1>2 DEF GdInv, GdVerified, GdSound, GdNeverTorn
<1>6. GdBooting'
  <2>1. c # "boot" => gdUp.at = "up"
    BY <1>3 DEF GdInv, GdBooting, GdBegin, GdLock
  <2>2. c = "boot" => gdCall["boot"].pc = "lock"
    BY <1>3 DEF GdBegin, GdLock
  <2> QED
    BY <1>1, <1>2, <1>3, <2>1, <2>2 DEF GdInv, GdBooting
<1>7. /\ gdSince' = gdSince \/ (c = "timer" /\ gdUp.at = "up" /\ gdSince' = gdTime.now)
      /\ gdCall'["timer"].pc = "idle" => gdCall["timer"].pc = "idle" /\ gdSince' = gdSince
      /\ gdCall'["timer"].pc # "idle" => gdCall["timer"].pc # "idle" \/ (gdUp.at = "up" /\ gdSince' = gdTime.now)
  <2>1. gdSince' = gdSince \/ (c = "timer" /\ gdCall[c].pc = "idle" /\ gdUp.at = "up" /\ gdSince' = gdTime.now)
    BY DEF GdBegin, GdLock
  <2>2. CASE c = "timer"
    <3>1. gdCall[c].pc = "idle" => gdUp.at = "up" /\ gdSince' = gdTime.now
      BY <2>2, GdAssumption DEF GdBegin, GdLock
    <3> QED
      BY <1>2, <2>1, <2>2, <3>1
  <2>3. CASE c # "timer"
    BY <1>2, <1>3, <2>1, <2>3
  <2> QED
    BY <2>2, <2>3
<1>8. GdTypeOK'
  BY <1>1, <1>2, <1>7 DEF GdInv, GdTypeOK, GdTimes
<1>9. GdStamped'
  BY <1>1, <1>7 DEF GdInv, GdTypeOK, GdTimes, GdStamped
<1>10. GdOnTime'
  BY <1>1, <1>7 DEF GdInv, GdSound, GdOnTime
<1> QED
  BY <1>4, <1>5, <1>6, <1>8, <1>9, <1>10 DEF GdInv, GdSound

\* A call fails: its temporary file is removed.
LEMMA GdFailsInv ==
  ASSUME GdInv, NEW c \in GdCallers, GdBusy(c), GdFails(c), gdLate' = gdLate, gdKeeps' = gdKeeps
  PROVE  GdInv'
<1>1. gdDisk' \in [file : GdFiles, tmp : GdFiles, first : GdFiles] /\ gdDisk'.file = gdDisk.file /\ gdDisk'.first = gdDisk.first
  BY DEF GdFails, GdInv, GdTypeOK, GdFiles
<1>2. GdTypeOK' /\ GdLocked' /\ GdVerified' /\ GdBooting' /\ GdStamped' /\ GdOnTime'
  BY <1>1, GdEndInv DEF GdFails
<1>3. GdNeverTorn'
  BY <1>1 DEF GdInv, GdSound, GdNeverTorn
<1> QED
  BY <1>2, <1>3 DEF GdInv, GdSound

\* The steps of an update under the lock: only a file that was found valid takes the
\* place of the database.
LEMMA GdUpdateInv ==
  ASSUME GdInv, NEW c \in GdCallers,
         \/ \E body \in {"good", "junk"} : GdDownload(c, body)
         \/ GdWrite(c) \/ GdVerify(c) \/ GdRename(c) \/ GdLoad(c)
  PROVE  GdInv'
<1>1. GdBusy(c) /\ gdLate' = gdLate /\ gdKeeps' = gdKeeps
  BY DEF GdDownload, GdWrite, GdVerify, GdRename, GdLoad, GdBusy
<1>2. CASE GdFails(c)
  BY <1>1, <1>2, GdFailsInv
<1> DEFINE Disks == [file : GdFiles, tmp : GdFiles, first : GdFiles]
<1>3. gdDisk \in Disks /\ gdCall[c] \in GdCallStates
  BY DEF GdInv, GdTypeOK
<1>4. ASSUME NEW n \in GdCallStates, n.pc \in {"write", "verify", "rename", "load"},
             gdCall' = [gdCall EXCEPT ![c] = n], UNCHANGED <<gdReader, gdLock, gdUp, gdTime, gdSince>>,
             gdDisk' \in Disks, n.pc = "rename" => gdDisk'.tmp = "good" \/ gdLate = "done", GdNeverTorn'
      PROVE  GdInv'
  BY <1>1, <1>4, GdGoInv DEF GdInv, GdSound
<1>5. ASSUME NEW body \in {"good", "junk"}, GdDownload(c, body), ~GdFails(c)
      PROVE  GdInv'
  <2> DEFINE n == [pc |-> "write", body |-> body]
  <2>1. /\ gdCall' = [gdCall EXCEPT ![c] = n] /\ gdDisk' = [gdDisk EXCEPT !.tmp = "junk"]
        /\ UNCHANGED <<gdReader, gdLock, gdUp, gdTime, gdSince>>
    BY <1>5 DEF GdDownload
  <2>2. n \in GdCallStates /\ n.pc = "write"
    BY DEF GdCallStates, GdPcs, GdFiles
  <2>3. gdDisk' \in Disks /\ gdDisk'.file = gdDisk.file /\ gdDisk'.first = gdDisk.first
    BY <1>3, <2>1 DEF GdFiles
  <2>4. GdNeverTorn'
    BY <1>1, <2>3 DEF GdInv, GdSound, GdNeverTorn
  <2> HIDE DEF n
  <2> QED
    BY <1>4, <2>1, <2>2, <2>3, <2>4
<1>6. ASSUME NEW pc \in {"verify", "rename", "load"}, GdGo(c, pc), gdDisk' \in Disks,
             pc = "rename" => gdDisk'.tmp = "good", GdNeverTorn'
      PROVE  GdInv'
  <2> DEFINE n == [gdCall[c] EXCEPT !.pc = pc]
  <2>1. gdCall' = [gdCall EXCEPT ![c] = n] /\ UNCHANGED <<gdReader, gdLock, gdUp, gdTime, gdSince>>
    BY <1>6 DEF GdGo
  <2>2. n \in GdCallStates /\ n.pc = pc
    BY <1>3 DEF GdCallStates, GdPcs
  <2> HIDE DEF n
  <2> QED
    BY <1>4, <1>6, <2>1, <2>2
<1>7. CASE GdWrite(c) /\ ~GdFails(c)
  <2>1. gdDisk' = [gdDisk EXCEPT !.tmp = gdCall[c].body] /\ GdGo(c, "verify")
    BY <1>7 DEF GdWrite
  <2>2. gdDisk' \in Disks /\ gdDisk'.file = gdDisk.file /\ gdDisk'.first = gdDisk.first
    BY <1>3, <2>1 DEF GdCallStates
  <2>3. GdNeverTorn'
    BY <1>1, <2>2 DEF GdInv, GdSound, GdNeverTorn
  <2> QED
    BY <1>6, <2>1, <2>2, <2>3
<1>8. CASE GdVerify(c) /\ ~GdFails(c)
  <2>1. gdDisk.tmp = "good" /\ GdGo(c, "rename") /\ gdDisk' = gdDisk
    BY <1>8 DEF GdVerify
  <2>2. GdNeverTorn'
    BY <1>1, <2>1 DEF GdInv, GdSound, GdNeverTorn
  <2> QED
    BY <1>3, <1>6, <2>1, <2>2
<1>9. CASE GdRename(c) /\ ~GdFails(c)
  <2>1. gdDisk' = [gdDisk EXCEPT !.file = gdDisk.tmp, !.tmp = "none"] /\ GdGo(c, "load") /\ gdCall[c].pc = "rename"
    BY <1>9 DEF GdRename
  <2>2. gdDisk' \in Disks /\ gdDisk'.file = gdDisk.tmp
    BY <1>3, <2>1 DEF GdFiles
  <2>3. GdNeverTorn'
    BY <1>1, <2>1, <2>2 DEF GdInv, GdVerified, GdNeverTorn
  <2> QED
    BY <1>6, <2>1, <2>2, <2>3
<1>10. CASE GdLoad(c)
  <2>1. gdDisk' = gdDisk /\ \E ok \in BOOLEAN : GdEnd(c, ok)
    BY <1>10 DEF GdLoad
  <2>2. GdTypeOK' /\ GdLocked' /\ GdVerified' /\ GdBooting' /\ GdStamped' /\ GdOnTime'
    BY <1>1, <1>3, <2>1, GdEndInv
  <2>3. GdNeverTorn'
    BY <1>1, <2>1 DEF GdInv, GdSound, GdNeverTorn
  <2> QED
    BY <2>2, <2>3 DEF GdInv, GdSound
<1> QED
  BY <1>2, <1>5, <1>7, <1>8, <1>9, <1>10

\* A dropped request leaves its file operation to a thread, which does it late.
LEMMA GdLateInv ==
  ASSUME GdInv, GdLateStep \/ \E c \in GdCallers : GdDropped(c)
  PROVE  GdInv'
<1>1. CASE GdLateStep
  <2>1. /\ gdLate' = "done" /\ gdCall' = gdCall /\ gdLock' = gdLock /\ gdUp' = gdUp /\ gdTime' = gdTime
        /\ gdKeeps' = gdKeeps /\ gdSince' = gdSince
    BY <1>1 DEF GdLateStep
  <2>2. gdDisk' \in [file : GdFiles, tmp : GdFiles, first : GdFiles]
    BY <1>1 DEF GdLateStep, GdInv, GdTypeOK, GdFiles
  <2>3. GdTypeOK'
    BY <2>1, <2>2 DEF GdInv, GdTypeOK
  <2>4. GdLocked' /\ GdVerified' /\ GdBooting' /\ GdNeverTorn'
    BY <2>1 DEF GdInv, GdLocked, GdBusy, GdVerified, GdBooting, GdNeverTorn
  <2>5. GdStamped' /\ GdOnTime'
    BY <2>1 DEF GdInv, GdStamped, GdSound, GdOnTime
  <2> QED
    BY <2>3, <2>4, <2>5 DEF GdInv, GdSound
<1>2. ASSUME NEW c \in GdCallers, GdDropped(c) PROVE GdInv'
  <2>1. /\ gdCall' = [gdCall EXCEPT ![c] = [pc |-> "done", body |-> "none"]]
        /\ gdLock' = (IF gdLock = c THEN GdFree ELSE gdLock) /\ c \in GdApi
        /\ gdLate' = gdLate \/ (gdLate = "no" /\ gdLate' \in {"no", "write", "rename"})
        /\ gdDisk' = gdDisk /\ gdUp' = gdUp /\ gdTime' = gdTime /\ gdKeeps' = gdKeeps /\ gdSince' = gdSince
    BY <1>2 DEF GdDropped
  <2>2. /\ gdCall' \in [GdCallers -> GdCallStates] /\ ~GdBusy(c)' /\ gdCall'[c].pc # "rename"
        /\ \A d \in GdCallers : d # c => gdCall'[d] = gdCall[d]
        /\ gdCall'["timer"] = gdCall["timer"] /\ gdCall'["boot"] = gdCall["boot"] /\ GdFree \notin GdCallers
    BY <2>1, GdAssumption DEF GdInv, GdTypeOK, GdCallStates, GdPcs, GdFiles, GdBusy, GdCallers, GdFree
  <2>3. GdTypeOK'
    BY <2>1, <2>2 DEF GdInv, GdTypeOK
  <2>4. GdLocked'
    BY <2>1, <2>2 DEF GdInv, GdLocked, GdBusy
  <2>5. GdVerified' /\ GdBooting' /\ GdNeverTorn'
    BY <2>1, <2>2 DEF GdInv, GdVerified, GdBooting, GdSound, GdNeverTorn
  <2>6. GdStamped' /\ GdOnTime'
    BY <2>1, <2>2 DEF GdInv, GdStamped, GdSound, GdOnTime
  <2> QED
    BY <2>3, <2>4, <2>5, <2>6 DEF GdInv, GdSound
<1> QED
  BY <1>1, <1>2

\* No stop, failure or concurrent update puts an invalid file in the database's place,
\* and once a timestamp was flushed no restart puts an update off, for any interval and
\* any number of requests.
THEOREM GdSafe == GdSpec => []GdSound
<1>1. GdInit => GdInv
  BY GdInitInv
<1>2. GdInv /\ [GdNext]_gdVars => GdInv'
  <2> SUFFICES ASSUME GdInv, [GdNext]_gdVars PROVE GdInv'
    OBVIOUS
  <2>1. CASE UNCHANGED gdVars
    BY <2>1 DEF gdVars, GdInv, GdTypeOK, GdLocked, GdBusy, GdVerified, GdBooting, GdStamped, GdSound, GdNeverTorn, GdOnTime
  <2> QED
    BY <2>1, GdProcessInv, GdCallInv, GdUpdateInv, GdLateInv DEF GdNext, GdUpdate
<1>3. GdInv => GdSound
  BY DEF GdInv
<1> QED
  BY <1>1, <1>2, <1>3, PTL DEF GdSpec

-----------------------------------------------------------------------------
(* The cache database *)

RdTyped ==
    /\ rdStore \in [RdStores -> {"none", "open", "txn", "mark"}]
    /\ rdMem \in Nat /\ rdDur \in Nat /\ rdDirty \in BOOLEAN /\ rdFailed \in BOOLEAN
    /\ rdCached \in BOOLEAN /\ rdOpen \in BOOLEAN
    /\ rdJob \in [RdJobs -> {"idle", "swap", "commit", "clear", "done"}]
    /\ \A s \in RdStores : rdStore[s] = "txn" => rdTxn = s /\ rdMem < RdMaxCommits

\* A job that uses handles of the cache has the lock, so that the two never do at once.
RdLocked ==
    /\ \A j \in RdJobs : rdJob[j] \in {"swap", "commit", "clear"} => rdFlush = j
    /\ rdJob["stop"] = "done" => ~rdCached /\ ~RdHolds("flusher")

\* The file is locked exactly while a handle is left.
RdCounted == rdOpen <=> rdCached \/ RdHandles # {} \/ \E j \in RdJobs : RdHolds(j)

RdInv == RdTyped /\ RdLocked /\ RdCounted /\ RdSound

\* A store opens the database, anew if the file was unlocked.
LEMMA RdOpenInv ==
  ASSUME RdInv, NEW s \in RdStores, RdOpen(s)
  PROVE  RdInv'
<1>1. RdTyped'
  BY DEF RdInv, RdTyped, RdSound, RdTypeOK, RdHandles, RdOpen
<1>2. RdLocked'
  BY DEF RdInv, RdTyped, RdLocked, RdHolds, RdJobs, RdOpen
<1>3. RdCounted'
  BY RdAssumption DEF RdInv, RdTyped, RdLocked, RdCounted, RdSound, RdTypeOK, RdCovered, RdReleased, RdClosedIsDurable, RdHandles, RdHolds, RdJobs, RdOpen
<1>4. RdTypeOK'
  BY RdAssumption DEF RdInv, RdTyped, RdLocked, RdCounted, RdSound, RdTypeOK, RdCovered, RdReleased, RdClosedIsDurable, RdHandles, RdHolds, RdJobs, RdOpen
<1>5. RdCovered'
  BY DEF RdInv, RdTyped, RdSound, RdTypeOK, RdCovered, RdOpen
<1>6. RdReleased'
  BY DEF RdInv, RdTyped, RdLocked, RdSound, RdReleased, RdHandles, RdOpen
<1>7. RdClosedIsDurable'
  BY DEF RdInv, RdTyped, RdSound, RdTypeOK, RdClosedIsDurable, RdOpen
<1> QED
  BY <1>1, <1>2, <1>3, <1>4, <1>5, <1>6, <1>7 DEF RdInv, RdSound

\* A write takes the one transaction,
LEMMA RdBeginInv ==
  ASSUME RdInv, NEW s \in RdStores, RdBegin(s)
  PROVE  RdInv'
<1>1. RdTyped'
  BY RdAssumption DEF RdInv, RdTyped, RdBegin, rdDisk
<1>2. RdLocked'
  BY RdAssumption DEF RdInv, RdTyped, RdLocked, RdHolds, RdJobs, RdBegin, rdDisk
<1>3. RdCounted'
  BY RdAssumption DEF RdInv, RdTyped, RdCounted, RdHandles, RdHolds, RdJobs, RdBegin, rdDisk
<1>4. RdTypeOK'
  BY RdAssumption DEF RdInv, RdTyped, RdSound, RdTypeOK, RdHandles, RdBegin, rdDisk
<1>5. RdCovered'
  BY RdAssumption DEF RdInv, RdTyped, RdSound, RdTypeOK, RdCovered, RdBegin, rdDisk
<1>6. RdReleased'
  BY RdAssumption DEF RdInv, RdTyped, RdLocked, RdSound, RdReleased, RdHandles, RdBegin, rdDisk
<1>7. RdClosedIsDurable'
  BY RdAssumption DEF RdInv, RdTyped, RdSound, RdTypeOK, RdClosedIsDurable, RdBegin, rdDisk
<1> QED
  BY <1>1, <1>2, <1>3, <1>4, <1>5, <1>6, <1>7 DEF RdInv, RdSound

\* gives it up,
LEMMA RdAbortInv ==
  ASSUME RdInv, NEW s \in RdStores, RdAbort(s)
  PROVE  RdInv'
<1>1. RdTyped'
  BY DEF RdInv, RdTyped, RdAbort, rdDisk
<1>2. RdLocked'
  BY DEF RdInv, RdTyped, RdLocked, RdHolds, RdJobs, RdAbort, rdDisk
<1>3. RdCounted'
  BY DEF RdInv, RdTyped, RdCounted, RdHandles, RdHolds, RdJobs, RdAbort, rdDisk
<1>4. RdTypeOK'
  BY DEF RdInv, RdTyped, RdSound, RdTypeOK, RdHandles, RdAbort, rdDisk
<1>5. RdCovered'
  BY DEF RdInv, RdTyped, RdSound, RdTypeOK, RdCovered, RdAbort, rdDisk
<1>6. RdReleased'
  BY DEF RdInv, RdTyped, RdLocked, RdSound, RdReleased, RdHandles, RdAbort, rdDisk
<1>7. RdClosedIsDurable'
  BY DEF RdInv, RdTyped, RdSound, RdTypeOK, RdClosedIsDurable, RdAbort, rdDisk
<1> QED
  BY <1>1, <1>2, <1>3, <1>4, <1>5, <1>6, <1>7 DEF RdInv, RdSound

\* commits it, which the writer has still to mark,
LEMMA RdCommitInv ==
  ASSUME RdInv, NEW s \in RdStores, RdCommit(s)
  PROVE  RdInv'
<1>1. RdTyped'
  BY DEF RdInv, RdTyped, RdCommit, rdDisk
<1>2. RdLocked'
  BY DEF RdInv, RdTyped, RdLocked, RdHolds, RdJobs, RdCommit, rdDisk
<1>3. RdCounted'
  BY DEF RdInv, RdTyped, RdCounted, RdHandles, RdHolds, RdJobs, RdCommit, rdDisk
<1>4. RdTypeOK'
  BY RdAssumption DEF RdInv, RdTyped, RdLocked, RdCounted, RdSound, RdTypeOK, RdCovered, RdReleased, RdClosedIsDurable, RdHandles, RdHolds, RdJobs, RdCommit, rdDisk
<1>5. RdCovered'
  BY DEF RdInv, RdTyped, RdSound, RdTypeOK, RdCovered, RdCommit, rdDisk
<1>6. RdReleased'
  BY DEF RdInv, RdTyped, RdLocked, RdSound, RdReleased, RdHandles, RdCommit, rdDisk
<1>7. RdClosedIsDurable'
  BY DEF RdInv, RdTyped, RdSound, RdTypeOK, RdClosedIsDurable, RdCovered, RdCounted, RdHandles, RdHolds, RdJobs, RdCommit, rdDisk
<1> QED
  BY <1>1, <1>2, <1>3, <1>4, <1>5, <1>6, <1>7 DEF RdInv, RdSound

\* and marks it.
LEMMA RdMarkInv ==
  ASSUME RdInv, NEW s \in RdStores, RdMark(s)
  PROVE  RdInv'
<1>1. RdTyped'
  BY DEF RdInv, RdTyped, RdMark, rdDisk
<1>2. RdLocked'
  BY DEF RdInv, RdTyped, RdLocked, RdHolds, RdJobs, RdMark, rdDisk
<1>3. RdCounted'
  BY DEF RdInv, RdTyped, RdCounted, RdHandles, RdHolds, RdJobs, RdMark, rdDisk
<1>4. RdTypeOK'
  BY DEF RdInv, RdTyped, RdSound, RdTypeOK, RdHandles, RdMark, rdDisk
<1>5. RdCovered'
  BY DEF RdInv, RdTyped, RdSound, RdTypeOK, RdCovered, RdMark, rdDisk
<1>6. RdReleased'
  BY DEF RdInv, RdTyped, RdLocked, RdSound, RdReleased, RdHandles, RdMark, rdDisk
<1>7. RdClosedIsDurable'
  BY DEF RdInv, RdTyped, RdSound, RdTypeOK, RdClosedIsDurable, RdMark, rdDisk
<1> QED
  BY <1>1, <1>2, <1>3, <1>4, <1>5, <1>6, <1>7 DEF RdInv, RdSound

\* The last handle flushes what is marked: no writer and no flush is left that could cover a commit.
LEMMA RdDropStoreInv ==
  ASSUME RdInv, NEW s \in RdStores, RdDropStore(s)
  PROVE  RdInv'
<1>1. RdTyped'
  BY DEF RdInv, RdTyped, RdDropStore, RdLastDrop
<1>2. RdLocked'
  BY DEF RdInv, RdTyped, RdLocked, RdHolds, RdJobs, RdDropStore, RdLastDrop
<1>3. RdCounted'
  BY DEF RdInv, RdTyped, RdCounted, RdHandles, RdHolds, RdJobs, RdDropStore, RdLastDrop
<1>4. RdTypeOK'
  BY DEF RdInv, RdTyped, RdSound, RdTypeOK, RdHandles, RdDropStore, RdLastDrop
<1>5. RdCovered'
  BY DEF RdInv, RdTyped, RdSound, RdTypeOK, RdCovered, RdDropStore, RdLastDrop
<1>6. RdReleased'
  BY DEF RdInv, RdTyped, RdLocked, RdSound, RdReleased, RdHandles, RdCounted, RdHolds, RdJobs, RdDropStore, RdLastDrop
<1>7. RdClosedIsDurable'
  BY DEF RdInv, RdTyped, RdSound, RdTypeOK, RdClosedIsDurable, RdCovered, RdCounted, RdHandles, RdHolds, RdJobs, RdDropStore, RdLastDrop
<1> QED
  BY <1>1, <1>2, <1>3, <1>4, <1>5, <1>6, <1>7 DEF RdInv, RdSound

\* A flush takes the lock and clones the cached handles,
LEMMA RdFlushStartInv ==
  ASSUME RdInv, NEW j \in RdJobs, RdFlushStart(j)
  PROVE  RdInv'
<1>1. RdTyped'
  BY DEF RdInv, RdTyped, RdFlushStart, rdDisk
<1>2. RdLocked'
  BY DEF RdInv, RdTyped, RdLocked, RdHolds, RdJobs, RdFlushStart, rdDisk
<1>3. RdCounted'
  BY DEF RdInv, RdTyped, RdCounted, RdHandles, RdHolds, RdJobs, RdFlushStart, rdDisk
<1>4. RdTypeOK'
  BY DEF RdInv, RdTyped, RdSound, RdTypeOK, RdHandles, RdFlushStart, rdDisk
<1>5. RdCovered'
  BY DEF RdInv, RdTyped, RdSound, RdTypeOK, RdCovered, RdFlushStart, rdDisk
<1>6. RdReleased'
  BY DEF RdInv, RdTyped, RdLocked, RdSound, RdReleased, RdHandles, RdFlushStart, rdDisk
<1>7. RdClosedIsDurable'
  BY DEF RdInv, RdTyped, RdSound, RdTypeOK, RdClosedIsDurable, RdFlushStart, rdDisk
<1> QED
  BY <1>1, <1>2, <1>3, <1>4, <1>5, <1>6, <1>7 DEF RdInv, RdSound

\* takes the mark and covers with its commit what the mark covered,
LEMMA RdSwapInv ==
  ASSUME RdInv, NEW j \in RdJobs, RdSwap(j)
  PROVE  RdInv'
<1>1. RdTyped'
  BY DEF RdInv, RdTyped, RdSwap, rdDisk, RdRelease
<1>2. RdLocked'
  BY DEF RdInv, RdTyped, RdLocked, RdHolds, RdJobs, RdSwap, rdDisk, RdRelease
<1>3. RdCounted'
  BY DEF RdInv, RdTyped, RdCounted, RdHandles, RdHolds, RdJobs, RdSwap, rdDisk, RdRelease
<1>4. RdTypeOK'
  BY DEF RdInv, RdTyped, RdSound, RdTypeOK, RdHandles, RdSwap, rdDisk, RdRelease
<1>5. RdCovered'
  BY DEF RdInv, RdTyped, RdSound, RdTypeOK, RdCovered, RdSwap, rdDisk, RdRelease
<1>6. RdReleased'
  BY DEF RdInv, RdTyped, RdLocked, RdSound, RdReleased, RdHandles, RdCounted, RdHolds, RdJobs, RdSwap, rdDisk, RdRelease
<1>7. RdClosedIsDurable'
  BY DEF RdInv, RdTyped, RdSound, RdTypeOK, RdClosedIsDurable, RdCovered, RdCounted, RdHandles, RdHolds, RdJobs, RdSwap, rdDisk, RdRelease
<1> QED
  BY <1>1, <1>2, <1>3, <1>4, <1>5, <1>6, <1>7 DEF RdInv, RdSound

\* makes durable all that was committed,
LEMMA RdFlushCommitInv ==
  ASSUME RdInv, NEW j \in RdJobs, RdFlushCommit(j)
  PROVE  RdInv'
<1>1. RdTyped'
  BY DEF RdInv, RdTyped, RdFlushCommit, RdRelease
<1>2. RdLocked'
  BY DEF RdInv, RdTyped, RdLocked, RdHolds, RdJobs, RdFlushCommit, RdRelease
<1>3. RdCounted'
  BY DEF RdInv, RdTyped, RdCounted, RdHandles, RdHolds, RdJobs, RdFlushCommit, RdRelease
<1>4. RdTypeOK'
  BY DEF RdInv, RdTyped, RdSound, RdTypeOK, RdHandles, RdFlushCommit, RdRelease
<1>5. RdCovered'
  BY DEF RdInv, RdTyped, RdSound, RdTypeOK, RdCovered, RdFlushCommit, RdRelease
<1>6. RdReleased'
  BY DEF RdInv, RdTyped, RdLocked, RdSound, RdReleased, RdHandles, RdFlushCommit, RdRelease
<1>7. RdClosedIsDurable'
  BY DEF RdInv, RdTyped, RdSound, RdTypeOK, RdClosedIsDurable, RdFlushCommit, RdRelease
<1> QED
  BY <1>1, <1>2, <1>3, <1>4, <1>5, <1>6, <1>7 DEF RdInv, RdSound

\* or puts the mark back.
LEMMA RdFlushFailsInv ==
  ASSUME RdInv, NEW j \in RdJobs, RdFlushFails(j)
  PROVE  RdInv'
<1>1. RdTyped'
  BY DEF RdInv, RdTyped, RdFlushFails, RdRelease
<1>2. RdLocked'
  BY DEF RdInv, RdTyped, RdLocked, RdHolds, RdJobs, RdFlushFails, RdRelease
<1>3. RdCounted'
  BY DEF RdInv, RdTyped, RdCounted, RdHandles, RdHolds, RdJobs, RdFlushFails, RdRelease
<1>4. RdTypeOK'
  BY DEF RdInv, RdTyped, RdSound, RdTypeOK, RdHandles, RdFlushFails, RdRelease
<1>5. RdCovered'
  BY DEF RdInv, RdTyped, RdSound, RdTypeOK, RdCovered, RdFlushFails, RdRelease
<1>6. RdReleased'
  BY DEF RdInv, RdTyped, RdLocked, RdSound, RdReleased, RdHandles, RdFlushFails, RdRelease
<1>7. RdClosedIsDurable'
  BY DEF RdInv, RdTyped, RdSound, RdTypeOK, RdClosedIsDurable, RdFlushFails, RdRelease
<1> QED
  BY <1>1, <1>2, <1>3, <1>4, <1>5, <1>6, <1>7 DEF RdInv, RdSound

\* The flusher gives the lock back.
LEMMA RdFlushedInv ==
  ASSUME RdInv, RdFlushed
  PROVE  RdInv'
<1>1. RdTyped'
  BY DEF RdInv, RdTyped, RdFlushed, rdDisk
<1>2. RdLocked'
  BY DEF RdInv, RdTyped, RdLocked, RdHolds, RdJobs, RdFlushed, rdDisk
<1>3. RdCounted'
  BY DEF RdInv, RdTyped, RdCounted, RdHandles, RdHolds, RdJobs, RdFlushed, rdDisk
<1>4. RdTypeOK'
  BY DEF RdInv, RdTyped, RdSound, RdTypeOK, RdHandles, RdFlushed, rdDisk
<1>5. RdCovered'
  BY DEF RdInv, RdTyped, RdSound, RdTypeOK, RdCovered, RdFlushed, rdDisk
<1>6. RdReleased'
  BY DEF RdInv, RdTyped, RdLocked, RdSound, RdReleased, RdHandles, RdFlushed, rdDisk
<1>7. RdClosedIsDurable'
  BY DEF RdInv, RdTyped, RdSound, RdTypeOK, RdClosedIsDurable, RdFlushed, rdDisk
<1> QED
  BY <1>1, <1>2, <1>3, <1>4, <1>5, <1>6, <1>7 DEF RdInv, RdSound

\* shutdown_redb empties the cache: with the lock, so that no flush holds a handle.
LEMMA RdStoppedInv ==
  ASSUME RdInv, RdStopped
  PROVE  RdInv'
<1>1. RdTyped'
  BY DEF RdInv, RdTyped, RdStopped, RdLastDrop
<1>2. RdLocked'
  BY DEF RdInv, RdTyped, RdLocked, RdHolds, RdJobs, RdStopped, RdLastDrop
<1>3. RdCounted'
  BY DEF RdInv, RdTyped, RdCounted, RdHandles, RdHolds, RdJobs, RdStopped, RdLastDrop
<1>4. RdTypeOK'
  BY DEF RdInv, RdTyped, RdSound, RdTypeOK, RdHandles, RdStopped, RdLastDrop
<1>5. RdCovered'
  BY DEF RdInv, RdTyped, RdSound, RdTypeOK, RdCovered, RdStopped, RdLastDrop
<1>6. RdReleased'
  BY DEF RdInv, RdTyped, RdLocked, RdSound, RdReleased, RdHandles, RdCounted, RdHolds, RdJobs, RdStopped, RdLastDrop
<1>7. RdClosedIsDurable'
  BY RdAssumption DEF RdInv, RdTyped, RdLocked, RdCounted, RdSound, RdTypeOK, RdCovered, RdReleased, RdClosedIsDurable, RdHandles, RdHolds, RdJobs, RdStopped, RdLastDrop
<1> QED
  BY <1>1, <1>2, <1>3, <1>4, <1>5, <1>6, <1>7 DEF RdInv, RdSound

\* A second start finds the cache empty.
LEMMA RdAgainInv ==
  ASSUME RdInv, RdAgain
  PROVE  RdInv'
<1>1. RdTyped'
  BY DEF RdInv, RdTyped, RdAgain, rdDisk
<1>2. RdLocked'
  BY DEF RdInv, RdTyped, RdLocked, RdHolds, RdJobs, RdAgain, rdDisk
<1>3. RdCounted'
  BY DEF RdInv, RdTyped, RdCounted, RdHandles, RdHolds, RdJobs, RdAgain, rdDisk
<1>4. RdTypeOK'
  BY DEF RdInv, RdTyped, RdSound, RdTypeOK, RdHandles, RdAgain, rdDisk
<1>5. RdCovered'
  BY DEF RdInv, RdTyped, RdSound, RdTypeOK, RdCovered, RdAgain, rdDisk
<1>6. RdReleased'
  BY DEF RdInv, RdTyped, RdLocked, RdSound, RdReleased, RdHandles, RdAgain, rdDisk
<1>7. RdClosedIsDurable'
  BY DEF RdInv, RdTyped, RdSound, RdTypeOK, RdClosedIsDurable, RdAgain, rdDisk
<1> QED
  BY <1>1, <1>2, <1>3, <1>4, <1>5, <1>6, <1>7 DEF RdInv, RdSound

\* After a crash the database is what was durable.
LEMMA RdCrashInv ==
  ASSUME RdInv, RdCrash
  PROVE  RdInv'
<1>1. RdTyped'
  BY DEF RdInv, RdTyped, RdCrash
<1>2. RdLocked'
  BY DEF RdInv, RdTyped, RdLocked, RdHolds, RdJobs, RdCrash
<1>3. RdCounted'
  BY DEF RdInv, RdTyped, RdCounted, RdHandles, RdHolds, RdJobs, RdCrash
<1>4. RdTypeOK'
  BY RdAssumption DEF RdInv, RdTyped, RdLocked, RdCounted, RdSound, RdTypeOK, RdCovered, RdReleased, RdClosedIsDurable, RdHandles, RdHolds, RdJobs, RdCrash
<1>5. RdCovered'
  BY DEF RdInv, RdTyped, RdSound, RdTypeOK, RdCovered, RdCrash
<1>6. RdReleased'
  BY DEF RdInv, RdTyped, RdLocked, RdSound, RdReleased, RdHandles, RdCrash
<1>7. RdClosedIsDurable'
  BY DEF RdInv, RdTyped, RdSound, RdTypeOK, RdClosedIsDurable, RdCrash
<1> QED
  BY <1>1, <1>2, <1>3, <1>4, <1>5, <1>6, <1>7 DEF RdInv, RdSound

\* No commit is forgotten and the file is released, for any number of stores, writes,
\* starts and crashes (commit_cache_write and SharedDb::flush, which share no lock;
\* shutdown_redb against the flusher; Drop of SharedDb).
THEOREM RdSafe == RdInit /\ [][RdNext]_rdVars => []RdSound
<1>1. RdInit => RdInv
  <2> SUFFICES ASSUME RdInit PROVE RdInv
    OBVIOUS
  <2>1. RdTyped
    BY DEF RdInit, RdTyped
  <2>2. RdHandles = {} /\ (\A j \in RdJobs : ~RdHolds(j)) /\ RdLocked
    BY DEF RdInit, RdHandles, RdHolds, RdLocked, RdJobs
  <2>3. RdCounted
    BY <2>2 DEF RdInit, RdCounted
  <2>4. RdSound
    BY <2>2, RdAssumption DEF RdInit, RdSound, RdTypeOK, RdCovered, RdReleased, RdClosedIsDurable
  <2> QED
    BY <2>1, <2>2, <2>3, <2>4 DEF RdInv
<1>2. RdInv /\ [RdNext]_rdVars => RdInv'
  <2> SUFFICES ASSUME RdInv, [RdNext]_rdVars PROVE RdInv'
    OBVIOUS
  <2>1. "flusher" \in RdJobs /\ "stop" \in RdJobs
    BY DEF RdJobs
  <2>2. ASSUME NEW s \in RdStores, RdOpen(s) \/ RdBegin(s) \/ RdWrite(s) \/ RdDropStore(s) PROVE RdInv'
    BY <2>2, RdOpenInv, RdBeginInv, RdAbortInv, RdCommitInv, RdMarkInv, RdDropStoreInv DEF RdWrite
  <2>3. ASSUME NEW j \in RdJobs, RdFlushStart(j) \/ RdSwap(j) \/ RdFlushCommit(j) \/ RdFlushFails(j) PROVE RdInv'
    BY <2>3, RdFlushStartInv, RdSwapInv, RdFlushCommitInv, RdFlushFailsInv
  <2>4. CASE RdFlushed \/ RdStopped \/ RdAgain \/ RdCrash
    BY <2>4, RdFlushedInv, RdStoppedInv, RdAgainInv, RdCrashInv
  <2>5. CASE UNCHANGED rdVars
    BY <2>5 DEF rdVars, RdInv, RdTyped, RdLocked, RdCounted, RdSound, RdTypeOK, RdCovered, RdReleased,
       RdClosedIsDurable, RdHandles, RdHolds
  <2> QED
    BY <2>1, <2>2, <2>3, <2>4, <2>5 DEF RdNext, RdFlusher, RdStop
<1>3. RdInv => RdSound
  BY DEF RdInv
<1> QED
  BY <1>1, <1>2, <1>3, PTL
=============================================================================
