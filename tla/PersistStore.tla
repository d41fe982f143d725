---------------------------- MODULE PersistStore ----------------------------
(***************************************************************************)
(* The key-value store of the management server: a concurrent map in       *)
(* memory, written whole to a file after every change by the request that  *)
(* made it.  Requests run on several threads; the process may die.         *)
(***************************************************************************)
EXTENDS Naturals, FiniteSets

CONSTANTS
    PsKeys,
    PsReqs,       \* requests, each made once
    PsMaxCrashes  \* bound: restarts of the process

ASSUME PsAssumption == PsMaxCrashes \in Nat /\ "free" \notin PsReqs

VARIABLES
    psData,   \* key |-> the changes its value holds, the last one included
    psHas,    \* keys the map has
    psReq,    \* where each request is; its key; what it has copied
    psLock,   \* who holds flush_lock
    psTmp,    \* the .tmp file, torn while it is written
    psFile,   \* the file: the keys and values it has
    psFailed, \* writes or renames that failed (history)
    psCrashes

psVars == <<psData, psHas, psReq, psLock, psTmp, psFile, psFailed, psCrashes>>
psMem == <<psData, psHas>>

PsEmpty == [torn |-> FALSE, has |-> {}, data |-> [k \in PsKeys |-> {}]]
PsTorn == [PsEmpty EXCEPT !.torn = TRUE]

PsInit ==
    /\ psData = [k \in PsKeys |-> {}] /\ psHas = {}
    /\ psReq = [r \in PsReqs |-> [pc |-> "new", key |-> "none", seen |-> {}, copy |-> PsEmpty]]
    /\ psLock = "free"
    /\ psTmp = PsEmpty /\ psFile = PsEmpty
    /\ psFailed = FALSE /\ psCrashes = 0

\* set_and_flush and delete_multi_and_flush change the map; delete_and_flush of a
\* key the map does not have answers 404 without a flush.
PsChange(r, k, set) ==
    /\ psReq[r].pc = "new"
    /\ set \/ k \in psHas
    /\ psData' = [psData EXCEPT ![k] = @ \cup {r}]
    /\ psHas' = IF set THEN psHas \cup {k} ELSE psHas \ {k}
    /\ psReq' = [psReq EXCEPT ![r].pc = "lock", ![r].key = k]
    /\ UNCHANGED <<psLock, psTmp, psFile, psFailed, psCrashes>>

\* Mutant: the map is copied before the lock is held.
PsLockLate(r) ==
    \/ /\ psReq[r].pc = "lock" /\ psReq[r].seen = {}
       /\ psReq' = [psReq EXCEPT ![r].seen = PsKeys, ![r].copy = [torn |-> FALSE, has |-> psHas, data |-> psData]]
       /\ UNCHANGED psLock
    \/ /\ psReq[r].pc = "lock" /\ psReq[r].seen = PsKeys /\ psLock = "free"
       /\ psReq' = [psReq EXCEPT ![r].pc = "copy"]
       /\ psLock' = r
    /\ UNCHANGED <<psMem, psTmp, psFile, psFailed, psCrashes>>

\* flush_to_disk: the lock first ...
PsLock(r) ==
    /\ psReq[r].pc = "lock" /\ psLock = "free"
    /\ psReq' = [psReq EXCEPT ![r].pc = "copy"]
    /\ psLock' = r
    /\ UNCHANGED <<psMem, psTmp, psFile, psFailed, psCrashes>>

\* ... then the entries, one shard of the map after another ...
PsCopy(r, k) ==
    /\ psReq[r].pc = "copy" /\ k \notin psReq[r].seen
    /\ psReq' = [psReq EXCEPT
         ![r].seen = @ \cup {k},
         ![r].copy = [torn |-> FALSE, has |-> @.has \cup (psHas \cap {k}), data |-> [@.data EXCEPT ![k] = psData[k]]]]
    /\ UNCHANGED <<psMem, psLock, psTmp, psFile, psFailed, psCrashes>>

\* ... written to a file beside it ...
PsWrite(r) ==
    /\ psReq[r].pc = "copy" /\ psReq[r].seen = PsKeys
    /\ psTmp' = PsTorn
    /\ psReq' = [psReq EXCEPT ![r].pc = "write"]
    /\ UNCHANGED <<psMem, psLock, psFile, psFailed, psCrashes>>

PsWritten(r) ==
    /\ psReq[r].pc = "write"
    /\ psTmp' = psReq[r].copy
    /\ psReq' = [psReq EXCEPT ![r].pc = "rename"]
    /\ UNCHANGED <<psMem, psLock, psFile, psFailed, psCrashes>>

\* ... that takes its name; the request is answered.
PsRename(r) ==
    /\ psReq[r].pc = "rename"
    /\ psFile' = psTmp
    /\ psReq' = [psReq EXCEPT ![r].pc = "done", ![r].copy = PsEmpty]
    /\ psLock' = "free"
    /\ UNCHANGED <<psMem, psTmp, psFailed, psCrashes>>

\* A write or a rename that fails is logged and the request answered all the same.
PsFails(r) ==
    /\ psReq[r].pc \in {"write", "rename"}
    /\ psReq' = [psReq EXCEPT ![r].pc = "done", ![r].copy = PsEmpty]
    /\ psLock' = "free"
    /\ psFailed' = TRUE
    /\ UNCHANGED <<psMem, psTmp, psFile, psCrashes>>

\* The process dies; the next one reads the file, or starts empty if it cannot
\* parse it (load_from_disk).  The requests it was serving are gone.
PsCrash ==
    /\ psCrashes < PsMaxCrashes
    /\ psCrashes' = psCrashes + 1
    /\ psData' = psFile.data /\ psHas' = psFile.has
    /\ psReq' = [r \in PsReqs |-> IF psReq[r].pc \in {"new", "done"} THEN psReq[r]
                                  ELSE [psReq[r] EXCEPT !.pc = "gone", !.copy = PsEmpty]]
    /\ psLock' = "free"
    /\ UNCHANGED <<psTmp, psFile, psFailed>>

PsNext ==
    \/ \E r \in PsReqs :
         \/ \E k \in PsKeys : PsChange(r, k, TRUE) \/ PsChange(r, k, FALSE) \/ PsCopy(r, k)
         \/ PsLock(r) \/ PsWrite(r) \/ PsWritten(r) \/ PsRename(r) \/ PsFails(r)
    \/ PsCrash

PsSpec == PsInit /\ [][PsNext]_psVars

-----------------------------------------------------------------------------
(* Properties *)

\* The file can always be parsed, also after a crash in the middle of a write
\* (the .tmp file and the rename).
PsNeverTorn == ~psFile.torn

\* A change that was answered is in the file and stays there, whatever the other
\* requests write after it: none overwrites it with an older copy of the map
\* (flush_lock before the copy).  Failed writes excepted.
PsAnsweredIsSaved ==
    ~psFailed /\ ~psFile.torn =>
        \A r \in PsReqs : psReq[r].pc = "done" => r \in psFile.data[psReq[r].key]

\* The file is whole at every moment and keeps every change that was answered.
PsSound == PsNeverTorn /\ PsAnsweredIsSaved
=============================================================================
