-------------------------------- MODULE Users --------------------------------
(***************************************************************************)
(* User management at run time: the observer's registry, the user list of  *)
(* each inbound, the record of each user in the cache, the periodic save,  *)
(* and a restart of the process, clean or not.  A list is an immutable     *)
(* value that a change loads, copies and stores; the maps of the observer  *)
(* are concurrent ones, written one after another.                         *)
(***************************************************************************)
EXTENDS Naturals, FiniteSets, Functions

CONSTANTS
    UsNames,     \* user names
    UsPasswords, \* passwords; the API takes the empty one too
    UsInbounds,  \* inbounds that support users
    UsVmess,     \* those of them that only take names that are UUIDs
    UsUuids,     \* the names that are
    UsConfig,    \* users of the configuration: name |-> password
    UsAdmins,    \* requests of the management API that may run at once
    UsMaxOps,    \* bound: changes begun
    UsMaxSaves,  \* bound: rounds of the periodic save
    UsMaxBoots   \* bound: restarts

ASSUME UsAssumption ==
    /\ UsVmess \subseteq UsInbounds /\ UsUuids \subseteq UsNames
    /\ UsConfig = [n \in DOMAIN UsConfig |-> UsConfig[n]] /\ DOMAIN UsConfig \subseteq UsUuids
    /\ "none" \notin UsNames \cup UsInbounds
    /\ UsMaxOps \in Nat /\ UsMaxSaves \in Nat /\ UsMaxBoots \in Nat

VARIABLES
    usList,   \* per inbound: its users, name |-> password
    usCreds,  \* per inbound: Observer::user_creds
    usStats,  \* names in Observer::user_stats
    usPw,     \* Observer::user_passwords
    usDisk,   \* the cache table observe:users
    usKept,   \* what a crash leaves of it: the table at the last flush
    usOp,     \* the change each request is making
    usTick,   \* names the periodic save has still to write
    usHold,   \* the record it is writing
    usOps, usSaves, usBoots,
    usBroken, \* names of changes that failed half way (history)
    usRaced,  \* names of changes that met another one of the name or were overwritten (history)
    usGone,   \* names whose removal has returned, and no later change begun (history)
    usSafe    \* those of them that a flush has made durable (history)

usMem == <<usList, usCreds, usStats, usPw>>
usTable == <<usDisk, usKept, usTick, usHold>>
usPast == <<usOps, usSaves, usBoots, usBroken, usRaced, usGone, usSafe>>
usVars == <<usMem, usTable, usOp, usPast>>

UsNone == [n \in {} |-> n]
UsNoOp == [pc |-> "idle", do |-> "none", name |-> "none", pw |-> "none", todo |-> {}, at |-> "none",
           snap |-> UsNone]
UsNoRecord == [name |-> "none", pw |-> "none"]

\* Later entries do not replace earlier ones of the same name.
UsMerge(f, g) == [n \in DOMAIN f \cup DOMAIN g |-> IF n \in DOMAIN f THEN f[n] ELSE g[n]]
UsPut(f, n, p) == [m \in DOMAIN f \cup {n} |-> IF m = n THEN p ELSE f[m]]
UsDel(f, n) == Restrict(f, DOMAIN f \ {n})

\* credential_hash fails for names that are no UUIDs on a VMess inbound.
UsTakes(i, n) == i \in UsVmess => n \in UsUuids

\* load_persisted_users: a record without a password restores the counters only.
UsLoaded(disk) == Restrict(disk, {n \in DOMAIN disk : disk[n] # ""})

\* Observer::new and init_inbounds: the configured users, then the users that were
\* loaded with a password and that the protocol takes.
UsBoot(disk) ==
    LET had == UsLoaded(disk)
        users(i) == UsMerge(UsConfig, Restrict(had, {n \in DOMAIN had : UsTakes(i, n)}))
    IN /\ usList' = [i \in UsInbounds |-> users(i)]
       /\ usCreds' = [i \in UsInbounds |-> users(i)]
       /\ usStats' = DOMAIN disk \cup DOMAIN UsConfig
       /\ usPw' = UsMerge(UsConfig, had)

UsInit ==
    /\ usList = [i \in UsInbounds |-> UsConfig]
    /\ usCreds = [i \in UsInbounds |-> UsConfig]
    /\ usStats = DOMAIN UsConfig
    /\ usPw = UsConfig
    /\ usDisk = UsNone /\ usKept = UsNone
    /\ usOp = [a \in UsAdmins |-> UsNoOp]
    /\ usTick = {} /\ usHold = UsNoRecord /\ usOps = 0 /\ usSaves = 0 /\ usBoots = 0
    /\ usBroken = {} /\ usRaced = {} /\ usGone = {} /\ usSafe = {}

\* post_user and delete_user; an unknown user is not removed.
UsBegin(a, do, n, p) ==
    /\ usOp[a].pc = "idle" /\ usOps < UsMaxOps
    /\ do = "remove" => n \in usStats
    /\ usOp' = [usOp EXCEPT ![a] = [UsNoOp EXCEPT
                 !.pc = "apply", !.do = do, !.name = n, !.pw = p, !.todo = UsInbounds]]
    /\ usOps' = usOps + 1
    /\ usGone' = usGone \ {n} /\ usSafe' = usSafe \ {n}
    /\ usRaced' = IF \E b \in UsAdmins : usOp[b].name = n THEN usRaced \cup {n} ELSE usRaced
    /\ UNCHANGED <<usMem, usTable, usSaves, usBoots, usBroken>>

\* apply_user_change: the next inbound loads its list ...
UsLoad(a, i) ==
    /\ usOp[a].pc = "apply" /\ i \in usOp[a].todo
    /\ usOp[a].do = "add" => UsTakes(i, usOp[a].name)
    /\ usOp' = [usOp EXCEPT ![a].pc = "store", ![a].at = i, ![a].snap = usList[i]]
    /\ UNCHANGED <<usMem, usTable, usPast>>

\* The two lists differ in the name.
UsDiffer(f, g, n) ==
    \/ (n \in DOMAIN f) # (n \in DOMAIN g)
    \/ n \in DOMAIN f /\ n \in DOMAIN g /\ f[n] # g[n]

\* ... and stores it changed (add_user and remove_user of the inbound), over what
\* another request has stored since.
UsStore(a) ==
    /\ usOp[a].pc = "store"
    /\ LET o == usOp[a] IN
       /\ usList' = [usList EXCEPT ![o.at] =
                       IF o.do = "add" THEN UsPut(o.snap, o.name, o.pw) ELSE UsDel(o.snap, o.name)]
       /\ usOp' = [usOp EXCEPT ![a].todo = @ \ {o.at}, ![a].at = "none", ![a].snap = UsNone,
                               ![a].pc = IF o.todo = {o.at} THEN "commit" ELSE "apply"]
       /\ usRaced' = usRaced \cup {n \in UsNames : UsDiffer(o.snap, usList[o.at], n)}
    /\ UNCHANGED <<usCreds, usStats, usPw, usTable, usOps, usSaves, usBoots, usBroken, usGone, usSafe>>

\* An inbound that refuses the user fails the request; the inbounds before it
\* keep their change.
UsRefuse(a) ==
    /\ usOp[a].pc = "apply" /\ usOp[a].do = "add"
    /\ \E i \in usOp[a].todo : ~UsTakes(i, usOp[a].name)
    /\ usBroken' = usBroken \cup {usOp[a].name}
    /\ usOp' = [usOp EXCEPT ![a] = UsNoOp]
    /\ UNCHANGED <<usMem, usTable, usOps, usSaves, usBoots, usRaced, usGone, usSafe>>

\* save_persisted holds the user's entry of user_stats from its look-up to the end of
\* the write, so that whoever changes the entry waits.
UsHeld(n) ==
    \/ usHold.name = n
    \/ \E b \in UsAdmins : usOp[b].pc = "write" /\ usOp[b].name = n

UsStep(a, from, do, to) ==
    usOp[a].pc = from /\ usOp[a].do = do /\ usOp' = [usOp EXCEPT ![a].pc = to]

\* Observer::add_user once every inbound has the user: the credentials ...
UsSetCreds(a) ==
    /\ UsStep(a, "commit", "add", "stats")
    /\ LET n == usOp[a].name IN
       usCreds' = [i \in UsInbounds |-> IF UsTakes(i, n) THEN UsPut(usCreds[i], n, usOp[a].pw)
                                         ELSE usCreds[i]]
    /\ UNCHANGED <<usList, usStats, usPw, usTable, usPast>>

\* ... upsert_user ...
UsUpsert(a) ==
    /\ UsStep(a, "stats", "add", "words") /\ ~UsHeld(usOp[a].name)
    /\ usStats' = usStats \cup {usOp[a].name}
    /\ UNCHANGED <<usList, usCreds, usPw, usTable, usPast>>

\* ... the password ...
UsSetPassword(a) ==
    /\ UsStep(a, "words", "add", "read")
    /\ usPw' = UsPut(usPw, usOp[a].name, usOp[a].pw)
    /\ UNCHANGED <<usList, usCreds, usStats, usTable, usPast>>

\* The password a save reads, unwrap_or_default.
UsWord(n) == IF n \in DOMAIN usPw THEN usPw[n] ELSE ""

\* ... and save_persisted: it reads, unless the user has no counters any more ...
UsSaveRead(a) ==
    /\ usOp[a].pc = "read"
    /\ LET n == usOp[a].name IN
       usOp' = [usOp EXCEPT ![a] = IF n \in usStats THEN [@ EXCEPT !.pc = "write", !.pw = UsWord(n)] ELSE UsNoOp]
    /\ UNCHANGED <<usMem, usTable, usPast>>

\* ... and writes, over what was written meanwhile. A write may fail.
UsSaveWrite(a) ==
    /\ usOp[a].pc = "write"
    /\ usDisk' \in {UsPut(usDisk, usOp[a].name, usOp[a].pw), usDisk}
    /\ usOp' = [usOp EXCEPT ![a] = UsNoOp]
    /\ UNCHANGED <<usMem, usKept, usTick, usHold, usPast>>

\* Observer::remove_user once no inbound has the user: the counters, when no save
\* holds them ...
UsDropStats(a) ==
    /\ UsStep(a, "commit", "remove", "words") /\ ~UsHeld(usOp[a].name)
    /\ usStats' = usStats \ {usOp[a].name}
    /\ UNCHANGED <<usList, usCreds, usPw, usTable, usPast>>

\* ... the password ...
UsDropPassword(a) ==
    /\ UsStep(a, "words", "remove", "creds")
    /\ usPw' = UsDel(usPw, usOp[a].name)
    /\ UNCHANGED <<usList, usCreds, usStats, usTable, usPast>>

\* ... the credentials ...
UsDropCreds(a) ==
    /\ UsStep(a, "creds", "remove", "delete")
    /\ usCreds' = [i \in UsInbounds |-> UsDel(usCreds[i], usOp[a].name)]
    /\ UNCHANGED <<usList, usStats, usPw, usTable, usPast>>

\* ... and the record. The error of a delete is ignored: the user is not gone then.
UsDelete(a) ==
    /\ usOp[a].pc = "delete"
    /\ \/ usDisk' = UsDel(usDisk, usOp[a].name) /\ usGone' = usGone \cup {usOp[a].name}
       \/ UNCHANGED <<usDisk, usGone>>
    /\ usOp' = [usOp EXCEPT ![a] = UsNoOp]
    /\ UNCHANGED <<usMem, usKept, usTick, usHold, usOps, usSaves, usBoots, usBroken, usRaced, usSafe>>

\* log_statistics: persist_users takes the names, then saves one after another.
UsPersist ==
    /\ usTick = {} /\ usHold = UsNoRecord /\ usStats # {} /\ usSaves < UsMaxSaves
    /\ usTick' = usStats /\ usSaves' = usSaves + 1
    /\ UNCHANGED <<usMem, usDisk, usKept, usHold, usOp, usOps, usBoots, usBroken, usRaced, usGone, usSafe>>

\* Mutant: the record is made from the names taken, without a look at the registry.
UsReadUnguarded(n) == [name |-> n, pw |-> UsWord(n)]

\* What save_persisted finds under a name.
UsRead(n) == IF n \in usStats THEN [name |-> n, pw |-> UsWord(n)] ELSE UsNoRecord

UsPersistRead(n) ==
    /\ n \in usTick /\ usHold = UsNoRecord
    /\ usTick' = usTick \ {n} /\ usHold' = UsRead(n)
    /\ UNCHANGED <<usMem, usDisk, usKept, usOp, usPast>>

UsPersistWrite ==
    /\ usHold.name # "none"
    /\ usDisk' \in {UsPut(usDisk, usHold.name, usHold.pw), usDisk}
    /\ usHold' = UsNoRecord
    /\ UNCHANGED <<usMem, usKept, usTick, usOp, usPast>>

\* The cache commits without durability; its thread flushes now and then.
UsFlush ==
    /\ usKept # usDisk
    /\ usKept' = usDisk /\ usSafe' = usGone
    /\ UNCHANGED <<usMem, usDisk, usTick, usHold, usOp, usOps, usSaves, usBoots, usBroken, usRaced, usGone>>

\* The process is stopped, whatever it was doing, and starts again from the table the
\* stop left: all of it (a clean stop flushes) or what was flushed.
UsRestart ==
    /\ usBoots < UsMaxBoots
    /\ \/ usDisk' = usDisk /\ usGone' = usGone
       \/ usDisk' = usKept /\ usGone' = usSafe
    /\ UsBoot(usDisk')
    /\ usKept' = usDisk' /\ usSafe' = usGone'
    /\ usOp' = [a \in UsAdmins |-> UsNoOp]
    /\ usTick' = {} /\ usHold' = UsNoRecord
    /\ usBoots' = usBoots + 1
    /\ UNCHANGED <<usOps, usSaves, usBroken, usRaced>>

UsRequest(a) ==
    \/ \E n \in UsNames :
         \/ \E p \in UsPasswords : UsBegin(a, "add", n, p)
         \/ UsBegin(a, "remove", n, "none")
    \/ \E i \in UsInbounds : UsLoad(a, i)
    \/ UsRefuse(a) \/ UsSetCreds(a) \/ UsUpsert(a) \/ UsSetPassword(a) \/ UsSaveRead(a) \/ UsSaveWrite(a)
    \/ UsDropStats(a) \/ UsDropPassword(a) \/ UsDropCreds(a) \/ UsDelete(a)

UsSaver == UsPersist \/ (\E n \in UsNames : UsPersistRead(n)) \/ UsPersistWrite \/ UsFlush

-----------------------------------------------------------------------------
(* Properties *)

UsAlone(n) == n \notin usBroken \cup usRaced /\ \A a \in UsAdmins : usOp[a].name # n

\* Unless a change of the user is under way or failed, every inbound that takes
\* the user accepts exactly the password the registry has: its list, its
\* credentials and the registry agree, before and after a restart, however requests,
\* saves, restarts and crashes interleave (add_user, remove_user of the inbounds,
\* apply_user_change).  Two changes at once can undo each other, as the inbounds
\* load and store without a lock: the names this happens to are in usRaced.  A user
\* with counters and without a password, whom no inbound has, comes only from a
\* record with an empty password, at a restart.
UsAgree ==
    \A n \in {m \in UsNames : UsAlone(m)} :
        /\ n \in DOMAIN usPw => n \in usStats
        /\ n \in usStats \ DOMAIN usPw => usBoots > 0
        /\ \A i \in {j \in UsInbounds : UsTakes(j, n)} : \A f \in {usList[i], usCreds[i]} :
             /\ n \in DOMAIN f <=> n \in DOMAIN usPw
             /\ n \in DOMAIN f => f[n] = usPw[n]

\* A user whose removal was answered is not on disk, whatever the periodic save
\* was doing, and no restart brings the user back, nor a crash once the table was
\* flushed; a configured one, and one whose changes raced, excepted.
UsStaysOut ==
    \A n \in usGone \ (DOMAIN UsConfig \cup usRaced) :
        n \notin DOMAIN usDisk \cup usStats /\ (n \in usSafe => n \notin DOMAIN usKept)
=============================================================================
