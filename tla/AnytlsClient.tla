---------------------------- MODULE AnytlsClient ----------------------------
(***************************************************************************)
(* AnytlsClient, the session manager of an AnyTLS outbound that            *)
(* multiplexes: concurrent get_session calls share one session, which the  *)
(* interface watcher, a failing connection or the drop of the client ends. *)
(* Each locked section of the code that awaits nothing is one step.        *)
(***************************************************************************)
EXTENDS Naturals, FiniteSets

CONSTANTS
    Callers,     \* get_session calls, each made once
    MaxSessions, \* bound: sessions created
    MaxChanges   \* bound: interface changes

ASSUME ClientAssumption == MaxSessions \in Nat /\ MaxChanges \in Nat

VARIABLES
    pc,        \* where each call is
    got,       \* the session it holds or returned, 0 without one
    lock,      \* the call that holds create_session_lock
    current,   \* current_session, 0 for None
    alive,     \* sessions whose finish() has not run
    made,      \* sessions created so far; each is named by its number
    changes,   \* interface changes the watcher has handled
    stored,    \* sessions that current_session has held (history)
    client     \* "up" or "dropped"

vars == <<pc, got, lock, current, alive, made, changes, stored, client>>

NoCaller == "none"

ASSUME NoCallerAssumption == NoCaller \notin Callers

Seqs == 1 .. MaxSessions

\* The lock is held exactly while a call is between taking it and returning.
TypeOK ==
    /\ pc \in [Callers -> {"check", "lock", "recheck", "create", "store", "done", "gone"}]
    /\ got \in [Callers -> 0 .. MaxSessions]
    /\ lock \in Callers \cup {NoCaller}
    /\ \A c \in Callers : lock = c <=> pc[c] \in {"recheck", "create", "store"}
    /\ current \in 0 .. MaxSessions
    /\ alive \subseteq Seqs /\ stored \subseteq Seqs
    /\ made \in 0 .. MaxSessions
    /\ changes \in 0 .. MaxChanges
    /\ client \in {"up", "dropped"}

Init ==
    /\ pc = [c \in Callers |-> "check"]
    /\ got = [c \in Callers |-> 0]
    /\ lock = NoCaller
    /\ current = 0
    /\ alive = {} /\ stored = {}
    /\ made = 0
    /\ changes = 0
    /\ client = "up"

\* live_session: the current session if it is not dead; a dead one is let go.
LiveSession(c, found, missing) ==
    IF current \in alive
    THEN /\ got' = [got EXCEPT ![c] = current]
         /\ pc' = [pc EXCEPT ![c] = found]
         /\ UNCHANGED current
    ELSE /\ current' = 0
         /\ pc' = [pc EXCEPT ![c] = missing]
         /\ UNCHANGED got

FirstCheck(c) ==
    /\ pc[c] = "check"
    /\ LiveSession(c, "done", "lock")
    /\ UNCHANGED <<lock, alive, made, changes, stored, client>>

Lock(c) ==
    /\ pc[c] = "lock" /\ lock = NoCaller
    /\ lock' = c
    /\ pc' = [pc EXCEPT ![c] = "recheck"]
    /\ UNCHANGED <<got, current, alive, made, changes, stored, client>>

\* Mutant: the lock's holder does not look again.
SecondCheckSkipped(c) ==
    /\ pc[c] = "recheck"
    /\ pc' = [pc EXCEPT ![c] = "create"]
    /\ UNCHANGED <<got, lock, current, alive, made, changes, stored, client>>

\* The check is repeated under the lock.
SecondCheck(c) ==
    /\ pc[c] = "recheck"
    /\ LiveSession(c, "done", "create")
    /\ lock' = IF current \in alive THEN NoCaller ELSE lock
    /\ UNCHANGED <<alive, made, changes, stored, client>>

\* create_session: dialling and Session::new succeed ...
CreateSession(c) ==
    /\ pc[c] = "create" /\ made < MaxSessions
    /\ made' = made + 1
    /\ alive' = alive \cup {made + 1}
    /\ got' = [got EXCEPT ![c] = made + 1]
    /\ pc' = [pc EXCEPT ![c] = "store"]
    /\ UNCHANGED <<lock, current, changes, stored, client>>

\* ... or not; or the caller's timeout drops the call at an await, and the
\* lock with it.  A session that was made and not stored keeps its tasks.
GiveUp(c) ==
    /\ pc[c] \in {"lock", "recheck", "create", "store"}
    /\ pc' = [pc EXCEPT ![c] = "gone"]
    /\ lock' = IF lock = c THEN NoCaller ELSE lock
    /\ got' = [got EXCEPT ![c] = 0]
    /\ UNCHANGED <<current, alive, made, changes, stored, client>>

StoreSession(c) ==
    /\ pc[c] = "store"
    /\ current' = got[c]
    /\ stored' = stored \cup {got[c]}
    /\ lock' = NoCaller
    /\ pc' = [pc EXCEPT ![c] = "done"]
    /\ UNCHANGED <<got, alive, made, changes, client>>

\* A session's own tasks end it.
SessionDies ==
    /\ \E q \in alive : alive' = alive \ {q}
    /\ UNCHANGED <<pc, got, lock, current, made, changes, stored, client>>

\* Mutant: the watcher forgets the session and does not finish it.
IfaceForgets ==
    /\ client = "up" /\ changes < MaxChanges
    /\ changes' = changes + 1
    /\ current' = 0
    /\ UNCHANGED <<pc, got, lock, alive, made, stored, client>>

\* The interface watcher takes the current session and finishes it.
IfaceChanged ==
    /\ client = "up" /\ changes < MaxChanges
    /\ changes' = changes + 1
    /\ alive' = alive \ {current}
    /\ current' = 0
    /\ UNCHANGED <<pc, got, lock, made, stored, client>>

\* Mutant: the client leaves its session running.
DropKeepsSession ==
    /\ client = "up"
    /\ \A c \in Callers : pc[c] \in {"done", "gone"}
    /\ client' = "dropped"
    /\ UNCHANGED <<pc, got, lock, current, alive, made, changes, stored>>

\* Drop for AnytlsOutbound and AnytlsClient; no call is left, since each
\* borrows the outbound.
DropClient ==
    /\ client = "up"
    /\ \A c \in Callers : pc[c] \in {"done", "gone"}
    /\ client' = "dropped"
    /\ alive' = alive \ {current}
    /\ UNCHANGED <<pc, got, lock, current, made, changes, stored>>

GetSession(c) == \/ FirstCheck(c) \/ Lock(c) \/ SecondCheck(c) \/ CreateSession(c)
                 \/ GiveUp(c) \/ StoreSession(c)

Next ==
    \/ \E c \in Callers : GetSession(c)
    \/ SessionDies
    \/ IfaceChanged
    \/ DropClient

Spec == Init /\ [][Next]_vars

-----------------------------------------------------------------------------
(* Properties *)

\* A burst of calls shares one session: of the sessions that are alive, at most
\* one is current, being stored or was handed out; those made and given up
\* before they were stored are nobody's.
OneSession ==
    \A p, q \in alive \cap (stored \cup {got[c] : c \in Callers}) : p = q

\* A session stored before an interface change that the watcher has handled is
\* finished: no later call is given it.
ChangeEndsStored ==
    [][changes' > changes => stored \cap alive' = {}]_vars

\* A dropped client leaves no session behind that it handed out.
DropEndsStored == client = "dropped" => stored \cap alive = {}
=============================================================================
