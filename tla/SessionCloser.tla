--------------------------- MODULE SessionCloser ----------------------------
(***************************************************************************)
(* SessionCloser (proxy/mod.rs): an atomic flag and a tokio Notify. Any    *)
(* number of tasks wait() and any number call close(); each statement is a *)
(* step of its own. Notify::notify_waiters wakes the futures registered at *)
(* that moment and leaves no permit for later ones.                        *)
(***************************************************************************)
CONSTANTS ScWaiters, ScClosers

VARIABLES
    scClosed,   \* SessionCloser::closed
    scReg,      \* Notified futures in the list of the Notify
    scWoken,    \* Notified futures that have been notified
    scWait,     \* waiter -> "idle", "enabled", "checked", "parked", "returned"
    scClose     \* closer -> "idle", "swapped" or "done"

scVars == <<scClosed, scReg, scWoken, scWait, scClose>>

ScTypeOK ==
    /\ scClosed \in BOOLEAN
    /\ scReg \in SUBSET ScWaiters /\ scWoken \in SUBSET ScWaiters
    /\ scWait \in [ScWaiters -> {"idle", "enabled", "checked", "parked", "returned"}]
    /\ scClose \in [ScClosers -> {"idle", "swapped", "done"}]

ScInit ==
    /\ scClosed = FALSE /\ scReg = {} /\ scWoken = {}
    /\ scWait = [w \in ScWaiters |-> "idle"]
    /\ scClose = [c \in ScClosers |-> "idle"]

\* Mutant: notified() without enable(), which registers only when it is awaited.
ScEnableLazy(w) ==
    /\ scWait[w] = "idle"
    /\ scWait' = [scWait EXCEPT ![w] = "enabled"]
    /\ scWoken' = scWoken \ {w}
    /\ UNCHANGED <<scClosed, scReg, scClose>>

\* wait: notified() and enable() register a fresh future, before the flag is read.
ScEnable(w) ==
    /\ scWait[w] = "idle"
    /\ scWait' = [scWait EXCEPT ![w] = "enabled"]
    /\ scReg' = scReg \cup {w} /\ scWoken' = scWoken \ {w}
    /\ UNCHANGED <<scClosed, scClose>>

\* is_closed(): return, or go on ...
ScCheck(w) ==
    /\ scWait[w] = "enabled"
    /\ scWait' = [scWait EXCEPT ![w] = IF scClosed THEN "returned" ELSE "checked"]
    /\ scReg' = IF scClosed THEN scReg \ {w} ELSE scReg
    /\ UNCHANGED <<scClosed, scWoken, scClose>>

\* ... to await the future, which registers one that is not yet in the list.
ScPark(w) ==
    /\ scWait[w] = "checked"
    /\ scWait' = [scWait EXCEPT ![w] = "parked"]
    /\ scReg' = IF w \in scWoken THEN scReg ELSE scReg \cup {w}
    /\ UNCHANGED <<scClosed, scWoken, scClose>>

\* The future is ready: round the loop again.
ScWake(w) ==
    /\ scWait[w] = "parked" /\ w \in scWoken
    /\ scWait' = [scWait EXCEPT ![w] = "idle"]
    /\ UNCHANGED <<scClosed, scReg, scWoken, scClose>>

\* close: swap the flag; only the first goes on ...
ScSwap(c) ==
    /\ scClose[c] = "idle"
    /\ scClosed' = TRUE
    /\ scClose' = [scClose EXCEPT ![c] = IF scClosed THEN "done" ELSE "swapped"]
    /\ UNCHANGED <<scReg, scWoken, scWait>>

\* ... to notify_waiters.
ScNotify(c) ==
    /\ scClose[c] = "swapped"
    /\ scWoken' = scWoken \cup scReg /\ scReg' = {}
    /\ scClose' = [scClose EXCEPT ![c] = "done"]
    /\ UNCHANGED <<scClosed, scWait>>

ScWaiter(w) == ScEnable(w) \/ ScCheck(w) \/ ScPark(w) \/ ScWake(w)
ScCloser(c) == ScSwap(c) \/ ScNotify(c)

ScNext == (\E w \in ScWaiters : ScWaiter(w)) \/ (\E c \in ScClosers : ScCloser(c))

ScSpec == ScInit /\ [][ScNext]_scVars

-----------------------------------------------------------------------------
(* Properties *)

\* No lost wake-up: a task parked in wait() after close() has been woken, or its
\* future is in the list that the closer is about to notify.
ScNoLostWakeup ==
    \A w \in ScWaiters : scClosed /\ scWait[w] = "parked" =>
        w \in scWoken \/ (w \in scReg /\ \E c \in ScClosers : scClose[c] = "swapped")

-----------------------------------------------------------------------------
(* The inductive invariant *)

\* A task between its registration and its return is in the list or has been woken;
\* close() is not begun while the flag is down; and what the property says of a parked
\* task holds from the moment it has read the flag.
ScInv ==
    /\ ScTypeOK
    /\ \A w \in ScWaiters :
          scWait[w] \in {"enabled", "checked", "parked"} => w \in scReg \/ w \in scWoken
    /\ ~scClosed => \A c \in ScClosers : scClose[c] = "idle"
    /\ \A w \in ScWaiters : scClosed /\ scWait[w] \in {"checked", "parked"} =>
          w \in scWoken \/ (w \in scReg /\ \E c \in ScClosers : scClose[c] = "swapped")
=============================================================================
