---------------------------- MODULE KeyedNotify ----------------------------
(***************************************************************************)
(* KeyedNotify::wait_until and notify for one key (keys do not interact).  *)
(* A setter makes the condition true and then notifies; waiters fetch the  *)
(* key's notifier, register with it, check the condition and sleep.  A     *)
(* waiter that returns or times out removes the notifier of its key, too.  *)
(*                                                                         *)
(* notifier.notified() receives every notify_waiters() after its creation  *)
(* (tokio::sync::Notify); remove() takes the entry out of the map and only *)
(* then calls notify_waiters().                                            *)
(***************************************************************************)
EXTENDS Naturals, FiniteSets

CONSTANTS
    Waiters,   \* calls of wait_until on the key
    Setter     \* the task that makes the condition true, then notifies

ASSUME NotifyAssumption == Setter \notin Waiters

VARIABLES
    notifiers,  \* the key's notifier in the map, 0 without one
    created,    \* notifiers created so far; each is named by its number
    condition,  \* what condition() returns
    knPc,         \* where each task is
    notifier,   \* the notifier a task holds
    notified    \* waiters whose registration has been signalled

knVars == <<notifiers, created, condition, knPc, notifier, notified>>

KnInit ==
    /\ notifiers = 0 /\ created = 0
    /\ condition = FALSE
    /\ knPc = [t \in Waiters \cup {Setter} |-> IF t = Setter THEN "set" ELSE "get"]
    /\ notifier = [t \in Waiters \cup {Setter} |-> 0]
    /\ notified = {}

\* The key's notifier, made on demand.
get_or_create(w) ==
    /\ knPc[w] = "get"
    /\ IF notifiers = 0
       THEN created' = created + 1 /\ notifiers' = created + 1
       ELSE UNCHANGED <<created, notifiers>>
    /\ notifier' = [notifier EXCEPT ![w] = notifiers']
    /\ knPc' = [knPc EXCEPT ![w] = "register"]
    /\ UNCHANGED <<condition, notified>>

\* notifier.notified() and enable().
Register(w) ==
    /\ knPc[w] = "register"
    /\ knPc' = [knPc EXCEPT ![w] = "check"]
    /\ notified' = notified \ {w}
    /\ UNCHANGED <<notifiers, created, condition, notifier>>

Check(w) ==
    /\ knPc[w] = "check"
    /\ knPc' = [knPc EXCEPT ![w] = IF condition THEN "remove" ELSE "await"]
    /\ UNCHANGED <<notifiers, created, condition, notifier, notified>>

\* notified.await returns and the loop starts again.
Wake(w) ==
    /\ knPc[w] = "await" /\ w \in notified
    /\ knPc' = [knPc EXCEPT ![w] = "get"]
    /\ UNCHANGED <<notifiers, created, condition, notifier, notified>>

\* The timeout polls the inner future first: a signalled waiter never times out.
\* One that does removes the key's entry as well.
Timeout(w) ==
    /\ knPc[w] = "await" /\ w \notin notified
    /\ knPc' = [knPc EXCEPT ![w] = "expired"]
    /\ UNCHANGED <<notifiers, created, condition, notifier, notified>>

Set ==
    /\ knPc[Setter] = "set"
    /\ condition' = TRUE
    /\ knPc' = [knPc EXCEPT ![Setter] = "remove"]
    /\ UNCHANGED <<notifiers, created, notifier, notified>>

\* remove(key), first half: the entry leaves the map.
RemoveKey(t) ==
    /\ knPc[t] \in {"remove", "expired"}
    /\ notifier' = [notifier EXCEPT ![t] = notifiers]
    /\ knPc' = [knPc EXCEPT ![t] = IF notifiers = 0 THEN "done" ELSE "signal"]
    /\ notifiers' = 0
    /\ UNCHANGED <<created, condition, notified>>

\* Mutant: notify_one() instead of notify_waiters().
SignalOne(t) ==
    /\ knPc[t] = "signal"
    /\ knPc' = [knPc EXCEPT ![t] = "done"]
    /\ LET registered == {w \in Waiters : /\ knPc[w] \in {"check", "await"}
                                          /\ notifier[w] = notifier[t]}
       IN IF registered = {} THEN UNCHANGED notified
          ELSE \E w \in registered : notified' = notified \cup {w}
    /\ UNCHANGED <<notifiers, created, condition, notifier>>

\* remove(key), second half: notify_waiters().
Signal(t) ==
    /\ knPc[t] = "signal"
    /\ knPc' = [knPc EXCEPT ![t] = "done"]
    /\ notified' = notified \cup {w \in Waiters : /\ knPc[w] \in {"check", "await"}
                                                  /\ notifier[w] = notifier[t]}
    /\ UNCHANGED <<notifiers, created, condition, notifier>>

Ready(w) == \/ get_or_create(w) \/ Register(w) \/ Check(w) \/ Wake(w)
            \/ RemoveKey(w) \/ Signal(w)

WaitUntil(w) == Ready(w) \/ Timeout(w)

Notify == Set \/ RemoveKey(Setter) \/ Signal(Setter)

\* Nothing is left to do once every call has returned.
KnNext == (\E w \in Waiters : WaitUntil(w)) \/ Notify

KnSpec == KnInit /\ [][KnNext]_knVars

-----------------------------------------------------------------------------
(* Properties *)

\* Once the setter has set the condition and notified, every waiter that sleeps
\* has been signalled, or is about to be: the notification was not lost between
\* its check of the condition and its await.
NoLostNotify ==
    \A w \in Waiters :
        knPc[Setter] = "done" /\ knPc[w] = "await" =>
            \/ w \in notified
            \/ \E t \in Waiters : knPc[t] = "signal" /\ notifier[t] = notifier[w]

\* The map never holds a notifier that nobody is left to remove: whoever made
\* it, a waiter that will still remove the key's entry is on its way.
NoLeakedNotifier ==
    notifiers # 0 =>
        \E w \in Waiters : knPc[w] \in {"get", "register", "check", "await", "remove", "expired"}

\* Unless some wait for the key runs into its timeout, every call returns once
\* the condition has come true: the notification, or another waiter's return,
\* wakes each of them, whatever step of wait_until it was at.
WaitersReturn ==
    [](\A w \in Waiters : knPc[w] # "expired") =>
        (condition ~> \A w \in Waiters : knPc[w] = "done")

\* Waits end and leave nothing behind.
WaitsEnd == []NoLeakedNotifier /\ WaitersReturn
=============================================================================
