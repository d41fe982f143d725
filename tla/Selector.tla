------------------------------ MODULE Selector ------------------------------
(***************************************************************************)
(* A selector or urltest outbound with the connections that go through it. *)
(* Connections pick the selected node and, under urltest, fall back to the *)
(* next; test rounds (periodic, forced by a report of a dead outbound, or  *)
(* after a network change) and the API change the selection, which tells   *)
(* the selector's connections to close and is saved.  All of these run at  *)
(* the same time, and the selection is one atomic index.                   *)
(***************************************************************************)
EXTENDS Naturals, FiniteSets, FiniteSetsExt

CONSTANTS SlN,          \* the selector's nodes are 0 .. SlN - 1
          SlCalls,      \* connections, TCP streams or UDP sessions
          SlTolerance, SlLatencies,
          SlBudgets     \* bounds, one chosen for a behaviour: which connections are made,
                        \* how many test rounds, picks by the API, network changes

ASSUME SlAssumption ==
    /\ SlN \in Nat \ {0} /\ SlLatencies \subseteq Nat \ {0} /\ SlTolerance \in Nat
    /\ SlCalls \cap {"period", "force", "net", "api"} = {}

SlNodes == 0..(SlN - 1)
SlTesters == {"period", "force", "net"}
SlActors == SlCalls \cup SlTesters \cup {"api"}

VARIABLES
    slType,   \* "selector" (manual) or "urltest"
    slSel,    \* selected_index
    slTested, \* has_completed_test
    slCache,  \* the saved selection, SlN when nothing is saved
    slCall,   \* per connection: where it is, the index it began with, nodes refused,
              \* the node it goes through, the leaf recorded for it, told to close
    slUp,     \* per actor: the part of update_selected_by_index that is left
    slRound,  \* per tester: "idle" or "test"
    slNet,    \* the network monitor: changes queued, and whether it settles them
    slForced, \* LAST_FORCED_TEST is younger than the debounce
    slLeft    \* what the bounds leave

slVars == <<slType, slSel, slTested, slCache, slCall, slUp, slRound, slNet, slForced, slLeft>>

SlNoUpdate == [pc |-> "none", idx |-> 0, old |-> 0]

SlIdle(pc) == [pc |-> pc, from |-> 0, tried |-> {}, node |-> 0, leaf |-> 0, told |-> FALSE, old |-> FALSE]

\* default_outbound, or what an earlier run has saved, if it is still a node.
SlInit ==
    /\ slType \in {"selector", "urltest"}
    /\ slSel \in SlNodes /\ slCache \in {slSel, SlN} /\ slTested = FALSE
    /\ slCall = [c \in SlCalls |-> SlIdle("new")]
    /\ slUp = [a \in SlActors |-> SlNoUpdate]
    /\ slRound = [t \in SlTesters |-> "idle"]
    /\ slNet = [queued |-> 0, settling |-> FALSE, dirty |-> FALSE]
    /\ slForced = FALSE
    /\ slLeft \in SlBudgets

-----------------------------------------------------------------------------
(* update_selected_by_index, by any actor *)

SlWill(a, i) == slUp' = [slUp EXCEPT ![a] = [pc |-> "swap", idx |-> i, old |-> 0]]

\* The swap; the same index is no change.  The connections registered by now belong
\* to the selection that ends.
SlSwap(a) ==
    /\ slUp[a].pc = "swap"
    /\ slSel' = slUp[a].idx
    /\ IF slSel = slUp[a].idx
       THEN slUp' = [slUp EXCEPT ![a] = SlNoUpdate] /\ UNCHANGED slCall
       ELSE /\ slUp' = [slUp EXCEPT ![a].pc = "kill", ![a].old = slSel]
            /\ slCall' = [c \in SlCalls |-> [slCall[c] EXCEPT !.old = @ \/ slCall[c].pc = "open"]]
    /\ UNCHANGED <<slType, slTested, slCache, slRound, slNet, slForced, slLeft>>

\* kill_connections_by_outbound: every registered connection with the selector in its
\* recorded path.
SlKill(a) ==
    /\ slUp[a].pc = "kill"
    /\ slUp' = [slUp EXCEPT ![a].pc = "save"]
    /\ slCall' = [c \in SlCalls |-> [slCall[c] EXCEPT !.told = @ \/ slCall[c].pc = "open"]]
    /\ UNCHANGED <<slType, slSel, slTested, slCache, slRound, slNet, slForced, slLeft>>

\* The selection is saved; a failure is only logged.
SlSave(a) ==
    /\ slUp[a].pc = "save"
    /\ slUp' = [slUp EXCEPT ![a] = SlNoUpdate]
    /\ slCache' \in {slUp[a].idx, slCache}
    /\ UNCHANGED <<slType, slSel, slTested, slCall, slRound, slNet, slForced, slLeft>>

-----------------------------------------------------------------------------
(* Connections: connect_stream, connect_packet, and what dispatch does after *)

SlBegin(c) ==
    /\ slCall[c].pc = "new" /\ c \in slLeft.calls
    /\ slCall' = [slCall EXCEPT ![c].pc = "try", ![c].from = slSel, ![c].node = slSel]
    /\ UNCHANGED <<slType, slSel, slTested, slCache, slUp, slRound, slNet, slForced, slLeft>>

\* The node connects: a fallback becomes the selection.
SlConnected(c) ==
    /\ slCall[c].pc = "try"
    /\ slCall' = [slCall EXCEPT ![c].pc = "capture"]
    /\ IF slCall[c].node # slCall[c].from THEN SlWill(c, slCall[c].node) ELSE UNCHANGED slUp
    /\ UNCHANGED <<slType, slSel, slTested, slCache, slRound, slNet, slForced, slLeft>>

\* The node does not: a manual selector gives up, urltest tries the next, all around.
SlRefused(c) ==
    /\ slCall[c].pc = "try"
    /\ LET tried == slCall[c].tried \cup {slCall[c].node}
           over == slType = "selector" \/ Cardinality(tried) = SlN IN
       slCall' = [slCall EXCEPT ![c].tried = tried, ![c].pc = IF over THEN "failed" ELSE @,
                                ![c].node = IF over THEN @ ELSE (@ + 1) % SlN]
    /\ UNCHANGED <<slType, slSel, slTested, slCache, slUp, slRound, slNet, slForced, slLeft>>

\* get_active_outbound_tags, once connect_stream has returned ...
SlCapture(c) ==
    /\ slCall[c].pc = "capture" /\ slUp[c].pc = "none"
    /\ slCall' = [slCall EXCEPT ![c].pc = "register", ![c].leaf = slSel]
    /\ UNCHANGED <<slType, slSel, slTested, slCache, slUp, slRound, slNet, slForced, slLeft>>

\* ... and add_connection, with the closer.
SlRegister(c) ==
    /\ slCall[c].pc = "register"
    /\ slCall' = [slCall EXCEPT ![c].pc = "open"]
    /\ UNCHANGED <<slType, slSel, slTested, slCache, slUp, slRound, slNet, slForced, slLeft>>

\* The relay ends by itself or because it was told; the handle removes the record.
SlClose(c) ==
    /\ slCall[c].pc = "open"
    /\ slCall' = [slCall EXCEPT ![c] = SlIdle("closed")]
    /\ UNCHANGED <<slType, slSel, slTested, slCache, slUp, slRound, slNet, slForced, slLeft>>

-----------------------------------------------------------------------------
(* Test rounds and the API *)

\* The node reselect_node_by_info settles on, given the latencies of those that
\* answered within the round.
SlBest(lat) ==
    LET low == Min({lat[i] : i \in DOMAIN lat})
        first == Min({i \in DOMAIN lat : lat[i] = low}) IN
    IF slTested /\ slSel \in DOMAIN lat /\ lat[slSel] <= low + SlTolerance THEN slSel ELSE first

\* A round begins.
SlRoundOf(t) ==
    /\ slRound[t] = "idle" /\ slUp[t].pc = "none" /\ slLeft.rounds > 0
    /\ slRound' = [slRound EXCEPT ![t] = "test"]
    /\ slLeft' = [slLeft EXCEPT !.rounds = @ - 1]

SlPeriodic ==
    /\ SlRoundOf("period")
    /\ UNCHANGED <<slType, slSel, slTested, slCache, slCall, slUp, slNet, slForced>>

\* report_outbound_unhealthy, after a refused connect or when a node's maintenance finds
\* its connection dead: a round, unless one was forced a moment ago.
SlReport ==
    /\ ~slForced /\ slForced' = TRUE /\ SlRoundOf("force")
    /\ UNCHANGED <<slType, slSel, slTested, slCache, slCall, slUp, slNet>>

SlDebounced ==
    /\ slForced /\ slForced' = FALSE
    /\ UNCHANGED <<slType, slSel, slTested, slCache, slCall, slUp, slRound, slNet, slLeft>>

\* The probes are in, or the deadline aborted the rest.  Nothing reachable, or a manual
\* selector, changes nothing.
SlTestDone(t) ==
    /\ slRound[t] = "test"
    /\ slRound' = [slRound EXCEPT ![t] = "idle"]
    /\ \/ \E up \in (SUBSET SlNodes) \ {{}} : \E lat \in [up -> SlLatencies] :
            /\ slType = "urltest"
            /\ SlWill(t, SlBest(lat)) /\ slTested' = TRUE
       \/ UNCHANGED <<slUp, slTested>>
    /\ UNCHANGED <<slType, slSel, slCache, slCall, slNet, slForced, slLeft>>

SlPick(i) ==
    /\ slUp["api"].pc = "none" /\ slLeft.picks > 0
    /\ SlWill("api", i)
    /\ slLeft' = [slLeft EXCEPT !.picks = @ - 1]
    /\ UNCHANGED <<slType, slSel, slTested, slCache, slCall, slRound, slNet, slForced>>

-----------------------------------------------------------------------------
(* retest_on_network_change *)

SlChange ==
    /\ slLeft.changes > 0
    /\ slLeft' = [slLeft EXCEPT !.changes = @ - 1]
    /\ slNet' = [slNet EXCEPT !.queued = @ + 1, !.dirty = TRUE]
    /\ UNCHANGED <<slType, slSel, slTested, slCache, slCall, slUp, slRound, slForced>>

\* Mutant: the wait for quiet begins with an empty channel.
SlHearsDrains ==
    /\ slNet.queued > 0 /\ slRound["net"] = "idle" /\ slUp["net"].pc = "none"
    /\ slNet' = [slNet EXCEPT !.queued = 0, !.settling = @ \/ slNet.queued = 1]
    /\ UNCHANGED <<slType, slSel, slTested, slCache, slCall, slUp, slRound, slForced, slLeft>>

\* next_settled_change takes one change, or several it lagged behind, and waits on.
SlHears ==
    /\ slNet.queued > 0 /\ slRound["net"] = "idle" /\ slUp["net"].pc = "none"
    /\ slNet' = [slNet EXCEPT !.queued = @ - 1, !.settling = TRUE]
    /\ UNCHANGED <<slType, slSel, slTested, slCache, slCall, slUp, slRound, slForced, slLeft>>

\* Quiet for the debounce time: one round for the whole burst.
SlSettled ==
    /\ slNet.settling /\ slNet.queued = 0
    /\ slRound["net"] = "idle" /\ slUp["net"].pc = "none"
    /\ slRound' = [slRound EXCEPT !["net"] = "test"]
    /\ slNet' = [queued |-> 0, settling |-> FALSE, dirty |-> FALSE]
    /\ UNCHANGED <<slType, slSel, slTested, slCache, slCall, slUp, slForced, slLeft>>

\* What the code does by itself: updates, rounds and the monitor.
SlBackground ==
    \/ \E a \in SlActors : SlSwap(a) \/ SlKill(a) \/ SlSave(a)
    \/ \E t \in SlTesters : SlTestDone(t)
    \/ SlHears \/ SlSettled

SlNext ==
    \/ SlBackground
    \/ \E c \in SlCalls :
         \/ SlBegin(c) \/ SlConnected(c) \/ SlRefused(c) \/ SlCapture(c) \/ SlRegister(c)
         \/ SlClose(c)
    \/ SlReport \/ SlPeriodic \/ SlDebounced \/ SlChange
    \/ \E i \in SlNodes : SlPick(i)

-----------------------------------------------------------------------------
(* Properties *)

\* A switch leaves no connection of the old selection behind: one that was registered
\* when the index changed has been told to close, or the switch is about to tell it,
\* whoever else switches or connects meanwhile (update_selected_by_index).
SlOldTold ==
    \A c \in SlCalls :
        slCall[c].pc = "open" /\ slCall[c].old /\ ~slCall[c].told =>
            \E a \in SlActors : slUp[a].pc = "kill"

\* urltest fails a connection only when every node has refused it, wherever the
\* selection stood and however it moved during the call.
SlTriesAll ==
    \A c \in SlCalls : slType = "urltest" /\ slCall[c].pc = "failed" => slCall[c].tried = SlNodes

\* A network change is followed by a test round that began after it, also when it
\* comes while the monitor is testing for an earlier one.
SlRetested == slNet.dirty ~> ~slNet.dirty

\* Switching, failing over and testing of a selector, together.
SlSelects == [](SlOldTold /\ SlTriesAll) /\ SlRetested
=============================================================================
