------------------------- MODULE ShadowQuicInbound --------------------------
(***************************************************************************)
(* The connections of a ShadowQUIC inbound without JLS, on top of the user *)
(* management: a connection is registered under its remote address, logs   *)
(* in on its first stream, is served, and is closed when its user is       *)
(* removed.                                                                *)
(***************************************************************************)
EXTENDS Users

CONSTANTS
    SiTag,    \* this inbound
    SiConns,  \* connections, each accepted once
    SiAddr    \* connection |-> remote address

ASSUME SiAssumption == SiTag \in UsInbounds /\ DOMAIN SiAddr = SiConns

VARIABLES
    siConn,  \* the handler of each connection
    siMap,   \* conns: address |-> connection and user
    siCut    \* per request: the user whose connections it has still to close

siVars == <<siConn, siMap, siCut>>

SiAddrs == {SiAddr[c] : c \in SiConns}
SiNobody == [conn |-> "none", user |-> "none"]

SiInit ==
    /\ siConn = [c \in SiConns |->
                   [pc |-> "new", name |-> "none", pw |-> "none", known |-> FALSE, late |-> FALSE]]
    /\ siMap = [x \in SiAddrs |-> SiNobody]
    /\ siCut = [a \in UsAdmins |-> "none"]

\* listen: a connection of someone who has a name and a password is accepted and
\* registered.
SiAccept(c, n, p) ==
    /\ siConn[c].pc = "new"
    /\ siConn' = [siConn EXCEPT ![c] = [pc |-> "auth", name |-> n, pw |-> p, known |-> FALSE,
                                        late |-> n \in usGone]]
    /\ siMap' = [siMap EXCEPT ![SiAddr[c]] = [conn |-> c, user |-> "none"]]
    /\ UNCHANGED siCut

SiHas(f, c) == siConn[c].name \in DOMAIN f /\ f[siConn[c].name] = siConn[c].pw

\* Observer::authenticate wants the credential and the user's counters.
SiAuthenticate(c) == SiHas(usCreds[SiTag], c) /\ siConn[c].name \in usStats

\* The inbound's own list is asked too.
SiLocalOk(c) == SiHas(usList[SiTag], c)

\* The handler ends: it removes what is registered under its address.
SiClose(c) ==
    /\ siConn' = [siConn EXCEPT ![c].pc = "closed"]
    /\ siMap' = [siMap EXCEPT ![SiAddr[c]] = SiNobody]

\* The first stream carries the credential; both registries are asked.
SiLogin(c) ==
    /\ siConn[c].pc = "auth"
    /\ IF SiAuthenticate(c) \/ SiLocalOk(c)
       THEN /\ siConn' = [siConn EXCEPT ![c].pc = "record", ![c].known = SiAuthenticate(c)]
            /\ UNCHANGED siMap
       ELSE SiClose(c)
    /\ UNCHANGED siCut

\* The entry found under the address is given the user's name.
SiRecord(c) ==
    /\ siConn[c].pc = "record"
    /\ siConn' = [siConn EXCEPT ![c].pc = "open"]
    /\ LET x == SiAddr[c] IN
       siMap' = IF siMap[x] = SiNobody THEN siMap
                ELSE [siMap EXCEPT ![x].user = IF siConn[c].known THEN siConn[c].name ELSE "none"]
    /\ UNCHANGED siCut

\* A later stream starts the UDP services once and is dispatched as the user.
SiServe(c) ==
    /\ siConn[c].pc = "open"
    /\ siConn' = [siConn EXCEPT ![c].pc = "served"]
    /\ UNCHANGED <<siMap, siCut>>

SiEnd(c) ==
    /\ siConn[c].pc \in {"auth", "open", "served"}
    /\ SiClose(c)
    /\ UNCHANGED siCut

\* remove_user of this inbound stores its list, then closes the user's
\* connections, each found under its address.
SiStore(a) ==
    /\ UsStore(a)
    /\ siCut' = [siCut EXCEPT ![a] =
                   IF usOp[a].do = "remove" /\ usOp[a].at = SiTag THEN usOp[a].name ELSE "none"]
    /\ UNCHANGED <<siConn, siMap>>

SiCutUser(a) ==
    /\ siCut[a] # "none"
    /\ LET cut == {x \in SiAddrs : siMap[x].user = siCut[a]} IN
       /\ siConn' = [c \in SiConns |-> IF \E x \in cut : siMap[x].conn = c
                                       THEN [siConn[c] EXCEPT !.pc = "closed"] ELSE siConn[c]]
       /\ siMap' = [x \in SiAddrs |-> IF x \in cut THEN SiNobody ELSE siMap[x]]
    /\ siCut' = [siCut EXCEPT ![a] = "none"]
    /\ UNCHANGED usVars

\* What a restart leaves of a connection.
SiEnded(c) == [siConn[c] EXCEPT !.pc = "closed", !.late = FALSE]

\* A user that is added again is no longer gone (history).
SiStillLate == siConn' = [c \in SiConns |-> [siConn[c] EXCEPT !.late = @ /\ siConn[c].name \in usGone']]

\* The other steps of the users leave the connections alone; a restart ends them.
SiUsers ==
    \/ (\E a \in UsAdmins : siCut[a] = "none" /\ UsRequest(a)) /\ SiStillLate /\ UNCHANGED <<siMap, siCut>>
    \/ UsSaver /\ UNCHANGED siVars
    \/ /\ UsRestart
       /\ siConn' = [c \in SiConns |-> IF siConn[c].pc = "new" THEN siConn[c] ELSE SiEnded(c)]
       /\ siMap' = [x \in SiAddrs |-> SiNobody]
       /\ siCut' = [a \in UsAdmins |-> "none"]

SiNext ==
    \/ SiUsers
    \/ \E a \in UsAdmins : SiStore(a) \/ SiCutUser(a)
    \/ /\ \E c \in SiConns :
            \/ \E n \in UsNames, p \in UsPasswords : SiAccept(c, n, p)
            \/ SiLogin(c) \/ SiRecord(c) \/ SiServe(c) \/ SiEnd(c)
       /\ UNCHANGED usVars

SiSpec == UsInit /\ SiInit /\ [][SiNext]_<<usVars, siVars>>

-----------------------------------------------------------------------------
(* Properties *)

SiLoggedIn(c) == siConn[c].pc \in {"record", "open", "served"}

\* Whoever connects after the removal of the user was answered does not get in,
\* with any password, although two registries are asked and a list that has become
\* empty must not open the inbound to everyone.
SiRefusesGone ==
    \A c \in SiConns :
        siConn[c].late /\ siConn[c].name \notin DOMAIN UsConfig \cup usRaced => ~SiLoggedIn(c)

\* The registry, the inbounds and the disk tell the same users, and a removed one
\* stays out: for the API's changes, the periodic save, restarts and logins together.
SiUsersSound == UsAgree /\ UsStaysOut /\ SiRefusesGone
=============================================================================
