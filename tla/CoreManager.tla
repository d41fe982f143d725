----------------------------- MODULE CoreManager -----------------------------
(***************************************************************************)
(* The management server's core process: set_config, start, stop and       *)
(* restart, as requests that run at the same time and may be cancelled at  *)
(* any await, and the child processes they make.                           *)
(***************************************************************************)
EXTENDS Naturals, FiniteSets

CONSTANTS
    CmReqs,     \* requests that may run at once
    CmPorts,    \* ports the configurations name
    CmMaxOps,   \* bound: requests made
    CmMaxCores  \* bound: processes spawned

ASSUME CmAssumption == CmMaxOps \in Nat /\ CmMaxCores \in Nat /\ "none" \notin CmPorts

VARIABLES
    cmPort,   \* config_api_port, where stop sends the quit
    cmJson,   \* config_json: the port it names, or "none"
    cmFile,   \* config.json in the work directory
    cmProc,   \* the process slot: a child or 0
    cmCore,   \* child |-> [st, port, asked]
    cmReq,    \* request |-> what it does, where it is, the child it holds
    cmOps     \* requests made

cmVars == <<cmPort, cmJson, cmFile, cmProc, cmCore, cmReq, cmOps>>
cmConf == <<cmPort, cmJson>>

CmIds == 1..CmMaxCores
CmSpawned == DOMAIN cmCore
CmAlive(c) == cmCore[c].st \in {"boot", "live"}
CmIdle == [do |-> "none", pc |-> "idle", child |-> 0, port |-> "none"]

CmInit ==
    /\ cmPort = "default" /\ cmJson = "none" /\ cmFile = "none"
    /\ cmProc = 0
    /\ cmCore = [c \in {} |-> [st |-> "dead", port |-> "none", asked |-> FALSE]]
    /\ cmReq = [r \in CmReqs |-> CmIdle]
    /\ cmOps = 0

\* A request of the API; set_config has parsed its JSON.
CmBegin(r, do, p) ==
    /\ cmReq[r].pc = "idle" /\ cmOps < CmMaxOps
    /\ cmReq' = [cmReq EXCEPT ![r] = [do |-> do, child |-> 0, port |-> p,
                   pc |-> CASE do = "set" -> "port" [] do = "start" -> "check" [] OTHER -> "take"]]
    /\ cmOps' = cmOps + 1
    /\ UNCHANGED <<cmConf, cmFile, cmProc, cmCore>>

\* set_config: the port is taken over at once, the running core keeps its own ...
CmSetPort(r) ==
    /\ cmReq[r].pc = "port"
    /\ cmPort' = cmReq[r].port
    /\ cmReq' = [cmReq EXCEPT ![r].pc = "json"]
    /\ UNCHANGED <<cmJson, cmFile, cmProc, cmCore, cmOps>>

\* ... then the text.
CmSetJson(r) ==
    /\ cmReq[r].pc = "json"
    /\ cmJson' = cmReq[r].port
    /\ cmReq' = [cmReq EXCEPT ![r] = CmIdle]
    /\ UNCHANGED <<cmPort, cmFile, cmProc, cmCore, cmOps>>

\* start: is_running looks at the slot only.
CmCheck(r) ==
    /\ cmReq[r].pc = "check"
    /\ cmReq' = [cmReq EXCEPT ![r].pc = IF cmProc = 0 THEN "spawn" ELSE "take"]
    /\ UNCHANGED <<cmConf, cmFile, cmProc, cmCore, cmOps>>

\* What follows a stop: nothing, or the rest of start and restart.
CmAfterStop(req) == IF req.do = "stop" THEN CmIdle ELSE
                    [req EXCEPT !.pc = IF req.do = "restart" THEN "recheck" ELSE "spawn", !.child = 0]

\* restart calls start, which checks the slot again.
CmRecheck(r) ==
    /\ cmReq[r].pc = "recheck"
    /\ cmReq' = [cmReq EXCEPT ![r].do = "start", ![r].pc = "check"]
    /\ UNCHANGED <<cmConf, cmFile, cmProc, cmCore, cmOps>>

\* stop takes the child out of the slot; one that has exited needs no more.
CmTake(r) ==
    /\ cmReq[r].pc = "take"
    /\ cmProc' = 0
    /\ IF cmProc = 0 \/ ~CmAlive(cmProc)
       THEN cmReq' = [cmReq EXCEPT ![r] = CmAfterStop(@)]
       ELSE cmReq' = [cmReq EXCEPT ![r].pc = "quit", ![r].child = cmProc]
    /\ UNCHANGED <<cmConf, cmFile, cmCore, cmOps>>

\* The quit goes to whatever core listens on config_api_port; with an answer stop
\* waits three seconds, in which the core may exit.
CmQuit(r) ==
    /\ cmReq[r].pc = "quit"
    /\ cmCore' = [c \in CmSpawned |->
                    IF cmCore[c].st = "live" /\ cmCore[c].port = cmPort
                    THEN [cmCore[c] EXCEPT !.asked = TRUE] ELSE cmCore[c]]
    /\ cmReq' = [cmReq EXCEPT ![r].pc = "kill"]
    /\ UNCHANGED <<cmConf, cmFile, cmProc, cmOps>>

\* A core that is still there is killed.
CmKill(r) ==
    /\ cmReq[r].pc = "kill"
    /\ cmCore' = [cmCore EXCEPT ![cmReq[r].child].st = "dead"]
    /\ cmReq' = [cmReq EXCEPT ![r] = CmAfterStop(@)]
    /\ UNCHANGED <<cmConf, cmFile, cmProc, cmOps>>

\* start without a configuration fails.
CmNoConfig(r) ==
    /\ cmReq[r].pc = "spawn" /\ cmJson = "none"
    /\ cmReq' = [cmReq EXCEPT ![r] = CmIdle]
    /\ UNCHANGED <<cmConf, cmFile, cmProc, cmCore, cmOps>>

\* The file is written and the child spawned; the write fails, which may leave an empty
\* file, or the spawn ...
CmSpawn(r) ==
    /\ cmReq[r].pc = "spawn" /\ cmJson # "none"
    /\ \/ /\ Cardinality(CmSpawned) < CmMaxCores
          /\ cmFile' = cmJson
          /\ LET c == Cardinality(CmSpawned) + 1 IN
             /\ cmCore' = [d \in CmSpawned \cup {c} |->
                  IF d = c THEN [st |-> "boot", port |-> "none", asked |-> FALSE] ELSE cmCore[d]]
             /\ cmReq' = [cmReq EXCEPT ![r].pc = "keep", ![r].child = c]
       \/ /\ cmFile' \in {cmJson, cmFile, "none"}
          /\ cmReq' = [cmReq EXCEPT ![r] = CmIdle] /\ UNCHANGED cmCore
    /\ UNCHANGED <<cmConf, cmProc, cmOps>>

\* Mutant: kill_on_drop(false).
CmDropLeaks(cs) == cmCore

\* A child whose handle is dropped is killed (kill_on_drop).
CmDrop(cs) == [c \in CmSpawned |-> IF c \in cs THEN [cmCore[c] EXCEPT !.st = "dead"] ELSE cmCore[c]]

\* ... and kept in the slot; what another start kept there is dropped.
CmKeep(r) ==
    /\ cmReq[r].pc = "keep"
    /\ cmProc' = cmReq[r].child
    /\ cmCore' = CmDrop({cmProc})
    /\ cmReq' = [cmReq EXCEPT ![r] = CmIdle]
    /\ UNCHANGED <<cmConf, cmFile, cmOps>>

\* The client goes away and the server drops the handler at an await, with the
\* child it holds.
CmCancel(r) ==
    /\ cmReq[r].pc \in {"port", "json", "take", "quit", "kill", "spawn", "keep"}
    /\ cmCore' = CmDrop({cmReq[r].child})
    /\ cmReq' = [cmReq EXCEPT ![r] = CmIdle]
    /\ UNCHANGED <<cmConf, cmFile, cmProc, cmOps>>

\* The core reads the file as it is then, and listens; it exits when it cannot load it.
CmBoot(c) ==
    /\ c \in CmSpawned /\ cmCore[c].st = "boot" /\ cmFile # "none"
    /\ cmCore' = [cmCore EXCEPT ![c].st = "live", ![c].port = cmFile]
    /\ UNCHANGED <<cmConf, cmFile, cmProc, cmReq, cmOps>>

\* It exits, because it was asked to or by itself.
CmExit(c) ==
    /\ c \in CmSpawned /\ CmAlive(c)
    /\ cmCore' = [cmCore EXCEPT ![c].st = "dead"]
    /\ UNCHANGED <<cmConf, cmFile, cmProc, cmReq, cmOps>>

CmStep(r) ==
    \/ CmSetPort(r) \/ CmSetJson(r) \/ CmCheck(r) \/ CmRecheck(r) \/ CmTake(r) \/ CmQuit(r)
    \/ CmKill(r) \/ CmNoConfig(r) \/ CmSpawn(r) \/ CmKeep(r)

CmNext ==
    \/ \E r \in CmReqs :
         \/ \E p \in CmPorts : CmBegin(r, "set", p)
         \/ \E do \in {"start", "stop", "restart"} : CmBegin(r, do, "none")
         \/ CmStep(r) \/ CmCancel(r)
    \/ \E c \in CmIds : CmBoot(c) \/ CmExit(c)

CmSpec == CmInit /\ [][CmNext]_cmVars

-----------------------------------------------------------------------------
(* Properties *)

\* No core runs that nobody can stop: a live child is in the slot or held by a
\* request, however starts, stops and cancelled requests interleave (kill_on_drop).
CmNoOrphan ==
    \A c \in CmSpawned : CmAlive(c) => c = cmProc \/ \E r \in CmReqs : cmReq[r].child = c
=============================================================================
