---------------------------- MODULE RouterRules ----------------------------
(***************************************************************************)
(* How the router chooses an outbound: Router::select_out walks the rules  *)
(* in order under the mode it read once, looks into the payload only when  *)
(* a rule asks for a protocol, and Rule::matches tests the criteria of one *)
(* rule, the last of which (reverse lookup, GeoIP with its cache) wait for *)
(* other services.  The mode is changed by the API at any time.            *)
(***************************************************************************)
EXTENDS Naturals, Sequences, FiniteSets

CONSTANTS
    SoRuleSets,   \* configurations: sequences of rules; an empty criterion is absent
    SoRequests,   \* requests: target, inbound, net, the question of a DNS payload
    SoModes,      \* RouterMode
    SoPtr,        \* what the reverse lookup knows: [ip -> domain or "none"]
    SoCountry,    \* the GeoIP database: [host -> country]
    SoNames       \* domains and suffixes as sequences of characters, for the suffix test

ASSUME SoAssumption ==
    /\ \A rules \in SoRuleSets : rules \in Seq({rules[i] : i \in DOMAIN rules})
    /\ SoNames \subseteq Seq(STRING)

VARIABLES
    soRules,  \* the configuration
    soMode,   \* Router::mode
    soReq,    \* per request: where it is, the mode it read, what sniffing gave, its choice
    soGeo     \* the cache of the one Geoip the rules name: [host -> "none" or verdict]

soVars == <<soRules, soMode, soReq, soGeo>>

SoHosts == DOMAIN SoCountry

SoInit ==
    /\ soRules \in SoRuleSets /\ soMode \in SoModes
    /\ soReq = [r \in SoRequests |->
                  [pc |-> "new", i |-> 1, mode |-> "none", sniffed |-> FALSE, dns |-> FALSE,
                   out |-> 0, to |-> r.target, near |-> {}]]
    /\ soGeo = [h \in SoHosts |-> "none"]

-----------------------------------------------------------------------------
(* One rule *)

\* domain_matches_suffix: the end of the name, at its start or after a dot.
SoSuffixMatches(d, s) ==
    /\ s # <<>> /\ Len(d) >= Len(s)
    /\ SubSeq(d, Len(d) - Len(s) + 1, Len(d)) = s
    /\ Len(d) = Len(s) \/ d[Len(d) - Len(s)] = "."

\* A criterion that is not configured holds.
SoWhen(set, holds) == set = {} \/ holds

\* sniff_dns_target: a DNS payload names the protocol and puts its question, with the
\* original port, in the place of the target.
SoSniff(r) ==
    IF r.question = "none" THEN r.target
    ELSE [kind |-> "domain", host |-> r.question, port |-> r.target.port]

\* Rule::matches as far as it is synchronous; ports are those of `port` and
\* `port_range`, domains the hosts that `domain` or `domain_suffix` match.
SoLocal(rule, r, to, dns) ==
    /\ SoWhen(rule.inbounds, r.inbound \in rule.inbounds)
    /\ SoWhen(rule.protocol, dns /\ "dns" \in rule.protocol)
    /\ SoWhen(rule.network, r.net \in rule.network)
    /\ SoWhen(rule.ports, to.port \in rule.ports)
    /\ SoWhen(rule.domains, to.kind = "domain" /\ to.host \in rule.domains)
    /\ SoWhen(rule.qtypes, dns /\ r.qtype \in rule.qtypes)
    /\ SoWhen(rule.cidrs, to.kind = "ip" /\ to.host \in rule.cidrs)

\* A rule with a reverse lookup is decided by it, GeoIP or not.
SoReversed(rule, to) == to.kind = "ip" /\ SoPtr[to.host] # "none"

-----------------------------------------------------------------------------
(* Router::select_out *)

SoStart(r) ==
    /\ soReq[r].pc = "new"
    /\ soReq' = [soReq EXCEPT ![r].pc = "walk", ![r].mode = soMode]
    /\ UNCHANGED <<soRules, soMode, soGeo>>

SoActive(rule, mode) == SoWhen(rule.modes, mode \in rule.modes)

\* The request as rule i sees it: the payload is looked at once, when an active rule
\* first asks for a protocol.
SoSeen(r) ==
    LET q == soReq[r] IN
    IF soRules[q.i].protocol # {} /\ ~q.sniffed
    THEN [q EXCEPT !.sniffed = TRUE, !.dns = r.question # "none", !.to = SoSniff(r)]
    ELSE q

\* The choice: rule i's outbound, and the target that the lookup or the sniffing gave.
SoChosen(q, to) == [q EXCEPT !.pc = "done", !.out = q.i, !.to = to]
SoPassed(q) == [q EXCEPT !.i = @ + 1]

\* Mutant: the mode is read again for every rule.
SoSkipLive(r) ==
    /\ soReq[r].pc = "walk" /\ soReq[r].i \in DOMAIN soRules
    /\ ~SoActive(soRules[soReq[r].i], soMode)
    /\ soReq' = [soReq EXCEPT ![r] = SoPassed(@)]
    /\ UNCHANGED <<soRules, soMode, soGeo>>

SoSkip(r) ==
    /\ soReq[r].pc = "walk" /\ soReq[r].i \in DOMAIN soRules
    /\ ~SoActive(soRules[soReq[r].i], soReq[r].mode)
    /\ soReq' = [soReq EXCEPT ![r] = SoPassed(@)]
    /\ UNCHANGED <<soRules, soMode, soGeo>>

SoTry(r) ==
    /\ soReq[r].pc = "walk" /\ soReq[r].i \in DOMAIN soRules
    /\ SoActive(soRules[soReq[r].i], soReq[r].mode)
    /\ LET q == SoSeen(r)
           rule == soRules[q.i] IN
       soReq' = [soReq EXCEPT ![r] =
           IF ~SoLocal(rule, r, q.to, q.dns) THEN SoPassed(q)
           ELSE IF rule.reverse
                THEN IF SoReversed(rule, q.to)
                     THEN SoChosen(q, [kind |-> "domain", host |-> SoPtr[q.to.host], port |-> q.to.port])
                     ELSE SoPassed(q)
           ELSE IF rule.geoip # {} THEN [q EXCEPT !.pc = "geoip"]
           ELSE SoChosen(q, q.to)]
    /\ UNCHANGED <<soRules, soMode, soGeo>>

SoHolds(q, yes) ==
    IF yes THEN SoChosen([q EXCEPT !.pc = "walk", !.near = @ \cup {q.i}], q.to)
    ELSE SoPassed([q EXCEPT !.pc = "walk"])

\* Geoip::lookup takes the cached verdict, or waits for the resolver when there is no
\* cache, no verdict in it or an error reading it.
SoLookup(r) ==
    LET q == soReq[r]
        cached == soGeo[q.to.host] IN
    /\ q.pc = "geoip"
    /\ \/ cached # "none" /\ soReq' = [soReq EXCEPT ![r] = SoHolds(q, cached = "yes")]
       \/ soReq' = [soReq EXCEPT ![r].pc = "resolve"]
    /\ UNCHANGED <<soRules, soMode, soGeo>>

\* The host is resolved and looked up, and the verdict remembered, whatever the cache
\* holds by now, unless that fails; a lookup that fails is remembered as no match.
SoResolve(r) ==
    LET q == soReq[r] IN
    /\ q.pc = "resolve"
    /\ \E yes \in {SoCountry[q.to.host] \in soRules[q.i].geoip, FALSE} :
         /\ soReq' = [soReq EXCEPT ![r] = SoHolds(q, yes)]
         /\ soGeo' \in {soGeo, [soGeo EXCEPT ![q.to.host] = IF yes THEN "yes" ELSE "no"]}
    /\ UNCHANGED <<soRules, soMode>>

\* A host that does not resolve is an error, which is no match and is not remembered.
SoUnresolved(r) ==
    /\ soReq[r].pc = "resolve"
    /\ soReq' = [soReq EXCEPT ![r] = SoHolds(@, FALSE)]
    /\ UNCHANGED <<soRules, soMode, soGeo>>

\* No rule left: the default outbound, and the sniffed target if there is one.
SoDefault(r) ==
    /\ soReq[r].pc = "walk" /\ soReq[r].i \notin DOMAIN soRules
    /\ soReq' = [soReq EXCEPT ![r].pc = "done", ![r].out = 0]
    /\ UNCHANGED <<soRules, soMode, soGeo>>

SoSetMode(m) ==
    /\ m # soMode /\ soMode' = m
    /\ UNCHANGED <<soRules, soReq, soGeo>>

SoGeoExpires(h) ==
    /\ soGeo[h] # "none"
    /\ soGeo' = [soGeo EXCEPT ![h] = "none"]
    /\ UNCHANGED <<soRules, soMode, soReq>>

SoNext ==
    \/ \E r \in SoRequests :
         SoStart(r) \/ SoSkip(r) \/ SoTry(r) \/ SoLookup(r) \/ SoResolve(r) \/ SoUnresolved(r) \/ SoDefault(r)
    \/ \E m \in SoModes : SoSetMode(m)
    \/ \E h \in SoHosts : SoGeoExpires(h)

-----------------------------------------------------------------------------
(* Properties *)

\* Rule i sees the payload: an active rule up to it asks for a protocol.
SoLooked(mode, i) == \E j \in 1..i : SoActive(soRules[j], mode) /\ soRules[j].protocol # {}

SoTargetAt(r, mode, i) == IF SoLooked(mode, i) THEN SoSniff(r) ELSE r.target

SoRuleHolds(r, q, i) ==
    LET rule == soRules[i]
        to == SoTargetAt(r, q.mode, i) IN
    /\ SoActive(rule, q.mode)
    /\ SoLocal(rule, r, to, SoLooked(q.mode, i) /\ r.question # "none")
    /\ IF rule.reverse THEN SoReversed(rule, to) ELSE rule.geoip = {} \/ i \in q.near

\* The request gets the outbound of the first rule that holds for it under the mode
\* of the moment it began, whatever the mode does while it waits for lookups, and the
\* default outbound when none holds (select_out).
SoFirstWins ==
    \A r \in SoRequests : soReq[r].pc = "done" =>
        LET hold == {i \in DOMAIN soRules : SoRuleHolds(r, soReq[r], i)} IN
        IF hold = {} THEN soReq[r].out = 0
        ELSE soReq[r].out \in hold /\ \A i \in hold : soReq[r].out <= i

\* The labels of a name, as pairs of the positions around them.
SoDots(d) == {0, Len(d) + 1} \cup {i \in DOMAIN d : d[i] = "."}

\* A suffix matches exactly the names that have its labels as their last ones, so
\* that example.com does not match badexample.com (domain_matches_suffix).
SoWholeLabels ==
    \A d, s \in SoNames : s # <<>> =>
        (SoSuffixMatches(d, s) <=> \E i \in SoDots(d) : i <= Len(d) /\ SubSeq(d, i + 1, Len(d)) = s)

\* The rule that is applied is the first that holds, with suffixes taken label by label.
SoPicksRight == SoFirstWins /\ SoWholeLabels
=============================================================================
