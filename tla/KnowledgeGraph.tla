--------------------------- MODULE KnowledgeGraph ---------------------------
(***************************************************************************)
(* What the knowledge graph holds, by how much of kg/loader has landed in  *)
(* it, and the six demonstrated queries of kg/cypher over it.              *)
(*                                                                         *)
(* The topology and the security knowledge are tables in the loader; they  *)
(* are here with their contents, and each is in the graph entirely or not  *)
(* at all, one transaction each.  Alerts, their events and the incidents   *)
(* come from what happened: which could come is a constant of the model,   *)
(* which have come is the graph's.  An edge of alert and technique is made *)
(* when the knowledge lands, for the alerts that are there.  Each load     *)
(* sets an incident's severity anew.  An alert's properties follow from    *)
(* the events that its id is made of, and are constants; properties that   *)
(* no query selects by and no answer states are left out.                  *)
(***************************************************************************)
EXTENDS Integers, FiniteSets, FiniteSetsExt

CONSTANTS
  Alerts, Events, Incidents,  \* what may be collected
  RuleOf,          \* the rule of an alert
  SeverityOf,      \* and its severity
  AffectedService, EvidenceOf,  \* of an alert; NoName if it has no service
  UserOf,          \* who triggered an event, or NoName
  AssetOf, Groups, \* of an incident: its asset, and the alerts in its window
  NoName

Severities == {"LOW", "MEDIUM", "HIGH", "CRITICAL"}
Grave == {a \in Alerts : SeverityOf[a] \in {"HIGH", "CRITICAL"}}

Services == {"auth-service", "incident-service", "asset-service", "api-gateway"}

\* <<caller, callee>>.
DependsOn == {<<"incident-service", "asset-service">>}

Rules == {"Multiple Failed Logins", "Unauthorised Endpoint Access",
          "Abnormal Request Rate", "Service Failure"}

\* The techniques, and the one that the alerts of a rule indicate.
Threats == {"T1110", "T1110.001", "T1110.002", "T1110.003", "T1110.004",
            "T1078", "T1498", "T1499"}
TechniqueOf == [r \in Rules |->
  CASE r = "Multiple Failed Logins" -> "T1110"
    [] r = "Unauthorised Endpoint Access" -> "T1078"
    [] r = "Abnormal Request Rate" -> "T1498"
    [] r = "Service Failure" -> "T1499"]

\* <<technique, service>>.
Targets == {<<"T1110", "auth-service">>, <<"T1078", "auth-service">>,
            <<"T1498", "api-gateway">>, <<"T1499", "incident-service">>}

\* <<technique, vulnerability>>.
Exploits ==
  ({"T1110", "T1110.001", "T1110.003", "T1110.004"} \X {"No account lockout"})
    \cup ({"T1110", "T1078"} \X {"Single-factor authentication"})
    \cup ({"T1498", "T1499"} \X {"Unbounded per-caller throughput"})

\* <<control, technique>>.
Mitigates ==
  ({"Account lockout"} \X {"T1110", "T1110.001", "T1110.003"})
    \cup ({"Multi-factor authentication"} \X {"T1110", "T1110.004", "T1078"})
    \cup ({"Forced password reset"} \X {"T1110", "T1078"})
    \cup ({"Gateway rate limiting"} \X {"T1498", "T1499"})

\* <<document, technique>>.
SupportsResponseTo ==
  {<<"brute-force response", "T1110">>,
   <<"suspected account compromise", "T1110">>,
   <<"suspected account compromise", "T1078">>,
   <<"service under load", "T1498">>, <<"service under load", "T1499">>}

\* <<technique, technique>>.
SubtechniqueOf == {"T1110.001", "T1110.002", "T1110.003", "T1110.004"} \X {"T1110"}

ASSUME GraphAssumption ==
  /\ RuleOf \in [Alerts -> Rules] /\ SeverityOf \in [Alerts -> Severities]
  /\ AffectedService \in [Alerts -> Services \cup {NoName}]
  /\ EvidenceOf \in [Alerts -> SUBSET Events]
  /\ Groups \in [Incidents -> SUBSET Grave] /\ NoName \notin Severities
-----------------------------------------------------------------------------
(* The graph.                                                              *)

Empty == [topology |-> FALSE, knowledge |-> FALSE, alerts |-> {}, indicates |-> {},
          incidents |-> {}, severity |-> [i \in Incidents |-> NoName], contains |-> {}]

\* An edge has both its ends.
Graphs ==
  {g \in [topology : BOOLEAN, knowledge : BOOLEAN, alerts : SUBSET Alerts,
          indicates : SUBSET Alerts, incidents : SUBSET Incidents,
          severity : [Incidents -> Severities \cup {NoName}],
          contains : SUBSET (Incidents \X Alerts)] :
     g.indicates \subseteq g.alerts /\ g.contains \subseteq g.incidents \X g.alerts}

\* topology_writes.
LandTopology(g) == [g EXCEPT !.topology = TRUE]

\* A mistake: an alert in an incident's window is merged, not matched.
LandEventsMerged(g, found) ==
  [g EXCEPT !.alerts = @ \cup found.alerts,
            !.incidents = @ \cup found.incidents,
            !.severity = [i \in Incidents |->
                            IF i \in found.incidents THEN found.severity[i] ELSE @[i]],
            !.contains = @ \cup {p \in found.incidents \X Alerts : p[2] \in Groups[p[1]]}]

\* events_writes of what was collected: the alerts with the events they cite,
\* and the incidents with their severity and those of these alerts that they
\* group.
LandEvents(g, found) ==
  [g EXCEPT !.alerts = @ \cup found.alerts,
            !.incidents = @ \cup found.incidents,
            !.severity = [i \in Incidents |->
                            IF i \in found.incidents THEN found.severity[i] ELSE @[i]],
            !.contains = @ \cup {p \in found.incidents \X found.alerts :
                                   p[2] \in Groups[p[1]]}]

\* knowledge_writes: rule_threat_links come last and match every alert there is.
LandKnowledge(g) == [g EXCEPT !.knowledge = TRUE, !.indicates = g.alerts]

-----------------------------------------------------------------------------
(* The six queries: the set of rows of each.                               *)

Indicated(g, a) == IF a \in g.indicates THEN {TechniqueOf[RuleOf[a]]} ELSE {}
Controls(t) == {p[1] : p \in {q \in Mitigates : q[2] = t}}
Runbooks(t) == {p[1] : p \in {q \in SupportsResponseTo : q[2] = t}}

\* q1.
AlertsForService(g, service) ==
  {[alert |-> a, rule |-> RuleOf[a], severity |-> SeverityOf[a], status |-> "OPEN"] :
      a \in {b \in g.alerts : AffectedService[b] = service}}

\* q2: a row per user, rule and severity, with the alerts counted and the
\* events between.
Between(g, u, r, s) ==
  {a \in g.alerts \cap Grave : /\ RuleOf[a] = r /\ SeverityOf[a] = s
                              /\ \E e \in EvidenceOf[a] : UserOf[e] = u}
UsersHighSeverity(g) ==
  LET Linked == {k \in ({UserOf[e] : e \in Events} \ {NoName}) \X Rules \X Severities :
                   Between(g, k[1], k[2], k[3]) # {}}
  IN {[user |-> k[1], rule |-> k[2], severity |-> k[3],
       alerts |-> Cardinality(Between(g, k[1], k[2], k[3])),
       events |-> {e \in UNION {EvidenceOf[a] : a \in Between(g, k[1], k[2], k[3])} :
                     UserOf[e] = k[1]}] : k \in Linked}

\* q3.
ThreatsForService(g, service) ==
  {[technique |-> t, vulnerabilities |-> {p[2] : p \in {q \in Exploits : q[1] = t}},
    controls |-> Controls(t)] :
      t \in {u \in Threats : g.knowledge /\ <<u, service>> \in Targets}}

\* A mistake: the controls are not joined on the technique.
ControlsForAlertUnjoined(g, alert) ==
  {[alert |-> alert, rule |-> RuleOf[alert], technique |-> t,
    controls |-> {p[1] : p \in Mitigates}, runbooks |-> Runbooks(t)] :
      t \in UNION {Indicated(g, a) : a \in g.alerts \cap {alert}}}

\* q4: no row for an alert that indicates nothing yet.
ControlsForAlert(g, alert) ==
  {[alert |-> alert, rule |-> RuleOf[alert], technique |-> t,
    controls |-> Controls(t), runbooks |-> Runbooks(t)] :
      t \in UNION {Indicated(g, a) : a \in g.alerts \cap {alert}}}

\* q5: every service some chain of dependencies leads from, by the shortest.
Chains(edges, service) ==
  LET from[n \in 0..10] ==
        IF n = 0 THEN {service}
                 ELSE {p[1] : p \in {q \in edges : q[2] \in from[n - 1]}}
  IN from
DependencyImpact(g, service) ==
  LET from == Chains(IF g.topology THEN DependsOn ELSE {}, service)
      lengths(s) == {n \in 1..10 : s \in from[n]}
  IN {[impacted |-> s, hops |-> Min(lengths(s))] : s \in {r \in Services : lengths(r) # {}}}

\* q6: each alert with its rule.
IncidentsAndAlerts(g) ==
  {[incident |-> i, severity |-> g.severity[i], asset |-> AssetOf[i],
    alerts |-> {<<a, RuleOf[a]>> : a \in {b \in Alerts : <<i, b>> \in g.contains}}] :
      i \in g.incidents}
=============================================================================
