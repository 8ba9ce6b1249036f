------------------------- MODULE GraphConsoleProofs -------------------------
(***************************************************************************)
(* Proofs about the graph screens.  The argument about answers is growth:  *)
(* no transaction of a load takes anything out of the graph, each query,   *)
(* picture and template finds no less in a larger graph, and all that a    *)
(* template states is a fact of the graph that its evidence came from: a   *)
(* lasting one, or one of the moment.  The ones about the driver and about *)
(* stdout say who may disturb whom, and where each actor is when it may.   *)
(***************************************************************************)
EXTENDS GraphConsole, FiniteSetTheorems, TLAPS

\* The graph h has all that g has; an incident's severity may be another.
Grown(g, h) ==
  /\ g.topology => h.topology
  /\ g.knowledge => h.knowledge
  /\ g.alerts \subseteq h.alerts
  /\ g.indicates \subseteq h.indicates
  /\ g.incidents \subseteq h.incidents
  /\ g.contains \subseteq h.contains

\* The graph is one from the start, and stays one whatever lands.
LEMMA EmptyIsGraph == Empty \in Graphs
BY DEF Empty, Graphs

\* No transaction takes anything out of the graph.
LEMMA LandingGrows ==
  ASSUME NEW g \in Graphs, NEW h \in Graphs,
         \/ h = LandTopology(g) \/ h = LandKnowledge(g)
         \/ \E source \in Sources : h = LandEvents(g, source)
  PROVE  Grown(g, h)
<1>1. /\ g = [topology |-> g.topology, knowledge |-> g.knowledge, alerts |-> g.alerts,
              indicates |-> g.indicates, incidents |-> g.incidents,
              severity |-> g.severity, contains |-> g.contains]
      /\ g.indicates \subseteq g.alerts /\ g.topology \in BOOLEAN /\ g.knowledge \in BOOLEAN
  BY DEF Graphs
<1>2. CASE h = LandTopology(g)
  BY <1>1, <1>2 DEF LandTopology, Grown
<1>3. CASE h = LandKnowledge(g)
  BY <1>1, <1>3 DEF LandKnowledge, Grown
<1>4. ASSUME NEW source \in Sources, h = LandEvents(g, source) PROVE Grown(g, h)
  <2>1. /\ h.topology = g.topology /\ h.knowledge = g.knowledge /\ h.indicates = g.indicates
        /\ g.alerts \subseteq h.alerts /\ g.incidents \subseteq h.incidents
        /\ g.contains \subseteq h.contains
    BY <1>1, <1>4, Zenon DEF LandEvents
  <2> QED
    BY <2>1 DEF Grown
<1> QED
  BY <1>2, <1>3, <1>4

\* The topology's transaction leaves a graph.
LEMMA TopologyLands ==
  ASSUME NEW g \in Graphs
  PROVE  LandTopology(g) \in Graphs
BY DEF LandTopology, Graphs

\* So does the security knowledge's, for it indicates by alerts that are there.
LEMMA KnowledgeLands ==
  ASSUME NEW g \in Graphs
  PROVE  LandKnowledge(g) \in Graphs
BY DEF LandKnowledge, Graphs

\* So does the events', whose incidents contain alerts that come with them.
LEMMA EventsLand ==
  ASSUME NEW g \in Graphs, NEW source \in Sources
  PROVE  LandEvents(g, source) \in Graphs
<1> DEFINE linked == {p \in source.incidents \X source.alerts : p[2] \in Groups[p[1]]}
           rated == [i \in Incidents |-> IF i \in source.incidents THEN source.severity[i]
                                                                  ELSE g.severity[i]]
<1>1. /\ source.alerts \subseteq Alerts /\ source.incidents \subseteq Incidents
      /\ source.severity \in [Incidents -> Severities]
  BY ConsoleAssumption
<1>2. linked \subseteq source.incidents \X source.alerts
  OBVIOUS
<1>4. /\ g.alerts \subseteq Alerts /\ g.incidents \subseteq Incidents
      /\ g.contains \subseteq g.incidents \X g.alerts /\ g.indicates \subseteq g.alerts
      /\ g.topology \in BOOLEAN /\ g.knowledge \in BOOLEAN
      /\ g.severity \in [Incidents -> Severities \cup {NoName}]
      /\ g = [topology |-> g.topology, knowledge |-> g.knowledge, alerts |-> g.alerts,
              indicates |-> g.indicates, incidents |-> g.incidents,
              severity |-> g.severity, contains |-> g.contains]
  BY DEF Graphs
<1>3. rated \in [Incidents -> Severities \cup {NoName}]
  BY <1>1, <1>4
<1> HIDE DEF linked
<1> DEFINE h == LandEvents(g, source)
<1>7. h = [g EXCEPT !.alerts = @ \cup source.alerts, !.incidents = @ \cup source.incidents,
             !.severity = rated, !.contains = @ \cup linked]
  BY DEF LandEvents, linked
<1> HIDE DEF rated
<1>5. h = [topology |-> g.topology, knowledge |-> g.knowledge,
           alerts |-> g.alerts \cup source.alerts, indicates |-> g.indicates,
           incidents |-> g.incidents \cup source.incidents, severity |-> rated,
           contains |-> g.contains \cup linked]
  BY <1>4, <1>7
<1>6. g.contains \cup linked \subseteq
        (g.incidents \cup source.incidents) \X (g.alerts \cup source.alerts)
  BY <1>2, <1>4
<1> QED
  BY <1>1, <1>3, <1>4, <1>5, <1>6 DEF Graphs
-----------------------------------------------------------------------------
(* The queries.                                                            *)

\* No chain leads anywhere without the topology, and none has two hops with it.
LEMMA ChainsAre ==
  ASSUME NEW edges, edges = {} \/ edges = DependsOn, NEW service, NEW n \in 1..10
  PROVE  Chains(edges, service)[n] =
           IF edges = DependsOn /\ n = 1 /\ service = "asset-service"
           THEN {"incident-service"} ELSE {}
<1> DEFINE f == [m \in 0..10 |->
                   IF m = 0 THEN {service}
                   ELSE IF edges = DependsOn /\ m = 1 /\ service = "asset-service"
                        THEN {"incident-service"} ELSE {}]
           callers(S) == {p[1] : p \in {q \in edges : q[2] \in S}}
<1>1. ASSUME NEW S PROVE callers(S) = IF edges = DependsOn /\ "asset-service" \in S
                                      THEN {"incident-service"} ELSE {}
  <2>1. CASE edges = DependsOn /\ "asset-service" \in S
    <3>1. {q \in edges : q[2] \in S} = {<<"incident-service", "asset-service">>}
      BY <2>1 DEF DependsOn
    <3>2. callers(S) = {p[1] : p \in {<<"incident-service", "asset-service">>}}
      BY <3>1
    <3>3. {p[1] : p \in {<<"incident-service", "asset-service">>}} = {"incident-service"}
      OBVIOUS
    <3> HIDE DEF callers
    <3> QED
      BY <2>1, <3>2, <3>3
  <2>2. CASE ~(edges = DependsOn /\ "asset-service" \in S)
    <3>1. {q \in edges : q[2] \in S} = {}
      BY <2>2 DEF DependsOn
    <3> QED
      BY <2>2, <3>1
  <2> QED
    BY <2>1, <2>2
<1>2. f = [m \in 0..10 |-> IF m = 0 THEN {service} ELSE callers(f[m - 1])]
  <2>1. ASSUME NEW m \in 1..10
        PROVE  f[m] = callers(f[m - 1])
    <3> HIDE DEF callers
    <3>1. CASE m = 1
      <4>1. f[0] = {service}
        OBVIOUS
      <4>2. f[1] = IF edges = DependsOn /\ service = "asset-service"
                  THEN {"incident-service"} ELSE {}
        OBVIOUS
      <4> QED
        BY <1>1, <3>1, <4>1, <4>2
    <3>2. CASE m > 1
      <4>1. f[m] = {} /\ "asset-service" \notin f[m - 1]
        BY <3>2
      <4> QED
        BY <1>1, <4>1
    <3> QED
      BY <3>1, <3>2
  <2> HIDE DEF callers
  <2> QED
    BY <2>1
<1> DEFINE c == Chains(edges, service)
<1>4. c = [m \in 0..10 |-> IF m = 0 THEN {service} ELSE callers(c[m - 1])]
  <2>1. \E h : h = [m \in 0..10 |->
          IF m = 0 THEN {service} ELSE {p[1] : p \in {q \in edges : q[2] \in h[m - 1]}}]
    <3> HIDE DEF f
    <3> QED
      BY <1>2, Zenon
  <2> QED
    BY <2>1, Zenon DEF Chains
<1> HIDE DEF c, callers
<1>5. c[0] = {service} /\ \A m \in 1..10 : c[m] = callers(c[m - 1])
  BY <1>4
<1>6. \A m \in 1..10 : c[m] \subseteq {"incident-service"}
  BY <1>1, <1>5
<1>7. \A m \in 2..10 : c[m] = {}
  BY <1>1, <1>5, <1>6
<1>8. c[1] = IF edges = DependsOn /\ service = "asset-service"
             THEN {"incident-service"} ELSE {}
  <2>1. c[1] = callers({service})
    BY <1>5, 1 \in 1..10, 1 - 1 = 0
  <2>2. callers({service}) = IF edges = DependsOn /\ "asset-service" \in {service}
                             THEN {"incident-service"} ELSE {}
    BY <1>1
  <2> QED
    BY <2>1, <2>2
<1>9. c[n] = IF edges = DependsOn /\ n = 1 /\ service = "asset-service"
             THEN {"incident-service"} ELSE {}
  <2>1. CASE n = 1
    BY <1>8, <2>1
  <2>2. CASE n # 1
    BY <1>7, <2>2
  <2> QED
    BY <2>1, <2>2
<1> QED
  BY <1>9 DEF c

\* What depends on a service depends on it directly, as far as the topology is
\* there at all.
LEMMA ImpactIsOneHop ==
  ASSUME NEW g \in Graphs, NEW service
  PROVE  /\ {row.impacted : row \in DependencyImpact(g, service)}
              = IF g.topology /\ service = "asset-service" THEN {"incident-service"} ELSE {}
         /\ \A row \in DependencyImpact(g, service) : row.hops = 1
<1> DEFINE edges == IF g.topology THEN DependsOn ELSE {}
           from == Chains(edges, service)
           lengths(s) == {n \in 1..10 : s \in from[n]}
<1>1. g.topology \in BOOLEAN /\ DependsOn # {}
  BY DEF Graphs, DependsOn
<1>2. \A n \in 1..10 : from[n] = IF g.topology /\ n = 1 /\ service = "asset-service"
                                 THEN {"incident-service"} ELSE {}
  BY <1>1, ChainsAre
<1>3. DependencyImpact(g, service) =
        {[impacted |-> s, hops |-> Min(lengths(s))] : s \in {r \in Services : lengths(r) # {}}}
  BY Zenon DEF DependencyImpact
<1>4. {row.impacted : row \in DependencyImpact(g, service)} = {r \in Services : lengths(r) # {}}
  <2> DEFINE row(s) == [impacted |-> s, hops |-> Min(lengths(s))]
  <2>1. \A s : row(s).impacted = s
    OBVIOUS
  <2>2. DependencyImpact(g, service) = {row(s) : s \in {r \in Services : lengths(r) # {}}}
    BY <1>3
  <2> HIDE DEF lengths, row
  <2> QED
    BY <2>1, <2>2
<1>5. \A r : lengths(r) = IF g.topology /\ service = "asset-service" /\ r = "incident-service"
                          THEN {1} ELSE {}
  <2> HIDE DEF from
  <2> TAKE r
  <2>1. CASE g.topology /\ service = "asset-service"
    BY <1>2, <2>1
  <2>2. CASE ~(g.topology /\ service = "asset-service")
    BY <1>2, <2>2
  <2> QED
    BY <2>1, <2>2
<1> HIDE DEF lengths
<1>7. \A row \in DependencyImpact(g, service) : row.hops = 1
  <2>1. ASSUME NEW s \in {r \in Services : lengths(r) # {}} PROVE Min(lengths(s)) = 1
    <3>1. lengths(s) = {1}
      BY <1>5
    <3>2. Min({1}) = 1
      BY DEF Min
    <3> QED
      BY <3>1, <3>2
  <2> QED
    BY <1>3, <2>1
<1>6. {r \in Services : lengths(r) # {}}
        = IF g.topology /\ service = "asset-service" THEN {"incident-service"} ELSE {}
  <2>1. 1 \in {1} /\ "incident-service" \in Services
    BY DEF Services
  <2>2. CASE g.topology /\ service = "asset-service"
    BY <1>5, <2>1, <2>2
  <2>3. CASE ~(g.topology /\ service = "asset-service")
    BY <1>5, <2>3
  <2> QED
    BY <2>2, <2>3
<1> QED
  BY <1>4, <1>6, <1>7

\* A larger graph answers each query with every row again, or with one that
\* says more.
LEMMA RowsGrow ==
  ASSUME NEW g \in Graphs, NEW h \in Graphs, Grown(g, h),
         NEW key \in QueryKeys, NEW parameter, NEW r \in Rows(key, parameter, g)
  PROVE  \E s \in Rows(key, parameter, h) :
           Nodes(key, r) \subseteq Nodes(key, s) /\ Edges(key, r) \subseteq Edges(key, s)
<1>1. CASE key = "alerts_for_service"
  <2>1. r \in AlertsForService(g, parameter)
    BY <1>1 DEF Rows
  <2>2. r \in AlertsForService(h, parameter)
    BY <2>1 DEF AlertsForService, Grown
  <2> QED
    BY <1>1, <2>2 DEF Rows
<1>2. CASE key = "users_high_severity"
  <2> DEFINE Evidence(k, p) == {e \in UNION {EvidenceOf[a] : a \in Between(k, p[1], p[2], p[3])} :
                                 UserOf[e] = p[1]}
             Count(k, p) == Cardinality(Between(k, p[1], p[2], p[3]))
             Linked(k) == {p \in ({UserOf[e] : e \in Events} \ {NoName}) \X Rules \X Severities :
                             Between(k, p[1], p[2], p[3]) # {}}
             Row(k, p) == [user |-> p[1], rule |-> p[2], severity |-> p[3],
                           alerts |-> Count(k, p), events |-> Evidence(k, p)]
  <2>1. \A k : UsersHighSeverity(k) = {Row(k, p) : p \in Linked(k)}
    BY DEF UsersHighSeverity
  <2>2. \A u, q, v : Between(g, u, q, v) \subseteq Between(h, u, q, v)
    BY DEF Grown, Between
  <2>7. \A p : Evidence(g, p) \subseteq Evidence(h, p)
    BY <2>2
  <2> HIDE DEF Evidence, Count
  <2>3. PICK p \in Linked(g) : r = Row(g, p)
    BY <1>2, <2>1 DEF Rows
  <2>4. p \in Linked(h)
    BY <2>2, <2>3
  <2>5. Row(h, p) \in Rows(key, parameter, h)
    BY <1>2, <2>1, <2>4 DEF Rows
  <2>6. r.user = Row(h, p).user /\ r.events \subseteq Row(h, p).events
    BY <2>3, <2>7
  <2> HIDE DEF Row
  <2> QED
    BY <1>2, <2>5, <2>6 DEF Nodes, Edges
<1>3. CASE key = "threats_for_service"
  <2>1. r \in ThreatsForService(g, parameter)
    BY <1>3 DEF Rows
  <2>2. r \in ThreatsForService(h, parameter)
    BY <2>1 DEF ThreatsForService, Grown
  <2> QED
    BY <1>3, <2>2 DEF Rows
<1>4. CASE key = "controls_for_alert"
  <2>1. r \in ControlsForAlert(g, parameter)
    BY <1>4 DEF Rows
  <2>2. r \in ControlsForAlert(h, parameter)
    BY <2>1 DEF ControlsForAlert, Indicated, Grown
  <2> QED
    BY <1>4, <2>2 DEF Rows
<1>5. CASE key = "dependency_impact"
  <2>1. r \in DependencyImpact(g, parameter)
    BY <1>5 DEF Rows
  <2>2. g.topology /\ parameter = "asset-service" /\ r.impacted = "incident-service"
    <3>1. r.impacted \in {row.impacted : row \in DependencyImpact(g, parameter)}
      BY <2>1
    <3> QED
      BY <3>1, ImpactIsOneHop
  <2>3. PICK s \in DependencyImpact(h, parameter) : s.impacted = "incident-service"
    BY <2>2, ImpactIsOneHop DEF Grown
  <2>4. s \in Rows(key, parameter, h)
    BY <1>5 DEF Rows
  <2> QED
    BY <1>5, <2>2, <2>3, <2>4 DEF Nodes, Edges
<1>6. CASE key = "incidents_and_alerts"
  <2> DEFINE alerts(k, i) == {<<a, RuleOf[a]>> : a \in {b \in Alerts : <<i, b>> \in k.contains}}
  <2>1. PICK i \in g.incidents :
          r = [incident |-> i, severity |-> g.severity[i], asset |-> AssetOf[i],
               alerts |-> alerts(g, i)]
    BY <1>6 DEF Rows, IncidentsAndAlerts
  <2> DEFINE s == [incident |-> i, severity |-> h.severity[i], asset |-> AssetOf[i],
                   alerts |-> alerts(h, i)]
  <2>2. s \in Rows(key, parameter, h)
    BY <1>6 DEF Rows, IncidentsAndAlerts, Grown
  <2>5. alerts(g, i) \subseteq alerts(h, i)
    BY DEF Grown
  <2> HIDE DEF alerts
  <2>3. r.incident = s.incident /\ r.asset = s.asset /\ r.alerts \subseteq s.alerts
    BY <2>1, <2>5
  <2> HIDE DEF s
  <2>4. Nodes(key, r) \subseteq Nodes(key, s) /\ Edges(key, r) \subseteq Edges(key, s)
    BY <1>6, <2>3 DEF Nodes, Edges
  <2> QED
    BY <2>2, <2>4
<1> QED
  BY <1>1, <1>2, <1>3, <1>4, <1>5, <1>6 DEF QueryKeys

-----------------------------------------------------------------------------
(* A question's intent.                                                    *)

\* A set that is written out is finite: no intent has more than eight phrases.
LEMMA WrittenOutIsFinite ==
  ASSUME NEW a, NEW b, NEW c, NEW d, NEW e, NEW f, NEW g, NEW h
  PROVE  /\ IsFiniteSet({a, b, c, d, e}) /\ IsFiniteSet({a, b, c, d, e, f})
         /\ IsFiniteSet({a, b, c, d, e, f, g}) /\ IsFiniteSet({a, b, c, d, e, f, g, h})
<1>1. IsFiniteSet({a})
  BY FS_Singleton
<1>2. IsFiniteSet({a} \cup {b})
  BY <1>1, FS_AddElement
<1>3. IsFiniteSet({a, b} \cup {c})
  <2>1. {a, b} = {a} \cup {b}
    OBVIOUS
  <2> QED
    BY <1>2, <2>1, FS_AddElement
<1>4. IsFiniteSet({a, b, c} \cup {d})
  <2>1. {a, b, c} = {a, b} \cup {c}
    OBVIOUS
  <2> QED
    BY <1>3, <2>1, FS_AddElement
<1>5. IsFiniteSet({a, b, c, d} \cup {e})
  <2>1. {a, b, c, d} = {a, b, c} \cup {d}
    OBVIOUS
  <2> QED
    BY <1>4, <2>1, FS_AddElement
<1>6. IsFiniteSet({a, b, c, d, e} \cup {f})
  <2>1. {a, b, c, d, e} = {a, b, c, d} \cup {e}
    OBVIOUS
  <2> QED
    BY <1>5, <2>1, FS_AddElement
<1>7. IsFiniteSet({a, b, c, d, e, f} \cup {g})
  <2>1. {a, b, c, d, e, f} = {a, b, c, d, e} \cup {f}
    OBVIOUS
  <2> QED
    BY <1>6, <2>1, FS_AddElement
<1>8. IsFiniteSet({a, b, c, d, e, f, g} \cup {h})
  <2>1. {a, b, c, d, e, f, g} = {a, b, c, d, e, f} \cup {g}
    OBVIOUS
  <2> QED
    BY <1>7, <2>1, FS_AddElement
<1>9. /\ {a, b, c, d, e, f, g, h} = {a, b, c, d, e, f, g} \cup {h}
      /\ {a, b, c, d, e, f, g} = {a, b, c, d, e, f} \cup {g}
      /\ {a, b, c, d, e, f} = {a, b, c, d, e} \cup {f}
      /\ {a, b, c, d, e} = {a, b, c, d} \cup {e}
  OBVIOUS
<1> QED
  BY <1>5, <1>6, <1>7, <1>8, <1>9

\* The table of intents, as far as the answers depend on it.
LEMMA IntentTable ==
  /\ DOMAIN Intents = 1..7
  /\ Intents[1].name = "ALERT_EXPLANATION" /\ Intents[1].query = "controls_for_alert"
  /\ Intents[2].name = "RESPONSE_PROCEDURE" /\ Intents[2].query = "controls_for_alert"
  /\ Intents[3].name = "SERVICE_ALERTS" /\ Intents[3].query = "alerts_for_service"
  /\ Intents[4].name = "THREAT_MITIGATION" /\ Intents[4].query = "threats_for_service"
  /\ Intents[5].name = "USER_LINKAGE" /\ Intents[5].query = "users_high_severity"
  /\ Intents[6].name = "DEPENDENCY_IMPACT" /\ Intents[6].query = "dependency_impact"
  /\ Intents[7].name = "INCIDENT_LINKAGE" /\ Intents[7].query = "incidents_and_alerts"
  /\ \A k \in {3, 4, 6} : Intents[k].entity = "service"
  /\ \A k \in 1..7 : IsFiniteSet(Intents[k].phrases)
<1> DEFINE p1 == {"why was", "why did", "what caused", "cause of", "explain", "raised"}
           p2 == {"what should be done", "what should i do", "how do i respond",
                  "response procedure", "runbook", "remediate", "respond to"}
           p3 == {"which alerts", "what alerts", "alerts for", "alerts affecting",
                  "wrong with"}
           p4 == {"which threats", "what threats", "which techniques",
                  "attack techniques", "exposed to", "which controls", "what controls",
                  "mitigate"}
           p5 == {"which users", "what users", "which accounts", "whose account",
                  "failed logins", "under attack"}
           p6 == {"impact if", "if this service fails", "which services are affected",
                  "what is affected", "blast radius", "depends on", "goes down", "fails"}
           p7 == {"incidents", "which incidents", "what incidents", "incidents linked",
                  "incident contain", "security incident", "wider security incident",
                  "wider incident"}
<1>1. Intents = <<
        [name |-> "ALERT_EXPLANATION", entity |-> "alert", query |-> "controls_for_alert",
         phrases |-> p1],
        [name |-> "RESPONSE_PROCEDURE", entity |-> "alert", query |-> "controls_for_alert",
         phrases |-> p2],
        [name |-> "SERVICE_ALERTS", entity |-> "service", query |-> "alerts_for_service",
         phrases |-> p3],
        [name |-> "THREAT_MITIGATION", entity |-> "service", query |-> "threats_for_service",
         phrases |-> p4],
        [name |-> "USER_LINKAGE", entity |-> "none", query |-> "users_high_severity",
         phrases |-> p5],
        [name |-> "DEPENDENCY_IMPACT", entity |-> "service", query |-> "dependency_impact",
         phrases |-> p6],
        [name |-> "INCIDENT_LINKAGE", entity |-> "none", query |-> "incidents_and_alerts",
         phrases |-> p7]>>
  BY Zenon DEF Intents
<1>2. /\ IsFiniteSet(p1)
      /\ IsFiniteSet(p2)
      /\ IsFiniteSet(p3)
      /\ IsFiniteSet(p4)
      /\ IsFiniteSet(p5)
      /\ IsFiniteSet(p6)
      /\ IsFiniteSet(p7)
  BY WrittenOutIsFinite, Zenon
<1> HIDE DEF p1, p2, p3, p4, p5, p6, p7
<1> QED
  BY <1>1, <1>2

\* Seven integers have a largest, and a set of them a smallest.
LEMMA LargestOfSeven ==
  ASSUME NEW f, \A k \in 1..7 : f[k] \in Int
  PROVE  \E m \in 1..7 : \A k \in 1..7 : f[m] >= f[k]
<1> DEFINE Best(n, m) == m \in 1..n /\ \A k \in 1..n : f[m] >= f[k]
<1>1. ASSUME NEW n \in 1..6, NEW m, Best(n, m)
      PROVE  \E o : Best(n + 1, o)
  <2>0. f[m] \in Int /\ f[n + 1] \in Int
    BY <1>1
  <2>1. CASE f[m] >= f[n + 1]
    <3>1. Best(n + 1, m)
      BY <1>1, <2>1
    <3> QED
      BY <3>1
  <2>2. CASE f[n + 1] >= f[m]
    <3>1. \A k \in 1..n + 1 : k = n + 1 \/ k \in 1..n
      BY <1>1
    <3>2. ASSUME NEW k \in 1..n PROVE f[n + 1] >= f[k]
      <4>1. f[m] >= f[k] /\ f[k] \in Int /\ f[m] \in Int /\ f[n + 1] \in Int
        BY <1>1
      <4> QED
        BY <2>2, <4>1
    <3>3. Best(n + 1, n + 1)
      BY <1>1, <3>1, <3>2
    <3> QED
      BY <3>3
  <2> HIDE DEF Best
  <2> QED
    BY <2>0, <2>1, <2>2
<1>2. Best(1, 1)
  OBVIOUS
<1> HIDE DEF Best
<1>3. \A n \in 1..6 : (\E m : Best(n, m)) => \E o : Best(n + 1, o)
  BY <1>1
<1>4. \E m : Best(7, m)
  BY <1>2, <1>3, 1 + 1 = 2, 2 + 1 = 3, 3 + 1 = 4, 4 + 1 = 5, 5 + 1 = 6, 6 + 1 = 7
<1> QED
  BY <1>4 DEF Best

\* A set of intents has a smallest.
LEMMA SmallestOfSome ==
  ASSUME NEW S, S \subseteq 1..7, S # {}
  PROVE  Min(S) \in S
<1>1. \E m \in S : \A k \in S : m <= k
  <2>1. CASE 1 \in S
    BY <2>1
  <2>2. CASE 1 \notin S /\ 2 \in S
    BY <2>2
  <2>3. CASE 1 \notin S /\ 2 \notin S /\ 3 \in S
    BY <2>3
  <2>4. CASE S \cap 1..3 = {} /\ 4 \in S
    BY <2>4
  <2>5. CASE S \cap 1..4 = {} /\ 5 \in S
    BY <2>5
  <2>6. CASE S \cap 1..5 = {} /\ 6 \in S
    BY <2>6
  <2>7. CASE S \cap 1..6 = {} /\ 7 \in S
    BY <2>7
  <2>8. \E n \in 1..7 : n \in S
    OBVIOUS
  <2> QED
    BY <2>1, <2>2, <2>3, <2>4, <2>5, <2>6, <2>7, <2>8
<1> QED
  BY <1>1 DEF Min

\* A question has an intent of the table, or none.
LEMMA ClassifyInTable ==
  ASSUME NEW question
  PROVE  Classify(question) \in 0..7
<1>1. \A k \in 1..7 : Score(k, question) \in Int
  <2>1. ASSUME NEW k \in 1..7 PROVE Score(k, question) \in Int
    <3>1. IsFiniteSet(Intents[k].phrases)
      BY IntentTable
    <3>2. IsFiniteSet(Intents[k].phrases \cap question.said)
      BY <3>1, FS_Subset
    <3> QED
      BY <3>2, FS_CardinalityType DEF Score
  <2> QED
    BY <2>1
<1> DEFINE f == [k \in 1..7 |-> Score(k, question)]
           best == Max({Score(k, question) : k \in DOMAIN Intents})
<1>2. PICK m \in 1..7 : \A k \in 1..7 : f[m] >= f[k]
  BY <1>1, LargestOfSeven
<1>3. best \in {Score(k, question) : k \in 1..7}
  BY <1>2, IntentTable DEF Max
<1>4. {k \in DOMAIN Intents : Score(k, question) = best} # {}
  BY <1>3, IntentTable
<1>5. {k \in DOMAIN Intents : Score(k, question) = best} \subseteq 1..7
  BY IntentTable
<1>6. Min({k \in DOMAIN Intents : Score(k, question) = best}) \in 1..7
  BY <1>4, <1>5, SmallestOfSome
<1>7. Classify(question) = IF best = 0 THEN 0
                           ELSE Min({k \in DOMAIN Intents : Score(k, question) = best})
  BY Zenon DEF Classify
<1> HIDE DEF best
<1> QED
  BY <1>6, <1>7

\* The same of all its rows together.
LEMMA EvidenceGrows ==
  ASSUME NEW g \in Graphs, NEW h \in Graphs, Grown(g, h),
         NEW key \in QueryKeys, NEW parameter
  PROVE  /\ UNION {Nodes(key, r) : r \in Rows(key, parameter, g)}
              \subseteq UNION {Nodes(key, r) : r \in Rows(key, parameter, h)}
         /\ UNION {Edges(key, r) : r \in Rows(key, parameter, g)}
              \subseteq UNION {Edges(key, r) : r \in Rows(key, parameter, h)}
<1>1. ASSUME NEW r \in Rows(key, parameter, g)
      PROVE  /\ Nodes(key, r) \subseteq UNION {Nodes(key, s) : s \in Rows(key, parameter, h)}
             /\ Edges(key, r) \subseteq UNION {Edges(key, s) : s \in Rows(key, parameter, h)}
  BY RowsGrow
<1> QED
  BY <1>1

\* A question that is answered has an intent of the table, and names a service
\* if that asks for one.
LEMMA SupportedIntent ==
  ASSUME NEW question, Supported(question)
  PROVE  /\ Classify(question) \in 1..7
         /\ Intents[Classify(question)].query \in QueryKeys
         /\ Classify(question) \in {3, 4, 6} =>
              Entity(Classify(question), question) \in Nameable
<1> DEFINE k == Classify(question)
<1>1. k # 0 /\ (Intents[k].entity # "none" => Entity(k, question) # NoName)
  BY Zenon DEF Supported
<1>2. k \in 1..7
  BY <1>1, ClassifyInTable
<1>3. Entity(k, question) =
        CASE Intents[k].entity = "alert" -> question.alert
          [] Intents[k].entity = "service" /\ question.service \in Nameable -> question.service
          [] OTHER -> NoName
  BY Zenon DEF Entity
<1> HIDE DEF k
<1>4. ASSUME k \in {3, 4, 6} PROVE Entity(k, question) \in Nameable
  <2>1. Intents[k].entity = "service"
    BY <1>4, IntentTable
  <2> QED
    BY <1>1, <1>3, <2>1
<1> QED
  BY <1>2, <1>4, IntentTable DEF QueryKeys, k

\* The evidence of a question is that of all its rows, and none without rows.
LEMMA RetrieveIs ==
  ASSUME NEW g, NEW question, NEW key, key = Intents[Classify(question)].query
  PROVE  /\ Retrieve(question, g).nodes = UNION {Nodes(key, r) : r \in Found(question, g)}
         /\ Retrieve(question, g).edges = UNION {Edges(key, r) : r \in Found(question, g)}
<1> DEFINE rows == Found(question, g)
<1>1. Retrieve(question, g) =
        IF rows = {} THEN NoEvidence
        ELSE [nodes |-> UNION {Nodes(key, r) : r \in rows},
              edges |-> UNION {Edges(key, r) : r \in rows}]
  BY Zenon DEF Retrieve
<1> HIDE DEF rows
<1> QED
  BY <1>1 DEF NoEvidence, rows

\* Its rows are those of its query, if it is answered.
LEMMA FoundIs ==
  ASSUME NEW g, NEW question
  PROVE  Found(question, g) =
           IF Supported(question)
           THEN Rows(Intents[Classify(question)].query, Entity(Classify(question), question), g)
           ELSE {}
BY Zenon DEF Found

\* A question finds no less in a larger graph.
LEMMA RetrieveGrows ==
  ASSUME NEW g \in Graphs, NEW h \in Graphs, Grown(g, h), NEW question
  PROVE  /\ Retrieve(question, g).nodes \subseteq Retrieve(question, h).nodes
         /\ Retrieve(question, g).edges \subseteq Retrieve(question, h).edges
<1> DEFINE key == Intents[Classify(question)].query
           parameter == Entity(Classify(question), question)
<1>1. \A k : /\ Retrieve(question, k).nodes = UNION {Nodes(key, r) : r \in Found(question, k)}
             /\ Retrieve(question, k).edges = UNION {Edges(key, r) : r \in Found(question, k)}
  BY RetrieveIs
<1>2. \A k : Found(question, k) = IF Supported(question) THEN Rows(key, parameter, k) ELSE {}
  BY FoundIs
<1>3. Supported(question) => key \in QueryKeys
  BY SupportedIntent
<1> HIDE DEF key, parameter
<1>4. CASE ~Supported(question)
  BY <1>1, <1>2, <1>4
<1>5. CASE Supported(question)
  BY <1>1, <1>2, <1>3, <1>5, EvidenceGrows
<1> QED
  BY <1>4, <1>5

\* An alert's picture has no less in a larger graph.
LEMMA NeighbourhoodGrows ==
  ASSUME NEW g \in Graphs, NEW h \in Graphs, Grown(g, h), NEW alert
  PROVE  Neighbourhood(g, alert) \subseteq Neighbourhood(h, alert)
<1> DEFINE Own(k, a) ==
      (EvidenceOf[a] \X {"CREATED_ALERT"} \X {a})
         \cup ({a} \X {"INDICATES"} \X Indicated(k, a))
         \cup {<<i, "CONTAINS", a>> : i \in {j \in Incidents : <<j, a>> \in k.contains}}
      Behind(k, a) ==
        (UNION {TechniqueEdges(t) : t \in Indicated(k, a)})
          \cup {<<UserOf[e], "TRIGGERED", e>> : e \in {f \in EvidenceOf[a] : UserOf[f] # NoName}}
<1>1. \A k : Neighbourhood(k, alert) = (UNION {Own(k, a) : a \in k.alerts \cap {alert}})
                                        \cup UNION {Behind(k, a) : a \in k.alerts \cap {alert}}
  BY Zenon DEF Neighbourhood, OwnEdges
<1>2. \A a : Indicated(g, a) \subseteq Indicated(h, a)
  BY DEF Indicated, Grown
<1>3. \A a : Own(g, a) \subseteq Own(h, a)
  BY <1>2 DEF Grown
<1>4. \A a : Behind(g, a) \subseteq Behind(h, a)
  BY <1>2
<1> HIDE DEF Own, Behind
<1> QED
  BY <1>1, <1>3, <1>4 DEF Grown

\* What the screens let through.
WellAsked(ask) ==
  /\ ask.kind \in {"ask", "query", "alerts", "neighbourhood"}
  /\ ask.kind = "query" => ask.key \in QueryKeys

\* What a request reads of a graph it reads of a larger one.
LEMMA ReadsGrow ==
  ASSUME NEW g \in Graphs, NEW h \in Graphs, Grown(g, h), NEW ask, WellAsked(ask)
  PROVE  Reads(ask, g) \subseteq Reads(ask, h)
<1>1. CASE ask.kind = "ask"
  <2>1. \A k : Reads(ask, k) = Retrieve(ask.question, k).nodes \cup Retrieve(ask.question, k).edges
    BY <1>1, Zenon DEF Reads
  <2> QED
    BY <2>1, RetrieveGrows
<1>2. CASE ask.kind = "query"
  <2>1. ask.key \in QueryKeys
    BY <1>2 DEF WellAsked
  <2>2. \A k : Reads(ask, k) = UNION {Nodes(ask.key, r) \cup Edges(ask.key, r) :
                                        r \in Rows(ask.key, ask.parameter, k)}
    BY <1>2, Zenon DEF Reads
  <2>3. ASSUME NEW r \in Rows(ask.key, ask.parameter, g)
        PROVE  Nodes(ask.key, r) \cup Edges(ask.key, r) \subseteq Reads(ask, h)
    <3>1. PICK s \in Rows(ask.key, ask.parameter, h) :
            /\ Nodes(ask.key, r) \subseteq Nodes(ask.key, s)
            /\ Edges(ask.key, r) \subseteq Edges(ask.key, s)
      BY <2>1, RowsGrow
    <3>2. Nodes(ask.key, s) \cup Edges(ask.key, s) \subseteq Reads(ask, h)
      BY <2>2
    <3> QED
      BY <3>1, <3>2
  <2> QED
    BY <2>2, <2>3
<1>3. CASE ask.kind = "alerts"
  BY <1>3 DEF Reads, Grown
<1>4. CASE ask.kind = "neighbourhood"
  <2>1. \A k : Reads(ask, k) = Neighbourhood(k, ask.parameter)
    BY <1>4 DEF Reads
  <2> QED
    BY <2>1, NeighbourhoodGrows
<1> QED
  BY <1>1, <1>2, <1>3, <1>4 DEF WellAsked

-----------------------------------------------------------------------------
(* What the templates state that more of the graph leaves as it is.        *)

Explained(g, alert) ==
  UNION {{<<a, "created-by", RuleOf[a]>>, <<a, "indicates", TechniqueOf[RuleOf[a]]>>} :
           a \in g.indicates \cap {alert}}

Advised(g, alert) ==
  UNION {{<<a, "advised-by", RuleOf[a]>>}
           \cup {<<c, "helps-against", a>> : c \in Controls(TechniqueOf[RuleOf[a]])}
           \cup {<<d, "covers", a>> : d \in Runbooks(TechniqueOf[RuleOf[a]])} :
             a \in g.indicates \cap {alert}}

Affecting(g, service) == {a \in g.alerts : AffectedService[a] = service}
OfAlerts(g, service) ==
  UNION {{<<a, "affects", service>>, <<a, "created-by", RuleOf[a]>>,
          <<a, "rated", SeverityOf[a]>>, <<a, "is", "OPEN">>} : a \in Affecting(g, service)}

Threatening(g, service) == {t \in Threats : g.knowledge /\ <<t, service>> \in Targets}
OfThreats(g, service) ==
  UNION {{<<t, "targets", service>>} \cup {<<c, "protects", service>> : c \in Controls(t)} :
           t \in Threatening(g, service)}

Needing(g, service) ==
  IF g.topology /\ service = "asset-service" THEN {"incident-service"} ELSE {}
OfServices(g, service) == {<<s, "needs", service, 1>> : s \in Needing(g, service)}

OfIncidents(g) ==
  {<<i, "AFFECTS", AssetOf[i]>> : i \in {j \in g.incidents : AssetOf[j] # NoName}}
    \cup {<<p[1], "CONTAINS", p[2]>> : p \in g.contains}
    \cup {<<p[2], "created-by", RuleOf[p[2]]>> : p \in g.contains}

\* What the template of the k-th intent does.
Lasting(k, entity, g) ==
  CASE k = 1 -> Explained(g, entity) \cup Advised(g, entity)
    [] k = 2 -> Advised(g, entity)
    [] k = 3 -> OfAlerts(g, entity)
    [] k = 4 -> OfThreats(g, entity)
    [] k = 5 -> {}
    [] k = 6 -> OfServices(g, entity)
    [] k = 7 -> OfIncidents(g)

\* A larger graph leaves it as it is.
LEMMA LastingGrows ==
  ASSUME NEW g \in Graphs, NEW h \in Graphs, Grown(g, h), NEW k \in 1..7, NEW entity
  PROVE  Lasting(k, entity, g) \subseteq Lasting(k, entity, h)
<1>1. Explained(g, entity) \subseteq Explained(h, entity)
  BY DEF Explained, Grown
<1>2. Advised(g, entity) \subseteq Advised(h, entity)
  BY DEF Advised, Grown
<1>3. OfAlerts(g, entity) \subseteq OfAlerts(h, entity)
  BY DEF OfAlerts, Affecting, Grown
<1>4. OfThreats(g, entity) \subseteq OfThreats(h, entity)
  BY DEF OfThreats, Threatening, Grown
<1>5. OfServices(g, entity) \subseteq OfServices(h, entity)
  BY DEF OfServices, Needing, Grown
<1>6. OfIncidents(g) \subseteq OfIncidents(h)
  BY DEF OfIncidents, Grown
<1> QED
  BY <1>1, <1>2, <1>3, <1>4, <1>5, <1>6 DEF Lasting
-----------------------------------------------------------------------------
(* What each template states.                                              *)

\* The keys of the nodes of a label, when all nodes are pairs.
LEMMA KeysAre ==
  ASSUME NEW e, NEW label, NEW K, \A n \in e.nodes : n = <<n[1], n[2]>>,
         \A x : <<label, x>> \in e.nodes <=> x \in K
  PROVE  Keys(e, label) = K
<1>1. ASSUME NEW x \in Keys(e, label) PROVE x \in K
  <2>1. PICK n \in e.nodes : n[1] = label /\ x = n[2]
    BY DEF Keys
  <2>2. n = <<label, x>>
    BY <2>1
  <2> QED
    BY <2>2
<1>2. ASSUME NEW x \in K PROVE x \in Keys(e, label)
  <2>1. <<label, x>> \in e.nodes /\ <<label, x>>[1] = label /\ <<label, x>>[2] = x
    BY <1>2
  <2> QED
    BY <2>1 DEF Keys
<1> QED
  BY <1>1, <1>2

\* The same property of several nodes, and the words that state it.
Of(A, name, f) == {<<a, name, f[a]>> : a \in A}

\* Wording them is wording each.
LEMMA WordsOf ==
  ASSUME NEW A, NEW f, NEW name, NEW words
  PROVE  Worded(Of(A, name, f), words) = Of(A, words, f)
<1> DEFINE p(a) == <<a, name, f[a]>>
           w(a) == <<a, words, f[a]>>
<1>1. \A a : <<p(a)[1], words, p(a)[3]>> = w(a)
  OBVIOUS
<1>2. Of(A, name, f) = {p(a) : a \in A} /\ Of(A, words, f) = {w(a) : a \in A}
  BY DEF Of
<1> HIDE DEF p, w
<1> QED
  BY <1>1, <1>2 DEF Worded

\* Of an alert, the explanation and the response are what it indicates and what
\* is known of that, and nothing before it indicates anything.
LEMMA AlertWords ==
  ASSUME NEW g \in Graphs, NEW alert, NEW e, NEW kept,
         e.nodes = UNION {Nodes("controls_for_alert", r) : r \in ControlsForAlert(g, alert)},
         kept = UNION {Properties("controls_for_alert", r) : r \in ControlsForAlert(g, alert)}
  PROVE  Explanation(e, kept) = Explained(g, alert) /\ Response(e, kept) = Advised(g, alert)
<1> DEFINE t == TechniqueOf[RuleOf[alert]]
           row == [alert |-> alert, rule |-> RuleOf[alert], technique |-> t,
                   controls |-> Controls(t), runbooks |-> Runbooks(t)]
           nodes == {<<"Alert", alert>>, <<"Threat", t>>}
                      \cup ({"Control"} \X Controls(t)) \cup ({"Document"} \X Runbooks(t))
           rule == <<alert, "ruleName", RuleOf[alert]>>
<1>1. g.indicates \subseteq g.alerts
  BY DEF Graphs
<1>2. ControlsForAlert(g, alert) = {row : a \in g.indicates \cap {alert}}
  BY <1>1 DEF ControlsForAlert, Indicated
<1>3. Nodes("controls_for_alert", row) = nodes /\ Properties("controls_for_alert", row) = {rule}
  BY DEF Nodes, Properties
<1> HIDE DEF row, nodes
<1>4. CASE alert \in g.indicates
  <2>1. e.nodes = nodes /\ kept = {rule}
    BY <1>2, <1>3, <1>4
  <2> HIDE DEF t
  <2>2. /\ Keys(e, "Alert") = {alert} /\ Keys(e, "Threat") = {t}
        /\ Keys(e, "Control") = Controls(t) /\ Keys(e, "Document") = Runbooks(t)
    <3>1. /\ \A n \in e.nodes : n = <<n[1], n[2]>>
          /\ \A x : <<"Alert", x>> \in e.nodes <=> x \in {alert}
          /\ \A x : <<"Threat", x>> \in e.nodes <=> x \in {t}
          /\ \A x : <<"Control", x>> \in e.nodes <=> x \in Controls(t)
          /\ \A x : <<"Document", x>> \in e.nodes <=> x \in Runbooks(t)
      BY <2>1 DEF nodes
    <3>2. Keys(e, "Alert") = {alert}
      <4> DEFINE K == {alert}
      <4>1. \A x : <<"Alert", x>> \in e.nodes <=> x \in K
        BY <3>1
      <4> HIDE DEF K
      <4>2. Keys(e, "Alert") = K
        BY <3>1, <4>1, KeysAre, Zenon
      <4> QED
        BY <4>2 DEF K
    <3>4. Keys(e, "Threat") = {t}
      <4> DEFINE K == {t}
      <4>1. \A x : <<"Threat", x>> \in e.nodes <=> x \in K
        BY <3>1
      <4> HIDE DEF K
      <4>2. Keys(e, "Threat") = K
        BY <3>1, <4>1, KeysAre, Zenon
      <4> QED
        BY <4>2 DEF K
    <3>3. Keys(e, "Control") = Controls(t) /\ Keys(e, "Document") = Runbooks(t)
      BY <3>1, KeysAre, Zenon
    <3> QED
      BY <3>2, <3>3, <3>4
  <2>3. Stated(e, "Alert", kept, "ruleName") = {rule}
    BY <2>1, <2>2 DEF Stated
  <2>9. \A words : Worded({rule}, words) = {<<alert, words, RuleOf[alert]>>}
    <3>1. rule[1] = alert /\ rule[3] = RuleOf[alert]
      OBVIOUS
    <3> HIDE DEF rule
    <3> QED
      BY <3>1 DEF Worded
  <2>4. CreatedBy(e, kept) = {<<alert, "created-by", RuleOf[alert]>>}
    BY <2>3, <2>9, Zenon DEF CreatedBy
  <2>5. Explained(g, alert) = {<<alert, "created-by", RuleOf[alert]>>, <<alert, "indicates", t>>}
    BY <1>4 DEF Explained, t
  <2>6. Explanation(e, kept) = Explained(g, alert)
    BY <2>2, <2>4, <2>5 DEF Explanation
  <2>7. Advised(g, alert) = {<<alert, "advised-by", RuleOf[alert]>>}
           \cup {<<c, "helps-against", alert>> : c \in Controls(t)}
           \cup {<<d, "covers", alert>> : d \in Runbooks(t)}
    BY <1>4 DEF Advised, t
  <2>8. Response(e, kept) = Advised(g, alert)
    <3>1. Worded(Stated(e, "Alert", kept, "ruleName"), "advised-by")
            = {<<alert, "advised-by", RuleOf[alert]>>}
      BY <2>3, <2>9, Zenon
    <3>2. UNION {{<<c, "helps-against", a>> : c \in Keys(e, "Control")}
                   \cup {<<d, "covers", a>> : d \in Keys(e, "Document")} : a \in Keys(e, "Alert")}
            = {<<c, "helps-against", alert>> : c \in Controls(t)}
                \cup {<<d, "covers", alert>> : d \in Runbooks(t)}
      BY <2>2
    <3> QED
      BY <2>7, <3>1, <3>2 DEF Response
  <2> QED
    BY <2>6, <2>8
<1>5. CASE alert \notin g.indicates
  <2>1. e.nodes = {} /\ kept = {}
    BY <1>2, <1>5
  <2>2. Keys(e, "Alert") = {} /\ Stated(e, "Alert", kept, "ruleName") = {}
    BY <2>1 DEF Keys, Stated
  <2>3. \A words : Worded({}, words) = {}
    BY DEF Worded
  <2>4. Explanation(e, kept) = {} /\ Response(e, kept) = {}
    BY <2>2, <2>3 DEF Explanation, Response, CreatedBy
  <2>5. Explained(g, alert) = {} /\ Advised(g, alert) = {}
    BY <1>5 DEF Explained, Advised
  <2> QED
    BY <2>4, <2>5
<1> QED
  BY <1>4, <1>5

\* Of a service's alerts, their number and what they are.
LEMMA ServiceWords ==
  ASSUME NEW g \in Graphs, NEW service, NEW e, NEW kept,
         e.nodes = UNION {Nodes("alerts_for_service", r) : r \in AlertsForService(g, service)},
         kept = UNION {Properties("alerts_for_service", r) : r \in AlertsForService(g, service)}
  PROVE  ServiceAlerts(e, kept, service) =
           OfAlerts(g, service)
             \cup {<<"alerts-of", service, Cardinality(Affecting(g, service))>>}
<1> DEFINE A == Affecting(g, service)
           row(a) == [alert |-> a, rule |-> RuleOf[a], severity |-> SeverityOf[a],
                      status |-> "OPEN"]
           stated(a) == {<<a, "ruleName", RuleOf[a]>>, <<a, "severity", SeverityOf[a]>>,
                         <<a, "status", "OPEN">>}
<1>1. AlertsForService(g, service) = {row(a) : a \in A}
  BY DEF AlertsForService, Affecting
<1>2. \A a : /\ Nodes("alerts_for_service", row(a)) = {<<"Alert", a>>}
            /\ Properties("alerts_for_service", row(a)) = stated(a)
  BY DEF Nodes, Properties
<1> HIDE DEF A, row
<1>3. e.nodes = {<<"Alert", a>> : a \in A} /\ kept = UNION {stated(a) : a \in A}
  BY <1>1, <1>2
<1>4. Keys(e, "Alert") = A
  <2>1. /\ \A n \in e.nodes : n = <<n[1], n[2]>>
        /\ \A x : <<"Alert", x>> \in e.nodes <=> x \in A
    BY <1>3
  <2> QED
    BY <2>1, KeysAre, Zenon
<1> DEFINE open == [a \in A |-> "OPEN"]
<1>5. /\ Stated(e, "Alert", kept, "ruleName") = Of(A, "ruleName", RuleOf)
      /\ Stated(e, "Alert", kept, "severity") = Of(A, "severity", SeverityOf)
      /\ Stated(e, "Alert", kept, "status") = Of(A, "status", open)
  BY <1>3, <1>4 DEF Stated, Of
<1> HIDE DEF open
<1>6. /\ CreatedBy(e, kept) = Of(A, "created-by", RuleOf)
      /\ Worded(Stated(e, "Alert", kept, "severity"), "rated") = Of(A, "rated", SeverityOf)
      /\ Worded(Stated(e, "Alert", kept, "status"), "is") = Of(A, "is", open)
  <2>1. Worded(Of(A, "ruleName", RuleOf), "created-by") = Of(A, "created-by", RuleOf)
    BY WordsOf
  <2>2. Worded(Of(A, "severity", SeverityOf), "rated") = Of(A, "rated", SeverityOf)
    BY WordsOf
  <2>3. Worded(Of(A, "status", open), "is") = Of(A, "is", open)
    BY WordsOf
  <2> QED
    BY <1>5, <2>1, <2>2, <2>3, Zenon DEF CreatedBy
<1>7. ServiceAlerts(e, kept, service) =
        {<<"alerts-of", service, Cardinality(A)>>} \cup {<<a, "affects", service>> : a \in A}
          \cup Of(A, "created-by", RuleOf) \cup Of(A, "rated", SeverityOf) \cup Of(A, "is", open)
  BY <1>4, <1>6, Zenon DEF ServiceAlerts
<1>8. OfAlerts(g, service) =
        {<<a, "affects", service>> : a \in A} \cup Of(A, "created-by", RuleOf)
          \cup Of(A, "rated", SeverityOf) \cup Of(A, "is", open)
  BY DEF OfAlerts, Of, A, open
<1> QED
  BY <1>7, <1>8 DEF A

\* Of the threats to a service, which they are and what mitigates them.
LEMMA ThreatWords ==
  ASSUME NEW g \in Graphs, NEW service, NEW e,
         e.nodes = UNION {Nodes("threats_for_service", r) : r \in ThreatsForService(g, service)}
  PROVE  ThreatMitigation(e, service) = OfThreats(g, service)
<1> DEFINE T == Threatening(g, service)
           weak(t) == {p[2] : p \in {q \in Exploits : q[1] = t}}
           row(t) == [technique |-> t, vulnerabilities |-> weak(t), controls |-> Controls(t)]
           nodes(t) == {<<"Threat", t>>} \cup ({"Control"} \X Controls(t))
                         \cup ({"Vulnerability"} \X weak(t))
           controls == UNION {Controls(t) : t \in T}
<1>1. ThreatsForService(g, service) = {row(t) : t \in T}
  BY DEF ThreatsForService, Threatening
<1>2. \A t : Nodes("threats_for_service", row(t)) = nodes(t)
  BY DEF Nodes
<1> HIDE DEF T, row
<1>3. e.nodes = UNION {nodes(t) : t \in T}
  <2> HIDE DEF nodes
  <2> QED
    BY <1>1, <1>2
<1> HIDE DEF weak
<1>4. /\ \A n \in e.nodes : n = <<n[1], n[2]>>
      /\ \A x : <<"Threat", x>> \in e.nodes <=> x \in T
      /\ \A x : <<"Control", x>> \in e.nodes <=> x \in controls
  BY <1>3
<1> HIDE DEF controls
<1>5. Keys(e, "Threat") = T /\ Keys(e, "Control") = controls
  BY <1>4, KeysAre, Zenon
<1>6. ThreatMitigation(e, service) = {<<t, "targets", service>> : t \in T}
                                       \cup {<<c, "protects", service>> : c \in controls}
  BY <1>5, Zenon DEF ThreatMitigation
<1>7. OfThreats(g, service) = {<<t, "targets", service>> : t \in T}
                                \cup {<<c, "protects", service>> : c \in controls}
  BY DEF OfThreats, T, controls
<1> QED
  BY <1>6, <1>7

\* Of the services that need one, their number and which they are.
LEMMA ImpactWords ==
  ASSUME NEW g \in Graphs, NEW service, NEW e, NEW kept,
         e.nodes = UNION {Nodes("dependency_impact", r) : r \in DependencyImpact(g, service)},
         kept = UNION {Properties("dependency_impact", r) : r \in DependencyImpact(g, service)}
  PROVE  Impact(e, kept, service) =
           OfServices(g, service)
             \cup {<<"impacted-by", service, Cardinality(Needing(g, service))>>}
<1> DEFINE S == Needing(g, service)
           rows == DependencyImpact(g, service)
<1>1. {r.impacted : r \in rows} = S /\ \A r \in rows : r.hops = 1
  BY ImpactIsOneHop DEF Needing
<1>2. \A r : /\ Nodes("dependency_impact", r) = {<<"Service", r.impacted>>}
            /\ Properties("dependency_impact", r) = {<<r.impacted, "hops", r.hops>>}
  BY DEF Nodes, Properties
<1> HIDE DEF S, rows
<1>3. e.nodes = {<<"Service", s>> : s \in S}
  <2>1. e.nodes = {<<"Service", r.impacted>> : r \in rows}
    BY <1>2 DEF rows
  <2> QED
    BY <1>1, <2>1
<1>4. kept = {<<s, "hops", 1>> : s \in S}
  <2>1. kept = {<<r.impacted, "hops", r.hops>> : r \in rows}
    BY <1>2 DEF rows
  <2> QED
    BY <1>1, <2>1
<1>5. Keys(e, "Service") = S
  <2>1. /\ \A n \in e.nodes : n = <<n[1], n[2]>>
        /\ \A x : <<"Service", x>> \in e.nodes <=> x \in S
    BY <1>3
  <2> QED
    BY <2>1, KeysAre, Zenon
<1>6. Stated(e, "Service", kept, "hops") = {<<s, "hops", 1>> : s \in S}
  BY <1>4, <1>5 DEF Stated
<1>7. {<<p[1], "needs", service, p[3]>> : p \in Stated(e, "Service", kept, "hops")}
        = OfServices(g, service)
  <2> DEFINE p(s) == <<s, "hops", 1>>
             w(s) == <<s, "needs", service, 1>>
  <2>1. \A s : <<p(s)[1], "needs", service, p(s)[3]>> = w(s)
    OBVIOUS
  <2>2. /\ Stated(e, "Service", kept, "hops") = {p(s) : s \in S}
        /\ OfServices(g, service) = {w(s) : s \in S}
    BY <1>6 DEF OfServices, S
  <2> HIDE DEF p, w
  <2> QED
    BY <2>1, <2>2
<1> QED
  BY <1>5, <1>7 DEF Impact, S

\* Of incidents, their alerts and assets; and of the moment, their number, their
\* severity and which have no alert.
LEMMA IncidentWords ==
  ASSUME NEW g \in Graphs, NEW e, NEW kept,
         e.nodes = UNION {Nodes("incidents_and_alerts", r) : r \in IncidentsAndAlerts(g)},
         e.edges = UNION {Edges("incidents_and_alerts", r) : r \in IncidentsAndAlerts(g)},
         kept = UNION {Properties("incidents_and_alerts", r) : r \in IncidentsAndAlerts(g)}
  PROVE  IncidentLinkage(e, kept) =
           OfIncidents(g)
             \cup {<<"incidents", Cardinality(g.incidents)>>}
             \cup {<<i, "rated", g.severity[i]>> : i \in g.incidents}
             \cup {<<i, "CONTAINS", NoName>> :
                      i \in {j \in g.incidents : \A a \in Alerts : <<j, a>> \notin g.contains}}
<1> DEFINE I == g.incidents
           inside(i) == {a \in Alerts : <<i, a>> \in g.contains}
           against(i) == {AssetOf[i]} \ {NoName}
           row(i) == [incident |-> i, severity |-> g.severity[i], asset |-> AssetOf[i],
                      alerts |-> {<<a, RuleOf[a]>> : a \in inside(i)}]
           nodes(i) == {<<"Incident", i>>} \cup {<<"Alert", a>> : a \in inside(i)}
                         \cup ({"Asset"} \X against(i))
           edges(i) == {<<i, "AFFECTS", a>> : a \in against(i)}
                         \cup {<<i, "CONTAINS", a>> : a \in inside(i)}
           stated(i) == {<<i, "severity", g.severity[i]>>}
                          \cup {<<a, "ruleName", RuleOf[a]>> : a \in inside(i)}
           grouped == UNION {inside(i) : i \in I}
<1>1. IncidentsAndAlerts(g) = {row(i) : i \in I}
  BY DEF IncidentsAndAlerts
<1>2. ASSUME NEW i
      PROVE  /\ Nodes("incidents_and_alerts", row(i)) = nodes(i)
             /\ Edges("incidents_and_alerts", row(i)) = edges(i)
             /\ Properties("incidents_and_alerts", row(i)) = stated(i)
  <2> DEFINE pairs == {<<a, RuleOf[a]>> : a \in inside(i)}
  <2>1. /\ row(i).incident = i /\ row(i).severity = g.severity[i] /\ row(i).asset = AssetOf[i]
        /\ row(i).alerts = pairs
    OBVIOUS
  <2>2. /\ {<<"Alert", a[1]>> : a \in pairs} = {<<"Alert", a>> : a \in inside(i)}
        /\ {<<i, "CONTAINS", a[1]>> : a \in pairs} = {<<i, "CONTAINS", a>> : a \in inside(i)}
        /\ {<<a[1], "ruleName", a[2]>> : a \in pairs}
             = {<<a, "ruleName", RuleOf[a]>> : a \in inside(i)}
    <3> DEFINE pair(a) == <<a, RuleOf[a]>>
    <3>1. (\A a : pair(a)[1] = a /\ pair(a)[2] = RuleOf[a]) /\ pairs = {pair(a) : a \in inside(i)}
      OBVIOUS
    <3> HIDE DEF inside, pair, pairs
    <3>2. {<<"Alert", a[1]>> : a \in pairs} = {<<"Alert", a>> : a \in inside(i)}
      BY <3>1
    <3>3. {<<i, "CONTAINS", a[1]>> : a \in pairs} = {<<i, "CONTAINS", a>> : a \in inside(i)}
      BY <3>1
    <3>4. {<<a[1], "ruleName", a[2]>> : a \in pairs}
            = {<<a, "ruleName", RuleOf[a]>> : a \in inside(i)}
      BY <3>1
    <3> QED
      BY <3>2, <3>3, <3>4
  <2> HIDE DEF row, inside, pairs
  <2>3. Nodes("incidents_and_alerts", row(i)) = nodes(i)
    BY <2>1, <2>2 DEF Nodes
  <2>4. Edges("incidents_and_alerts", row(i)) = edges(i)
    BY <2>1, <2>2 DEF Edges
  <2>5. Properties("incidents_and_alerts", row(i)) = stated(i)
    BY <2>1, <2>2 DEF Properties
  <2> QED
    BY <2>3, <2>4, <2>5
<1> HIDE DEF row
<1>3. /\ e.nodes = UNION {nodes(i) : i \in I} /\ e.edges = UNION {edges(i) : i \in I}
      /\ kept = UNION {stated(i) : i \in I}
  <2> HIDE DEF nodes, edges, stated
  <2> QED
    BY <1>1, <1>2
<1> HIDE DEF inside, against
<1>4. /\ \A n \in e.nodes : n = <<n[1], n[2]>>
      /\ \A x : <<"Incident", x>> \in e.nodes <=> x \in I
      /\ \A x : <<"Alert", x>> \in e.nodes <=> x \in grouped
  BY <1>3
<1> HIDE DEF I, grouped
<1>5. Keys(e, "Incident") = I /\ Keys(e, "Alert") = grouped
  BY <1>4, KeysAre, Zenon
<1>6. /\ Stated(e, "Incident", kept, "severity") = Of(I, "severity", g.severity)
      /\ Stated(e, "Alert", kept, "ruleName") = Of(grouped, "ruleName", RuleOf)
  <2>1. /\ \A p \in Of(I, "severity", g.severity) : p \in kept /\ p[1] \in I /\ p[2] = "severity"
        /\ \A p \in kept : p[2] = "severity" => p \in Of(I, "severity", g.severity)
    BY <1>3 DEF Of
  <2>2. /\ \A p \in Of(grouped, "ruleName", RuleOf) :
               p \in kept /\ p[1] \in grouped /\ p[2] = "ruleName"
        /\ \A p \in kept : p[2] = "ruleName" => p \in Of(grouped, "ruleName", RuleOf)
    BY <1>3 DEF Of, grouped
  <2> QED
    BY <1>5, <2>1, <2>2 DEF Stated
<1>7. /\ Worded(Stated(e, "Incident", kept, "severity"), "rated") = Of(I, "rated", g.severity)
      /\ CreatedBy(e, kept) = Of(grouped, "created-by", RuleOf)
  <2>1. Worded(Of(I, "severity", g.severity), "rated") = Of(I, "rated", g.severity)
    BY WordsOf
  <2>2. Worded(Of(grouped, "ruleName", RuleOf), "created-by") = Of(grouped, "created-by", RuleOf)
    BY WordsOf
  <2> QED
    BY <1>6, <2>1, <2>2, Zenon DEF CreatedBy
<1>8. \A p \in g.contains : p = <<p[1], p[2]>> /\ p[1] \in I /\ p[2] \in inside(p[1])
  BY DEF Graphs, I, inside
<1>9. \A i \in I : \A a \in inside(i) : <<i, a>> \in g.contains
  BY DEF inside
<1>10. Typed(e, "AFFECTS") = {<<i, "AFFECTS", AssetOf[i]>> : i \in {j \in I : AssetOf[j] # NoName}}
  BY <1>3 DEF Typed, against
<1>11. Typed(e, "CONTAINS") = {<<p[1], "CONTAINS", p[2]>> : p \in g.contains}
  <2>1. Typed(e, "CONTAINS") = UNION {{<<i, "CONTAINS", a>> : a \in inside(i)} : i \in I}
    BY <1>3 DEF Typed
  <2>2. UNION {{<<i, "CONTAINS", a>> : a \in inside(i)} : i \in I}
          = {<<p[1], "CONTAINS", p[2]>> : p \in g.contains}
    <3> DEFINE edge(i, a) == <<i, "CONTAINS", a>>
    <3> HIDE DEF edge
    <3>1. \A i \in I : \A a \in inside(i) : \E p \in g.contains : p[1] = i /\ p[2] = a
      <4>1. \A i, a : <<i, a>>[1] = i /\ <<i, a>>[2] = a
        OBVIOUS
      <4> QED
        BY <1>9, <4>1
    <3>2. UNION {{edge(i, a) : a \in inside(i)} : i \in I} = {edge(p[1], p[2]) : p \in g.contains}
      BY <1>8, <3>1
    <3> QED
      BY <3>2 DEF edge
  <2> QED
    BY <2>1, <2>2
<1>12. Of(grouped, "created-by", RuleOf) = {<<p[2], "created-by", RuleOf[p[2]]>> : p \in g.contains}
  <2> DEFINE word(a) == <<a, "created-by", RuleOf[a]>>
  <2>1. grouped = {p[2] : p \in g.contains}
    <3>1. \A i \in I : \A a \in inside(i) : \E p \in g.contains : p[2] = a
      <4>1. \A i, a : <<i, a>>[2] = a
        OBVIOUS
      <4> QED
        BY <1>9, <4>1
    <3> QED
      BY <1>8, <3>1 DEF grouped
  <2>2. Of(grouped, "created-by", RuleOf) = {word(a) : a \in grouped}
    BY DEF Of
  <2> HIDE DEF word
  <2>3. {word(a) : a \in grouped} = {word(p[2]) : p \in g.contains}
    BY <2>1
  <2> QED
    BY <2>2, <2>3 DEF word
<1>13. \A i \in I : Ends(e, "CONTAINS", i) = {} <=> \A a \in Alerts : <<i, a>> \notin g.contains
  <2> TAKE i \in I
  <2>1. Ends(e, "CONTAINS", i) = {} <=> {f \in Typed(e, "CONTAINS") : f[1] = i} = {}
    BY DEF Ends
  <2>2. {f \in Typed(e, "CONTAINS") : f[1] = i} = {} <=> \A p \in g.contains : p[1] # i
    <3> DEFINE edge(p) == <<p[1], "CONTAINS", p[2]>>
    <3>1. (\A p : edge(p)[1] = p[1]) /\ Typed(e, "CONTAINS") = {edge(p) : p \in g.contains}
      BY <1>11
    <3> HIDE DEF edge
    <3> QED
      BY <3>1
  <2>3. (\A p \in g.contains : p[1] # i) <=> \A a \in Alerts : <<i, a>> \notin g.contains
    <3>1. \A p \in g.contains : p = <<p[1], p[2]>> /\ p[2] \in Alerts
      BY DEF Graphs
    <3>2. \A a : <<i, a>>[1] = i
      OBVIOUS
    <3> QED
      BY <3>1, <3>2
  <2> QED
    BY <2>1, <2>2, <2>3
<1>14. {<<i, "CONTAINS", NoName>> : i \in {j \in I : Ends(e, "CONTAINS", j) = {}}}
         = {<<i, "CONTAINS", NoName>> :
              i \in {j \in I : \A a \in Alerts : <<j, a>> \notin g.contains}}
  BY <1>13
<1>15. IncidentLinkage(e, kept) =
         {<<"incidents", Cardinality(I)>>} \cup Of(I, "rated", g.severity)
           \cup Typed(e, "AFFECTS") \cup Typed(e, "CONTAINS")
           \cup Of(grouped, "created-by", RuleOf)
           \cup {<<i, "CONTAINS", NoName>> : i \in {j \in I : Ends(e, "CONTAINS", j) = {}}}
  BY <1>5, <1>7, Zenon DEF IncidentLinkage
<1>16. Of(I, "rated", g.severity) = {<<i, "rated", g.severity[i]>> : i \in I}
  BY DEF Of
<1> QED
  BY <1>10, <1>11, <1>12, <1>14, <1>15, <1>16 DEF OfIncidents, I

\* Of users, their number, and for each a rule and a severity of alerts that the
\* user's events raised and the number of all such events.  All is of the moment.
LEMMA UserWords ==
  ASSUME NEW g \in Graphs, NEW e, NEW kept, NEW rows, rows = UsersHighSeverity(g),
         NEW first, first \in FirstRows(rows),
         e.nodes = UNION {Nodes("users_high_severity", r) : r \in rows},
         e.edges = UNION {Edges("users_high_severity", r) : r \in rows},
         kept = UNION {Properties("users_high_severity", first[u]) : u \in DOMAIN first}
  PROVE  UserLinkage(e, kept) \subseteq FactsOfTheMoment(g)
<1> DEFINE linking(u) == Linking(g, u)
           users == LinkedUsers(g)
           raised(u) == {b \in g.alerts \cap Grave : \E f \in EvidenceOf[b] : UserOf[f] = u}
           linked == UNION {{<<u, "linked", RuleOf[a], SeverityOf[a], Cardinality(linking(u))>> :
                               a \in raised(u)} : u \in users}
<1>1. g.alerts \subseteq Alerts /\ \A a \in Alerts : EvidenceOf[a] \subseteq Events
      /\ RuleOf[a] \in Rules /\ SeverityOf[a] \in Severities
  BY GraphAssumption DEF Graphs
<1>2. \A u : u \in users <=> u # NoName /\ linking(u) # {}
  <2>1. users = {UserOf[f] : f \in {d \in Events : Linking(g, UserOf[d]) # {}}} \ {NoName}
    BY DEF LinkedUsers
  <2>2. \A u : \A f \in linking(u) : f \in Events /\ UserOf[f] = u
    BY DEF Linking
  <2> HIDE DEF users
  <2> QED
    BY <2>1, <2>2
<1>3. ASSUME NEW r \in rows
      PROVE  /\ r.user # NoName
             /\ \E a \in raised(r.user) : RuleOf[a] = r.rule /\ SeverityOf[a] = r.severity
             /\ r.events \subseteq linking(r.user)
  <2> DEFINE between(k) == Between(g, k[1], k[2], k[3])
             row(k) == [user |-> k[1], rule |-> k[2], severity |-> k[3],
                        alerts |-> Cardinality(between(k)),
                        events |-> {f \in UNION {EvidenceOf[a] : a \in between(k)} :
                                      UserOf[f] = k[1]}]
             ks == {k \in ({UserOf[f] : f \in Events} \ {NoName}) \X Rules \X Severities :
                      between(k) # {}}
  <2>1. rows = {row(k) : k \in ks}
    BY DEF UsersHighSeverity
  <2>2. PICK k \in ks : r = row(k)
    BY <2>1
  <2>3. /\ r.user = k[1] /\ r.rule = k[2] /\ r.severity = k[3]
        /\ r.events = {f \in UNION {EvidenceOf[a] : a \in between(k)} : UserOf[f] = k[1]}
    BY <2>2
  <2>4. k[1] # NoName /\ between(k) # {}
    BY <2>2
  <2>5. \A a \in between(k) : a \in raised(k[1]) /\ RuleOf[a] = k[2] /\ SeverityOf[a] = k[3]
    BY DEF Between
  <2> HIDE DEF between
  <2>6. r.events \subseteq linking(k[1])
    BY <1>1, <2>3, <2>5 DEF Linking
  <2> QED
    BY <2>3, <2>4, <2>5, <2>6
<1>4. ASSUME NEW u \in users, NEW f \in linking(u)
      PROVE  \E r \in rows : r.user = u /\ f \in r.events
  <2>1. PICK a \in g.alerts \cap Grave : f \in EvidenceOf[a] /\ f \in Events /\ UserOf[f] = u
    BY DEF Linking
  <2> DEFINE B == Between(g, u, RuleOf[a], SeverityOf[a])
             k == <<u, RuleOf[a], SeverityOf[a]>>
             row == [user |-> u, rule |-> RuleOf[a], severity |-> SeverityOf[a],
                     alerts |-> Cardinality(B),
                     events |-> {d \in UNION {EvidenceOf[b] : b \in B} : UserOf[d] = u}]
  <2>2. a \in B
    BY <2>1 DEF Between
  <2>3. u \in {UserOf[d] : d \in Events} \ {NoName} /\ RuleOf[a] \in Rules /\ SeverityOf[a] \in Severities
    BY <1>1, <1>2, <2>1
  <2>4. row \in rows
    <3>1. k \in {q \in ({UserOf[d] : d \in Events} \ {NoName}) \X Rules \X Severities :
                   Between(g, q[1], q[2], q[3]) # {}}
      BY <2>2, <2>3
    <3>2. k[1] = u /\ k[2] = RuleOf[a] /\ k[3] = SeverityOf[a]
      OBVIOUS
    <3> HIDE DEF k
    <3> QED
      BY <3>1, <3>2 DEF UsersHighSeverity
  <2>5. row.user = u /\ f \in row.events
    BY <2>1, <2>2
  <2> QED
    BY <2>4, <2>5
<1> HIDE DEF linking, users, raised, linked
<1>5. \A r : /\ Nodes("users_high_severity", r) = {<<"User", r.user>>} \cup ({"Event"} \X r.events)
             /\ Edges("users_high_severity", r) = {<<r.user, "TRIGGERED", d>> : d \in r.events}
             /\ Properties("users_high_severity", r) =
                  {<<r.user, "ruleName", r.rule>>, <<r.user, "severity", r.severity>>}
  BY DEF Nodes, Edges, Properties
<1>6. {r.user : r \in rows} = users
  <2>1. ASSUME NEW r \in rows PROVE r.user \in users
    <3>1. PICK a \in raised(r.user) : TRUE
      BY <1>3
    <3>2. PICK f \in EvidenceOf[a] : UserOf[f] = r.user
      BY <3>1 DEF raised
    <3>3. f \in linking(r.user)
      BY <1>1, <3>1, <3>2 DEF Linking, raised, linking
    <3> QED
      BY <1>2, <1>3, <3>3
  <2>2. ASSUME NEW u \in users PROVE \E r \in rows : r.user = u
    BY <1>2, <1>4
  <2> QED
    BY <2>1, <2>2
<1>7. Keys(e, "User") = users
  <2>1. e.nodes = UNION {{<<"User", r.user>>} \cup ({"Event"} \X r.events) : r \in rows}
    BY <1>5
  <2>2. /\ \A n \in e.nodes : n = <<n[1], n[2]>>
        /\ \A x : <<"User", x>> \in e.nodes <=> x \in {r.user : r \in rows}
    BY <2>1
  <2>3. \A x : <<"User", x>> \in e.nodes <=> x \in users
    BY <1>6, <2>2
  <2> QED
    BY <2>2, <2>3, KeysAre, Zenon
<1>8. ASSUME NEW u \in users PROVE Ends(e, "TRIGGERED", u) = linking(u)
  <2> DEFINE edge(v, d) == <<v, "TRIGGERED", d>>
  <2>1. \A v, d : edge(v, d)[1] = v /\ edge(v, d)[2] = "TRIGGERED" /\ edge(v, d)[3] = d
    OBVIOUS
  <2>2. e.edges = UNION {{edge(r.user, d) : d \in r.events} : r \in rows}
    BY <1>5
  <2> HIDE DEF edge
  <2>3. ASSUME NEW x \in Ends(e, "TRIGGERED", u) PROVE x \in linking(u)
    <3>1. PICK f \in e.edges : f[1] = u /\ f[3] = x
      BY DEF Ends, Typed
    <3>2. PICK r \in rows : \E d \in r.events : f = edge(r.user, d)
      BY <2>2
    <3> QED
      BY <1>3, <2>1, <3>1, <3>2
  <2>4. ASSUME NEW x \in linking(u) PROVE x \in Ends(e, "TRIGGERED", u)
    <3>1. edge(u, x) \in e.edges
      BY <1>4, <2>2
    <3> QED
      BY <2>1, <3>1 DEF Ends, Typed
  <2> QED
    BY <2>3, <2>4
<1>9. DOMAIN first = users /\ \A u \in users : first[u] \in rows /\ first[u].user = u
  BY <1>6 DEF FirstRows
<1>10. kept = UNION {{<<u, "ruleName", first[u].rule>>, <<u, "severity", first[u].severity>>} :
                       u \in users}
  BY <1>5, <1>9
<1>11. /\ \A p \in Stated(e, "User", kept, "ruleName") :
            p[1] \in users /\ p[3] = first[p[1]].rule
       /\ \A p \in Stated(e, "User", kept, "severity") :
            p[1] \in users /\ p[3] = first[p[1]].severity
  BY <1>10 DEF Stated
<1>12. ASSUME NEW o \in Stated(e, "User", kept, "ruleName") \X Stated(e, "User", kept, "severity"),
              o[1][1] = o[2][1]
       PROVE  <<o[1][1], "linked", o[1][3], o[2][3],
                Cardinality(Ends(e, "TRIGGERED", o[1][1]))>> \in linked
  <2> DEFINE u == o[1][1]
  <2>1. /\ u \in users /\ o[1][3] = first[u].rule /\ o[2][3] = first[u].severity
    BY <1>11, <1>12
  <2> HIDE DEF u
  <2>2. PICK a \in raised(u) : RuleOf[a] = first[u].rule /\ SeverityOf[a] = first[u].severity
    BY <1>3, <1>9, <2>1
  <2>3. Ends(e, "TRIGGERED", u) = linking(u)
    BY <1>8, <2>1
  <2>4. <<u, "linked", RuleOf[a], SeverityOf[a], Cardinality(linking(u))>> \in linked
    BY <2>1 DEF linked
  <2> QED
    BY <2>1, <2>2, <2>3, <2>4 DEF u
<1>13. linked \subseteq FactsOfTheMoment(g) /\ <<"users", Cardinality(users)>> \in FactsOfTheMoment(g)
  BY DEF FactsOfTheMoment, linked, raised, linking, users
<1>14. UserLinkage(e, kept) \subseteq {<<"users", Cardinality(users)>>} \cup linked
  BY <1>7, <1>12 DEF UserLinkage
<1> QED
  BY <1>13, <1>14
-----------------------------------------------------------------------------
(* The facts of a graph.                                                   *)

\* What makes each lasting fact one.
LEMMA WhatIsAFact ==
  ASSUME NEW g \in Graphs
  PROVE  /\ \A a \in g.alerts : /\ <<a, "created-by", RuleOf[a]>> \in Facts(g)
                                /\ <<a, "advised-by", RuleOf[a]>> \in Facts(g)
                                /\ <<a, "rated", SeverityOf[a]>> \in Facts(g)
                                /\ <<a, "is", "OPEN">> \in Facts(g)
                                /\ <<a, "affects", AffectedService[a]>> \in Facts(g)
         /\ \A a \in g.indicates : <<a, "indicates", TechniqueOf[RuleOf[a]]>> \in Facts(g)
         /\ \A a \in g.indicates : \A c : <<c, TechniqueOf[RuleOf[a]]>> \in Mitigates =>
              <<c, "helps-against", a>> \in Facts(g)
         /\ \A a \in g.indicates : \A d : <<d, TechniqueOf[RuleOf[a]]>> \in SupportsResponseTo =>
              <<d, "covers", a>> \in Facts(g)
         /\ g.knowledge => \A t, s : <<t, s>> \in Targets =>
              /\ <<t, "targets", s>> \in Facts(g)
              /\ \A c : <<c, t>> \in Mitigates => <<c, "protects", s>> \in Facts(g)
         /\ g.topology => \A s, t : <<s, t>> \in DependsOn => <<s, "needs", t, 1>> \in Facts(g)
         /\ \A i \in g.incidents : <<i, "AFFECTS", AssetOf[i]>> \in Facts(g)
         /\ \A p \in g.contains : <<p[1], "CONTAINS", p[2]>> \in Facts(g)
<1> DEFINE
      created == {<<a, "created-by", RuleOf[a]>> : a \in g.alerts}
      advised == {<<a, "advised-by", RuleOf[a]>> : a \in g.alerts}
      rated == {<<a, "rated", SeverityOf[a]>> : a \in g.alerts}
      open == {<<a, "is", "OPEN">> : a \in g.alerts}
      affected == {<<a, "affects", AffectedService[a]>> : a \in g.alerts}
      indicated == {<<a, "indicates", TechniqueOf[RuleOf[a]]>> : a \in g.indicates}
      helping == {f \in {p[1] : p \in Mitigates} \X {"helps-against"} \X g.indicates :
                    <<f[1], TechniqueOf[RuleOf[f[3]]]>> \in Mitigates}
      covering == {f \in {p[1] : p \in SupportsResponseTo} \X {"covers"} \X g.indicates :
                    <<f[1], TechniqueOf[RuleOf[f[3]]]>> \in SupportsResponseTo}
      targeting == {<<p[1], "targets", p[2]>> : p \in IF g.knowledge THEN Targets ELSE {}}
      protecting == UNION {{<<p[1], "protects", q[2]>> : q \in {t \in Targets : t[1] = p[2]}} :
                      p \in IF g.knowledge THEN Mitigates ELSE {}}
      needing == {<<p[1], "needs", p[2], 1>> : p \in IF g.topology THEN DependsOn ELSE {}}
      linked == {<<i, "AFFECTS", AssetOf[i]>> : i \in g.incidents}
      containing == {<<p[1], "CONTAINS", p[2]>> : p \in g.contains}
<1>1. Facts(g) = created \cup advised \cup rated \cup open \cup affected
                   \cup indicated \cup helping \cup covering
                   \cup targeting \cup protecting \cup needing \cup linked \cup containing
  BY Zenon DEF Facts
<1>2. \A a \in g.alerts : /\ <<a, "created-by", RuleOf[a]>> \in created
                         /\ <<a, "advised-by", RuleOf[a]>> \in advised
                         /\ <<a, "rated", SeverityOf[a]>> \in rated
                         /\ <<a, "is", "OPEN">> \in open
                         /\ <<a, "affects", AffectedService[a]>> \in affected
  OBVIOUS
<1>3. \A a \in g.indicates : <<a, "indicates", TechniqueOf[RuleOf[a]]>> \in indicated
  OBVIOUS
<1>4. \A a \in g.indicates : \A c : <<c, TechniqueOf[RuleOf[a]]>> \in Mitigates =>
         <<c, "helps-against", a>> \in helping
  OBVIOUS
<1>5. \A a \in g.indicates : \A d : <<d, TechniqueOf[RuleOf[a]]>> \in SupportsResponseTo =>
         <<d, "covers", a>> \in covering
  OBVIOUS
<1>6. g.knowledge => \A t, s : <<t, s>> \in Targets => <<t, "targets", s>> \in targeting
  OBVIOUS
<1>7. g.knowledge => \A t, s, c : <<t, s>> \in Targets /\ <<c, t>> \in Mitigates =>
         <<c, "protects", s>> \in protecting
  OBVIOUS
<1>9. g.topology => \A s, t : <<s, t>> \in DependsOn => <<s, "needs", t, 1>> \in needing
  OBVIOUS
<1>10. /\ \A i \in g.incidents : <<i, "AFFECTS", AssetOf[i]>> \in linked
       /\ \A p \in g.contains : <<p[1], "CONTAINS", p[2]>> \in containing
  OBVIOUS
<1> HIDE DEF created, advised, rated, open, indicated, helping, covering, affected, targeting,
             protecting, needing, linked, containing
<1> QED
  BY <1>1, <1>2, <1>3, <1>4, <1>5, <1>6, <1>7, <1>9, <1>10

\* A larger graph makes no lasting fact false.
LEMMA FactsGrow ==
  ASSUME NEW g \in Graphs, NEW h \in Graphs, Grown(g, h)
  PROVE  Facts(g) \subseteq Facts(h)
<1> DEFINE
      created(k) == {<<a, "created-by", RuleOf[a]>> : a \in k.alerts}
      advised(k) == {<<a, "advised-by", RuleOf[a]>> : a \in k.alerts}
      rated(k) == {<<a, "rated", SeverityOf[a]>> : a \in k.alerts}
      open(k) == {<<a, "is", "OPEN">> : a \in k.alerts}
      affected(k) == {<<a, "affects", AffectedService[a]>> : a \in k.alerts}
      indicated(k) == {<<a, "indicates", TechniqueOf[RuleOf[a]]>> : a \in k.indicates}
      helping(k) == {f \in {p[1] : p \in Mitigates} \X {"helps-against"} \X k.indicates :
                    <<f[1], TechniqueOf[RuleOf[f[3]]]>> \in Mitigates}
      covering(k) == {f \in {p[1] : p \in SupportsResponseTo} \X {"covers"} \X k.indicates :
                    <<f[1], TechniqueOf[RuleOf[f[3]]]>> \in SupportsResponseTo}
      targeting(k) == {<<p[1], "targets", p[2]>> : p \in IF k.knowledge THEN Targets ELSE {}}
      protecting(k) == UNION {{<<p[1], "protects", q[2]>> : q \in {t \in Targets : t[1] = p[2]}} :
                      p \in IF k.knowledge THEN Mitigates ELSE {}}
      needing(k) == {<<p[1], "needs", p[2], 1>> : p \in IF k.topology THEN DependsOn ELSE {}}
      linked(k) == {<<i, "AFFECTS", AssetOf[i]>> : i \in k.incidents}
      containing(k) == {<<p[1], "CONTAINS", p[2]>> : p \in k.contains}
<1>1. \A k : Facts(k) = created(k) \cup advised(k) \cup rated(k) \cup open(k) \cup affected(k)
                   \cup indicated(k) \cup helping(k) \cup covering(k) \cup targeting(k)
                   \cup protecting(k) \cup needing(k) \cup linked(k) \cup containing(k)
  BY Zenon DEF Facts
<1>2. /\ created(g) \subseteq created(h) /\ affected(g) \subseteq affected(h)
      /\ advised(g) \subseteq advised(h) /\ rated(g) \subseteq rated(h)
      /\ open(g) \subseteq open(h)
  BY DEF Grown
<1>3. indicated(g) \subseteq indicated(h)
  BY DEF Grown
<1>4. helping(g) \subseteq helping(h) /\ covering(g) \subseteq covering(h)
  BY DEF Grown
<1>5. /\ targeting(g) \subseteq targeting(h) /\ protecting(g) \subseteq protecting(h)
      /\ needing(g) \subseteq needing(h)
  BY DEF Grown
<1>6. linked(g) \subseteq linked(h) /\ containing(g) \subseteq containing(h)
  BY DEF Grown
<1> HIDE DEF created, advised, rated, open, indicated, helping, covering, affected, targeting,
             protecting, needing, linked, containing
<1> QED
  BY <1>1, <1>2, <1>3, <1>4, <1>5, <1>6

\* The tables of the security knowledge hold pairs.
LEMMA PairsOfTables ==
  /\ \A q \in Mitigates : q = <<q[1], q[2]>>
  /\ \A q \in SupportsResponseTo : q = <<q[1], q[2]>>
<1> DEFINE lockout == "Account lockout"
           factors == "Multi-factor authentication"
           reset == "Forced password reset"
           limits == "Gateway rate limiting"
           force == "brute-force response"
           account == "suspected account compromise"
           load == "service under load"
<1>1. Mitigates = ({lockout} \X {"T1110", "T1110.001", "T1110.003"})
                    \cup ({factors} \X {"T1110", "T1110.004", "T1078"})
                    \cup ({reset} \X {"T1110", "T1078"})
                    \cup ({limits} \X {"T1498", "T1499"})
  BY Zenon DEF Mitigates
<1>2. SupportsResponseTo = {<<force, "T1110">>, <<account, "T1110">>, <<account, "T1078">>,
                            <<load, "T1498">>, <<load, "T1499">>}
  BY Zenon DEF SupportsResponseTo
<1> HIDE DEF lockout, factors, reset, limits, force, account, load
<1>3. \A q \in Mitigates : q = <<q[1], q[2]>>
  BY <1>1
<1>4. \A q \in SupportsResponseTo : q = <<q[1], q[2]>>
  BY <1>2
<1> QED
  BY <1>3, <1>4

\* What lasts of a template's statements is a fact.
LEMMA LastingAreFacts ==
  ASSUME NEW g \in Graphs, NEW k \in 1..7, NEW entity
  PROVE  Lasting(k, entity, g) \subseteq Facts(g)
<1>1. g.indicates \subseteq g.alerts /\ \A p \in g.contains : p[2] \in g.alerts
  BY DEF Graphs
<1>2. /\ \A t : \A c \in Controls(t) : <<c, t>> \in Mitigates
      /\ \A t : \A d \in Runbooks(t) : <<d, t>> \in SupportsResponseTo
  BY PairsOfTables DEF Controls, Runbooks
<1>3. Explained(g, entity) \subseteq Facts(g)
  <2>1. ASSUME NEW a \in g.indicates \cap {entity}
        PROVE  {<<a, "created-by", RuleOf[a]>>, <<a, "indicates", TechniqueOf[RuleOf[a]]>>}
                 \subseteq Facts(g)
    <3>1. <<a, "created-by", RuleOf[a]>> \in Facts(g)
      BY <1>1, WhatIsAFact
    <3>2. <<a, "indicates", TechniqueOf[RuleOf[a]]>> \in Facts(g)
      BY WhatIsAFact
    <3> QED
      BY <3>1, <3>2
  <2> QED
    BY <2>1 DEF Explained
<1>4. Advised(g, entity) \subseteq Facts(g)
  <2> DEFINE T(a) == TechniqueOf[RuleOf[a]]
  <2>1. ASSUME NEW a \in g.indicates \cap {entity}
        PROVE  {<<a, "advised-by", RuleOf[a]>>} \cup {<<c, "helps-against", a>> : c \in Controls(T(a))}
                 \cup {<<d, "covers", a>> : d \in Runbooks(T(a))} \subseteq Facts(g)
    <3>1. <<a, "advised-by", RuleOf[a]>> \in Facts(g)
      BY <1>1, WhatIsAFact
    <3>2. \A c \in Controls(T(a)) : <<c, "helps-against", a>> \in Facts(g)
      BY <1>2, WhatIsAFact
    <3>3. \A d \in Runbooks(T(a)) : <<d, "covers", a>> \in Facts(g)
      BY <1>2, WhatIsAFact
    <3> HIDE DEF T
    <3> QED
      BY <3>1, <3>2, <3>3
  <2> QED
    BY <2>1 DEF Advised
<1>5. OfAlerts(g, entity) \subseteq Facts(g)
  <2>1. ASSUME NEW a \in Affecting(g, entity)
        PROVE  {<<a, "affects", entity>>, <<a, "created-by", RuleOf[a]>>,
                <<a, "rated", SeverityOf[a]>>, <<a, "is", "OPEN">>} \subseteq Facts(g)
    <3>1. a \in g.alerts /\ AffectedService[a] = entity
      BY DEF Affecting
    <3>2. /\ <<a, "created-by", RuleOf[a]>> \in Facts(g)
          /\ <<a, "rated", SeverityOf[a]>> \in Facts(g) /\ <<a, "is", "OPEN">> \in Facts(g)
          /\ <<a, "affects", AffectedService[a]>> \in Facts(g)
      BY <3>1, WhatIsAFact
    <3>3. <<a, "affects", entity>> \in Facts(g)
      BY <3>1, <3>2
    <3> QED
      BY <3>2, <3>3, Zenon
  <2> DEFINE words(a) == {<<a, "affects", entity>>, <<a, "created-by", RuleOf[a]>>,
                          <<a, "rated", SeverityOf[a]>>, <<a, "is", "OPEN">>}
  <2>2. OfAlerts(g, entity) = UNION {words(a) : a \in Affecting(g, entity)}
    BY DEF OfAlerts
  <2>3. \A a \in Affecting(g, entity) : words(a) \subseteq Facts(g)
    BY <2>1, Zenon
  <2> HIDE DEF words
  <2> QED
    BY <2>2, <2>3
<1>6. OfThreats(g, entity) \subseteq Facts(g)
  <2>1. ASSUME NEW t \in Threatening(g, entity)
        PROVE  {<<t, "targets", entity>>} \cup {<<c, "protects", entity>> : c \in Controls(t)}
                 \subseteq Facts(g)
    <3>1. g.knowledge /\ <<t, entity>> \in Targets
      BY DEF Threatening
    <3>2. <<t, "targets", entity>> \in Facts(g)
      BY <3>1, WhatIsAFact
    <3>3. \A c \in Controls(t) : <<c, "protects", entity>> \in Facts(g)
      BY <1>2, <3>1, WhatIsAFact
    <3> QED
      BY <3>2, <3>3
  <2> QED
    BY <2>1 DEF OfThreats
<1>7. OfServices(g, entity) \subseteq Facts(g)
  BY WhatIsAFact DEF OfServices, Needing, DependsOn
<1>8. OfIncidents(g) \subseteq Facts(g)
  BY <1>1, WhatIsAFact DEF OfIncidents
<1> QED
  BY <1>3, <1>4, <1>5, <1>6, <1>7, <1>8 DEF Lasting

\* What makes a fact of the moment one.
LEMMA WhatIsOfTheMoment ==
  ASSUME NEW g \in Graphs
  PROVE  /\ \A s \in Nameable :
              /\ <<"alerts-of", s, Cardinality(Affecting(g, s))>> \in FactsOfTheMoment(g)
              /\ <<"impacted-by", s, Cardinality(Needing(g, s))>> \in FactsOfTheMoment(g)
         /\ <<"incidents", Cardinality(g.incidents)>> \in FactsOfTheMoment(g)
         /\ {<<i, "rated", g.severity[i]>> : i \in g.incidents} \subseteq FactsOfTheMoment(g)
         /\ {<<i, "CONTAINS", NoName>> :
               i \in {j \in g.incidents : \A a \in Alerts : <<j, a>> \notin g.contains}}
              \subseteq FactsOfTheMoment(g)
<1>1. \A s : {d \in Services : g.topology /\ <<d, s>> \in DependsOn} = Needing(g, s)
  BY DEF Services, DependsOn, Needing, Graphs
<1>2. \A s : {a \in g.alerts : AffectedService[a] = s} = Affecting(g, s)
  BY DEF Affecting
<1> DEFINE
      alerts == {<<"alerts-of", s, Cardinality({a \in g.alerts : AffectedService[a] = s})>> :
                   s \in Nameable}
      impacted == {<<"impacted-by", s,
                     Cardinality({d \in Services : g.topology /\ <<d, s>> \in DependsOn})>> :
                   s \in Nameable}
      counts == {<<"users", Cardinality(LinkedUsers(g))>>, <<"incidents", Cardinality(g.incidents)>>}
      rated == {<<i, "rated", g.severity[i]>> : i \in g.incidents}
      lacking == {<<i, "CONTAINS", NoName>> :
                    i \in {j \in g.incidents : \A a \in Alerts : <<j, a>> \notin g.contains}}
      linked == UNION {{<<u, "linked", RuleOf[a], SeverityOf[a], Cardinality(Linking(g, u))>> :
                   a \in {b \in g.alerts \cap Grave : \E e \in EvidenceOf[b] : UserOf[e] = u}} :
                 u \in LinkedUsers(g)}
<1>3. FactsOfTheMoment(g) = alerts \cup impacted \cup counts \cup rated \cup lacking \cup linked
  BY Zenon DEF FactsOfTheMoment
<1>4. \A s \in Nameable : <<"alerts-of", s, Cardinality(Affecting(g, s))>> \in alerts
  <2> TAKE s \in Nameable
  <2>1. <<"alerts-of", s, Cardinality({a \in g.alerts : AffectedService[a] = s})>> \in alerts
    OBVIOUS
  <2> QED
    BY <1>2, <2>1
<1>5. \A s \in Nameable : <<"impacted-by", s, Cardinality(Needing(g, s))>> \in impacted
  <2> TAKE s \in Nameable
  <2>1. <<"impacted-by", s,
          Cardinality({d \in Services : g.topology /\ <<d, s>> \in DependsOn})>> \in impacted
    OBVIOUS
  <2> QED
    BY <1>1, <2>1
<1>6. <<"incidents", Cardinality(g.incidents)>> \in counts
  OBVIOUS
<1> HIDE DEF alerts, impacted, counts, linked
<1> QED
  BY <1>3, <1>4, <1>5, <1>6
-----------------------------------------------------------------------------
(* What an answer states.                                                  *)

\* What the template of the k-th intent says.
Sentences(k, entity, e, kept) ==
  CASE k = 1 -> Explanation(e, kept) \cup Response(e, kept)
    [] k = 2 -> Response(e, kept)
    [] k = 3 -> ServiceAlerts(e, kept, entity)
    [] k = 4 -> ThreatMitigation(e, entity)
    [] k = 5 -> UserLinkage(e, kept)
    [] k = 6 -> Impact(e, kept, entity)
    [] k = 7 -> IncidentLinkage(e, kept)

\* The template of a question is that of its intent.
LEMMA TemplateIs ==
  ASSUME NEW question, NEW k, k = Classify(question), k \in 1..7,
         NEW e, Grounded(e), NEW kept
  PROVE  Template(question, e, kept) = Sentences(k, Entity(k, question), e, kept)
<1> DEFINE entity == Entity(k, question)
           name == Intents[k].name
<1>1. Template(question, e, kept) =
        CASE name = "ALERT_EXPLANATION" -> Explanation(e, kept) \cup Response(e, kept)
          [] name = "RESPONSE_PROCEDURE" -> Response(e, kept)
          [] name = "SERVICE_ALERTS" -> ServiceAlerts(e, kept, entity)
          [] name = "THREAT_MITIGATION" -> ThreatMitigation(e, entity)
          [] name = "USER_LINKAGE" -> UserLinkage(e, kept)
          [] name = "DEPENDENCY_IMPACT" -> Impact(e, kept, entity)
          [] name = "INCIDENT_LINKAGE" -> IncidentLinkage(e, kept)
  <2>1. k # 0
    OBVIOUS
  <2> QED
    BY <2>1, Zenon DEF Template
<1>2. Sentences(k, entity, e, kept) =
        CASE k = 1 -> Explanation(e, kept) \cup Response(e, kept)
          [] k = 2 -> Response(e, kept)
          [] k = 3 -> ServiceAlerts(e, kept, entity)
          [] k = 4 -> ThreatMitigation(e, entity)
          [] k = 5 -> UserLinkage(e, kept)
          [] k = 6 -> Impact(e, kept, entity)
          [] k = 7 -> IncidentLinkage(e, kept)
  BY Zenon DEF Sentences
<1> HIDE DEF entity
<1>3. Template(question, e, kept) = Sentences(k, entity, e, kept)
  BY <1>1, <1>2, IntentTable
<1> QED
  BY <1>3 DEF entity

\* The properties kept are those of all rows, and of each user's first row.
LEMMA KeptIs ==
  ASSUME NEW g, NEW question, NEW kept \in Kept(question, g),
         NEW key, key = Intents[Classify(question)].query,
         NEW rows, rows = Found(question, g), rows # {}
  PROVE  /\ key # "users_high_severity" => kept = UNION {Properties(key, r) : r \in rows}
         /\ key = "users_high_severity" => \E first \in FirstRows(rows) :
              kept = UNION {Properties(key, first[u]) : u \in DOMAIN first}
<1> DEFINE all(q, R) == UNION {Properties(q, r) : r \in R}
           firsts(q, R) == {UNION {Properties(q, first[u]) : u \in DOMAIN first} :
                              first \in FirstRows(R)}
           is == Intents[Classify(question)].query
           foundRows == Found(question, g)
<1>4. Kept(question, g) = IF foundRows = {} THEN {{}}
                          ELSE IF is # "users_high_severity" THEN {all(is, foundRows)}
                               ELSE firsts(is, foundRows)
  BY Zenon DEF Kept
<1>5. is = key /\ foundRows = rows
  OBVIOUS
<1> HIDE DEF all, firsts, is, foundRows
<1>1. IF key # "users_high_severity" THEN kept = all(key, rows) ELSE kept \in firsts(key, rows)
  BY <1>4, <1>5
<1>2. CASE key # "users_high_severity"
  BY <1>1, <1>2 DEF all
<1>3. CASE key = "users_high_severity"
  BY <1>1, <1>3 DEF firsts
<1> QED
  BY <1>2, <1>3

\* An answer states all that lasts of what its template has to say, and else
\* what is a fact of the moment in the graph that it was retrieved from.
LEMMA AnswersAreFacts ==
  ASSUME NEW g \in Graphs, NEW question, Supported(question),
         Grounded(Retrieve(question, g)), NEW kept \in Kept(question, g),
         NEW k, k = Classify(question), NEW entity, entity = Entity(k, question),
         NEW text, text = Template(question, Retrieve(question, g), kept)
  PROVE  /\ Lasting(k, entity, g) \subseteq text
         /\ text \subseteq Lasting(k, entity, g) \cup FactsOfTheMoment(g)
<1> DEFINE e == Retrieve(question, g)
           key == Intents[k].query
           rows == Rows(key, entity, g)
<1>1. k \in 1..7 /\ (k \in {3, 4, 6} => entity \in Nameable)
  BY SupportedIntent
<1>2. text = Sentences(k, entity, e, kept)
  BY <1>1, TemplateIs
<1>3. Found(question, g) = rows
  BY FoundIs
<1>4. e.nodes = UNION {Nodes(key, r) : r \in rows} /\ e.edges = UNION {Edges(key, r) : r \in rows}
  <2>1. key = Intents[Classify(question)].query
    OBVIOUS
  <2> HIDE DEF key, rows
  <2> QED
    BY <1>3, <2>1, RetrieveIs
<1>5. rows # {}
  <2>1. e.nodes # {}
    BY DEF Grounded
  <2> HIDE DEF rows, e
  <2> QED
    BY <1>4, <2>1
<1>6. /\ key # "users_high_severity" => kept = UNION {Properties(key, r) : r \in rows}
      /\ key = "users_high_severity" => \E first \in FirstRows(rows) :
           kept = UNION {Properties(key, first[u]) : u \in DOMAIN first}
  <2>1. key = Intents[Classify(question)].query
    OBVIOUS
  <2> HIDE DEF key, rows, e
  <2> QED
    BY <1>3, <1>5, <2>1, KeptIs
<1>7. rows = CASE key = "controls_for_alert" -> ControlsForAlert(g, entity)
               [] key = "alerts_for_service" -> AlertsForService(g, entity)
               [] key = "threats_for_service" -> ThreatsForService(g, entity)
               [] key = "users_high_severity" -> UsersHighSeverity(g)
               [] key = "dependency_impact" -> DependencyImpact(g, entity)
               [] key = "incidents_and_alerts" -> IncidentsAndAlerts(g)
  BY Zenon DEF Rows
<1> HIDE DEF e, rows
<1>8. CASE k = 1 \/ k = 2
  <2>1. key = "controls_for_alert"
    BY <1>8, IntentTable
  <2> HIDE DEF key
  <2>2. rows = ControlsForAlert(g, entity)
    BY <1>7, <2>1
  <2>3. Explanation(e, kept) = Explained(g, entity) /\ Response(e, kept) = Advised(g, entity)
    BY <1>4, <1>6, <2>1, <2>2, AlertWords
  <2> QED
    BY <1>2, <1>8, <2>3 DEF Sentences, Lasting
<1>9. CASE k = 3
  <2>1. key = "alerts_for_service"
    BY <1>9, IntentTable
  <2> HIDE DEF key
  <2>2. rows = AlertsForService(g, entity)
    BY <1>7, <2>1
  <2>3. ServiceAlerts(e, kept, entity) =
          OfAlerts(g, entity) \cup {<<"alerts-of", entity, Cardinality(Affecting(g, entity))>>}
    BY <1>4, <1>6, <2>1, <2>2, ServiceWords
  <2>4. <<"alerts-of", entity, Cardinality(Affecting(g, entity))>> \in FactsOfTheMoment(g)
    BY <1>1, <1>9, WhatIsOfTheMoment
  <2> QED
    BY <1>2, <1>9, <2>3, <2>4 DEF Sentences, Lasting
<1>10. CASE k = 4
  <2>1. key = "threats_for_service"
    BY <1>10, IntentTable
  <2> HIDE DEF key
  <2>2. rows = ThreatsForService(g, entity)
    BY <1>7, <2>1
  <2>3. ThreatMitigation(e, entity) = OfThreats(g, entity)
    BY <1>4, <2>1, <2>2, ThreatWords
  <2> QED
    BY <1>2, <1>10, <2>3 DEF Sentences, Lasting
<1>11. CASE k = 5
  <2>1. key = "users_high_severity"
    BY <1>11, IntentTable
  <2> HIDE DEF key
  <2>2. rows = UsersHighSeverity(g)
    BY <1>7, <2>1
  <2>3. PICK first \in FirstRows(rows) :
          kept = UNION {Properties(key, first[u]) : u \in DOMAIN first}
    BY <1>6, <2>1
  <2>4. UserLinkage(e, kept) \subseteq FactsOfTheMoment(g)
    BY <1>4, <2>1, <2>2, <2>3, UserWords
  <2> QED
    BY <1>2, <1>11, <2>4 DEF Sentences, Lasting
<1>12. CASE k = 6
  <2>1. key = "dependency_impact"
    BY <1>12, IntentTable
  <2> HIDE DEF key
  <2>2. rows = DependencyImpact(g, entity)
    BY <1>7, <2>1
  <2>3. Impact(e, kept, entity) =
          OfServices(g, entity) \cup {<<"impacted-by", entity, Cardinality(Needing(g, entity))>>}
    BY <1>4, <1>6, <2>1, <2>2, ImpactWords
  <2>4. <<"impacted-by", entity, Cardinality(Needing(g, entity))>> \in FactsOfTheMoment(g)
    BY <1>1, <1>12, WhatIsOfTheMoment
  <2> QED
    BY <1>2, <1>12, <2>3, <2>4 DEF Sentences, Lasting
<1>13. CASE k = 7
  <2>1. key = "incidents_and_alerts"
    BY <1>13, IntentTable
  <2> HIDE DEF key
  <2>2. rows = IncidentsAndAlerts(g)
    BY <1>7, <2>1
  <2> DEFINE moment ==
        {<<"incidents", Cardinality(g.incidents)>>}
          \cup {<<i, "rated", g.severity[i]>> : i \in g.incidents}
          \cup {<<i, "CONTAINS", NoName>> :
                  i \in {j \in g.incidents : \A a \in Alerts : <<j, a>> \notin g.contains}}
  <2>3. IncidentLinkage(e, kept) = OfIncidents(g) \cup moment
    <3>1. /\ e.nodes = UNION {Nodes("incidents_and_alerts", r) : r \in IncidentsAndAlerts(g)}
          /\ e.edges = UNION {Edges("incidents_and_alerts", r) : r \in IncidentsAndAlerts(g)}
          /\ kept = UNION {Properties("incidents_and_alerts", r) : r \in IncidentsAndAlerts(g)}
      BY <1>4, <1>6, <2>1, <2>2
    <3> QED
      BY <3>1, IncidentWords
  <2>4. moment \subseteq FactsOfTheMoment(g)
    BY WhatIsOfTheMoment
  <2> HIDE DEF moment
  <2> QED
    BY <1>2, <1>13, <2>3, <2>4 DEF Sentences, Lasting
<1> QED
  BY <1>1, <1>8, <1>9, <1>10, <1>11, <1>12, <1>13

\* Without evidence nothing is stated.
LEMMA NothingIsStated ==
  ASSUME NEW question, NEW e, ~Grounded(e), NEW kept
  PROVE  Template(question, e, kept) = {}
BY Zenon DEF Template

\* An answer states facts of the graph that it was retrieved from, and in a larger
\* graph none of the lasting ones is left out.
LEMMA TextsStand ==
  ASSUME NEW g \in Graphs, NEW h \in Graphs, Grown(g, h), NEW ask,
         NEW text \in Texts(ask, g), NEW later \in Texts(ask, h)
  PROVE  /\ text \ FactsOfTheMoment(g) \subseteq later
         /\ later \subseteq Facts(h) \cup FactsOfTheMoment(h)
<1> DEFINE question == ask.question
           e == Retrieve(question, g)
           f == Retrieve(question, h)
           k == Classify(question)
           entity == Entity(k, question)
<1>1. \A m : Texts(ask, m) =
        IF ask.kind = "ask"
        THEN {Template(question, Retrieve(question, m), kept) : kept \in Kept(question, m)}
        ELSE {{}}
  BY Zenon DEF Texts
<1>2. CASE ask.kind # "ask"
  BY <1>1, <1>2
<1>3. ASSUME ask.kind = "ask", ~Supported(question)
      PROVE  text = {} /\ later = {}
  <2>1. ~Grounded(e) /\ ~Grounded(f)
    BY <1>3, RetrieveIs, FoundIs DEF Grounded
  <2>2. PICK kept : text = Template(question, e, kept)
    BY <1>1, <1>3
  <2>3. PICK kept2 : later = Template(question, f, kept2)
    BY <1>1, <1>3
  <2> HIDE DEF e, f, question
  <2> QED
    BY <2>1, <2>2, <2>3, NothingIsStated
<1>4. CASE ask.kind = "ask" /\ Supported(question)
  <2>1. PICK kept \in Kept(question, g) : text = Template(question, e, kept)
    BY <1>1, <1>4
  <2>2. PICK kept2 \in Kept(question, h) : later = Template(question, f, kept2)
    BY <1>1, <1>4
  <2>3. Grounded(e) => Grounded(f)
    BY RetrieveGrows DEF Grounded
  <2>4. k \in 1..7
    BY <1>4, SupportedIntent
  <2>10. k = Classify(question) /\ entity = Entity(k, question)
    OBVIOUS
  <2> HIDE DEF k, entity
  <2>5. Grounded(e) => text \subseteq Lasting(k, entity, g) \cup FactsOfTheMoment(g)
    BY <1>4, <2>1, <2>10, AnswersAreFacts
  <2>6. Grounded(f) => /\ Lasting(k, entity, h) \subseteq later
                       /\ later \subseteq Lasting(k, entity, h) \cup FactsOfTheMoment(h)
    BY <1>4, <2>2, <2>10, AnswersAreFacts
  <2> HIDE DEF e, f, question
  <2>7. (~Grounded(e) => text = {}) /\ (~Grounded(f) => later = {})
    BY <2>1, <2>2, NothingIsStated
  <2>8. Lasting(k, entity, g) \subseteq Lasting(k, entity, h)
    BY <2>4, LastingGrows
  <2>9. Lasting(k, entity, h) \subseteq Facts(h)
    BY <2>4, LastingAreFacts
  <2> QED
    BY <2>3, <2>5, <2>6, <2>7, <2>8, <2>9
<1> QED
  BY <1>2, <1>3, <1>4

\* A question that no query answers reads and states nothing.
LEMMA UnsupportedReadsNothing ==
  ASSUME NEW g, NEW ask, ask.kind = "ask", ~Supported(ask.question)
  PROVE  Reads(ask, g) = {} /\ \A text \in Texts(ask, g) : text = {}
<1> DEFINE e == Retrieve(ask.question, g)
<1>1. e.nodes = {} /\ e.edges = {}
  BY RetrieveIs, FoundIs
<1>2. Reads(ask, g) = e.nodes \cup e.edges
  BY Zenon DEF Reads
<1>3. Texts(ask, g) = {Template(ask.question, e, kept) : kept \in Kept(ask.question, g)}
  BY Zenon DEF Texts
<1> HIDE DEF e
<1>4. \A kept : Template(ask.question, e, kept) = {}
  BY <1>1, NothingIsStated DEF Grounded
<1> QED
  BY <1>1, <1>2, <1>3, <1>4
-----------------------------------------------------------------------------
(* The threads.                                                            *)

\* A load that is about to write, or to be asked what, has what it collected.
Collected ==
  \A l \in Loads : pc[l] \in {"look", "make", "take", "topology", "events"} =>
                     found[l] \in Sources

\* The transaction that follows.
LEMMA AfterIs ==
  /\ After("topology") = "events" /\ After("events") = "security-knowledge"
  /\ After("security-knowledge") = "test"
<1>1. /\ Stages[1] = "topology" /\ Stages[2] = "events" /\ Stages[3] = "security-knowledge"
      /\ Stages[4] = "test"
  BY DEF Stages
<1> DEFINE At(label, n) == n \in 1..3 /\ Stages[n] = label
<1>2. \A n : /\ At("topology", n) <=> n = 1
             /\ At("events", n) <=> n = 2
             /\ At("security-knowledge", n) <=> n = 3
  BY <1>1
<1>3. \A label : After(label) = Stages[1 + CHOOSE n \in 1..3 : Stages[n] = label]
  BY DEF After
<1>4. /\ (CHOOSE n \in 1..3 : Stages[n] = "topology") = 1
      /\ (CHOOSE n \in 1..3 : Stages[n] = "events") = 2
      /\ (CHOOSE n \in 1..3 : Stages[n] = "security-knowledge") = 3
  BY <1>2
<1> QED
  BY <1>1, <1>3, <1>4

\* Every step keeps the types and what was collected.
LEMMA NextIsTyped ==
  ASSUME TypeOK, Collected, [Next]_vars
  PROVE  TypeOK' /\ Collected'
<1> USE ConsoleAssumption
<1>1. Actors = Loads \cup Requests /\ Loads \cap Requests = {}
  BY DEF Actors
<1> USE <1>1 DEF TypeOK, Collected, Goes, world, drivers, loadVars, requestVars
<1>2. ASSUME NEW a \in Actors, Look(a) PROVE TypeOK' /\ Collected'
  BY <1>2 DEF Look
<1>3. ASSUME NEW a \in Actors, Make(a) PROVE TypeOK' /\ Collected'
  BY <1>3 DEF Make, Orphaned
<1>4. ASSUME NEW a \in Actors, Take(a) PROVE TypeOK' /\ Collected'
  BY <1>4 DEF Take, Raises, Prints, First
<1>5. ASSUME NEW a \in Actors, Fail(a) PROVE TypeOK' /\ Collected'
  BY <1>5 DEF Fail, Raises, Prints, First
<1>6. ASSUME NEW l \in Loads, Begin(l) PROVE TypeOK' /\ Collected'
  BY <1>6 DEF Begin
<1>7. ASSUME NEW l \in Loads, Decline(l) PROVE TypeOK' /\ Collected'
  BY <1>7 DEF Decline
<1>8. ASSUME NEW l \in Loads, Collect(l) PROVE TypeOK' /\ Collected'
  BY <1>8 DEF Collect, Prints
<1>9. ASSUME NEW l \in Loads, Apply(l) PROVE TypeOK' /\ Collected'
  <2>1. graph' \in Graphs
    BY <1>9, TopologyLands, EventsLand, KnowledgeLands DEF Apply
  <2>2. After(pc[l]) \in {"events", "security-knowledge", "test"}
        /\ (After(pc[l]) = "events" => pc[l] = "topology")
    BY <1>9, AfterIs DEF Apply
  <2> QED
    BY <1>9, <2>1, <2>2 DEF Apply, Prints, Keeps
<1>10. ASSUME NEW l \in Loads, CloseTest(l) PROVE TypeOK' /\ Collected'
  BY <1>10 DEF CloseTest
<1>11. ASSUME NEW l \in Loads, Close(l) PROVE TypeOK' /\ Collected'
  BY <1>11 DEF Close
<1>12. ASSUME NEW l \in Loads, Forget(l) PROVE TypeOK' /\ Collected'
  BY <1>12 DEF Forget, Orphaned
<1>13. ASSUME NEW l \in Loads, Report(l) PROVE TypeOK' /\ Collected'
  BY <1>13 DEF Report, Prints
<1>14. ASSUME NEW l \in Loads, Restore(l) PROVE TypeOK' /\ Collected'
  BY <1>14 DEF Restore
<1>15. ASSUME NEW r \in Requests, Ask(r) PROVE TypeOK' /\ Collected'
  BY <1>15 DEF Ask
<1>16. ASSUME NEW r \in Requests, Query(r) PROVE TypeOK' /\ Collected'
  <2>1. /\ pool' \in {"empty", "warm", "stale"}
        /\ status' \in [Requests -> {0, 200, 404, 500, 503}]
        /\ pc'[r] \in {"phrase", "answered"} /\ \A a \in Actors \ {r} : pc'[a] = pc[a]
        /\ pc' = [pc EXCEPT ![r] = pc'[r]]
        /\ read' = [read EXCEPT ![r] = graph] /\ handle' = [handle EXCEPT ![r] = "none"]
    BY <1>16 DEF Query, Keeps
  <2>2. UNCHANGED <<graph, world, driver, made, loadVars, asked, seen, disturbed, aged>>
    BY <1>16 DEF Query
  <2> QED
    BY <2>1, <2>2
<1>17. ASSUME NEW r \in Requests, Phrase(r) PROVE TypeOK' /\ Collected'
  BY <1>17 DEF Phrase
<1>18. ASSUME NEW r \in Requests, Deliver(r) PROVE TypeOK' /\ Collected'
  BY <1>18, EmptyIsGraph DEF Deliver
<1>19. CASE Leave
  <2>1. outages' \in 0..MaxOutages /\ reachable' \in BOOLEAN
    <3>1. outages + 1 \in 0..MaxOutages
      BY <1>19 DEF Leave
    <3>2. outages' = outages + 1 /\ reachable' = FALSE
      BY <1>19 DEF Leave
    <3> QED
      BY <3>1, <3>2
  <2>2. disturbed' \subseteq Actors
    BY <1>19 DEF Leave
  <2>3. UNCHANGED <<graph, driver, made, pc, loadVars, requestVars, aged>>
    BY <1>19 DEF Leave
  <2>4. /\ pool' \in {"empty", "warm", "stale"}
        /\ handle' \in [Actors -> {"none", "shared", "orphan", "stale", "closed"}]
    BY <1>19 DEF Leave
  <2> QED
    BY <2>1, <2>2, <2>3, <2>4
<1>20. CASE ComeBack
  BY <1>20 DEF ComeBack
<1>21. CASE UNCHANGED vars
  BY <1>21 DEF vars
<1> HIDE DEF TypeOK, Collected
<1> QED
  BY <1>2, <1>3, <1>4, <1>5, <1>6, <1>7, <1>8, <1>9, <1>10, <1>11, <1>12, <1>13, <1>14, <1>15,
     <1>16, <1>17, <1>18, <1>19, <1>20, <1>21 DEF Next, Load

\* Both hold of every state.
LEMMA TypedAndCollected == Spec => [](TypeOK /\ Collected)
<1>1. Init => TypeOK /\ Collected
  BY EmptyIsGraph, ConsoleAssumption DEF Init, TypeOK, Collected, Actors
<1> QED
  BY <1>1, NextIsTyped, PTL DEF Spec

\* The variables have their types in every reachable state: no load writes
\* anything but a graph, no response has another status, and whose buffer is in
\* place is a load's or the terminal.
THEOREM TypeCorrect == Spec => []TypeOK
BY TypedAndCollected, PTL
-----------------------------------------------------------------------------
(* Failures.                                                               *)

\* What is shown is an answer's evidence and text.
WholeAnswers ==
  shown = [r \in Requests |-> [evidence |-> shown[r].evidence, text |-> shown[r].text]]

\* Every step keeps that.
LEMMA AnswersStayWhole ==
  ASSUME WholeAnswers, [Next]_vars
  PROVE  WholeAnswers'
<1>1. ASSUME NEW r \in Requests, NEW answer,
             answer = [evidence |-> answer.evidence, text |-> answer.text],
             shown' = [shown EXCEPT ![r] = answer]
      PROVE  WholeAnswers'
  BY <1>1 DEF WholeAnswers
<1>2. ASSUME NEW r \in Requests, Query(r) PROVE WholeAnswers'
  <2>1. PICK evidence, text :
          shown' = [shown EXCEPT ![r] = [evidence |-> evidence, text |-> text]]
    BY <1>2, Zenon DEF Query
  <2> QED
    BY <1>1, <2>1
<1>3. ASSUME NEW r \in Requests, Phrase(r) PROVE WholeAnswers'
  <2>1. CASE shown' = shown
    BY <2>1 DEF WholeAnswers
  <2>2. CASE shown' = [shown EXCEPT ![r].text = {}]
    <3> DEFINE rest == [shown[r] EXCEPT !.text = {}]
    <3>1. shown' = [shown EXCEPT ![r] = rest]
      BY <2>2
    <3>2. rest = [evidence |-> shown[r].evidence, text |-> {}]
      BY DEF WholeAnswers
    <3> HIDE DEF rest
    <3> QED
      BY <1>1, <3>1, <3>2
  <2> QED
    BY <1>3, <2>1, <2>2 DEF Phrase
<1>4. ASSUME NEW r \in Requests, Deliver(r) PROVE WholeAnswers'
  BY <1>1, <1>4 DEF Deliver, NoAnswer
<1>5. CASE UNCHANGED shown
  BY <1>5 DEF WholeAnswers
<1>6. (\E r \in Requests : Query(r) \/ Phrase(r) \/ Deliver(r)) \/ UNCHANGED shown
  BY DEF Next, Load, vars, requestVars, loadVars, Look, Make, Take, Fail, Raises, Begin,
         Decline, Collect, Apply, CloseTest, Close, Forget, Report, Restore, Ask, Leave, ComeBack
<1> QED
  BY <1>2, <1>3, <1>4, <1>5, <1>6

\* What may leave as 500 of the model's making, and why a request may fail.
Phrased(r) == asked[r].kind = "ask" /\ asked[r].llm /\ shown[r].evidence # {}
Excused(r) == r \in disturbed \cup aged \/ (Phrased(r) /\ "malformed" \in LLMSettings)
RequestCauses(r) ==
  /\ pc[r] = "phrase" => Phrased(r)
  /\ pc[r] # "answered" => status[r] # 500
  /\ status[r] = 500 => Excused(r)

\* A request stays excused while it keeps its question and its evidence.
LEMMA ExcusesStay ==
  ASSUME NEW r, asked'[r] = asked[r], shown'[r].evidence = shown[r].evidence
  PROVE  /\ Phrased(r) => Phrased(r)'
         /\ Excused(r) /\ (r \in disturbed \cup aged => r \in disturbed' \cup aged') => Excused(r)'
BY Zenon DEF Phrased, Excused

\* Where a request begins.
LEMMA AskLeads ==
  ASSUME TypeOK, NEW r \in Requests, Ask(r)
  PROVE  /\ \A s \in Requests \ {r} : asked'[s] = asked[s] /\ status'[s] = status[s]
         /\ pc'[r] \in {"look", "answered"} /\ \A a \in Actors \ {r} : pc'[a] = pc[a]
         /\ status'[r] = 500 => status[r] = 500 /\ pc'[r] = "look"
         /\ pc[r] = "idle" /\ (~reachable => pc'[r] = "answered")
         /\ UNCHANGED <<world, drivers, handle, exit, shown, disturbed, aged>>
BY DEF Ask, Goes, TypeOK, Actors, loadVars

\* Where a query leads.
LEMMA QueryLeads ==
  ASSUME TypeOK, WholeAnswers, NEW r \in Requests, Query(r)
  PROVE  /\ \A s \in Requests \ {r} : shown'[s] = shown[s]
         /\ pc'[r] \in {"phrase", "answered"} /\ \A a \in Actors \ {r} : pc'[a] = pc[a]
         /\ pc'[r] = "phrase" => Phrased(r)'
         /\ \A s \in Requests \ {r} : status'[s] = status[s]
         /\ status'[r] = 500 => status[r] = 500 /\ pc'[r] = "phrase"
<1>1. PICK evidence \in IF asked[r].kind = "neighbourhood"
                       THEN Pictures(graph, asked[r].parameter) ELSE {Reads(asked[r], graph)},
           text \in Texts(asked[r], graph) :
        /\ shown' = [shown EXCEPT ![r] = [evidence |-> evidence, text |-> text]]
        /\ IF asked[r].kind = "ask" /\ asked[r].llm /\ evidence # {}
           THEN Goes(r, "phrase") /\ UNCHANGED status
           ELSE /\ Goes(r, "answered")
                /\ status' = [status EXCEPT ![r] =
                     IF asked[r].kind = "neighbourhood" /\ evidence = {} THEN 404 ELSE 200]
  BY Zenon DEF Query
<1>2. pc[r] = "query" /\ UNCHANGED <<asked, world, driver, made, exit, disturbed, aged>>
  BY DEF Query, loadVars
<1>3. shown'[r].evidence = evidence /\ \A s \in Requests \ {r} : shown'[s] = shown[s]
  BY <1>1 DEF WholeAnswers
<1>4. CASE asked[r].kind = "ask" /\ asked[r].llm /\ evidence # {}
  <2>1. Goes(r, "phrase") /\ status' = status
    BY <1>1, <1>4
  <2>2. pc'[r] = "phrase" /\ \A a \in Actors \ {r} : pc'[a] = pc[a]
    BY <2>1 DEF Goes, TypeOK, Actors
  <2>3. Phrased(r)'
    BY <1>2, <1>3, <1>4, Zenon DEF Phrased
  <2> QED
    BY <1>3, <2>1, <2>2, <2>3
<1>5. CASE ~(asked[r].kind = "ask" /\ asked[r].llm /\ evidence # {})
  <2>1. /\ Goes(r, "answered")
        /\ status' = [status EXCEPT ![r] =
             IF asked[r].kind = "neighbourhood" /\ evidence = {} THEN 404 ELSE 200]
    BY <1>1, <1>5
  <2>2. pc'[r] = "answered" /\ \A a \in Actors \ {r} : pc'[a] = pc[a]
    BY <2>1 DEF Goes, TypeOK, Actors
  <2>3. status'[r] # 500 /\ \A s \in Requests \ {r} : status'[s] = status[s]
    BY <2>1 DEF TypeOK
  <2> QED
    BY <1>3, <2>2, <2>3
<1> QED
  BY <1>4, <1>5

\* What the model's words leave of an answer.
LEMMA PhraseKeepsEvidence ==
  ASSUME WholeAnswers, NEW r \in Requests, Phrase(r)
  PROVE  /\ \A s \in Requests : shown'[s].evidence = shown[s].evidence
         /\ \A s \in Requests \ {r} : shown'[s] = shown[s]
         /\ shown'[r].text = shown[r].text \/ shown'[r].text = {}
<1>1. CASE shown' = shown
  BY <1>1
<1>2. CASE shown' = [shown EXCEPT ![r].text = {}]
  <2> DEFINE rest == [shown[r] EXCEPT !.text = {}]
  <2>1. shown' = [shown EXCEPT ![r] = rest]
    BY <1>2
  <2>2. rest = [evidence |-> shown[r].evidence, text |-> {}]
    BY DEF WholeAnswers
  <2> HIDE DEF rest
  <2> QED
    BY <2>1, <2>2 DEF WholeAnswers
<1> QED
  BY <1>1, <1>2 DEF Phrase

\* Between one statement and the next of an actor that works on the graph.
Working == {"topology", "events", "security-knowledge", "query"}

\* Whatever an actor finds wrong with the driver happened while it ran, or
\* before it took one older than that.
DriverLosses ==
  /\ \A a \in Actors : pc[a] \in {"take", "close"} /\ driver = "none" => a \in disturbed
  /\ driver = "closed" => \E l \in Loads : pc[l] = "forget"
  /\ made <= outages /\ (pool = "stale" => made < outages)
  /\ \A a \in Actors : /\ handle[a] # "none" => pc[a] \in Working
                       /\ handle[a] = "closed" => a \in disturbed
                       /\ handle[a] = "shared" => driver = "open"
                       /\ handle[a] = "stale" => a \in disturbed \cup aged
                       /\ handle[a] = "shared" /\ made < outages => a \in disturbed \cup aged
  /\ ~reachable => \A a \in Actors :
       pc[a] \in Working \cup {"collect", "look", "make", "take"} => a \in disturbed
  /\ \A l \in Loads : /\ exit[l] = 500 => l \in disturbed
                      /\ exit[l] = 1 /\ pc[l] # "restore" => l \in disturbed \cup aged

\* Every step keeps that, and no load fails without.
LEMMA LossesAreNoticed ==
  ASSUME TypeOK, WholeAnswers, DriverLosses, [Next]_vars
  PROVE  DriverLosses'
<1>1. Actors = Loads \cup Requests /\ Loads \cap Requests = {}
  BY ConsoleAssumption DEF Actors
<1> USE <1>1 DEF Goes, TypeOK, DriverLosses, Working, world, drivers,
               loadVars, requestVars
<1>2. ASSUME NEW a \in Actors, Look(a) PROVE DriverLosses'
  BY <1>2 DEF Look
<1>3. ASSUME NEW a \in Actors, Make(a) PROVE DriverLosses'
  BY <1>3 DEF Make, Orphaned
<1>4. ASSUME NEW a \in Actors, Take(a) PROVE DriverLosses'
  BY <1>4 DEF Take, Raises, First
<1>5. ASSUME NEW a \in Actors, Fail(a) PROVE DriverLosses'
  BY <1>5 DEF Fail, Raises, MayFail, Stale
<1>6. ASSUME NEW l \in Loads, Begin(l) PROVE DriverLosses'
  BY <1>6 DEF Begin
<1>7. ASSUME NEW l \in Loads, Decline(l) PROVE DriverLosses'
  BY <1>7 DEF Decline
<1>8. ASSUME NEW l \in Loads, Collect(l) PROVE DriverLosses'
  BY <1>8 DEF Collect
<1>9. ASSUME NEW l \in Loads, Apply(l) PROVE DriverLosses'
  <2>1. /\ pc[l] = "security-knowledge" => After(pc[l]) = "test"
        /\ pc[l] # "security-knowledge" => After(pc[l]) \in {"events", "security-knowledge"}
    BY <1>9, AfterIs DEF Apply
  <2> QED
    BY <1>9, <2>1 DEF Apply, Keeps
<1>10. ASSUME NEW l \in Loads, CloseTest(l) PROVE DriverLosses'
  BY <1>10 DEF CloseTest
<1>11. ASSUME NEW l \in Loads, Close(l) PROVE DriverLosses'
  BY <1>11 DEF Close
<1>12. ASSUME NEW l \in Loads, Forget(l) PROVE DriverLosses'
  BY <1>12 DEF Forget, Orphaned
<1>13. ASSUME NEW l \in Loads, Report(l) PROVE DriverLosses'
  BY <1>13 DEF Report
<1>14. ASSUME NEW l \in Loads, Restore(l) PROVE DriverLosses'
  BY <1>14 DEF Restore
<1>15. ASSUME NEW r \in Requests, Ask(r) PROVE DriverLosses'
  BY <1>15, AskLeads
<1>16. ASSUME NEW r \in Requests, Query(r) PROVE DriverLosses'
  <2>1. pc'[r] \in {"phrase", "answered"} /\ \A a \in Actors \ {r} : pc'[a] = pc[a]
    BY <1>16, QueryLeads
  <2>2. /\ pool' = pool \/ (pool = "empty" /\ pool' = "warm")
        /\ handle' = [handle EXCEPT ![r] = "none"]
        /\ UNCHANGED <<world, driver, made, exit, disturbed, aged>>
    BY <1>16 DEF Query, Keeps
  <2> QED
    BY <2>1, <2>2
<1>17. ASSUME NEW r \in Requests, Phrase(r) PROVE DriverLosses'
  BY <1>17 DEF Phrase
<1>18. ASSUME NEW r \in Requests, Deliver(r) PROVE DriverLosses'
  BY <1>18 DEF Deliver
<1>19. CASE Leave
  BY <1>19 DEF Leave
<1>20. CASE ComeBack
  BY <1>20 DEF ComeBack
<1>21. CASE UNCHANGED vars
  BY <1>21 DEF vars
<1> HIDE DEF TypeOK, DriverLosses
<1> QED
  BY <1>2, <1>3, <1>4, <1>5, <1>6, <1>7, <1>8, <1>9, <1>10, <1>11, <1>12, <1>13,
     <1>14, <1>15, <1>16, <1>17, <1>18, <1>19, <1>20, <1>21 DEF Next, Load

\* Nor does a request.
LEMMA RequestsAreExcused ==
  ASSUME TypeOK, WholeAnswers, DriverLosses, \A r \in Requests : RequestCauses(r), [Next]_vars,
         NEW r \in Requests
  PROVE  RequestCauses(r)'
<1> DEFINE Steady == asked'[r] = asked[r] /\ shown'[r].evidence = shown[r].evidence
           Marked == r \in disturbed \cup aged => r \in disturbed' \cup aged'
           Waits == requestVars' = requestVars /\ pc'[r] = pc[r] /\ Marked
           Works == /\ asked' = asked /\ shown' = shown /\ Marked
                    /\ pc[r] \notin {"phrase", "answered"} /\ pc'[r] # "phrase"
           OfOthers == /\ Steady /\ Marked /\ pc'[r] = pc[r] /\ status'[r] = status[r]
<1>1. Actors = Loads \cup Requests /\ Loads \cap Requests = {}
  BY ConsoleAssumption DEF Actors
<1>2. ASSUME OfOthers PROVE RequestCauses(r)'
  BY <1>2, ExcusesStay DEF RequestCauses
<1>3. ASSUME Works, status'[r] = 500 => pc'[r] = "answered" /\ r \in disturbed' \cup aged'
      PROVE  RequestCauses(r)'
  BY <1>3 DEF RequestCauses, Excused
<1>4. ASSUME NEW l \in Loads, Look(l) \/ Make(l) \/ Take(l) \/ Fail(l) \/ Load(l)
      PROVE  OfOthers
  <2>1. requestVars' = requestVars /\ pc'[r] = pc[r]
    BY <1>1, <1>4 DEF Load, Look, Make, Take, Fail, Raises, Begin, Decline, Collect, Apply,
          CloseTest, Close, Forget, Report, Restore, Goes, TypeOK, requestVars
  <2>2. Marked
    BY <1>1, <1>4 DEF Load, Look, Make, Take, Fail, Raises, Begin, Decline, Collect, Apply,
          CloseTest, Close, Forget, Report, Restore, TypeOK
  <2> QED
    BY <2>1, <2>2 DEF requestVars
<1>5. ASSUME NEW s \in Requests, Look(s) \/ Make(s) \/ Take(s) \/ Fail(s)
      PROVE  RequestCauses(r)'
  <2>1. asked' = asked /\ shown' = shown
    BY <1>1, <1>5 DEF Look, Make, Take, Fail, Raises, requestVars
  <2>2. Marked
    BY <1>5 DEF Look, Make, Take, Fail
  <2>3. CASE s # r
    <3>1. pc'[r] = pc[r] /\ status'[r] = status[r]
      BY <1>1, <1>5, <2>3 DEF Look, Make, Take, Fail, Raises, Goes, TypeOK, requestVars
    <3> QED
      BY <1>2, <2>1, <2>2, <3>1
  <2>4. CASE s = r
    <3>1. pc[r] \notin {"phrase", "answered"} /\ pc'[r] # "phrase"
      BY <1>1, <1>5, <2>4 DEF Look, Make, Take, Fail, Raises, First, Goes, TypeOK
    <3>2. ASSUME status'[r] = 500 PROVE pc'[r] = "answered" /\ r \in disturbed' \cup aged'
      <4>1. status[r] # 500
        BY <3>1 DEF RequestCauses
      <4>2. CASE Take(r)
        BY <1>1, <3>2, <4>1, <4>2 DEF Take, Raises, Goes, TypeOK, DriverLosses, requestVars
      <4>3. CASE Fail(r)
        <5>1. pc'[r] = "answered" /\ disturbed' = disturbed /\ aged' = aged
          BY <1>1, <4>3 DEF Fail, Raises, Goes, TypeOK
        <5>2. r \in disturbed \cup aged
          BY <1>1, <4>3 DEF Fail, MayFail, Stale, DriverLosses, Working
        <5> QED
          BY <5>1, <5>2
      <4> QED
        BY <1>5, <2>4, <3>2, <4>1, <4>2, <4>3 DEF Look, Make, requestVars
    <3> QED
      BY <1>3, <2>1, <2>2, <3>1, <3>2
  <2> QED
    BY <2>3, <2>4
<1>6. ASSUME NEW s \in Requests, Ask(s) PROVE RequestCauses(r)'
  <2>1. shown' = shown /\ Marked
    BY <1>6, AskLeads
  <2>2. CASE s # r
    BY <1>1, <1>2, <1>6, <2>1, <2>2, AskLeads
  <2>3. CASE s = r
    <3>1. status'[r] # 500 /\ pc'[r] \in {"look", "answered"}
      BY <1>6, <2>3, AskLeads DEF RequestCauses
    <3> QED
      BY <3>1 DEF RequestCauses
  <2> QED
    BY <2>2, <2>3
<1>7. ASSUME NEW s \in Requests, Query(s) PROVE RequestCauses(r)'
  <2>1. asked' = asked /\ Marked /\ pc[s] = "query"
    BY <1>7 DEF Query
  <2>2. CASE s # r
    <3>1. /\ shown'[r] = shown[r] /\ pc'[r] = pc[r]
          /\ status'[r] = 500 => status[r] = 500
      BY <1>1, <1>7, <2>2, QueryLeads
    <3> QED
      BY <2>1, <3>1, ExcusesStay DEF RequestCauses
  <2>3. CASE s = r
    <3>1. /\ pc'[r] \in {"phrase", "answered"} /\ pc'[r] = "phrase" => Phrased(r)'
          /\ status'[r] = 500 => status[r] = 500
      BY <1>7, <2>3, QueryLeads
    <3>2. status[r] # 500
      BY <2>1, <2>3 DEF RequestCauses
    <3> QED
      BY <3>1, <3>2 DEF RequestCauses
  <2> QED
    BY <2>2, <2>3
<1>8. ASSUME NEW s \in Requests, Phrase(s) PROVE RequestCauses(r)'
  <2>1. Steady /\ Marked
    <3>1. shown'[r].evidence = shown[r].evidence
      BY <1>8, PhraseKeepsEvidence
    <3>2. asked' = asked /\ disturbed' = disturbed /\ aged' = aged
      BY <1>8 DEF Phrase
    <3> QED
      BY <3>1, <3>2
  <2>2. CASE s # r
    <3>1. pc'[r] = pc[r] /\ status'[r] = status[r]
      BY <1>1, <1>8, <2>2 DEF Phrase, Goes, TypeOK
    <3> QED
      BY <1>2, <2>1, <3>1
  <2>3. CASE s = r
    <3>1. /\ pc[r] = "phrase" /\ pc'[r] = "answered"
          /\ status'[r] = 500 => "malformed" \in LLMSettings
      BY <1>1, <1>8, <2>3 DEF Phrase, Goes, TypeOK
    <3>2. Phrased(r)'
      BY <2>1, <3>1, ExcusesStay DEF RequestCauses
    <3> QED
      BY <3>1, <3>2 DEF RequestCauses, Excused
  <2> QED
    BY <2>2, <2>3
<1>9. ASSUME NEW s \in Requests, Deliver(s) PROVE RequestCauses(r)'
  <2>1. CASE s # r
    <3>1. OfOthers
      BY <1>1, <1>9, <2>1 DEF Deliver, Goes, TypeOK
    <3> QED
      BY <1>2, <3>1
  <2>2. CASE s = r
    <3>1. pc'[r] = "done" /\ status'[r] = 0
      BY <1>1, <1>9, <2>2 DEF Deliver, Goes, TypeOK
    <3> QED
      BY <3>1 DEF RequestCauses
  <2> QED
    BY <2>1, <2>2
<1>10. CASE Leave \/ ComeBack \/ UNCHANGED vars
  BY <1>2, <1>10 DEF Leave, ComeBack, vars, requestVars
<1> QED
  BY <1>1, <1>2, <1>4, <1>5, <1>6, <1>7, <1>8, <1>9, <1>10 DEF Next

\* However many loads and requests share the process's driver and however they
\* interleave, connection.get_driver and close_driver fail none of them unless
\* Neo4j left or another load closed the driver while it ran, or Neo4j left
\* after the driver that it took was made; only llm.py's malformed numbers fail
\* a question besides.
THEOREM NoFailureWithoutCause == Spec => []FailuresHaveCauses
<1> DEFINE Causes == \A r \in Requests : RequestCauses(r)
<1>1. Init => WholeAnswers /\ DriverLosses /\ Causes
  BY ConsoleAssumption
     DEF Init, WholeAnswers, DriverLosses, RequestCauses, Working, Actors, NoAnswer
<1>2. TypeOK /\ WholeAnswers /\ DriverLosses /\ Causes /\ [Next]_vars => Causes'
  BY RequestsAreExcused
<1>3. DriverLosses /\ Causes => FailuresHaveCauses
  <2> SUFFICES ASSUME DriverLosses, Causes
               PROVE  FailuresHaveCauses
    OBVIOUS
  <2>1. ASSUME NEW r \in Requests, status[r] = 500
        PROVE  \/ r \in disturbed \cup aged
               \/ /\ asked[r].kind = "ask" /\ asked[r].llm
                  /\ shown[r].evidence # {} /\ "malformed" \in LLMSettings
    <3>1. Excused(r)
      BY <2>1 DEF RequestCauses
    <3> QED
      BY <3>1 DEF Excused, Phrased
  <2>2. \A l \in Loads : /\ exit[l] = 500 => l \in disturbed
                         /\ exit[l] = 1 /\ pc[l] # "restore" => l \in disturbed \cup aged
    BY DEF DriverLosses
  <2> QED
    BY <2>1, <2>2, Zenon DEF FailuresHaveCauses
<1> HIDE DEF Causes
<1> QED
  BY <1>1, <1>2, <1>3, TypedAndCollected, AnswersStayWhole, LossesAreNoticed, PTL DEF Spec
-----------------------------------------------------------------------------
(* Redirections.                                                           *)

\* Whose buffer is in place, and which one comes back.
Redirections ==
  /\ \A l, m \in Loads : l # m /\ Running(l) /\ Running(m) => l \in overlapped
  /\ \A l \in Loads : Running(l) /\ l \notin overlapped => stdout = l
  /\ \A l \in Loads : overlapped = {} /\ Running(l) => saved[l] = Terminal
  /\ \A m \in Loads : (stdout = m \/ \E l \in Loads : saved[l] = m) => pc[m] # "idle"

\* Who prints beside nobody prints into its own buffer, and else into that of
\* one that it runs beside, or of none.
LEMMA PrintsInto ==
  ASSUME TypeOK, Redirections, SoloOutputIsWhole, NEW l \in Loads, Running(l), Prints(l)
  PROVE  mixed' \subseteq overlapped
<1>1. ASSUME stdout # l, NEW m \in {l, stdout} \cap Loads, pc[m] # "done"
      PROVE  m \in overlapped
  <2>1. pc[m] # "idle"
    BY <1>1 DEF Redirections, Running
  <2>2. Running(m)
    BY <1>1, <2>1 DEF Running
  <2> QED
    BY <1>1, <2>2 DEF Redirections
<1> QED
  BY <1>1 DEF Prints, SoloOutputIsWhole, TypeOK

\* Every step keeps the redirections, and whole output with them.
LEMMA StdoutComesBack ==
  ASSUME TypeOK, Redirections, SoloOutputIsWhole, [Next]_vars
  PROVE  Redirections' /\ SoloOutputIsWhole'
<1>1. Actors = Loads \cup Requests /\ Loads \cap Requests = {} /\ Terminal \notin Loads
  BY ConsoleAssumption DEF Actors
<1> USE <1>1 DEF Goes, Running, TypeOK, Redirections, SoloOutputIsWhole, world, drivers,
               loadVars, requestVars
<1>2. ASSUME NEW a \in Actors, Look(a) PROVE Redirections' /\ SoloOutputIsWhole'
  BY <1>2 DEF Look
<1>3. ASSUME NEW a \in Actors, Make(a) PROVE Redirections' /\ SoloOutputIsWhole'
  BY <1>3 DEF Make
<1>4. ASSUME NEW a \in Actors, Take(a) PROVE Redirections' /\ SoloOutputIsWhole'
  BY <1>4, PrintsInto DEF Take, Raises, First
<1>5. ASSUME NEW a \in Actors, Fail(a) PROVE Redirections' /\ SoloOutputIsWhole'
  <2>1. CASE a \in Loads
    BY <1>5, <2>1, PrintsInto DEF Fail, Raises
  <2>2. CASE a \in Requests
    BY <1>5, <2>2 DEF Fail, Raises
  <2> QED
    BY <2>1, <2>2 DEF Actors
<1>6. ASSUME NEW l \in Loads, Begin(l) PROVE Redirections' /\ SoloOutputIsWhole'
  BY <1>6 DEF Begin
<1>7. ASSUME NEW l \in Loads, Decline(l) PROVE Redirections' /\ SoloOutputIsWhole'
  BY <1>7 DEF Decline
<1>8. ASSUME NEW l \in Loads, Collect(l) PROVE Redirections' /\ SoloOutputIsWhole'
  BY <1>8, PrintsInto DEF Collect
<1>9. ASSUME NEW l \in Loads, Apply(l) PROVE Redirections' /\ SoloOutputIsWhole'
  <2>1. After(pc[l]) \in {"events", "security-knowledge", "test"}
    BY <1>9, AfterIs DEF Apply
  <2> QED
    BY <1>9, <2>1, PrintsInto DEF Apply
<1>10. ASSUME NEW l \in Loads, CloseTest(l) PROVE Redirections' /\ SoloOutputIsWhole'
  BY <1>10 DEF CloseTest
<1>11. ASSUME NEW l \in Loads, Close(l) PROVE Redirections' /\ SoloOutputIsWhole'
  BY <1>11 DEF Close
<1>12. ASSUME NEW l \in Loads, Forget(l) PROVE Redirections' /\ SoloOutputIsWhole'
  BY <1>12 DEF Forget
<1>13. ASSUME NEW l \in Loads, Report(l) PROVE Redirections' /\ SoloOutputIsWhole'
  BY <1>13, PrintsInto DEF Report
<1>14. ASSUME NEW l \in Loads, Restore(l) PROVE Redirections' /\ SoloOutputIsWhole'
  BY <1>14 DEF Restore
<1>15. ASSUME NEW r \in Requests, Ask(r) PROVE Redirections' /\ SoloOutputIsWhole'
  BY <1>15 DEF Ask
<1>16. ASSUME NEW r \in Requests, Query(r) PROVE Redirections' /\ SoloOutputIsWhole'
  BY <1>16 DEF Query
<1>17. ASSUME NEW r \in Requests, Phrase(r) PROVE Redirections' /\ SoloOutputIsWhole'
  BY <1>17 DEF Phrase
<1>18. ASSUME NEW r \in Requests, Deliver(r) PROVE Redirections' /\ SoloOutputIsWhole'
  BY <1>18 DEF Deliver
<1>19. CASE Leave
  BY <1>19 DEF Leave
<1>20. CASE ComeBack
  BY <1>20 DEF ComeBack
<1>21. CASE UNCHANGED vars
  BY <1>21 DEF vars
<1> HIDE DEF TypeOK, Redirections, SoloOutputIsWhole
<1> QED
  BY <1>2, <1>3, <1>4, <1>5, <1>6, <1>7, <1>8, <1>9, <1>10, <1>11, <1>12, <1>13,
     <1>14, <1>15, <1>16, <1>17, <1>18, <1>19, <1>20, <1>21 DEF Next, Load

\* With any number of loads, one that runs beside no other answers with its own
\* output, all of it and nothing else, and redirect_stdout leaves the terminal's
\* stdout behind when no two ever overlapped.
THEOREM OneLoadsOutputIsItsOwn == Spec => []SoloOutputIsWhole
<1>1. Init => Redirections /\ SoloOutputIsWhole
  BY ConsoleAssumption DEF Init, Redirections, SoloOutputIsWhole, Running, Actors
<1> QED
  BY <1>1, TypedAndCollected, StdoutComesBack, PTL DEF Spec

-----------------------------------------------------------------------------
(* Answers.                                                                *)

\* What AnswersAreCurrent says of one answer.
Current(r) ==
  /\ \/ Reads(asked[r], seen[r]) \subseteq shown[r].evidence
     \/ asked[r].kind = "neighbourhood" /\ Cardinality(shown[r].evidence) = PictureLimit
  /\ shown[r].evidence \subseteq Reads(asked[r], graph)
  /\ shown[r].text \subseteq Facts(graph) \cup FactsOfTheMoment(read[r])
  /\ shown[r].text # {} =>
       \A text \in Texts(asked[r], seen[r]) :
         text \ FactsOfTheMoment(seen[r]) \subseteq shown[r].text

\* What a request has so far, and has seen.
Answer(r) ==
  /\ Grown(seen[r], graph)
  /\ pc[r] \notin {"idle", "done"} => asked[r] \in Asks
  /\ pc[r] \notin {"phrase", "answered"} => shown[r] = NoAnswer
  /\ pc[r] = "phrase" \/ Answered(r) => Current(r)

Answers == \A r \in Requests : Answer(r)

\* So is all that may be asked.
LEMMA AsksAreWellAsked ==
  ASSUME NEW ask \in Asks
  PROVE  WellAsked(ask)
BY ConsoleAssumption DEF WellAsked

\* Growing is transitive.
LEMMA GrownAgain ==
  ASSUME NEW g, NEW h, NEW k, Grown(g, h), Grown(h, k)
  PROVE  Grown(g, k)
BY DEF Grown

\* And reflexive.
LEMMA GrownAlready ==
  ASSUME NEW g
  PROVE  Grown(g, g)
BY DEF Grown

\* A request that took no step keeps what it has, for the graph only grows.
LEMMA OthersKeep ==
  ASSUME TypeOK, TypeOK', Answers, Grown(graph, graph'), NEW r \in Requests,
         pc'[r] = pc[r], asked'[r] = asked[r], seen'[r] = seen[r], read'[r] = read[r],
         shown'[r] = shown[r], status'[r] = status[r]
  PROVE  Answer(r)'
<1>1. graph \in Graphs /\ graph' \in Graphs
  BY DEF TypeOK
<1>2. Grown(seen'[r], graph')
  BY GrownAgain DEF Answers, Answer
<1>3. ASSUME pc'[r] = "phrase" \/ Answered(r)' PROVE Current(r)'
  <2>1. Current(r) /\ asked[r] \in Asks
    BY <1>3 DEF Answers, Answer, Answered
  <2>2. Reads(asked[r], graph) \subseteq Reads(asked[r], graph')
    BY <1>1, <2>1, AsksAreWellAsked, ReadsGrow
  <2>3. Facts(graph) \subseteq Facts(graph')
    BY <1>1, FactsGrow
  <2> QED
    BY <2>1, <2>2, <2>3 DEF Current
<1> QED
  BY <1>2, <1>3 DEF Answers, Answer

\* No step of anybody takes anything out of the graph.
LEMMA GraphGrows ==
  ASSUME TypeOK, TypeOK', Collected, [Next]_vars
  PROVE  Grown(graph, graph')
<1>1. ASSUME NEW l \in Loads, Apply(l) PROVE Grown(graph, graph')
  <2>1. graph \in Graphs /\ graph' \in Graphs
    BY DEF TypeOK
  <2>2. \/ graph' = LandTopology(graph) \/ graph' = LandKnowledge(graph)
        \/ graph' = LandEvents(graph, found[l]) /\ found[l] \in Sources
    BY <1>1 DEF Apply, Collected
  <2> QED
    BY <2>1, <2>2, LandingGrows
<1>2. CASE UNCHANGED graph
  BY <1>2, GrownAlready
<1>3. (\E l \in Loads : Apply(l)) \/ UNCHANGED graph
  BY DEF Next, Load, vars, Look, Make, Take, Fail, Begin, Decline, Collect, CloseTest, Close,
         Forget, Report, Restore, Ask, Query, Phrase, Deliver, Leave, ComeBack
<1> QED
  BY <1>1, <1>2, <1>3

\* A picture is of what there is, and either all of it or as large as it may be.
LEMMA PicturesAre ==
  ASSUME NEW g, NEW alert, NEW some \in Pictures(g, alert)
  PROVE  /\ some \subseteq Neighbourhood(g, alert)
         /\ some = Neighbourhood(g, alert) \/ Cardinality(some) = PictureLimit
<1> DEFINE all == Neighbourhood(g, alert)
           own == OwnEdges(g, alert)
<1>1. some \in IF Cardinality(all) <= PictureLimit THEN {all}
               ELSE {x \in kSubset(PictureLimit, all) : own \subseteq x \/ x \subseteq own}
  BY Zenon DEF Pictures
<1> HIDE DEF all, own
<1>2. some = all \/ some \in kSubset(PictureLimit, all)
  BY <1>1
<1>3. some = all \/ (some \subseteq all /\ Cardinality(some) = PictureLimit)
  BY <1>2 DEF kSubset
<1> QED
  BY <1>3 DEF all

\* So are its words.
LEMMA TextsAreFresh ==
  ASSUME NEW g \in Graphs, NEW h \in Graphs, Grown(g, h), NEW ask, NEW text \in Texts(ask, h)
  PROVE  /\ text \subseteq Facts(h) \cup FactsOfTheMoment(h)
         /\ \A t \in Texts(ask, g) : t \ FactsOfTheMoment(g) \subseteq text
BY TextsStand, GrownAlready

\* The evidence that a query may come back with.
Shows(ask, g) ==
  IF ask.kind = "neighbourhood" THEN Pictures(g, ask.parameter) ELSE {Reads(ask, g)}

\* What a request makes of the graph it finds is current.
LEMMA FreshAnswer ==
  ASSUME NEW g \in Graphs, NEW h \in Graphs, Grown(g, h), NEW ask \in Asks,
         NEW evidence \in Shows(ask, h), NEW text \in Texts(ask, h)
  PROVE  /\ \/ Reads(ask, g) \subseteq evidence
            \/ ask.kind = "neighbourhood" /\ Cardinality(evidence) = PictureLimit
         /\ evidence \subseteq Reads(ask, h)
         /\ text \subseteq Facts(h) \cup FactsOfTheMoment(h)
         /\ \A t \in Texts(ask, g) : t \ FactsOfTheMoment(g) \subseteq text
<1>1. Reads(ask, g) \subseteq Reads(ask, h)
  BY AsksAreWellAsked, ReadsGrow
<1>2. CASE ask.kind = "neighbourhood"
  <2>1. Reads(ask, h) = Neighbourhood(h, ask.parameter)
    BY <1>2, Zenon DEF Reads
  <2>2. evidence \in Pictures(h, ask.parameter)
    BY <1>2 DEF Shows
  <2> QED
    BY <1>1, <1>2, <2>1, <2>2, PicturesAre, TextsAreFresh
<1>3. CASE ask.kind # "neighbourhood"
  BY <1>1, <1>3, TextsAreFresh DEF Shows
<1> QED
  BY <1>2, <1>3

\* Every step keeps all answers: a load's because the graph grows and its
\* request keeps what it has, a request's own because it reads a graph of one
\* moment, not before it was asked.
LEMMA AnswersStayCurrent ==
  ASSUME TypeOK, TypeOK', WholeAnswers, Collected, Answers, [Next]_vars
  PROVE  Answers'
<1> DEFINE Waits(r) == /\ pc'[r] = pc[r] /\ asked'[r] = asked[r] /\ seen'[r] = seen[r]
                       /\ read'[r] = read[r] /\ shown'[r] = shown[r] /\ status'[r] = status[r]
           Others(r) == \A s \in Requests \ {r} : Waits(s)
<1>1. Actors = Loads \cup Requests /\ Loads \cap Requests = {}
  BY ConsoleAssumption DEF Actors
<1>2. Grown(graph, graph') /\ graph \in Graphs /\ graph' \in Graphs
  BY GraphGrows DEF TypeOK
<1>3. ASSUME NEW r \in Requests, Waits(r) PROVE Answer(r)'
  BY <1>2, <1>3, OthersKeep
<1>4. ASSUME NEW r \in Requests, Answer(r)', Others(r)
      PROVE  Answers'
  BY <1>3, <1>4 DEF Answers
<1>5. ASSUME \A r \in Requests : Waits(r) PROVE Answers'
  BY <1>3, <1>5 DEF Answers
<1>6. \A r \in Requests : Answer(r)
  BY DEF Answers
<1>7. ASSUME NEW r \in Requests, pc[r] \in {"look", "make", "take"} \cup Working,
             shown' = shown, asked' = asked, seen' = seen, Others(r),
             \/ pc'[r] \in {"make", "take", "query"}
             \/ pc'[r] = "answered" /\ status'[r] = 500
      PROVE  Answers'
  <2>1. Grown(seen'[r], graph')
    BY <1>2, <1>6, <1>7, GrownAgain DEF Answer
  <2>2. asked'[r] \in Asks /\ shown'[r] = NoAnswer
    BY <1>6, <1>7 DEF Answer, Working
  <2>3. ~(pc'[r] = "phrase") /\ ~Answered(r)'
    BY <1>7 DEF Answered
  <2>4. Answer(r)'
    BY <2>1, <2>2, <2>3 DEF Answer
  <2> QED
    BY <1>4, <1>7, <2>4
<1>8. ASSUME NEW l \in Loads,
             \/ Look(l) \/ Make(l) \/ Take(l) \/ Fail(l) \/ Load(l)
      PROVE  Answers'
  <2>1. requestVars' = requestVars /\ \A r \in Requests : pc'[r] = pc[r]
    BY <1>1, <1>8 DEF Load, Look, Make, Take, Fail, Raises, Begin, Decline, Collect, Apply,
          CloseTest, Close, Forget, Report, Restore, Goes, TypeOK, requestVars
  <2> QED
    BY <1>5, <2>1 DEF requestVars
<1>9. ASSUME NEW r \in Requests, Look(r) \/ Make(r) \/ Take(r) \/ Fail(r)
      PROVE  Answers'
  <2>1. CASE Look(r)
    BY <1>1, <1>7, <2>1 DEF Look, Goes, TypeOK, Working, requestVars
  <2>2. CASE Make(r)
    BY <1>1, <1>7, <2>2 DEF Make, Goes, TypeOK, Working, requestVars
  <2>3. CASE Take(r)
    BY <1>1, <1>7, <2>3 DEF Take, Raises, First, Goes, TypeOK, Working, requestVars
  <2>4. CASE Fail(r)
    BY <1>1, <1>7, <2>4 DEF Fail, Raises, Goes, TypeOK, Working, requestVars
  <2> QED
    BY <1>9, <2>1, <2>2, <2>3, <2>4
<1>10. ASSUME NEW r \in Requests, Ask(r) PROVE Answers'
  <2>1. shown' = shown /\ shown[r] = NoAnswer /\ seen'[r] = graph /\ graph' = graph /\ Others(r)
    BY <1>1, <1>6, <1>10 DEF Ask, Answer, Goes, TypeOK
  <2>2. PICK ask \in Asks :
          /\ asked' = [asked EXCEPT ![r] = ask]
          /\ \/ ~reachable /\ Goes(r, "answered") /\ status' = [status EXCEPT ![r] = 503]
             \/ /\ reachable /\ ask.kind = "ask" /\ ~Supported(ask.question)
                /\ Goes(r, "answered") /\ status' = [status EXCEPT ![r] = 200]
             \/ /\ reachable /\ (ask.kind = "ask" => Supported(ask.question))
                /\ Goes(r, "look") /\ UNCHANGED status
    BY <1>10, Zenon DEF Ask
  <2>3. asked'[r] = ask /\ pc'[r] \in {"answered", "look"}
    BY <1>1, <2>2 DEF Goes, TypeOK
  <2>4. ASSUME Answered(r)' PROVE ask.kind = "ask" /\ ~Supported(ask.question)
    BY <1>1, <2>2, <2>4 DEF Answered, Goes, TypeOK
  <2>5. ASSUME Answered(r)' PROVE Current(r)'
    <3>1. Reads(ask, graph) = {}
      BY <2>4, <2>5, UnsupportedReadsNothing
    <3> QED
      BY <2>1, <2>3, <3>1 DEF Current, NoAnswer
  <2>6. Answer(r)'
    BY <2>1, <2>3, <2>5, GrownAlready DEF Answer
  <2> QED
    BY <1>4, <2>1, <2>6
<1>11. ASSUME NEW r \in Requests, Query(r) PROVE Answers'
  <2>1. PICK evidence \in Shows(asked[r], graph), text \in Texts(asked[r], graph) :
          shown' = [shown EXCEPT ![r] = [evidence |-> evidence, text |-> text]]
    BY <1>11, Zenon DEF Query, Shows
  <2>2. /\ asked' = asked /\ seen' = seen /\ read' = [read EXCEPT ![r] = graph]
        /\ graph' = graph /\ pc[r] = "query"
    BY <1>11 DEF Query
  <2>3. /\ asked[r] \in Asks /\ Grown(seen[r], graph) /\ seen[r] \in Graphs
    BY <1>6, <2>2 DEF Answer, TypeOK
  <2>4. /\ pc'[r] \in {"phrase", "answered"} /\ read'[r] = graph
        /\ shown'[r] = [evidence |-> evidence, text |-> text]
        /\ \A s \in Requests \ {r} : /\ pc'[s] = pc[s] /\ status'[s] = status[s]
                                     /\ read'[s] = read[s] /\ shown'[s] = shown[s]
    <3>1. \A s \in Requests \ {r} : pc'[s] = pc[s]
      BY <1>1, <1>11, QueryLeads
    <3>2. \A s \in Requests \ {r} : status'[s] = status[s]
      BY <1>11, QueryLeads
    <3>3. /\ shown'[r] = [evidence |-> evidence, text |-> text]
          /\ \A s \in Requests \ {r} : shown'[s] = shown[s]
      BY <2>1 DEF WholeAnswers
    <3> QED
      BY <1>11, <2>2, <3>1, <3>2, <3>3, QueryLeads DEF TypeOK
  <2>5. Current(r)'
    <3>1. /\ \/ Reads(asked[r], seen[r]) \subseteq evidence
             \/ asked[r].kind = "neighbourhood" /\ Cardinality(evidence) = PictureLimit
          /\ evidence \subseteq Reads(asked[r], graph)
          /\ text \subseteq Facts(graph) \cup FactsOfTheMoment(graph)
          /\ \A t \in Texts(asked[r], seen[r]) : t \ FactsOfTheMoment(seen[r]) \subseteq text
      BY <1>2, <2>1, <2>3, FreshAnswer
    <3> QED
      BY <2>2, <2>4, <3>1 DEF Current
  <2>6. Answer(r)'
    BY <2>2, <2>3, <2>4, <2>5 DEF Answer
  <2> QED
    BY <1>4, <2>2, <2>4, <2>6
<1>12. ASSUME NEW r \in Requests, Phrase(r) PROVE Answers'
  <2>1. /\ asked' = asked /\ seen' = seen /\ read' = read /\ graph' = graph
        /\ pc[r] = "phrase" /\ pc'[r] = "answered"
        /\ \A s \in Requests \ {r} : pc'[s] = pc[s] /\ status'[s] = status[s]
    BY <1>1, <1>12 DEF Phrase, Goes, TypeOK
  <2>2. Current(r) /\ Grown(seen[r], graph) /\ asked[r] \in Asks
    BY <1>6, <2>1 DEF Answer
  <2>3. /\ \A s \in Requests \ {r} : shown'[s] = shown[s]
        /\ shown'[r].evidence = shown[r].evidence
        /\ shown'[r].text = shown[r].text \/ shown'[r].text = {}
    BY <1>12, PhraseKeepsEvidence
  <2>4. Current(r)'
    BY <2>1, <2>2, <2>3 DEF Current
  <2>5. Answer(r)'
    BY <2>1, <2>2, <2>4 DEF Answer
  <2> QED
    BY <1>4, <2>1, <2>3, <2>5
<1>13. ASSUME NEW r \in Requests, Deliver(r) PROVE Answers'
  <2>1. /\ shown'[r] = NoAnswer /\ seen'[r] = Empty /\ pc'[r] = "done" /\ Others(r)
    BY <1>1, <1>13 DEF Deliver, Goes, TypeOK, WholeAnswers
  <2>2. Grown(Empty, graph')
    BY DEF Grown, Empty
  <2>3. Answer(r)'
    BY <2>1, <2>2 DEF Answer, Answered
  <2> QED
    BY <1>4, <2>1, <2>3
<1>14. CASE Leave \/ ComeBack \/ UNCHANGED vars
  BY <1>5, <1>14 DEF Leave, ComeBack, vars, requestVars
<1> QED
  BY <1>1, <1>8, <1>9, <1>10, <1>11, <1>12, <1>13, <1>14 DEF Next

\* The graph only grows, whatever the loads do and in whatever order, and with it
\* what an alert's templates state of it: knowledge_writes and events_writes merge
\* and delete nothing.  That is so of Facts only: an incident's severity, which a
\* load sets anew, and the counts are FactsOfTheMoment and may change.
THEOREM NothingIsForgotten ==
  Spec => [][Grown(graph, graph') /\ Facts(graph) \subseteq Facts(graph')]_vars
<1>1. TypeOK /\ TypeOK' /\ Collected /\ [Next]_vars =>
        Grown(graph, graph') /\ Facts(graph) \subseteq Facts(graph')
  BY GraphGrows, FactsGrow DEF TypeOK
<1> QED
  BY <1>1, TypedAndCollected, PTL DEF Spec

\* For any alerts, sources, questions and loads: an answer has all that the graph
\* held when it was asked for, a picture as much of it as LIMIT lets in, nothing
\* that the graph does not hold now, states lasting facts that hold now and of the
\* others those of the graph that its query found, and leaves out no lasting one
\* that the template had to state when it was asked.
THEOREM AnswersStandUp == Spec => []AnswersAreCurrent
<1>1. Init => Answers /\ WholeAnswers
  BY DEF Init, Answers, Answer, Answered, Grown, Empty, Actors, NoAnswer, WholeAnswers
<1>2. Answers => AnswersAreCurrent
  BY DEF Answers, Answer, Current, AnswersAreCurrent
<1> QED
  BY <1>1, <1>2, TypedAndCollected, AnswersStayWhole, AnswersStayCurrent, PTL DEF Spec
=============================================================================
