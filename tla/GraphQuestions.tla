--------------------------- MODULE GraphQuestions ---------------------------
(***************************************************************************)
(* rag: from a question to the evidence for an answer, and to what the     *)
(* answer's template says of it.                                           *)
(*                                                                         *)
(* A question is what the keyword rules can see of it: which phrases of    *)
(* the intent table are in it, and which alert and which service it names. *)
(* Evidence is sets of nodes <<label, key>> and edges, and the properties  *)
(* that a node keeps; the order of rows tells which row's those are.       *)
(***************************************************************************)
EXTENDS KnowledgeGraph, Sequences

\* QUERIES: get_query knows no other.
QueryKeys == {"alerts_for_service", "users_high_severity", "threats_for_service",
              "controls_for_alert", "dependency_impact", "incidents_and_alerts"}

\* INTENTS: the phrases, what the question must name, and INTENT_QUERIES'
\* query; the order breaks ties.
Intents == <<
  [name |-> "ALERT_EXPLANATION", entity |-> "alert", query |-> "controls_for_alert",
   phrases |-> {"why was", "why did", "what caused", "cause of", "explain", "raised"}],
  [name |-> "RESPONSE_PROCEDURE", entity |-> "alert", query |-> "controls_for_alert",
   phrases |-> {"what should be done", "what should i do", "how do i respond",
                "response procedure", "runbook", "remediate", "respond to"}],
  [name |-> "SERVICE_ALERTS", entity |-> "service", query |-> "alerts_for_service",
   phrases |-> {"which alerts", "what alerts", "alerts for", "alerts affecting",
                "wrong with"}],
  [name |-> "THREAT_MITIGATION", entity |-> "service", query |-> "threats_for_service",
   phrases |-> {"which threats", "what threats", "which techniques",
                "attack techniques", "exposed to", "which controls", "what controls",
                "mitigate"}],
  [name |-> "USER_LINKAGE", entity |-> "none", query |-> "users_high_severity",
   phrases |-> {"which users", "what users", "which accounts", "whose account",
                "failed logins", "under attack"}],
  [name |-> "DEPENDENCY_IMPACT", entity |-> "service", query |-> "dependency_impact",
   phrases |-> {"impact if", "if this service fails", "which services are affected",
                "what is affected", "blast radius", "depends on", "goes down",
                "fails"}],
  [name |-> "INCIDENT_LINKAGE", entity |-> "none", query |-> "incidents_and_alerts",
   phrases |-> {"incidents", "which incidents", "what incidents", "incidents linked",
                "incident contain", "security incident", "wider security incident",
                "wider incident"}]>>

\* The services that _SERVICE_NAME finds in a question.
Nameable == {"auth-service", "incident-service", "asset-service", "alert-service",
             "graph-service"}

\* classify: the place of the intent in the table, 0 for UNSUPPORTED.
Score(k, question) == Cardinality(Intents[k].phrases \cap question.said)
Classify(question) ==
  LET best == Max({Score(k, question) : k \in DOMAIN Intents})
  IN IF best = 0 THEN 0 ELSE Min({k \in DOMAIN Intents : Score(k, question) = best})

\* _extract: the entity that the intent wants, if the question names one.
Entity(k, question) ==
  CASE Intents[k].entity = "alert" -> question.alert
    [] Intents[k].entity = "service" /\ question.service \in Nameable -> question.service
    [] OTHER -> NoName

\* build_query raises UnsupportedQuestionError for the others.
Supported(question) ==
  LET k == Classify(question)
  IN k # 0 /\ (Intents[k].entity # "none" => Entity(k, question) # NoName)
-----------------------------------------------------------------------------
(* The rows of a query, as nodes and as edges.                             *)

Rows(key, parameter, g) ==
  CASE key = "controls_for_alert" -> ControlsForAlert(g, parameter)
    [] key = "alerts_for_service" -> AlertsForService(g, parameter)
    [] key = "threats_for_service" -> ThreatsForService(g, parameter)
    [] key = "users_high_severity" -> UsersHighSeverity(g)
    [] key = "dependency_impact" -> DependencyImpact(g, parameter)
    [] key = "incidents_and_alerts" -> IncidentsAndAlerts(g)

\* SHAPERS.
Nodes(key, row) ==
  CASE key = "controls_for_alert" ->
         {<<"Alert", row.alert>>, <<"Threat", row.technique>>}
           \cup ({"Control"} \X row.controls) \cup ({"Document"} \X row.runbooks)
    [] key = "alerts_for_service" -> {<<"Alert", row.alert>>}
    [] key = "threats_for_service" ->
         {<<"Threat", row.technique>>} \cup ({"Control"} \X row.controls)
           \cup ({"Vulnerability"} \X row.vulnerabilities)
    [] key = "users_high_severity" ->
         {<<"User", row.user>>} \cup ({"Event"} \X row.events)
    [] key = "dependency_impact" -> {<<"Service", row.impacted>>}
    [] key = "incidents_and_alerts" ->
         {<<"Incident", row.incident>>} \cup {<<"Alert", a[1]>> : a \in row.alerts}
           \cup ({"Asset"} \X ({row.asset} \ {NoName}))

Edges(key, row) ==
  CASE key = "controls_for_alert" ->
         {<<row.alert, "INDICATES", row.technique>>}
           \cup {<<c, "MITIGATES", row.technique>> : c \in row.controls}
           \cup {<<d, "SUPPORTS_RESPONSE_TO", row.technique>> : d \in row.runbooks}
    [] key = "threats_for_service" ->
         {<<row.technique, "EXPLOITS", v>> : v \in row.vulnerabilities}
           \cup {<<c, "MITIGATES", row.technique>> : c \in row.controls}
    [] key = "users_high_severity" ->
         {<<row.user, "TRIGGERED", e>> : e \in row.events}
    [] key = "incidents_and_alerts" ->
         {<<row.incident, "AFFECTS", a>> : a \in {row.asset} \ {NoName}}
           \cup {<<row.incident, "CONTAINS", a[1]>> : a \in row.alerts}
    [] OTHER -> {}

\* The properties of the row's nodes that a template states: <<key, name, value>>.
Properties(key, row) ==
  CASE key = "controls_for_alert" -> {<<row.alert, "ruleName", row.rule>>}
    [] key = "alerts_for_service" ->
         {<<row.alert, "ruleName", row.rule>>, <<row.alert, "severity", row.severity>>,
          <<row.alert, "status", row.status>>}
    [] key = "threats_for_service" -> {}
    [] key = "users_high_severity" ->
         {<<row.user, "ruleName", row.rule>>, <<row.user, "severity", row.severity>>}
    [] key = "dependency_impact" -> {<<row.impacted, "hops", row.hops>>}
    [] key = "incidents_and_alerts" ->
         {<<row.incident, "severity", row.severity>>}
           \cup {<<a[1], "ruleName", a[2]>> : a \in row.alerts}

NoEvidence == [nodes |-> {}, edges |-> {}]

Found(question, g) ==
  LET k == Classify(question)
  IN IF Supported(question) THEN Rows(Intents[k].query, Entity(k, question), g) ELSE {}

\* retrieve, on the graph as the query finds it; shape_rows drops duplicates.
Retrieve(question, g) ==
  LET key == Intents[Classify(question)].query
      rows == Found(question, g)
  IN IF rows = {} THEN NoEvidence
     ELSE [nodes |-> UNION {Nodes(key, r) : r \in rows},
           edges |-> UNION {Edges(key, r) : r \in rows}]

\* _unique keeps a node as its first row has it, and the edges of all its rows.
\* Only a user comes in rows that differ: q2 puts the rule with the most alerts
\* first, and among equals any.
FirstRows(rows) ==
  {first \in [{r.user : r \in rows} -> rows] :
     \A u \in DOMAIN first :
       first[u].user = u /\ \A r \in rows : r.user = u => r.alerts <= first[u].alerts}
Kept(question, g) ==
  LET key == Intents[Classify(question)].query
      rows == Found(question, g)
  IN IF rows = {} THEN {{}}
     ELSE IF key # "users_high_severity" THEN {UNION {Properties(key, r) : r \in rows}}
     ELSE {UNION {Properties(key, first[u]) : u \in DOMAIN first} :
             first \in FirstRows(rows)}

Grounded(evidence) == evidence.nodes # {}
Keys(evidence, label) == {n[2] : n \in {m \in evidence.nodes : m[1] = label}}
Typed(evidence, type) == {e \in evidence.edges : e[2] = type}
Ends(evidence, type, start) ==
  {e[3] : e \in {f \in Typed(evidence, type) : f[1] = start}}
-----------------------------------------------------------------------------
(* What the templates say: the statements of their sentences, each word of *)
(* which that can differ is read from the evidence.                        *)

\* The properties of that name, for the nodes of that label.
Stated(evidence, label, kept, name) ==
  {p \in kept : p[1] \in Keys(evidence, label) /\ p[2] = name}

Worded(stated, words) == {<<p[1], words, p[3]>> : p \in stated}

CreatedBy(evidence, kept) ==
  Worded(Stated(evidence, "Alert", kept, "ruleName"), "created-by")

\* The rule's advice, the controls and the runbooks.
Response(evidence, kept) ==
  Worded(Stated(evidence, "Alert", kept, "ruleName"), "advised-by")
    \cup UNION {{<<c, "helps-against", a>> : c \in Keys(evidence, "Control")}
           \cup {<<d, "covers", a>> : d \in Keys(evidence, "Document")} :
             a \in Keys(evidence, "Alert")}

Explanation(evidence, kept) ==
  CreatedBy(evidence, kept)
    \cup (Keys(evidence, "Alert") \X {"indicates"} \X Keys(evidence, "Threat"))

ServiceAlerts(evidence, kept, service) ==
  {<<"alerts-of", service, Cardinality(Keys(evidence, "Alert"))>>}
    \cup {<<a, "affects", service>> : a \in Keys(evidence, "Alert")}
    \cup CreatedBy(evidence, kept)
    \cup Worded(Stated(evidence, "Alert", kept, "severity"), "rated")
    \cup Worded(Stated(evidence, "Alert", kept, "status"), "is")

ThreatMitigation(evidence, service) ==
  {<<t, "targets", service>> : t \in Keys(evidence, "Threat")}
    \cup {<<c, "protects", service>> : c \in Keys(evidence, "Control")}

\* A user with the rule and severity kept, and the number of all events.
UserLinkage(evidence, kept) ==
  {<<"users", Cardinality(Keys(evidence, "User"))>>}
    \cup {<<o[1][1], "linked", o[1][3], o[2][3],
             Cardinality(Ends(evidence, "TRIGGERED", o[1][1]))>> :
             o \in {q \in Stated(evidence, "User", kept, "ruleName")
                          \X Stated(evidence, "User", kept, "severity") : q[1][1] = q[2][1]}}

Impact(evidence, kept, service) ==
  {<<"impacted-by", service, Cardinality(Keys(evidence, "Service"))>>}
    \cup {<<p[1], "needs", service, p[3]>> : p \in Stated(evidence, "Service", kept, "hops")}

IncidentLinkage(evidence, kept) ==
  {<<"incidents", Cardinality(Keys(evidence, "Incident"))>>}
    \cup Worded(Stated(evidence, "Incident", kept, "severity"), "rated")
    \cup Typed(evidence, "AFFECTS") \cup Typed(evidence, "CONTAINS")
    \cup CreatedBy(evidence, kept)
    \cup {<<i, "CONTAINS", NoName>> :
             i \in {j \in Keys(evidence, "Incident") : Ends(evidence, "CONTAINS", j) = {}}}

\* TEMPLATES, for evidence that is not empty; generate says nothing of another.
Template(question, evidence, kept) ==
  LET k == Classify(question)
      name == IF k = 0 THEN "UNSUPPORTED" ELSE Intents[k].name
      entity == Entity(k, question)
  IN IF ~Grounded(evidence) THEN {}
     ELSE CASE name = "ALERT_EXPLANATION" ->
                 Explanation(evidence, kept) \cup Response(evidence, kept)
            [] name = "RESPONSE_PROCEDURE" -> Response(evidence, kept)
            [] name = "SERVICE_ALERTS" -> ServiceAlerts(evidence, kept, entity)
            [] name = "THREAT_MITIGATION" -> ThreatMitigation(evidence, entity)
            [] name = "USER_LINKAGE" -> UserLinkage(evidence, kept)
            [] name = "DEPENDENCY_IMPACT" -> Impact(evidence, kept, entity)
            [] name = "INCIDENT_LINKAGE" -> IncidentLinkage(evidence, kept)
=============================================================================
