------------------------------ MODULE GraphLoader ------------------------------
(***************************************************************************)
(* The knowledge-graph loader, kg/loader: collect, evaluate the rules once *)
(* more, and write three sources to Neo4j, one transaction each.           *)
(*                                                                         *)
(* All statements are MERGEs: they add what is missing and delete nothing. *)
(* A load may die, or lose its connection, before any of its transactions; *)
(* what it has committed stays.  Several loads may run at a time (the      *)
(* console starts one as a subprocess), each from what it collected when   *)
(* it began, while the services keep logging.                              *)
(*                                                                         *)
(* The log holds failed logins, and what is told of one incident.  A live  *)
(* collection reads all of it and adds a health event for every critical   *)
(* service, with a fresh id, so it is identified with the load; a capture  *)
(* (--file, --stdin, the console's default) is what was logged up to some  *)
(* earlier moment, and has no health.  The alerts come from                *)
(* DetectionRules.  Of the graph this module keeps what depends on several *)
(* loads: Event, Alert and Incident nodes and the edges between them and   *)
(* to the techniques.  Services, endpoints, users, roles, assets, controls *)
(* and runbooks are MERGEd from constants or from the same events.         *)
(***************************************************************************)
EXTENDS DetectionRules, Sequences, FiniteSetsExt

CONSTANTS
  Loads,           \* runs of the loader, each once
  Attempts,        \* failed logins, each logged once
  Users, Addresses,
  Services,        \* services that Consul checks
  IncidentWindow,  \* INCIDENT_WINDOW
  MaxTime,         \* bound on the clock
  MaxIncident      \* bound on what is told of the incident

ASSUME LoaderAssumption ==
  /\ IsFiniteSet(Loads) /\ IsFiniteSet(Attempts) /\ IsFiniteSet(Services)
  /\ {IncidentWindow, MaxTime, MaxIncident} \subseteq Nat
  /\ Nobody \notin Users \cup Addresses

VARIABLES
  clock,
  log,        \* the failed logins logged so far
  incident,   \* when INCIDENT_CREATED and then each INCIDENT_ESCALATED was
  stage,      \* where a load stands
  applied,    \* how many of its sources it has written
  found,      \* what it collected
  told,       \* how many of the incident's events that were
  graph,      \* the committed graph
  overlapped, \* history: loads that another one ran beside
  captures    \* history: loads of a capture

vars == <<clock, log, incident, stage, applied, found, told, graph, overlapped, captures>>

LoginEvents ==
  [req : Attempts, type : {"AUTH_FAILED"}, at : 0..MaxTime,
   service : {"auth-service"}, user : Users, ip : Addresses, status : {401},
   privileged : {FALSE}]

HealthEvents ==
  [req : Loads \X Services, type : {"HEALTH_CHECK_FAILED"}, at : 0..MaxTime,
   service : Services, user : {Nobody}, ip : {Nobody}, status : {503},
   privileged : {FALSE}]

EventIds == Attempts \cup (Loads \X Services) \cup ({"incident"} \X (1..MaxIncident))
AlertIds == {FailedLogins, ServiceFailure} \X (Users \cup {Nobody}) \X SUBSET EventIds

Sources == {"topology", "events", "security-knowledge"}

TypeOK ==
  /\ clock \in 0..MaxTime
  /\ log \subseteq LoginEvents
  /\ incident \in Seq(0..MaxTime) /\ Len(incident) <= MaxIncident
  /\ stage \in [Loads -> {"idle", "loading", "dead", "done"}]
  /\ applied \in [Loads -> 0..Cardinality(Sources)]
  /\ found \in [Loads -> SUBSET (LoginEvents \cup HealthEvents)]
  /\ told \in [Loads -> 0..MaxIncident]
  /\ DOMAIN graph = {"events", "alerts", "created", "contains", "indicates", "incident"}
  /\ graph.events \subseteq EventIds
  /\ graph.alerts \subseteq AlertIds
  /\ graph.created \subseteq EventIds \X graph.alerts
  /\ graph.contains \subseteq graph.alerts
  /\ graph.indicates \subseteq graph.alerts
  /\ graph.incident \in 0..MaxIncident
  /\ overlapped \subseteq Loads /\ captures \subseteq Loads

Init ==
  /\ clock = 0
  /\ log = {}
  /\ incident = <<>>
  /\ stage = [l \in Loads |-> "idle"]
  /\ applied = [l \in Loads |-> 0]
  /\ found = [l \in Loads |-> {}]
  /\ told = [l \in Loads |-> 0]
  /\ graph = [events |-> {}, alerts |-> {}, created |-> {}, contains |-> {},
              indicates |-> {}, incident |-> 0]
  /\ overlapped = {} /\ captures = {}
-----------------------------------------------------------------------------
(* The services, meanwhile.                                                *)

Tick ==
  /\ clock < MaxTime
  /\ clock' = clock + 1
  /\ UNCHANGED <<log, incident, stage, applied, found, told, graph, overlapped, captures>>

LogFailedLogin ==
  /\ \E e \in LoginEvents :
       /\ e.at = clock /\ \A d \in log : d.req # e.req
       /\ log' = log \cup {e}
  /\ UNCHANGED <<clock, incident, stage, applied, found, told, graph, overlapped, captures>>

\* It is created once and escalated after that.
LogIncident ==
  /\ Len(incident) < MaxIncident
  /\ incident' = Append(incident, clock)
  /\ UNCHANGED <<clock, log, stage, applied, found, told, graph, overlapped, captures>>
-----------------------------------------------------------------------------
(* What a load makes of its collection.                                    *)

\* _latest_moment, the moment of the evaluation: the newest event's.
Latest(l) ==
  LET moments == {e.at : e \in found[l]} \cup {incident[n] : n \in 1..told[l]}
  IN IF moments = {} THEN clock ELSE Max(moments)

\* The evaluation of collect_writes.
Findings(l) == EvaluateAll(found[l], Latest(l))

\* A mistake: the hash leaves the evidence out.
StableIdWithoutEvidence(a) == <<a.rule, a.user, {}>>

\* stable_alert_id: a hash of the rule, what is affected and the events cited.
\* Service and entity follow from the rule and the events.
StableId(a) == <<a.rule, a.user, {e.req : e \in a.cites}>>

\* Alerts with one id are folded into one by the loader's AlertStore, and by
\* the graph.
Ids(l) == {StableId(a) : a \in Findings(l)}

\* _incident_writes: the alerts an incident groups, by their evidence's time.
Grouped(l) ==
  {a \in Findings(l) :
     /\ told[l] > 0
     /\ a.severity \in {"HIGH", "CRITICAL"}
     /\ \E e \in a.cites : e.at \in (incident[1] - IncidentWindow)..incident[1]}
-----------------------------------------------------------------------------
(* The three transactions.                                                 *)

\* The ids of the incident's events that the load knows of.
Told(l) == {"incident"} \X (1..told[l])

\* topology: nothing that this module keeps.
Topology(l) == graph

\* A mistake: an incident's severity is that of its creation.
EventsCreatedSeverity(l) ==
  [graph EXCEPT
     !.events = @ \cup {e.req : e \in found[l]} \cup Told(l),
     !.alerts = @ \cup Ids(l),
     !.created = @ \cup UNION {{e.req : e \in a.cites} \X {StableId(a)} :
                                 a \in Findings(l)},
     !.contains = @ \cup {StableId(a) : a \in Grouped(l)},
     !.incident = IF told[l] = 0 THEN @ ELSE 1]

\* A mistake: every load gives its alerts ids of its own.
EventsFreshIds(l) ==
  [graph EXCEPT
     !.events = @ \cup {e.req : e \in found[l]} \cup Told(l),
     !.alerts = @ \cup {<<a.rule, a.user, {l}>> : a \in Findings(l)},
     !.created = @ \cup UNION {{e.req : e \in a.cites} \X {<<a.rule, a.user, {l}>>} :
                                 a \in Findings(l)},
     !.incident = IF told[l] = 0 THEN @ ELSE told[l]]

\* events: events, alerts with the edges from what they cite, the incident
\* with the severity of its newest event, and what it contains.
Events(l) ==
  [graph EXCEPT
     !.events = @ \cup {e.req : e \in found[l]} \cup Told(l),
     !.alerts = @ \cup Ids(l),
     !.created = @ \cup UNION {{e.req : e \in a.cites} \X {StableId(a)} :
                                 a \in Findings(l)},
     !.contains = @ \cup {StableId(a) : a \in Grouped(l)},
     !.incident = IF told[l] = 0 THEN @ ELSE told[l]]

\* knowledge: the techniques, and INDICATES from every alert of the graph, by
\* the name of its rule, whichever load brought it.
Knowledge(l) == [graph EXCEPT !.indicates = graph.alerts]

\* A mistake: the techniques are linked before the alerts are there.
OrderSwapped == <<"topology", "security-knowledge", "events">>

\* collect_writes' order.
Order == <<"topology", "events", "security-knowledge">>

Apply(l) ==
  /\ stage[l] = "loading"
  /\ applied' = [applied EXCEPT ![l] = @ + 1]
  /\ graph' = CASE Order[applied'[l]] = "topology" -> Topology(l)
                [] Order[applied'[l]] = "events" -> Events(l)
                [] Order[applied'[l]] = "security-knowledge" -> Knowledge(l)
  /\ stage' = [stage EXCEPT ![l] = IF applied'[l] = Len(Order) THEN "done" ELSE @]
  /\ UNCHANGED <<clock, log, incident, found, told, overlapped, captures>>

\* The running stack's log, and Consul's critical services.
CollectLive(l) ==
  /\ \E critical \in SUBSET Services :
       found' = [found EXCEPT ![l] =
         log \cup {[req |-> <<l, s>>, type |-> "HEALTH_CHECK_FAILED", at |-> clock,
                    service |-> s, user |-> Nobody, ip |-> Nobody, status |-> 503,
                    privileged |-> FALSE] : s \in critical}]
  /\ told' = [told EXCEPT ![l] = Len(incident)]
  /\ UNCHANGED captures

\* What was logged up to some moment.
CollectCapture(l) ==
  /\ \E t \in 0..clock, n \in 0..Len(incident) :
       /\ \A k \in 1..Len(incident) : incident[k] <= t <=> k <= n
       /\ found' = [found EXCEPT ![l] = {e \in log : e.at <= t}]
       /\ told' = [told EXCEPT ![l] = n]
  /\ captures' = captures \cup {l}

\* The collection.
Collect(l) ==
  /\ stage[l] = "idle"
  /\ CollectLive(l) \/ CollectCapture(l)
  /\ stage' = [stage EXCEPT ![l] = "loading"]
  /\ LET others == {m \in Loads \ {l} : stage[m] = "loading"}
     IN overlapped' = IF others = {} THEN overlapped
                                     ELSE overlapped \cup others \cup {l}
  /\ UNCHANGED <<clock, log, incident, applied, graph>>

\* The source cannot be collected, the database is lost, the process dies.
Die(l) ==
  /\ stage[l] \in {"idle", "loading"}
  /\ stage' = [stage EXCEPT ![l] = "dead"]
  /\ UNCHANGED <<clock, log, incident, applied, found, told, graph, overlapped, captures>>
-----------------------------------------------------------------------------
Next ==
  \/ Tick
  \/ LogFailedLogin
  \/ LogIncident
  \/ \E l \in Loads : Collect(l) \/ Apply(l) \/ Die(l)

Spec == Init /\ [][Next]_vars
-----------------------------------------------------------------------------
(* What the graph owes its readers.                                        *)

Done(l) == stage[l] = "done"
EvidenceOf(id) == {p[1] : p \in {q \in graph.created : q[2] = id}}

\* A node is one finding: whatever loads overlap, die and repeat each other on
\* a growing log, an Alert has the evidence of one firing, all of it and
\* nothing of another's, and all of it is in the graph (stable_alert_id,
\* "two alerts citing different events ... must not collapse onto one node").
AlertsAreFindings ==
  \A id \in graph.alerts :
    /\ EvidenceOf(id) \subseteq graph.events
    /\ \E l \in Loads : \E a \in Findings(l) :
         StableId(a) = id /\ EvidenceOf(id) = {e.req : e \in a.cites}

\* A load that came to its end left everything it found, with the way from
\* alert to technique, although other loads may have written, or died, between
\* its transactions (main.py on the order of the sources).  The incident goes
\* back to what an older of its events tells only by a load that read a capture
\* or ran beside another (_incident_writes).
CompletedLoadIsThere ==
  \A l \in Loads :
    /\ Done(l) =>
         /\ {e.req : e \in found[l]} \subseteq graph.events
         /\ Ids(l) \subseteq graph.alerts \cap graph.indicates
         /\ {StableId(a) : a \in Grouped(l)} \subseteq graph.contains
    /\ applied[l] >= 2 /\ graph.incident < told[l] =>
         \E m \in overlapped \cup captures : applied[m] >= 2 /\ told[m] = graph.incident

\* What a dead load left half-way is repaired by the next one that completes:
\* an alert without its technique is one some load wrote that is still to
\* write its techniques, or died before it could, after the last load that did.
GapsHaveAnOwner ==
  \A id \in graph.alerts \ graph.indicates :
    \E l \in Loads : id \in Ids(l) /\ applied[l] = 2 /\ ~Done(l)
-----------------------------------------------------------------------------
(* What the docs say and the code does not do.                             *)

\* "severity (latest)" (graph_model.md): an Incident node has the severity of
\* the newest of its events that the graph holds.
SeverityIsLatest ==
  \A n \in 1..MaxIncident : <<"incident", n>> \in graph.events => n <= graph.incident
=============================================================================
