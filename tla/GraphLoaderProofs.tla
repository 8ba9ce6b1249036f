--------------------------- MODULE GraphLoaderProofs ---------------------------
(***************************************************************************)
(* GraphLoader's safety for any sets of loads, logins, accounts and        *)
(* services, any threshold and any window: overlapping and dying loads     *)
(* leave a graph whose alerts are findings.                                *)
(***************************************************************************)
EXTENDS GraphLoader, FiniteSetTheorems, TLAPS

Reqs(events) == {e.req : e \in events}

\* Where a load stands.
StageInv ==
  \A l \in Loads :
    /\ told[l] <= Len(incident)
    /\ stage[l] = "idle" => applied[l] = 0 /\ told[l] = 0
    /\ stage[l] = "loading" => applied[l] < 3
    /\ stage[l] = "done" <=> applied[l] = 3

\* An alert's edges are those its id tells, and some load found it.
AlertInv ==
  \A id \in graph.alerts :
    /\ \A x : <<x, id>> \in graph.created <=> x \in id[3]
    /\ id[3] \subseteq graph.events
    /\ \E l \in Loads : applied[l] >= 2 /\ id \in Ids(l)

\* What a load has written stays.
LandedInv ==
  \A l \in Loads :
    /\ applied[l] >= 2 =>
         /\ Reqs(found[l]) \subseteq graph.events
         /\ Ids(l) \subseteq graph.alerts
         /\ {StableId(a) : a \in Grouped(l)} \subseteq graph.contains
    /\ applied[l] = 3 => Ids(l) \subseteq graph.indicates

\* A load of the running log that none runs beside knows all that the others
\* do, so that only the other loads take the incident back.
IncidentInv ==
  /\ \A l \in Loads \ (overlapped \cup captures) : stage[l] = "loading" =>
       \A m \in Loads \ {l} : stage[m] # "loading" /\ told[m] <= told[l]
  /\ \A l \in Loads : applied[l] >= 2 /\ graph.incident < told[l] =>
       \E m \in overlapped \cup captures : applied[m] >= 2 /\ told[m] = graph.incident

IInv ==
  /\ TypeOK
  /\ StageInv
  /\ AlertInv
  /\ LandedInv
  /\ IncidentInv
  /\ GapsHaveAnOwner
-----------------------------------------------------------------------------
(* What the rules can make of a collection.                                *)

\* Only the rules on logins and on services fire here, and each alert cites
\* some of what was collected.
LEMMA FindingsShape ==
  ASSUME NEW F, F \subseteq LoginEvents \cup HealthEvents, NEW now, NEW a \in EvaluateAll(F, now)
  PROVE  /\ a.rule \in {FailedLogins, ServiceFailure}
         /\ a.user \in Users \cup {Nobody}
         /\ a.cites \subseteq F /\ a.cites # {}
<1>0. Cardinality({}) = 0
  BY FS_EmptySet
<1>1. \A e \in F : /\ e.user \in Users \cup {Nobody}
                   /\ \/ e.type = "AUTH_FAILED"
                      \/ e.type = "HEALTH_CHECK_FAILED" /\ e.status = 503
  <2> SUFFICES ASSUME NEW e \in F
               PROVE  /\ e.user \in Users \cup {Nobody}
                      /\ \/ e.type = "AUTH_FAILED"
                         \/ e.type = "HEALTH_CHECK_FAILED" /\ e.status = 503
    OBVIOUS
  <2>1. CASE e \in LoginEvents
    BY <2>1 DEF LoginEvents
  <2>2. CASE e \in HealthEvents
    BY <2>2 DEF HealthEvents
  <2> QED
    BY <2>1, <2>2
<1>2. CASE a \in MultipleFailedLogins(F, now)
  <2> DEFINE recent == {e \in Within(F, now, LoginWindow) : e.type = "AUTH_FAILED"}
             Account(u) == {e \in recent : e.user = u}
             Address(i) == {e \in recent : e.ip = i}
  <2>1. recent \subseteq F
    BY DEF Within
  <2>2. /\ Cardinality(a.cites) >= LoginThreshold
        /\ \/ \E u \in {e.user : e \in recent} \ {Nobody} :
                a = Alert(FailedLogins, <<"user", u>>, u, "HIGH", Account(u), FALSE)
           \/ \E i \in {e.ip : e \in recent} \ {Nobody} :
                a = Alert(FailedLogins, <<"address", i>>, SingleUser(Address(i)), "HIGH",
                          Address(i), FALSE)
    BY <1>2, Zenon DEF MultipleFailedLogins
  <2>3. a.cites # {}
    BY <1>0, <2>2, RulesAssumption
  <2>4. ASSUME NEW i
        PROVE  SingleUser(Address(i)) \in Users \cup {Nobody}
    <3> DEFINE users == {e.user : e \in Address(i)} \ {Nobody}
    <3>1. users \subseteq Users
      BY <1>1, <2>1
    <3>2. SingleUser(Address(i)) = IF Cardinality(users) = 1 THEN CHOOSE u \in users : TRUE ELSE Nobody
      BY DEF SingleUser
    <3>3. Cardinality(users) = 1 => users # {}
      BY <1>0
    <3> HIDE DEF users
    <3> QED
      BY <3>1, <3>2, <3>3
  <2>5. CASE \E u \in {e.user : e \in recent} \ {Nobody} :
                a = Alert(FailedLogins, <<"user", u>>, u, "HIGH", Account(u), FALSE)
    <3>1. PICK u \in {e.user : e \in recent} \ {Nobody} :
                a = Alert(FailedLogins, <<"user", u>>, u, "HIGH", Account(u), FALSE)
      BY <2>5
    <3>2. a.rule = FailedLogins /\ a.user = u /\ a.cites = Account(u)
      BY <3>1 DEF Alert
    <3> QED
      BY <1>1, <2>1, <2>3, <3>2
  <2>6. CASE \E i \in {e.ip : e \in recent} \ {Nobody} :
                a = Alert(FailedLogins, <<"address", i>>, SingleUser(Address(i)), "HIGH",
                          Address(i), FALSE)
    <3>1. PICK i : a = Alert(FailedLogins, <<"address", i>>, SingleUser(Address(i)), "HIGH",
                             Address(i), FALSE)
      BY <2>6
    <3>2. a.rule = FailedLogins /\ a.user = SingleUser(Address(i)) /\ a.cites = Address(i)
      BY <3>1 DEF Alert
    <3> QED
      BY <2>1, <2>3, <2>4, <3>2
  <2> QED
    BY <2>2, <2>5, <2>6
<1>3. a \notin UnauthorisedEndpointAccess(F, now)
  <2>1. {e \in Within(F, now, RefusalWindow) : IsRefusal(e)} = {}
    BY <1>1 DEF Within, IsRefusal
  <2> QED
    BY <2>1 DEF UnauthorisedEndpointAccess, RefusalAlerts
<1>4. a \notin AbnormalRequestRate(F, now)
  <2> DEFINE windowed == {e \in Within(F, now, RateWindow) : e.ip # Nobody}
             Throttled(i) == {e \in windowed : e.ip = i /\ e.type = "RATE_LIMIT_EXCEEDED"}
             Volume(i) == {e \in windowed : e.ip = i /\ e.type \in RequestEventTypes}
             Breaches(i) == \/ Cardinality(Throttled(i)) >= RateLimitThreshold
                            \/ Cardinality(Volume(i)) >= RequestThreshold
  <2>1. \A i : Throttled(i) = {} /\ Volume(i) = {}
    BY <1>1 DEF Within, RequestEventTypes
  <2>2. \A i : ~Breaches(i)
    BY <1>0, <2>1, RulesAssumption
  <2>3. a \in AbnormalRequestRate(F, now) => \E i : Breaches(i)
    BY Zenon DEF AbnormalRequestRate
  <2> QED
    BY <2>2, <2>3
<1>5. CASE a \in ServiceFailures(F, now)
  <2> DEFINE windowed == Within(F, now, FaultWindow)
             Failing(s) == {e \in windowed : e.service = s
                              /\ e.type \in ImmediateEventTypes \cup FailureEventTypes}
             Fires(s) == \/ \E e \in Failing(s) : e.type \in ImmediateEventTypes
                         \/ Cardinality(Failing(s)) >= FaultThreshold
             Recovered(s) == \E e \in windowed : e.service = s /\ e.type = "CIRCUIT_CLOSED"
  <2>1. PICK s : /\ Fires(s)
                 /\ a = Alert(ServiceFailure, <<"service", s>>, Nobody, "HIGH", Failing(s),
                              Recovered(s))
    BY <1>5, Zenon DEF ServiceFailures, ServiceAlerts
  <2>2. Failing(s) \subseteq F
    BY DEF Within
  <2>3. Failing(s) # {}
    <3>1. ~(Cardinality({}) >= FaultThreshold)
      BY <1>0, RulesAssumption
    <3>2. Failing(s) = {} => ~Fires(s)
      BY <3>1, Zenon
    <3> QED
      BY <2>1, <3>2
  <2>4. a.rule = ServiceFailure /\ a.user = Nobody /\ a.cites = Failing(s)
    BY <2>1 DEF Alert
  <2> QED
    BY <2>2, <2>3, <2>4
<1> QED
  BY <1>2, <1>3, <1>4, <1>5 DEF EvaluateAll

LEMMA NothingFound == ASSUME NEW now PROVE EvaluateAll({}, now) = {}
BY FindingsShape

\* What a load finds does not change while it runs, whatever is told of the
\* incident meanwhile.
LEMMA FindingsStand ==
  ASSUME TypeOK, NEW l \in Loads, found'[l] = found[l], told'[l] = told[l], told[l] <= Len(incident),
         \/ incident' = incident
         \/ \E t \in 0..MaxTime : incident' = Append(incident, t)
  PROVE  Findings(l)' = Findings(l) /\ Ids(l)' = Ids(l) /\ Grouped(l)' = Grouped(l)
<1> DEFINE moments == {e.at : e \in found[l]} \cup {incident[n] : n \in 1..told[l]}
<1>1. \A n \in 1..told[l] : incident'[n] = incident[n]
  <2>1. incident \in Seq(0..MaxTime) /\ told[l] \in Int
    BY LoaderAssumption DEF TypeOK
  <2>2. ASSUME NEW t \in 0..MaxTime, incident' = Append(incident, t), NEW n \in 1..told[l]
        PROVE  incident'[n] = incident[n]
    <3>1. n \in 1..Len(incident)
      BY <2>1
    <3> QED
      BY <2>1, <2>2, <3>1
  <2> QED
    BY <2>2
<1>2. moments' = moments
  BY <1>1
<1>3. moments = {} => found[l] = {}
  OBVIOUS
<1>4. Latest(l) = IF moments = {} THEN clock ELSE Max(moments)
  BY DEF Latest
<1>5. Latest(l)' = IF moments' = {} THEN clock' ELSE Max(moments')
  BY DEF Latest
<1> HIDE DEF moments
<1>6. Findings(l)' = Findings(l)
  <2>1. CASE moments = {}
    BY <1>3, <2>1, NothingFound DEF Findings
  <2>2. CASE moments # {}
    <3>1. Latest(l)' = Latest(l)
      BY <1>2, <1>4, <1>5, <2>2
    <3> QED
      BY <3>1 DEF Findings
  <2> QED
    BY <2>1, <2>2
<1>7. Ids(l)' = Ids(l)
  BY <1>6 DEF Ids
<1>8. Grouped(l)' = Grouped(l)
  <2>1. told[l] > 0 => incident'[1] = incident[1]
    BY <1>1 DEF TypeOK
  <2> QED
    BY <1>6, <2>1 DEF Grouped
<1> QED
  BY <1>6, <1>7, <1>8

LEMMA FindingsTyped ==
  ASSUME TypeOK, NEW l \in Loads
  PROVE  /\ \A a \in Findings(l) : /\ StableId(a) \in AlertIds
                                   /\ StableId(a)[3] = Reqs(a.cites)
                                   /\ Reqs(a.cites) \subseteq Reqs(found[l])
         /\ Reqs(found[l]) \subseteq EventIds
         /\ Told(l) \subseteq EventIds
         /\ Grouped(l) \subseteq Findings(l)
<1>1. found[l] \subseteq LoginEvents \cup HealthEvents
  BY DEF TypeOK
<1>2. \A e \in LoginEvents \cup HealthEvents : e.req \in EventIds
  BY DEF LoginEvents, HealthEvents, EventIds
<1>3. Reqs(found[l]) \subseteq EventIds
  BY <1>1, <1>2 DEF Reqs
<1>4. ASSUME NEW a \in Findings(l)
      PROVE  /\ StableId(a) \in AlertIds
             /\ StableId(a)[3] = Reqs(a.cites)
             /\ Reqs(a.cites) \subseteq Reqs(found[l])
  <2>1. /\ a.rule \in {FailedLogins, ServiceFailure} /\ a.user \in Users \cup {Nobody}
        /\ a.cites \subseteq found[l]
    BY <1>1, FindingsShape DEF Findings
  <2>2. Reqs(a.cites) \subseteq Reqs(found[l])
    BY <2>1 DEF Reqs
  <2>3. StableId(a) = <<a.rule, a.user, Reqs(a.cites)>>
    BY DEF StableId, Reqs
  <2> QED
    BY <1>3, <2>1, <2>2, <2>3 DEF AlertIds
<1>5. Told(l) \subseteq EventIds
  <2>1. told[l] \in Nat /\ told[l] <= MaxIncident /\ MaxIncident \in Nat
    BY LoaderAssumption DEF TypeOK
  <2> QED
    BY <2>1 DEF Told, EventIds
<1> QED
  BY <1>3, <1>4, <1>5 DEF Grouped

LEMMA FoundWays ==
  ASSUME TypeOK, NEW l \in Loads, NEW id \in Ids(l)
  PROVE  id \in AlertIds /\ id[3] \subseteq Reqs(found[l])
BY FindingsTyped DEF Ids
-----------------------------------------------------------------------------
\* There are three transactions.
LEMMA SourceCount == Cardinality(Sources) = 3
<1>1. IsFiniteSet({}) /\ Cardinality({}) = 0
  BY FS_EmptySet
<1>2. IsFiniteSet({"topology"}) /\ Cardinality({"topology"}) = 1
  BY FS_Singleton
<1>3. /\ IsFiniteSet({"topology"} \cup {"events"})
      /\ Cardinality({"topology"} \cup {"events"}) = 2
  BY <1>2, FS_AddElement
<1>4. Cardinality({"topology"} \cup {"events"} \cup {"security-knowledge"}) = 3
  BY <1>3, FS_AddElement
<1>5. Sources = {"topology"} \cup {"events"} \cup {"security-knowledge"}
  BY DEF Sources
<1> QED
  BY <1>4, <1>5

LEMMA InitIInv == Init => IInv
<1> SUFFICES ASSUME Init PROVE IInv
  OBVIOUS
<1> USE LoaderAssumption DEF Init
<1>1. Cardinality(Sources) \in Nat
  BY SourceCount
<1>2. TypeOK
  BY <1>1 DEF TypeOK
<1>3. StageInv /\ AlertInv /\ LandedInv /\ GapsHaveAnOwner
  BY DEF StageInv, AlertInv, LandedInv, GapsHaveAnOwner
<1>4. IncidentInv
  BY DEF IncidentInv
<1> QED
  BY <1>2, <1>3, <1>4 DEF IInv
-----------------------------------------------------------------------------
(* Every step preserves it.                                                *)

\* What each transaction does, in the order they come in.
LEMMA ApplyCases ==
  ASSUME IInv, NEW l \in Loads, Apply(l)
  PROVE  /\ stage[l] = "loading" /\ applied'[l] = applied[l] + 1
         /\ \A m \in Loads \ {l} : applied'[m] = applied[m] /\ stage'[m] = stage[m]
         /\ \/ applied[l] \in {0, 1} /\ stage'[l] = "loading"
            \/ applied[l] = 2 /\ stage'[l] = "done"
         /\ \/ applied[l] = 0 /\ graph' = graph
            \/ applied[l] = 1 /\ graph' = Events(l)
            \/ applied[l] = 2 /\ graph' = Knowledge(l)
<1> USE DEF IInv, TypeOK, StageInv
<1>1. stage[l] = "loading" /\ applied[l] \in {0, 1, 2} /\ applied'[l] = applied[l] + 1
  BY SourceCount DEF Apply
<1>2. \A m \in Loads \ {l} : applied'[m] = applied[m] /\ stage'[m] = stage[m]
  BY DEF Apply
<1>3. Len(Order) = 3 /\ Order[1] = "topology" /\ Order[2] = "events"
        /\ Order[3] = "security-knowledge"
  BY DEF Order
<1>4. stage'[l] = IF applied'[l] = 3 THEN "done" ELSE "loading"
  BY <1>1, <1>3 DEF Apply
<1>5. graph' = CASE Order[applied'[l]] = "topology" -> Topology(l)
                 [] Order[applied'[l]] = "events" -> Events(l)
                 [] Order[applied'[l]] = "security-knowledge" -> Knowledge(l)
  BY DEF Apply
<1>6. CASE applied[l] = 0
  BY <1>1, <1>2, <1>3, <1>4, <1>5, <1>6 DEF Topology
<1>7. CASE applied[l] = 1
  BY <1>1, <1>2, <1>3, <1>4, <1>5, <1>7
<1>8. CASE applied[l] = 2
  BY <1>1, <1>2, <1>3, <1>4, <1>5, <1>8
<1> QED
  BY <1>1, <1>6, <1>7, <1>8

LEMMA EventsFields ==
  ASSUME TypeOK, NEW l \in Loads
  PROVE  /\ DOMAIN Events(l) = DOMAIN graph
         /\ Events(l).events = graph.events \cup Reqs(found[l]) \cup Told(l)
         /\ Events(l).alerts = graph.alerts \cup Ids(l)
         /\ \A x, id : <<x, id>> \in Events(l).created <=>
              \/ <<x, id>> \in graph.created
              \/ \E a \in Findings(l) : id = StableId(a) /\ x \in Reqs(a.cites)
         /\ Events(l).contains = graph.contains \cup {StableId(a) : a \in Grouped(l)}
         /\ Events(l).indicates = graph.indicates
         /\ Events(l).incident = IF told[l] = 0 THEN graph.incident ELSE told[l]
<1> DEFINE edges == UNION {Reqs(a.cites) \X {StableId(a)} : a \in Findings(l)}
<1>1. Events(l) = [graph EXCEPT
                     !.events = @ \cup Reqs(found[l]) \cup Told(l),
                     !.alerts = @ \cup Ids(l),
                     !.created = @ \cup edges,
                     !.contains = @ \cup {StableId(a) : a \in Grouped(l)},
                     !.incident = IF told[l] = 0 THEN @ ELSE told[l]]
  BY DEF Events, Reqs
<1>2. \A x, id : <<x, id>> \in edges <=> \E a \in Findings(l) : id = StableId(a) /\ x \in Reqs(a.cites)
  OBVIOUS
<1> HIDE DEF edges
<1> QED
  BY <1>1, <1>2 DEF TypeOK

LEMMA KnowledgeFields ==
  ASSUME TypeOK, NEW l \in Loads
  PROVE  /\ DOMAIN Knowledge(l) = DOMAIN graph
         /\ Knowledge(l).indicates = graph.alerts
         /\ \A f \in {"events", "alerts", "created", "contains", "incident"} :
              Knowledge(l)[f] = graph[f]
BY DEF TypeOK, Knowledge

\* A step leaves the graph alone, or is the next transaction of some load.
LEMMA GraphStep ==
  ASSUME [Next]_vars
  PROVE  \/ graph' = graph /\ applied' = applied
         \/ \E l \in Loads : Apply(l)
BY DEF Next, vars, Tick, LogFailedLogin, LogIncident, Collect, Die

\* What a load collects: events, and at most what is told of the incident; of
\* the running log, all of it.
LEMMA Collected ==
  ASSUME TypeOK, NEW k \in Loads, Collect(k)
  PROVE  /\ \E F \in SUBSET (LoginEvents \cup HealthEvents) : found' = [found EXCEPT ![k] = F]
         /\ \E n \in 0..Len(incident) : /\ told' = [told EXCEPT ![k] = n]
                                        /\ k \in captures' \/ n = Len(incident)
         /\ captures \subseteq captures' /\ captures' \subseteq Loads
<1> USE DEF TypeOK
<1>1. CASE CollectLive(k)
  <2>1. \A s \in Services :
          [req |-> <<k, s>>, type |-> "HEALTH_CHECK_FAILED", at |-> clock,
           service |-> s, user |-> Nobody, ip |-> Nobody, status |-> 503,
           privileged |-> FALSE] \in HealthEvents
    BY DEF HealthEvents
  <2>2. PICK critical \in SUBSET Services :
          found' = [found EXCEPT ![k] =
            log \cup {[req |-> <<k, s>>, type |-> "HEALTH_CHECK_FAILED", at |-> clock,
                       service |-> s, user |-> Nobody, ip |-> Nobody, status |-> 503,
                       privileged |-> FALSE] : s \in critical}]
    BY <1>1, Zenon DEF CollectLive
  <2>3. log \cup {[req |-> <<k, s>>, type |-> "HEALTH_CHECK_FAILED", at |-> clock,
                   service |-> s, user |-> Nobody, ip |-> Nobody, status |-> 503,
                   privileged |-> FALSE] : s \in critical}
          \subseteq LoginEvents \cup HealthEvents
    BY <2>1
  <2>4. told' = [told EXCEPT ![k] = Len(incident)] /\ captures' = captures
    BY <1>1 DEF CollectLive
  <2>5. Len(incident) \in 0..Len(incident)
    OBVIOUS
  <2> QED
    BY <2>2, <2>3, <2>4, <2>5
<1>2. CASE CollectCapture(k)
  <2>1. PICK t \in 0..clock, n \in 0..Len(incident) :
          /\ found' = [found EXCEPT ![k] = {e \in log : e.at <= t}]
          /\ told' = [told EXCEPT ![k] = n]
    BY <1>2, Zenon DEF CollectCapture
  <2>2. {e \in log : e.at <= t} \in SUBSET (LoginEvents \cup HealthEvents)
    OBVIOUS
  <2>3. captures' = captures \cup {k}
    BY <1>2 DEF CollectCapture
  <2> QED
    BY <2>1, <2>2, <2>3
<1> QED
  BY <1>1, <1>2 DEF Collect

\* What a load collected stays, and what follows from it.
LEMMA Stand ==
  ASSUME IInv, [Next]_vars, NEW l \in Loads, stage[l] # "idle"
  PROVE  /\ stage'[l] # "idle" /\ applied'[l] >= applied[l]
         /\ found'[l] = found[l] /\ told'[l] = told[l]
         /\ Findings(l)' = Findings(l) /\ Ids(l)' = Ids(l) /\ Grouped(l)' = Grouped(l)
<1> USE DEF IInv, TypeOK
<1>1. found'[l] = found[l] /\ told'[l] = told[l]
  <2>1. CASE \E m \in Loads : Collect(m)
    <3>1. PICK m \in Loads : Collect(m)
      BY <2>1
    <3>2. m # l
      BY <3>1 DEF Collect
    <3> QED
      BY <3>1, <3>2, Collected
  <2>2. CASE ~(\E m \in Loads : Collect(m))
    BY <2>2 DEF Next, vars, Tick, LogFailedLogin, LogIncident, Apply, Die
  <2> QED
    BY <2>1, <2>2
<1>2. incident' = incident \/ \E t \in 0..MaxTime : incident' = Append(incident, t)
  BY DEF Next, vars, Tick, LogFailedLogin, LogIncident, Collect, Apply, Die
<1>3. told[l] <= Len(incident)
  BY DEF StageInv
<1>4. Findings(l)' = Findings(l) /\ Ids(l)' = Ids(l) /\ Grouped(l)' = Grouped(l)
  BY <1>1, <1>2, <1>3, FindingsStand
<1>5. stage'[l] # "idle" /\ applied'[l] >= applied[l]
  <2>1. applied[l] \in Int
    BY SourceCount
  <2>2. ASSUME NEW m \in Loads, Apply(m)
        PROVE  stage'[l] # "idle" /\ applied'[l] >= applied[l]
    <3>1. CASE m = l
      BY <2>1, <2>2, <3>1, ApplyCases
    <3>2. CASE m # l
      <4>1. applied'[l] = applied[l] /\ stage'[l] = stage[l]
        BY <2>2, <3>2 DEF Apply
      <4> QED
        BY <2>1, <4>1
    <3> QED
      BY <3>1, <3>2
  <2>3. CASE ~(\E m \in Loads : Apply(m))
    BY <2>1, <2>3 DEF Next, vars, Tick, LogFailedLogin, LogIncident, Collect, Die
  <2> QED
    BY <2>2, <2>3
<1> QED
  BY <1>1, <1>4, <1>5

\* The graph keeps its type.
LEMMA GraphTyped ==
  ASSUME IInv, [Next]_vars
  PROVE  /\ DOMAIN graph' = {"events", "alerts", "created", "contains", "indicates", "incident"}
         /\ graph'.events \subseteq EventIds
         /\ graph'.alerts \subseteq AlertIds
         /\ graph'.created \subseteq EventIds \X graph'.alerts
         /\ graph'.contains \subseteq graph'.alerts
         /\ graph'.indicates \subseteq graph'.alerts
         /\ graph'.incident \in 0..MaxIncident
<1> USE DEF IInv
<1>1. CASE graph' = graph
  BY <1>1 DEF TypeOK
<1>2. ASSUME NEW l \in Loads, graph' = Events(l)
      PROVE  /\ DOMAIN graph' = {"events", "alerts", "created", "contains", "indicates", "incident"}
             /\ graph'.events \subseteq EventIds
             /\ graph'.alerts \subseteq AlertIds
             /\ graph'.created \subseteq EventIds \X graph'.alerts
             /\ graph'.contains \subseteq graph'.alerts
             /\ graph'.indicates \subseteq graph'.alerts
             /\ graph'.incident \in 0..MaxIncident
  <2>1. DOMAIN graph' = {"events", "alerts", "created", "contains", "indicates", "incident"}
    BY <1>2, EventsFields DEF TypeOK
  <2>2. graph'.events \subseteq EventIds
    BY <1>2, EventsFields, FindingsTyped DEF TypeOK
  <2>3. graph'.alerts = graph.alerts \cup Ids(l) /\ graph'.alerts \subseteq AlertIds
    BY <1>2, EventsFields, FoundWays DEF TypeOK
  <2>4. \A a \in Findings(l) : StableId(a) \in Ids(l) /\ Reqs(a.cites) \subseteq EventIds
    BY FindingsTyped DEF Ids
  <2>5. graph'.created \subseteq EventIds \X graph'.alerts
    <3>1. graph'.created = graph.created \cup UNION {Reqs(a.cites) \X {StableId(a)} : a \in Findings(l)}
      BY <1>2 DEF Events, TypeOK, Reqs
    <3>2. graph.created \subseteq EventIds \X graph.alerts
      BY DEF TypeOK
    <3>3. \A a \in Findings(l) : Reqs(a.cites) \X {StableId(a)} \subseteq EventIds \X Ids(l)
      BY <2>4
    <3> QED
      BY <2>3, <3>1, <3>2, <3>3
  <2>6. graph'.contains \subseteq graph'.alerts
    BY <1>2, <2>3, <2>4, EventsFields, FindingsTyped DEF TypeOK
  <2>7. graph'.indicates \subseteq graph'.alerts
    BY <1>2, <2>3, EventsFields DEF TypeOK
  <2>8. graph'.incident \in 0..MaxIncident
    BY <1>2, EventsFields DEF TypeOK
  <2> QED
    BY <2>1, <2>2, <2>3, <2>5, <2>6, <2>7, <2>8
<1>3. CASE \E l \in Loads : graph' = Knowledge(l)
  BY <1>3, KnowledgeFields DEF TypeOK
<1> QED
  BY <1>1, <1>2, <1>3, GraphStep, ApplyCases

LEMMA StepType == IInv /\ [Next]_vars => TypeOK'
<1> SUFFICES ASSUME IInv, [Next]_vars PROVE TypeOK'
  OBVIOUS
<1> USE LoaderAssumption DEF IInv, TypeOK
<1>1. CASE Tick
  BY <1>1 DEF Tick
<1>2. CASE LogFailedLogin
  BY <1>2 DEF LogFailedLogin
<1>3. CASE LogIncident
  <2>1. incident' \in Seq(0..MaxTime) /\ Len(incident') <= MaxIncident
    BY <1>3 DEF LogIncident
  <2> QED
    BY <1>3, <2>1 DEF LogIncident
<1>4. ASSUME NEW l \in Loads, Collect(l)
      PROVE  TypeOK'
  <2>1. found' \in [Loads -> SUBSET (LoginEvents \cup HealthEvents)]
    BY <1>4, Collected
  <2>2. told' \in [Loads -> 0..MaxIncident]
    <3>1. PICK n \in 0..Len(incident) : told' = [told EXCEPT ![l] = n]
      BY <1>4, Collected
    <3>2. n \in 0..MaxIncident
      OBVIOUS
    <3> QED
      BY <3>1, <3>2
  <2>3. /\ stage' \in [Loads -> {"idle", "loading", "dead", "done"}]
        /\ overlapped' \subseteq Loads /\ captures' \subseteq Loads
    BY <1>4, Collected DEF Collect
  <2> QED
    BY <1>4, <2>1, <2>2, <2>3 DEF Collect
<1>5. ASSUME NEW l \in Loads, Apply(l)
      PROVE  TypeOK'
  <2>1. applied' \in [Loads -> 0..Cardinality(Sources)]
    <3>1. applied[l] + 1 \in 0..Cardinality(Sources)
      <4>1. applied[l] \in {0, 1, 2}
        BY <1>5, ApplyCases
      <4> QED
        BY <4>1, SourceCount
    <3>2. applied' = [applied EXCEPT ![l] = applied[l] + 1]
      BY <1>5 DEF Apply
    <3> QED
      BY <3>1, <3>2
  <2>2. stage' \in [Loads -> {"idle", "loading", "dead", "done"}]
    BY <1>5 DEF Apply
  <2> QED
    BY <1>5, <2>1, <2>2, GraphTyped DEF Apply
<1>6. ASSUME NEW l \in Loads, Die(l)
      PROVE  TypeOK'
  BY <1>6 DEF Die
<1>7. CASE UNCHANGED vars
  BY <1>7 DEF vars
<1> QED
  BY <1>1, <1>2, <1>3, <1>4, <1>5, <1>6, <1>7 DEF Next

LEMMA StepStage == IInv /\ [Next]_vars => StageInv'
<1> SUFFICES ASSUME IInv, [Next]_vars, NEW l \in Loads
             PROVE  /\ told'[l] <= Len(incident')
                    /\ stage'[l] = "idle" => applied'[l] = 0 /\ told'[l] = 0
                    /\ stage'[l] = "loading" => applied'[l] < 3
                    /\ stage'[l] = "done" <=> applied'[l] = 3
  BY DEF StageInv
<1> USE SourceCount DEF IInv, TypeOK
<1>0. /\ told[l] <= Len(incident) /\ told[l] \in Int /\ Len(incident) \in Int
      /\ stage[l] = "idle" => applied[l] = 0 /\ told[l] = 0
      /\ stage[l] = "loading" => applied[l] < 3
      /\ stage[l] = "done" <=> applied[l] = 3
  BY DEF StageInv
<1>1. CASE LogIncident
  <2>1. Len(incident') = Len(incident) + 1
    BY <1>1 DEF LogIncident
  <2> QED
    BY <1>0, <1>1, <2>1 DEF LogIncident
<1>2. CASE Tick \/ LogFailedLogin \/ UNCHANGED vars
  BY <1>0, <1>2 DEF Tick, LogFailedLogin, vars
<1>3. ASSUME NEW m \in Loads, Collect(m)
      PROVE  /\ told'[l] <= Len(incident')
             /\ stage'[l] = "idle" => applied'[l] = 0 /\ told'[l] = 0
             /\ stage'[l] = "loading" => applied'[l] < 3
             /\ stage'[l] = "done" <=> applied'[l] = 3
  <2>1. PICK n \in 0..Len(incident) : told' = [told EXCEPT ![m] = n]
    BY <1>3, Collected
  <2>2. told'[l] <= Len(incident)
    BY <1>0, <2>1
  <2>3. incident' = incident /\ applied' = applied /\ stage[m] = "idle"
          /\ stage' = [stage EXCEPT ![m] = "loading"]
    BY <1>3 DEF Collect
  <2>4. l # m => told'[l] = told[l] /\ stage'[l] = stage[l]
    BY <2>1, <2>3
  <2>5. l = m => stage'[l] = "loading" /\ applied[l] = 0
    BY <1>0, <2>3
  <2> QED
    BY <1>0, <2>2, <2>3, <2>4, <2>5
<1>4. ASSUME NEW m \in Loads, Apply(m)
      PROVE  /\ told'[l] <= Len(incident')
             /\ stage'[l] = "idle" => applied'[l] = 0 /\ told'[l] = 0
             /\ stage'[l] = "loading" => applied'[l] < 3
             /\ stage'[l] = "done" <=> applied'[l] = 3
  <2>1. told' = told /\ incident' = incident
    BY <1>4 DEF Apply
  <2>2. CASE m = l
    BY <1>0, <1>4, <2>1, <2>2, ApplyCases
  <2>3. CASE m # l
    BY <1>0, <1>4, <2>1, <2>3, ApplyCases
  <2> QED
    BY <2>2, <2>3
<1>5. ASSUME NEW m \in Loads, Die(m)
      PROVE  /\ told'[l] <= Len(incident')
             /\ stage'[l] = "idle" => applied'[l] = 0 /\ told'[l] = 0
             /\ stage'[l] = "loading" => applied'[l] < 3
             /\ stage'[l] = "done" <=> applied'[l] = 3
  BY <1>0, <1>5 DEF Die
<1> QED
  BY <1>1, <1>2, <1>3, <1>4, <1>5 DEF Next

\* A load that has written something is past its collection.
LEMMA Past ==
  ASSUME IInv, NEW l \in Loads, applied[l] >= 1
  PROVE  stage[l] # "idle"
BY DEF IInv, StageInv

LEMMA StepAlert == IInv /\ [Next]_vars => AlertInv'
<1> SUFFICES ASSUME IInv, [Next]_vars, NEW id \in graph'.alerts
             PROVE  /\ \A x : <<x, id>> \in graph'.created <=> x \in id[3]
                    /\ id[3] \subseteq graph'.events
                    /\ \E l \in Loads : applied'[l] >= 2 /\ id \in Ids(l)'
  BY DEF AlertInv
<1> USE DEF IInv
<1>0. \A l \in Loads : applied[l] \in Int /\ applied'[l] \in Int
  BY StepType, SourceCount DEF TypeOK
<1>1. ASSUME id \in graph.alerts
      PROVE  /\ \A x : <<x, id>> \in graph.created <=> x \in id[3]
             /\ id[3] \subseteq graph.events
             /\ \E l \in Loads : applied'[l] >= 2 /\ id \in Ids(l)'
  <2>1. PICK l \in Loads : applied[l] >= 2 /\ id \in Ids(l)
    BY <1>1 DEF AlertInv
  <2>2. applied'[l] >= 2 /\ id \in Ids(l)'
    BY <1>0, <2>1, Past, Stand
  <2> QED
    BY <1>1, <2>2 DEF AlertInv
<1>2. CASE graph' = graph
  BY <1>1, <1>2
<1>3. ASSUME NEW m \in Loads, Apply(m), applied[m] = 1, graph' = Events(m)
      PROVE  /\ \A x : <<x, id>> \in graph'.created <=> x \in id[3]
             /\ id[3] \subseteq graph'.events
             /\ \E l \in Loads : applied'[l] >= 2 /\ id \in Ids(l)'
  <2>1. \A a \in Findings(m) : StableId(a) \in Ids(m) /\ Reqs(a.cites) = StableId(a)[3]
    BY FindingsTyped DEF Ids
  <2>2. \A x : <<x, id>> \in graph'.created <=>
          <<x, id>> \in graph.created \/ (id \in Ids(m) /\ x \in id[3])
    BY <1>3, <2>1, EventsFields DEF Ids
  <2>3. id \notin graph.alerts => \A x : <<x, id>> \notin graph.created
    BY DEF TypeOK
  <2>4. id \in graph.alerts \/ id \in Ids(m)
    BY <1>3, EventsFields
  <2>5. \A x : <<x, id>> \in graph'.created <=> x \in id[3]
    BY <1>1, <2>2, <2>3, <2>4
  <2>6. id[3] \subseteq graph'.events
    <3>1. graph.events \subseteq graph'.events /\ Reqs(found[m]) \subseteq graph'.events
      BY <1>3, EventsFields
    <3>2. CASE id \in graph.alerts
      BY <1>1, <3>1, <3>2
    <3>3. CASE id \in Ids(m)
      BY <3>1, <3>3, FoundWays
    <3> QED
      BY <2>4, <3>2, <3>3
  <2>7. id \in Ids(m) => applied'[m] >= 2 /\ id \in Ids(m)'
    <3>1. applied'[m] = 2
      BY <1>3, ApplyCases
    <3>2. Ids(m)' = Ids(m)
      BY <1>3, Past, Stand
    <3> QED
      BY <3>1, <3>2
  <2> QED
    BY <1>1, <2>4, <2>5, <2>6, <2>7
<1>4. CASE \E m \in Loads : graph' = Knowledge(m)
  BY <1>1, <1>4, KnowledgeFields
<1> QED
  BY <1>2, <1>3, <1>4, GraphStep, ApplyCases

\* The graph only grows, in everything but the incident.
LEMMA GraphGrows ==
  ASSUME IInv, [Next]_vars
  PROVE  /\ graph.events \subseteq graph'.events
         /\ graph.alerts \subseteq graph'.alerts
         /\ graph.contains \subseteq graph'.contains
         /\ graph.indicates \subseteq graph'.indicates
<1> USE DEF IInv
<1>1. CASE graph' = graph
  BY <1>1
<1>2. CASE \E l \in Loads : graph' = Events(l)
  BY <1>2, EventsFields
<1>3. CASE \E l \in Loads : graph' = Knowledge(l)
  BY <1>3, KnowledgeFields DEF TypeOK
<1> QED
  BY <1>1, <1>2, <1>3, GraphStep, ApplyCases

LEMMA StepLanded == IInv /\ [Next]_vars => LandedInv'
<1> SUFFICES ASSUME IInv, [Next]_vars, NEW l \in Loads
             PROVE  /\ applied'[l] >= 2 =>
                         /\ Reqs(found'[l]) \subseteq graph'.events
                         /\ Ids(l)' \subseteq graph'.alerts
                         /\ {StableId(a) : a \in Grouped(l)'} \subseteq graph'.contains
                    /\ applied'[l] = 3 => Ids(l)' \subseteq graph'.indicates
  BY DEF LandedInv, Reqs, StableId
<1> USE DEF IInv
<1>0. applied[l] \in Int /\ applied'[l] \in Int
  BY StepType, SourceCount DEF TypeOK
<1>1. ASSUME applied'[l] >= 1
      PROVE  /\ found'[l] = found[l] /\ Ids(l)' = Ids(l) /\ Grouped(l)' = Grouped(l)
  <2>1. stage[l] # "idle"
    <3>1. CASE Apply(l)
      BY <3>1 DEF Apply
    <3>2. CASE ~Apply(l)
      <4>1. applied'[l] = applied[l]
        <5>1. CASE \E m \in Loads : Apply(m)
          BY <3>2, <5>1, ApplyCases
        <5> QED
          BY <5>1, GraphStep
      <4> QED
        BY <1>1, <4>1, Past
    <3> QED
      BY <3>1, <3>2
  <2> QED
    BY <2>1, Stand
<1>2. CASE applied'[l] = applied[l]
  BY <1>0, <1>1, <1>2, GraphGrows DEF LandedInv
<1>3. CASE applied'[l] # applied[l]
  <2>1. Apply(l)
    BY <1>3, GraphStep, ApplyCases
  <2>2. CASE applied[l] = 0
    BY <2>1, <2>2, ApplyCases
  <2>3. CASE applied[l] = 1 /\ graph' = Events(l)
    BY <1>1, <2>1, <2>3, ApplyCases, EventsFields
  <2>4. CASE applied[l] = 2 /\ graph' = Knowledge(l)
    BY <1>1, <2>1, <2>4, ApplyCases, KnowledgeFields, GraphGrows DEF LandedInv
  <2> QED
    BY <2>1, <2>2, <2>3, <2>4, ApplyCases
<1> QED
  BY <1>2, <1>3

\* A collection of the running log knows all that is told; whoever it finds at
\* work is overlapped from now on.
LEMMA CollectFacts ==
  ASSUME IInv, NEW k \in Loads, Collect(k)
  PROVE  /\ stage[k] = "idle" /\ stage'[k] = "loading"
         /\ told'[k] \in 0..Len(incident) /\ (k \in captures' \/ told'[k] = Len(incident))
         /\ applied' = applied /\ graph' = graph
         /\ overlapped \subseteq overlapped' /\ captures \subseteq captures'
         /\ \A m \in Loads \ {k} : /\ stage'[m] = stage[m] /\ told'[m] = told[m]
                                   /\ stage[m] = "loading" => m \in overlapped' /\ k \in overlapped'
<1> USE DEF IInv, TypeOK
<1>1. stage[k] = "idle" /\ stage' = [stage EXCEPT ![k] = "loading"]
        /\ applied' = applied /\ graph' = graph
  BY DEF Collect
<1>2. \E n \in 0..Len(incident) : /\ told' = [told EXCEPT ![k] = n]
                                  /\ k \in captures' \/ n = Len(incident)
  BY Collected
<1>3. captures \subseteq captures'
  BY Collected
<1> DEFINE others == {m \in Loads \ {k} : stage[m] = "loading"}
<1>4. overlapped' = IF others = {} THEN overlapped ELSE overlapped \cup others \cup {k}
  BY DEF Collect
<1> QED
  BY <1>1, <1>2, <1>3, <1>4

\* Who is excused stays so.
LEMMA ExcusesStay ==
  ASSUME IInv, [Next]_vars
  PROVE  overlapped \cup captures \subseteq overlapped' \cup captures'
BY CollectFacts DEF Next, vars, Tick, LogFailedLogin, LogIncident, Apply, Die

LEMMA StepNewest ==
  ASSUME IInv, [Next]_vars, NEW l \in Loads, l \notin overlapped' \cup captures',
         stage'[l] = "loading", NEW m \in Loads, m # l
  PROVE  stage'[m] # "loading" /\ told'[m] <= told'[l]
<1> USE DEF IInv, TypeOK
<1>0. \A n \in Loads : told[n] <= Len(incident) /\ told[n] \in Int
  BY DEF StageInv
<1>1. l \notin overlapped \cup captures
  BY ExcusesStay
<1>2. stage[l] = "loading" => stage[m] # "loading" /\ told[m] <= told[l]
  BY <1>1 DEF IncidentInv
<1>3. CASE Collect(l)
  BY <1>0, <1>3, CollectFacts
<1>4. ASSUME NEW k \in Loads \ {l}, Collect(k)
      PROVE  stage'[m] # "loading" /\ told'[m] <= told'[l]
  BY <1>4, CollectFacts
<1>5. ASSUME NEW k \in Loads, Apply(k)
      PROVE  stage'[m] # "loading" /\ told'[m] <= told'[l]
  <2>1. told' = told
    BY <1>5 DEF Apply
  <2>2. stage[l] = "loading"
    BY <1>5, ApplyCases
  <2>3. k # m
    BY <1>2, <1>5, <2>2, ApplyCases
  <2> QED
    BY <1>2, <1>5, <2>1, <2>2, <2>3, ApplyCases
<1>6. ASSUME NEW k \in Loads, Die(k)
      PROVE  stage'[m] # "loading" /\ told'[m] <= told'[l]
  BY <1>2, <1>6 DEF Die
<1>7. CASE Tick \/ LogFailedLogin \/ LogIncident \/ UNCHANGED vars
  BY <1>2, <1>7 DEF Tick, LogFailedLogin, LogIncident, vars
<1> QED
  BY <1>3, <1>4, <1>5, <1>6, <1>7 DEF Next

LEMMA StepBack ==
  ASSUME IInv, [Next]_vars, NEW l \in Loads, applied'[l] >= 2, graph'.incident < told'[l]
  PROVE  \E m \in overlapped' \cup captures' : applied'[m] >= 2 /\ told'[m] = graph'.incident
<1> USE DEF IInv
<1>0. \A m \in Loads : /\ applied[m] \in Int /\ applied'[m] \in Int
                       /\ told[m] \in Nat /\ graph.incident \in Nat
  BY StepType, SourceCount, LoaderAssumption DEF TypeOK
<1>1. \A m \in Loads : applied[m] >= 2 => applied'[m] >= 2 /\ told'[m] = told[m]
  BY <1>0, Past, Stand
<1>2. overlapped \cup captures \subseteq Loads
  BY DEF TypeOK
\* Whom the load itself had found taken back already.
<1>3. ASSUME graph'.incident = graph.incident, applied[l] >= 2
      PROVE  \E m \in overlapped' \cup captures' : applied'[m] >= 2 /\ told'[m] = graph'.incident
  <2>1. graph.incident < told[l]
    BY <1>1, <1>3
  <2>2. PICK m \in overlapped \cup captures : applied[m] >= 2 /\ told[m] = graph.incident
    BY <1>3, <2>1 DEF IncidentInv
  <2> QED
    BY <1>1, <1>2, <1>3, <2>2, ExcusesStay
<1>4. CASE graph' = graph /\ applied' = applied
  BY <1>3, <1>4
<1>5. ASSUME NEW k \in Loads, Apply(k)
      PROVE  \E m \in overlapped' \cup captures' : applied'[m] >= 2 /\ told'[m] = graph'.incident
  <2>1. told' = told /\ UNCHANGED <<overlapped, captures>>
    BY <1>5 DEF Apply
  <2>2. CASE applied[k] = 1 /\ graph' = Events(k) /\ told[k] # 0
    <3>1. graph'.incident = told[k] /\ applied'[k] = 2
      BY <1>5, <2>2, ApplyCases, EventsFields
    <3>2. CASE k \in overlapped \cup captures
      BY <2>1, <3>1, <3>2
    <3>3. CASE k \notin overlapped \cup captures
      <4>1. stage[k] = "loading" /\ l # k
        BY <1>0, <1>5, <2>1, <3>1, ApplyCases
      <4>2. told[l] <= told[k]
        BY <3>3, <4>1 DEF IncidentInv
      <4> QED
        BY <1>0, <2>1, <3>1, <4>2
    <3> QED
      BY <3>2, <3>3
  <2>3. CASE applied[k] = 1 /\ graph' = Events(k) /\ told[k] = 0
    <3>1. graph'.incident = graph.incident
      BY <2>3, EventsFields
    <3>2. l # k
      BY <1>0, <2>1, <2>3, <3>1
    <3>3. applied[l] >= 2
      BY <1>5, <3>2, ApplyCases
    <3> QED
      BY <1>3, <3>1, <3>3
  <2>4. CASE applied[k] = 0 /\ graph' = graph
    <3>1. applied[l] >= 2
      BY <1>5, <2>4, ApplyCases
    <3> QED
      BY <1>3, <2>4, <3>1
  <2>5. CASE applied[k] = 2 /\ graph' = Knowledge(k)
    <3>1. graph'.incident = graph.incident
      BY <2>5, KnowledgeFields
    <3>2. applied[l] >= 2
      BY <1>5, <2>5, ApplyCases
    <3> QED
      BY <1>3, <3>1, <3>2
  <2> QED
    BY <1>5, <2>2, <2>3, <2>4, <2>5, ApplyCases
<1> QED
  BY <1>4, <1>5, GraphStep

LEMMA StepGaps == IInv /\ [Next]_vars => GapsHaveAnOwner'
<1> SUFFICES ASSUME IInv, [Next]_vars, NEW id \in graph'.alerts \ graph'.indicates
             PROVE  \E l \in Loads : id \in Ids(l)' /\ applied'[l] = 2 /\ stage'[l] # "done"
  BY DEF GapsHaveAnOwner, Done
<1> USE DEF IInv
<1>0. \A m \in Loads : applied[m] \in Int /\ applied'[m] \in Int
  BY StepType, SourceCount DEF TypeOK
<1>1. ASSUME NEW m \in Loads, applied'[m] = 2, id \in Ids(m)'
      PROVE  stage'[m] # "done"
  BY <1>1, StepStage DEF StageInv
<1>2. ASSUME NEW m \in Loads, id \in Ids(m), applied[m] = 2, applied'[m] = 2
      PROVE  id \in Ids(m)'
  BY <1>2, Past, Stand
<1>3. CASE graph' = graph /\ applied' = applied
  BY <1>1, <1>2, <1>3 DEF GapsHaveAnOwner
<1>4. ASSUME NEW l \in Loads, Apply(l)
      PROVE  \E m \in Loads : id \in Ids(m)' /\ applied'[m] = 2 /\ stage'[m] # "done"
  <2>1. CASE applied[l] = 2 /\ graph' = Knowledge(l)
    BY <2>1, KnowledgeFields
  <2>2. CASE applied[l] = 1 /\ graph' = Events(l)
    <3>1. applied'[l] = 2 /\ Ids(l)' = Ids(l)
      BY <1>4, <2>2, ApplyCases, Past, Stand
    <3>2. CASE id \in Ids(l)
      BY <1>1, <3>1, <3>2
    <3>3. CASE id \notin Ids(l)
      <4>1. id \in graph.alerts \ graph.indicates
        BY <2>2, <3>3, EventsFields
      <4>2. PICK m \in Loads : id \in Ids(m) /\ applied[m] = 2 /\ ~Done(m)
        BY <4>1 DEF GapsHaveAnOwner
      <4>3. applied'[m] = 2
        BY <1>4, <2>2, <4>2, ApplyCases
      <4> QED
        BY <1>1, <1>2, <4>2, <4>3
    <3> QED
      BY <3>2, <3>3
  <2>3. CASE applied[l] = 0 /\ graph' = graph
    <3>1. PICK m \in Loads : id \in Ids(m) /\ applied[m] = 2 /\ ~Done(m)
      BY <2>3 DEF GapsHaveAnOwner
    <3>2. applied'[m] = 2
      BY <1>4, <2>3, <3>1, ApplyCases
    <3> QED
      BY <1>1, <1>2, <3>1, <3>2
  <2> QED
    BY <1>4, <2>1, <2>2, <2>3, ApplyCases
<1> QED
  BY <1>3, <1>4, GraphStep

LEMMA InvariantHolds == Spec => []IInv
<1>1. IInv /\ [Next]_vars => IncidentInv'
  BY StepNewest, StepBack DEF IncidentInv
<1>2. IInv /\ [Next]_vars => IInv'
  BY <1>1, StepType, StepStage, StepAlert, StepLanded, StepGaps DEF IInv
<1> QED
  BY InitIInv, <1>2, PTL DEF Spec
-----------------------------------------------------------------------------
(* What is promised of the graph.                                          *)

\* Every variable keeps its type; in particular no edge of the graph lacks the
\* alert it leads to, whichever transactions died (kg/loader/writes.py).
THEOREM TypeCorrect == Spec => []TypeOK
BY InvariantHolds, PTL DEF IInv

\* Every Alert node is one firing of one load, with all of its evidence and no
\* other, and the evidence is in the graph (stable_alert_id).
THEOREM NodesAreFindings == Spec => []AlertsAreFindings
<1>1. IInv => AlertsAreFindings
  <2> SUFFICES ASSUME IInv, NEW id \in graph.alerts
               PROVE  /\ EvidenceOf(id) \subseteq graph.events
                      /\ \E l \in Loads : \E a \in Findings(l) :
                           StableId(a) = id /\ EvidenceOf(id) = {e.req : e \in a.cites}
    BY DEF AlertsAreFindings
  <2>1. \A x : <<x, id>> \in graph.created <=> x \in id[3]
    BY DEF IInv, AlertInv
  <2>2. EvidenceOf(id) = id[3]
    <3>1. graph.created \subseteq EventIds \X graph.alerts
      BY DEF IInv, TypeOK
    <3>2. \A p \in graph.created : p = <<p[1], p[2]>>
      BY <3>1
    <3>3. ASSUME NEW x \in EvidenceOf(id)
          PROVE  x \in id[3]
      <4>1. PICK p \in graph.created : p[2] = id /\ x = p[1]
        BY DEF EvidenceOf
      <4> QED
        BY <2>1, <3>2, <4>1
    <3>4. ASSUME NEW x \in id[3]
          PROVE  x \in EvidenceOf(id)
      <4>1. <<x, id>> \in graph.created
        BY <2>1
      <4> QED
        BY <4>1 DEF EvidenceOf
    <3> QED
      BY <3>3, <3>4
  <2>3. PICK l \in Loads : id \in Ids(l)
    BY DEF IInv, AlertInv
  <2>4. PICK a \in Findings(l) : StableId(a) = id
    BY <2>3 DEF Ids
  <2>5. id[3] = {e.req : e \in a.cites}
    BY <2>4, FindingsTyped DEF IInv, Reqs
  <2>6. id[3] \subseteq graph.events
    BY DEF IInv, AlertInv
  <2> QED
    BY <2>2, <2>4, <2>5, <2>6
<1> QED
  BY <1>1, InvariantHolds, PTL

\* A load that completed left all it found, linked to its techniques, and only
\* the load of a capture or one beside another takes the incident back to what
\* an older of its events tells (main.py on the order of the sources).
THEOREM CompletedLoadsStand == Spec => []CompletedLoadIsThere
<1>1. IInv => CompletedLoadIsThere
  BY DEF IInv, StageInv, LandedInv, IncidentInv, CompletedLoadIsThere, Done, Reqs
<1> QED
  BY <1>1, InvariantHolds, PTL

\* An alert without its technique is owned by a load that has still to link it,
\* or died before it could (knowledge_writes).
THEOREM NoOrphanedGap == Spec => []GapsHaveAnOwner
BY InvariantHolds, PTL DEF IInv
=============================================================================
