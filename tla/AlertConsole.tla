---------------------------- MODULE AlertConsole ----------------------------
(***************************************************************************)
(* The console's detection stage and the alert service it shares a process *)
(* with: console/soc_api.py, soc/alert_service and soc/rules/main.py.      *)
(*                                                                         *)
(* The alert store is one dictionary for the process.  Nothing locks it,   *)
(* and every route that uses it is a plain `def`, run by FastAPI on a pool *)
(* of threads, so a detection run (collect, evaluate, clear, count, store  *)
(* one alert after the other, report), a responder's PATCH (get, replace)  *)
(* and a look at an alert's evidence interleave between any two of those   *)
(* steps.                                                                  *)
(*                                                                         *)
(* The rules are pure functions of what was collected.  Rule 4 stands for  *)
(* them here: it has both kinds of evidence, log events that are counted   *)
(* and a critical health check that fires at once.  The source is the live *)
(* one, and everything in it is recent (the detection window is not told   *)
(* apart); a file is a log that never grows.  A log event keeps its        *)
(* id wherever it is read; a health event gets a fresh one every time      *)
(* Consul is asked, so it is identified with whoever asked.                *)
(***************************************************************************)
EXTENDS Integers, FiniteSets

CONSTANTS
  Runs,      \* detection requests, each made once
  Patches,   \* status changes, each made once
  Views,     \* requests for the events an alert cites, each made once
  Services,  \* services that log and are health-checked
  Entries,   \* failures each service may log
  Threshold, \* FAILURE_THRESHOLD of rule_service_failure.py
  NoAlert,   \* an id the store does not hold
  NoRun      \* nobody has cleared the store yet

ASSUME ConsoleAssumption ==
  /\ IsFiniteSet(Runs) /\ IsFiniteSet(Services) /\ IsFiniteSet(Entries)
  /\ Threshold \in Nat \ {0}
  /\ NoRun \notin Runs
  /\ Runs \cap Patches = {} /\ (Runs \cup Patches) \cap Views = {}

Readers == Runs \cup Views
Events == [service : Services, id : Entries \cup Readers]
AlertIds == Runs \X Services
AlertStatus == {"OPEN", "ACKNOWLEDGED", "CLOSED"}
Alerts == [cites : SUBSET Events, status : AlertStatus]

ASSUME NoAlertAssumption == NoAlert \notin Alerts

VARIABLES
  \* The services being watched.
  log,        \* failure events in the services' logs
  \* The process-wide store.
  alerts,     \* AlertStore._alerts
  \* Detection runs.
  pc,         \* where each request (run, patch or view) stands
  collected,  \* the run's EventStore
  pending,    \* services whose alert `extend` has still to store
  before,     \* extend's local
  stored,     \* the alertsStored it reports
  \* Status changes.
  target,     \* the alert the patch is about
  asked,      \* the status it asks for
  current,    \* set_status's local: the record it read
  \* Views.
  unresolved, \* events the alert cites and the answer lacks
  \* History.
  lastClear,  \* the run that cleared the store last
  overlapped  \* runs that shared the store with another writer

runVars == <<collected, pending, before, stored, lastClear>>
patchVars == <<target, asked, current>>
vars == <<log, alerts, pc, runVars, patchVars, unresolved, overlapped>>

Requests == Runs \cup Patches \cup Views
Held == {a \in AlertIds : alerts[a] # NoAlert}
Most == Cardinality(AlertIds)

TypeOK ==
  /\ log \subseteq [service : Services, id : Entries]
  /\ alerts \in [AlertIds -> Alerts \cup {NoAlert}]
  /\ pc \in [Requests -> {"idle", "evaluated", "cleared", "storing", "write",
                          "done"}]
  /\ collected \in [Runs -> SUBSET Events]
  /\ pending \in [Runs -> SUBSET Services]
  /\ before \in [Runs -> 0..Most]
  /\ stored \in [Runs -> -Most..Most]
  /\ target \in [Patches -> AlertIds \cup {NoAlert}]
  /\ asked \in [Patches -> AlertStatus]
  /\ current \in [Patches -> Alerts \cup {NoAlert}]
  /\ unresolved \in [Views -> SUBSET Events]
  /\ lastClear \in Runs \cup {NoRun}
  /\ overlapped \subseteq Runs

Init ==
  /\ log = {}
  /\ alerts = [a \in AlertIds |-> NoAlert]
  /\ pc = [q \in Requests |-> "idle"]
  /\ collected = [r \in Runs |-> {}]
  /\ pending = [r \in Runs |-> {}]
  /\ before = [r \in Runs |-> 0]
  /\ stored = [r \in Runs |-> 0]
  /\ target = [p \in Patches |-> NoAlert]
  /\ asked = [p \in Patches |-> "OPEN"]
  /\ current = [p \in Patches |-> NoAlert]
  /\ unresolved = [v \in Views |-> {}]
  /\ lastClear = NoRun
  /\ overlapped = {}
-----------------------------------------------------------------------------
(* The services log failures.                                              *)

LogFailure ==
  /\ \E e \in [service : Services, id : Entries] \ log : log' = log \cup {e}
  /\ UNCHANGED <<alerts, pc, runVars, patchVars, unresolved, overlapped>>
-----------------------------------------------------------------------------
(* What is collected, and what the rules make of it.                       *)

\* events_from_checks: an event, with a fresh id, for every service Consul
\* reports critical at this moment.
HealthEvents(reader, critical) == {[service |-> s, id |-> reader] : s \in critical}

\* collect: the log, and Consul's view; one that cannot be reached adds nothing.
Collections(reader) ==
  {log \cup HealthEvents(reader, critical) : critical \in SUBSET Services}

\* Rule 4 on one service: its events, if its health check failed or it logged
\* enough failures.
Evidence(found, s) == {e \in found : e.service = s}

Fires(found, s) ==
  \/ \E e \in Evidence(found, s) : e.id \in Readers
  \/ Cardinality(Evidence(found, s)) >= Threshold

Fired(found) == {s \in Services : Fires(found, s)}

\* A mistake: an id derived from the alert's subject, the same in every run.
StableAlertId(r, s) == <<CHOOSE x \in Runs : TRUE, s>>

\* new_alert_id: fresh in every run.
AlertId(r, s) == <<r, s>>
-----------------------------------------------------------------------------
(* POST /detect.                                                           *)

\* Writers of the store that are between their first and last access.
Writing == {r \in Runs : pc[r] \in {"cleared", "storing"}}
             \cup {p \in Patches : pc[p] = "write"}

\* `collect`, the evaluation moment and evaluate_all: all on locals.
Collect(r) ==
  /\ pc[r] = "idle"
  /\ \E found \in Collections(r) :
       collected' = [collected EXCEPT ![r] = found]
  /\ pc' = [pc EXCEPT ![r] = "evaluated"]
  /\ UNCHANGED <<log, alerts, pending, before, stored, lastClear, patchVars,
                 unresolved, overlapped>>

\* Docker is missing or a line is malformed: 422, the store is left alone.
CollectFails(r) ==
  /\ pc[r] = "idle"
  /\ pc' = [pc EXCEPT ![r] = "done"]
  /\ UNCHANGED <<log, alerts, runVars, patchVars, unresolved, overlapped>>

\* AlertStore.clear.
Clear(r) ==
  /\ pc[r] = "evaluated"
  /\ alerts' = [a \in AlertIds |-> NoAlert]
  /\ lastClear' = r
  /\ overlapped' = IF Writing = {} THEN overlapped
                                   ELSE overlapped \cup {r} \cup (Writing \cap Runs)
  /\ pc' = [pc EXCEPT ![r] = "cleared"]
  /\ UNCHANGED <<log, collected, pending, before, stored, patchVars, unresolved>>

\* A mistake: a firing the store seems to hold already is not stored again.
CountDeduplicated(r) ==
  /\ pc[r] = "cleared"
  /\ before' = [before EXCEPT ![r] = Cardinality(Held)]
  /\ pending' = [pending EXCEPT ![r] =
                   {s \in Fired(collected[r]) : \A a \in Held : a[2] # s}]
  /\ pc' = [pc EXCEPT ![r] = "storing"]
  /\ UNCHANGED <<log, alerts, collected, stored, lastClear, patchVars,
                 unresolved, overlapped>>

\* persist_alerts finds every citation known, and extend counts the store.
Count(r) ==
  /\ pc[r] = "cleared"
  /\ before' = [before EXCEPT ![r] = Cardinality(Held)]
  /\ pending' = [pending EXCEPT ![r] = Fired(collected[r])]
  /\ pc' = [pc EXCEPT ![r] = "storing"]
  /\ UNCHANGED <<log, alerts, collected, stored, lastClear, patchVars,
                 unresolved, overlapped>>

\* A mistake: the evidence is read again while storing.
StoreReread(r) ==
  /\ pc[r] = "storing"
  /\ \E s \in pending[r] :
       /\ alerts' = [alerts EXCEPT ![AlertId(r, s)] =
                       [cites |-> Evidence(log, s), status |-> "OPEN"]]
       /\ pending' = [pending EXCEPT ![r] = @ \ {s}]
  /\ UNCHANGED <<log, pc, collected, before, stored, lastClear, patchVars,
                 unresolved, overlapped>>

\* One turn of extend's loop.
Store(r) ==
  /\ pc[r] = "storing"
  /\ \E s \in pending[r] :
       /\ alerts' = [alerts EXCEPT ![AlertId(r, s)] =
                       [cites |-> Evidence(collected[r], s), status |-> "OPEN"]]
       /\ pending' = [pending EXCEPT ![r] = @ \ {s}]
  /\ UNCHANGED <<log, pc, collected, before, stored, lastClear, patchVars,
                 unresolved, overlapped>>

\* extend's result, which becomes alertsStored in the answer.
Report(r) ==
  /\ pc[r] = "storing"
  /\ pending[r] = {}
  /\ stored' = [stored EXCEPT ![r] = Cardinality(Held) - before[r]]
  /\ before' = [before EXCEPT ![r] = 0]
  /\ pc' = [pc EXCEPT ![r] = "done"]
  /\ UNCHANGED <<log, alerts, collected, pending, lastClear, patchVars, unresolved,
                 overlapped>>
-----------------------------------------------------------------------------
(* PATCH /api/v1/alerts/{id}/status.  An id that was never minted is a 404 *)
(* like one that was cleared.                                              *)

\* A mistake: any string is accepted as a status.
PatchReadUnvalidated(p) ==
  /\ pc[p] = "idle"
  /\ \E a \in Held, s \in AlertStatus \cup {"REOPENED"} :
       /\ target' = [target EXCEPT ![p] = a]
       /\ asked' = [asked EXCEPT ![p] = s]
       /\ current' = [current EXCEPT ![p] = alerts[a]]
  /\ pc' = [pc EXCEPT ![p] = "write"]
  /\ overlapped' = overlapped \cup (Writing \cap Runs)
  /\ UNCHANGED <<log, alerts, runVars, unresolved>>

\* set_status gets the record.
PatchRead(p) ==
  /\ pc[p] = "idle"
  /\ \E a \in Held, s \in AlertStatus :
       /\ target' = [target EXCEPT ![p] = a]
       /\ asked' = [asked EXCEPT ![p] = s]
       /\ current' = [current EXCEPT ![p] = alerts[a]]
  /\ pc' = [pc EXCEPT ![p] = "write"]
  /\ overlapped' = overlapped \cup (Writing \cap Runs)
  /\ UNCHANGED <<log, alerts, runVars, unresolved>>

\* 404.
PatchMissing(p) ==
  /\ pc[p] = "idle"
  /\ Held # AlertIds
  /\ pc' = [pc EXCEPT ![p] = "done"]
  /\ UNCHANGED <<log, alerts, runVars, patchVars, unresolved, overlapped>>

\* set_status replaces whatever the id holds now by the copy.
PatchWrite(p) ==
  /\ pc[p] = "write"
  /\ alerts' = [alerts EXCEPT ![target[p]] =
                  [cites |-> current[p].cites, status |-> asked[p]]]
  /\ target' = [target EXCEPT ![p] = NoAlert]
  /\ asked' = [asked EXCEPT ![p] = "OPEN"]
  /\ current' = [current EXCEPT ![p] = NoAlert]
  /\ pc' = [pc EXCEPT ![p] = "done"]
  /\ UNCHANGED <<log, runVars, unresolved, overlapped>>
-----------------------------------------------------------------------------
(* GET /console/api/soc/alerts/{id}/events.                                *)

\* The record is read, the source is collected anew and what was cited is
\* picked from it; what is not found is left out without a word.  One step:
\* nothing another request does in between can change the result.
ViewAnswers(v) ==
  /\ pc[v] = "idle"
  /\ \E a \in Held, found \in Collections(v) :
       unresolved' = [unresolved EXCEPT ![v] = alerts[a].cites \ found]
  /\ pc' = [pc EXCEPT ![v] = "done"]
  /\ UNCHANGED <<log, alerts, runVars, patchVars, overlapped>>

\* 404, or 422 when the source cannot be collected.
ViewFails(v) ==
  /\ pc[v] = "idle"
  /\ pc' = [pc EXCEPT ![v] = "done"]
  /\ UNCHANGED <<log, alerts, runVars, patchVars, unresolved, overlapped>>
-----------------------------------------------------------------------------
Detect(r) ==
  \/ Collect(r)
  \/ CollectFails(r)
  \/ Clear(r)
  \/ Count(r)
  \/ Store(r)
  \/ Report(r)

Patch(p) == PatchRead(p) \/ PatchMissing(p) \/ PatchWrite(p)

View(v) == ViewAnswers(v) \/ ViewFails(v)

Next ==
  \/ LogFailure
  \/ \E r \in Runs : Detect(r)
  \/ \E p \in Patches : Patch(p)
  \/ \E v \in Views : View(v)

Spec == Init /\ [][Next]_vars
-----------------------------------------------------------------------------
(* What the store must keep, whatever overlaps.                            *)

\* An alert is a faithful record of what its run saw: through interleaved
\* runs, replaced records and a log that keeps growing, the stored evidence is
\* the evidence its own collection gave (persist_alerts, set_status).
EvidenceAsCollected ==
  \A r \in Runs, s \in Services :
    alerts[AlertId(r, s)] # NoAlert =>
      /\ s \in Fired(collected[r])
      /\ alerts[AlertId(r, s)].cites = Evidence(collected[r], s)

\* The last run to clear the store loses none of its alerts to the others; if
\* it shared the store with no other writer, it replaced the evaluation before
\* it and reports how many alerts it stored (run_detection, extend).
LastRunStands ==
  \A r \in Runs :
    (pc[r] = "done" /\ lastClear = r) =>
      /\ \A s \in Fired(collected[r]) : alerts[AlertId(r, s)] # NoAlert
      /\ r \notin overlapped =>
           /\ Held = {AlertId(r, s) : s \in Fired(collected[r])}
           /\ stored[r] = Cardinality(Held)

\* While an alert is in the store its status changes only by a PATCH of that
\* alert to the status asked for: a re-run never undoes a responder's triage
\* of an alert it leaves in place (set_status, new_alert_id).
TriageHolds ==
  [][\A a \in AlertIds :
       (a \in Held /\ alerts'[a] # NoAlert /\ alerts'[a].status # alerts[a].status)
         => \E p \in Patches :
              pc[p] = "write" /\ target[p] = a /\ alerts'[a].status = asked[p]]_vars
-----------------------------------------------------------------------------
(* What the docs say and the code does not do.                             *)

\* "resolve an alert's relatedEvents ids back to the full events"
\* (soc_api.py): a view that was answered shows every event the alert cites.
EvidenceResolves == \A v \in Views : unresolved[v] = {}
=============================================================================
