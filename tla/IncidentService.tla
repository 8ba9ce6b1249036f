-------------------------- MODULE IncidentService --------------------------
(***************************************************************************)
(* services/incident-service: the lifecycle of incidents under concurrent  *)
(* requests.  Every request has a session of its own and runs on a thread  *)
(* of its own, so its life is a sequence of transactions: look the asset   *)
(* up or load the row, commit the change, refresh the row, emit.  Between  *)
(* two of them any other request may commit, the database may fail, or the *)
(* process may be killed; what was committed stays, what was not yet       *)
(* emitted is lost.                                                        *)
(*                                                                         *)
(* A row carries the two columns the workflow changes.  SQLAlchemy and the *)
(* database are external: a flush writes only the columns whose value      *)
(* differs from the loaded one, an UPDATE that matches no row raises       *)
(* StaleDataError, a DELETE that matches none only warns, and a refresh of *)
(* a deleted row raises InvalidRequestError.                               *)
(***************************************************************************)
EXTENDS Naturals

CONSTANTS
  Requests,    \* requests served; each is served once
  Absent,      \* no row
  Severities,  \* the severities requests ask for
  Statuses,    \* the statuses requests ask for
  MaxIncidents \* bound on the ids the database hands out

\* schemas.py, from the least to the most severe.
Rank == [LOW |-> 1, MEDIUM |-> 2, HIGH |-> 3, CRITICAL |-> 4]

ASSUME IncidentAssumption ==
  /\ Severities \subseteq DOMAIN Rank
  /\ "OPEN" \in Statuses
  /\ MaxIncidents \in Nat \ {0}
  /\ Absent \notin [severity : Severities, status : Statuses] \cup Requests

VARIABLES
  \* Durable: the database and the event stream.
  db,        \* incident_db: the row of each id
  nextId,    \* the id sequence
  deleted,   \* ids whose DELETE was committed
  events,    \* INCIDENT_CREATED and INCIDENT_ESCALATED written so far
  \* One request each.
  pc,        \* where the request stands
  kind,      \* which operation it is
  target,    \* the incident it is about
  new,       \* the severity or status it asks for
  loaded,    \* its session's copy of the row
  previous,  \* change_severity's previous_severity
  wrote,     \* its transaction changed the table
  failure,   \* what raised in it, if anything did
  answer     \* the HTTP status it was answered with, 0 while it runs

tableVars == <<db, nextId, deleted>>
requestVars == <<pc, kind, target, new, loaded, previous, wrote, failure, answer>>
vars == <<tableVars, events, requestVars>>

Ids == 1..MaxIncidents
Rows == [severity : Severities, status : Statuses]
Escalations == {"HIGH", "CRITICAL"} \cap Severities
Kinds == {"none", "create", "severity", "update", "delete"}
Failures == {"none", "asset", "null", "database", "gone", "killed"}
Events == [type : {"created", "escalated"}, id : Ids, by : Requests \cup {Absent},
           severity : Severities, from : Severities]

TypeOK ==
  /\ db \in [Ids -> Rows \cup {Absent}]
  /\ nextId \in 1..MaxIncidents + 1
  /\ deleted \subseteq Ids
  /\ events \subseteq Events
  /\ pc \in [Requests -> {"new", "insert", "commit", "refresh", "emit", "done"}]
  /\ kind \in [Requests -> Kinds]
  /\ target \in [Requests -> Ids]
  /\ new \in [Requests -> Severities \cup Statuses]
  /\ loaded \in [Requests -> Rows \cup {Absent}]
  /\ previous \in [Requests -> Severities \cup {Absent}]
  /\ wrote \in [Requests -> BOOLEAN]
  /\ failure \in [Requests -> Failures]
  /\ answer \in [Requests -> {0, 200, 201, 204, 404, 500}]

\* One incident was created, and announced, by an earlier request.
Init ==
  /\ \E s \in Severities :
       /\ db = [i \in Ids |-> IF i = 1 THEN [severity |-> s, status |-> "OPEN"]
                                       ELSE Absent]
       /\ events = {[type |-> "created", id |-> 1, by |-> Absent,
                     severity |-> s, from |-> s]}
  /\ nextId = 2
  /\ deleted = {}
  /\ pc = [r \in Requests |-> "new"]
  /\ kind = [r \in Requests |-> "none"]
  /\ target = [r \in Requests |-> 1]
  /\ new = [r \in Requests |-> "OPEN"]
  /\ loaded = [r \in Requests |-> Absent]
  /\ previous = [r \in Requests |-> Absent]
  /\ wrote = [r \in Requests |-> FALSE]
  /\ failure = [r \in Requests |-> "none"]
  /\ answer = [r \in Requests |-> 0]
-----------------------------------------------------------------------------
(* Moving one request along.                                               *)

Goto(r, label) ==
  /\ pc[r] # "done"
  /\ pc' = [pc EXCEPT ![r] = label]
  /\ UNCHANGED <<failure, answer>>

Answer(r, status) ==
  /\ pc' = [pc EXCEPT ![r] = "done"]
  /\ answer' = [answer EXCEPT ![r] = status]
  /\ UNCHANGED failure

\* An exception no handler claims: error_handlers answers 500.
Raise(r, cause) ==
  /\ pc' = [pc EXCEPT ![r] = "done"]
  /\ answer' = [answer EXCEPT ![r] = 500]
  /\ failure' = [failure EXCEPT ![r] = cause]

Ask(r, k, i, x) ==
  /\ pc[r] = "new"
  /\ kind' = [kind EXCEPT ![r] = k]
  /\ target' = [target EXCEPT ![r] = i]
  /\ new' = [new EXCEPT ![r] = x]
-----------------------------------------------------------------------------
(* POST: create.                                                           *)

\* fetch_asset returned the asset or the declared fallback.
AssetFound(r) ==
  /\ \E s \in Severities : Ask(r, "create", 1, s)
  /\ Goto(r, "insert")
  /\ UNCHANGED <<tableVars, events, loaded, previous, wrote>>

\* asset-service answered 4xx: HTTPStatusError propagates out of create.
AssetRejected(r) ==
  /\ \E s \in Severities : Ask(r, "create", 1, s)
  /\ Raise(r, "asset")
  /\ UNCHANGED <<tableVars, events, loaded, previous, wrote>>

\* repository.create: INSERT and commit.
Insert(r) ==
  /\ pc[r] = "insert"
  /\ nextId \in Ids
  /\ db' = [db EXCEPT ![nextId] = [severity |-> new[r], status |-> "OPEN"]]
  /\ nextId' = nextId + 1
  /\ target' = [target EXCEPT ![r] = nextId]
  /\ wrote' = [wrote EXCEPT ![r] = TRUE]
  /\ Goto(r, "refresh")
  /\ UNCHANGED <<deleted, events, kind, new, loaded, previous>>
-----------------------------------------------------------------------------
(* PATCH severity, PUT, DELETE: load, then commit.                         *)

\* change_severity, update and delete start by loading the row.
Load(r) ==
  /\ \E i \in Ids :
       /\ \/ \E s \in Severities : Ask(r, "severity", i, s)
          \/ \E s \in Statuses : Ask(r, "update", i, s)
          \/ Ask(r, "delete", i, "OPEN")
       /\ IF db[i] = Absent
          THEN Answer(r, 404) /\ UNCHANGED <<loaded, previous>>
          ELSE /\ loaded' = [loaded EXCEPT ![r] = db[i]]
               /\ previous' = [previous EXCEPT ![r] = db[i].severity]
               /\ Goto(r, "commit")
  /\ UNCHANGED <<tableVars, events, wrote>>

\* A mistake: the null is stored.
NullStatusStored(r) ==
  /\ \E i \in Ids : /\ db[i] # Absent
                   /\ Ask(r, "update", i, "OPEN")
                   /\ db' = [db EXCEPT ![i].status = Absent]
  /\ Answer(r, 200)
  /\ UNCHANGED <<nextId, deleted, events, loaded, previous, wrote>>

\* PUT {"status": null}: update reads .value of None.
NullStatus(r) ==
  /\ \E i \in Ids : db[i] # Absent /\ Ask(r, "update", i, "OPEN")
  /\ Raise(r, "null")
  /\ UNCHANGED <<tableVars, events, loaded, previous, wrote>>

\* A mistake: the UPDATE is an upsert.
CommitUpsert(r) ==
  /\ pc[r] = "commit" /\ kind[r] = "severity"
  /\ db' = [db EXCEPT ![target[r]] = [loaded[r] EXCEPT !.severity = new[r]]]
  /\ wrote' = [wrote EXCEPT ![r] = TRUE]
  /\ Goto(r, "refresh")
  /\ UNCHANGED <<nextId, deleted, events, kind, target, new, loaded, previous>>

\* repository.update on one column: nothing is sent when the new value equals
\* the loaded one; otherwise that column alone is written.
CommitSeverity(r) ==
  /\ pc[r] = "commit" /\ kind[r] = "severity"
  /\ new[r] # loaded[r].severity => db[target[r]] # Absent
  /\ IF new[r] = loaded[r].severity
     THEN UNCHANGED <<db, wrote>>
     ELSE /\ db' = [db EXCEPT ![target[r]].severity = new[r]]
          /\ wrote' = [wrote EXCEPT ![r] = TRUE]
  /\ Goto(r, "refresh")
  /\ UNCHANGED <<nextId, deleted, events, kind, target, new, loaded, previous>>

CommitUpdate(r) ==
  /\ pc[r] = "commit" /\ kind[r] = "update"
  /\ new[r] # loaded[r].status => db[target[r]] # Absent
  /\ IF new[r] = loaded[r].status
     THEN UNCHANGED <<db, wrote>>
     ELSE /\ db' = [db EXCEPT ![target[r]].status = new[r]]
          /\ wrote' = [wrote EXCEPT ![r] = TRUE]
  /\ Goto(r, "refresh")
  /\ UNCHANGED <<nextId, deleted, events, kind, target, new, loaded, previous>>

\* The UPDATE matches no row: StaleDataError.
CommitStale(r) ==
  /\ pc[r] = "commit" /\ kind[r] \in {"severity", "update"}
  /\ new[r] # (IF kind[r] = "severity" THEN loaded[r].severity ELSE loaded[r].status)
  /\ db[target[r]] = Absent
  /\ Raise(r, "gone")
  /\ UNCHANGED <<tableVars, events, kind, target, new, loaded, previous, wrote>>

\* repository.delete: a second DELETE of the same row matches none, and says so
\* only in a warning.
CommitDelete(r) ==
  /\ pc[r] = "commit" /\ kind[r] = "delete"
  /\ db' = [db EXCEPT ![target[r]] = Absent]
  /\ deleted' = deleted \cup {target[r]}
  /\ wrote' = [wrote EXCEPT ![r] = db[target[r]] # Absent]
  /\ Answer(r, 204)
  /\ UNCHANGED <<nextId, events, kind, target, new, loaded, previous>>
-----------------------------------------------------------------------------
(* After the commit: refresh, emit, answer.                                *)

\* Mistakes: a request for the severity the incident already has is announced;
\* the event is built from the copy loaded before the change.
EscalationDueAlways(r) == kind[r] = "severity" /\ new[r] \in Escalations

RefreshSkipped(r) ==
  /\ pc[r] = "refresh"
  /\ db[target[r]] # Absent
  /\ IF kind[r] = "create"
     THEN loaded' = [loaded EXCEPT ![r] = db[target[r]]]
     ELSE UNCHANGED loaded
  /\ IF kind[r] = "create" \/ new[r] \in Escalations
     THEN Goto(r, "emit")
     ELSE Answer(r, 200)
  /\ UNCHANGED <<tableVars, events, kind, target, new, previous, wrote>>

\* An INCIDENT_ESCALATED is due when the requested severity is HIGH or CRITICAL
\* and is not the one that was loaded.
EscalationDue(r) ==
  kind[r] = "severity" /\ new[r] \in Escalations /\ new[r] # previous[r]

EventDue(r) == kind[r] = "create" \/ EscalationDue(r)

Refresh(r) ==
  /\ pc[r] = "refresh"
  /\ db[target[r]] # Absent
  /\ loaded' = [loaded EXCEPT ![r] = db[target[r]]]
  /\ IF EventDue(r) THEN Goto(r, "emit") ELSE Answer(r, 200)
  /\ UNCHANGED <<tableVars, events, kind, target, new, previous, wrote>>

\* The row was deleted between commit and refresh.
RefreshGone(r) ==
  /\ pc[r] = "refresh"
  /\ db[target[r]] = Absent
  /\ Raise(r, "gone")
  /\ UNCHANGED <<tableVars, events, kind, target, new, loaded, previous, wrote>>

\* The event carries the refreshed row's severity.
Emit(r) ==
  /\ pc[r] = "emit"
  /\ \/ /\ kind[r] = "create"
        /\ events' = events \cup
             {[type |-> "created", id |-> target[r], by |-> r,
               severity |-> loaded[r].severity, from |-> loaded[r].severity]}
        /\ Answer(r, 201)
     \/ /\ kind[r] = "severity"
        /\ events' = events \cup
             {[type |-> "escalated", id |-> target[r], by |-> r,
               severity |-> loaded[r].severity, from |-> previous[r]]}
        /\ Answer(r, 200)
  /\ UNCHANGED <<tableVars, kind, target, new, loaded, previous, wrote>>
-----------------------------------------------------------------------------
(* Failures.                                                               *)

Running(r) == pc[r] \in {"insert", "commit", "refresh", "emit"}

\* A statement of the request's session raises; nothing it had not committed
\* is kept.
DatabaseFails(r) ==
  /\ pc[r] \in {"insert", "commit", "refresh"}
  /\ Raise(r, "database")
  /\ UNCHANGED <<tableVars, events, kind, target, new, loaded, previous, wrote>>

\* The process is killed with every request it is serving, and starts again on
\* the same database (init_database creates only what is missing).
Crash ==
  /\ \E r \in Requests : Running(r)
  /\ pc' = [r \in Requests |-> IF Running(r) THEN "done" ELSE pc[r]]
  /\ failure' = [r \in Requests |-> IF Running(r) THEN "killed" ELSE failure[r]]
  /\ UNCHANGED <<tableVars, events, kind, target, new, loaded, previous, wrote,
                 answer>>

RequestStep(r) ==
  \/ AssetFound(r)
  \/ AssetRejected(r)
  \/ Insert(r)
  \/ Load(r)
  \/ NullStatus(r)
  \/ CommitSeverity(r)
  \/ CommitUpdate(r)
  \/ CommitStale(r)
  \/ CommitDelete(r)
  \/ Refresh(r)
  \/ RefreshGone(r)
  \/ Emit(r)
  \/ DatabaseFails(r)

Next == Crash \/ \E r \in Requests : RequestStep(r)

Spec == Init /\ [][Next]_vars
-----------------------------------------------------------------------------
(* What the service must do.                                               *)

\* What a request's event must go by: the move it asked for, from the severity
\* it loaded.
Raises(r) ==
  kind[r] = "severity" /\ new[r] \in Escalations /\ Rank[previous[r]] < Rank[new[r]]

Announced(r) == \E e \in events : e.by = r

\* The answer, the write and the event of a request agree, although the write is
\* decided by SQLAlchemy's comparison, the event by change_severity's, and the
\* request may fail between any two of them: whoever is told of a creation, or of
\* a raise to HIGH or CRITICAL, finds its event in the stream; an event stands
\* for a write that was answered for, a creation or a move that ends at HIGH or
\* CRITICAL; and a request refused before its commit (404, the asset's 4xx, the
\* null status) has written nothing.
\* A demotion that lands on HIGH is neither required nor forbidden an event here:
\* see OnlyRaisesEscalate.
EventsMatchWrites ==
  \A r \in Requests :
    /\ (wrote[r] /\ (kind[r] = "create" \/ Raises(r)) /\ answer[r] \in {200, 201}) =>
         Announced(r)
    /\ Announced(r) =>
         /\ wrote[r] /\ answer[r] \in {200, 201}
         /\ kind[r] = "create" \/ (kind[r] = "severity" /\ new[r] \in Escalations)
    /\ (answer[r] = 404 \/ failure[r] \in {"asset", "null"}) => ~wrote[r]

\* "A downgrade is never an escalation, whatever severity it lands on": an
\* INCIDENT_ESCALATED goes up from the severity change_severity loaded.  The code
\* tests membership and inequality only, so a move from CRITICAL to HIGH is
\* announced.
OnlyRaisesEscalate ==
  \A r \in Requests :
    (\E e \in events : e.by = r /\ e.type = "escalated") =>
      Rank[previous[r]] < Rank[new[r]]

\* When every request has ended, an incident that stands at HIGH or CRITICAL
\* has been announced at that severity, unless the request that put it there
\* was cut off between its commit and its event.
CutOff(r, i) ==
  wrote[r] /\ target[r] = i /\ failure[r] # "none"

FinalSeverityAnnounced ==
  (\A r \in Requests : pc[r] \in {"new", "done"}) =>
    \A i \in Ids :
      (db[i] # Absent /\ db[i].severity \in Escalations) =>
        \/ \E e \in events : e.id = i /\ e.severity = db[i].severity
        \/ \E r \in Requests : CutOff(r, i) /\ new[r] = db[i].severity

\* No session's late write undoes another's: a deleted incident stays deleted,
\* and requests that change different columns of one incident do not touch each
\* other's, although each works on the row it loaded (repository.update,
\* repository.delete).
WritesStandApart ==
  [][/\ \A i \in deleted : db'[i] = Absent
     /\ \A i \in Ids : db[i] # Absent /\ db'[i] # Absent =>
          db'[i].severity = db[i].severity \/ db'[i].status = db[i].status]_vars
=============================================================================
