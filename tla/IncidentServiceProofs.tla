------------------------- MODULE IncidentServiceProofs ------------------------
(***************************************************************************)
(* IncidentService's safety for any set of requests, any severities and    *)
(* statuses they may ask for, and any number of ids.                       *)
(***************************************************************************)
EXTENDS IncidentService, TLAPS

\* The rows beyond the sequence do not exist yet, the deleted ones no more.
TableInv ==
  /\ \A i \in Ids : i >= nextId => db[i] = Absent
  /\ \A i \in deleted : i < nextId /\ db[i] = Absent

\* What request r may rely on where it stands.
Stage(r) ==
  /\ pc[r] \in {"new", "insert", "commit"} => ~wrote[r]
  /\ pc[r] = "insert" => kind[r] = "create" /\ new[r] \in Severities
  /\ pc[r] = "commit" =>
       /\ kind[r] \in {"severity", "update", "delete"}
       /\ loaded[r] \in Rows /\ previous[r] = loaded[r].severity
       /\ target[r] < nextId
       /\ kind[r] = "severity" => new[r] \in Severities
       /\ kind[r] = "update" => new[r] \in Statuses
  /\ pc[r] \in {"refresh", "emit"} =>
       /\ kind[r] \in {"create", "severity", "update"}
       /\ kind[r] = "create" => wrote[r]
       /\ kind[r] = "severity" =>
            previous[r] \in Severities /\ (wrote[r] <=> new[r] # previous[r])
  /\ pc[r] = "emit" => EventDue(r) /\ loaded[r] \in Rows
  /\ pc[r] # "done" => failure[r] = "none"

StageInv == \A r \in Requests : Stage(r)

\* A request's event and its answer are the last things it does.
EventInv ==
  /\ \A e \in events : e.by \in Requests => pc[e.by] = "done"
  /\ \A r \in Requests : pc[r] # "done" => answer[r] = 0

\* Request r put incident i where it stands, and has still to announce it or
\* was cut off before it could.
Answerable(r, i) ==
  /\ wrote[r] /\ target[r] = i /\ new[r] = db[i].severity
  /\ kind[r] \in {"create", "severity"}
  /\ \/ failure[r] # "none"
     \/ pc[r] = "refresh"
     \/ pc[r] = "emit" /\ loaded[r].severity = db[i].severity

\* An incident at HIGH or CRITICAL was announced there, or somebody answers for it.
AnnouncedInv ==
  \A i \in Ids :
    (db[i] # Absent /\ db[i].severity \in Escalations) =>
      \/ \E e \in events : e.id = i /\ e.severity = db[i].severity
      \/ \E r \in Requests : Answerable(r, i)

IInv ==
  /\ TypeOK
  /\ TableInv
  /\ StageInv
  /\ EventInv
  /\ EventsMatchWrites
  /\ AnnouncedInv
-----------------------------------------------------------------------------
LEMMA InitIInv == Init => IInv
<1> SUFFICES ASSUME Init PROVE IInv
  OBVIOUS
<1> USE IncidentAssumption DEF Init
<1>1. PICK s \in Severities :
        /\ db = [i \in Ids |-> IF i = 1 THEN [severity |-> s, status |-> "OPEN"] ELSE Absent]
        /\ events = {[type |-> "created", id |-> 1, by |-> Absent, severity |-> s, from |-> s]}
  OBVIOUS
<1>2. 1 \in Ids /\ [severity |-> s, status |-> "OPEN"] \in Rows
  BY DEF Ids, Rows
<1>3. TypeOK
  <2>1. db \in [Ids -> Rows \cup {Absent}] /\ nextId \in 1..MaxIncidents + 1
    BY <1>1, <1>2
  <2>2. events \subseteq Events
    BY <1>1, <1>2 DEF Events
  <2>3. deleted \subseteq Ids
    OBVIOUS
  <2>4. /\ pc \in [Requests -> {"new", "insert", "commit", "refresh", "emit", "done"}]
        /\ kind \in [Requests -> Kinds]
        /\ target \in [Requests -> Ids]
        /\ new \in [Requests -> Severities \cup Statuses]
    BY <1>2 DEF Kinds
  <2>5. /\ loaded \in [Requests -> Rows \cup {Absent}]
        /\ previous \in [Requests -> Severities \cup {Absent}]
        /\ failure \in [Requests -> Failures]
        /\ answer \in [Requests -> {0, 200, 201, 204, 404, 500}]
    BY DEF Failures
  <2>6. wrote \in [Requests -> BOOLEAN]
    BY Zenon
  <2> QED
    BY <2>1, <2>2, <2>3, <2>4, <2>5, <2>6, Zenon DEF TypeOK
<1>4. TableInv
  BY <1>1 DEF TableInv, Ids
<1>5. StageInv /\ EventInv /\ EventsMatchWrites
  BY <1>1 DEF StageInv, Stage, EventInv, EventsMatchWrites, Announced
<1>6. AnnouncedInv
  BY <1>1 DEF AnnouncedInv
<1> QED
  BY <1>3, <1>4, <1>5, <1>6 DEF IInv
-----------------------------------------------------------------------------
(* Every step preserves it.                                                *)

\* A step of one request leaves the others where they are.
Untouched(q) ==
  /\ pc'[q] = pc[q] /\ kind'[q] = kind[q] /\ target'[q] = target[q] /\ new'[q] = new[q]
  /\ loaded'[q] = loaded[q] /\ previous'[q] = previous[q] /\ wrote'[q] = wrote[q]
  /\ failure'[q] = failure[q] /\ answer'[q] = answer[q]

LEMMA OthersUntouched ==
  ASSUME TypeOK, NEW r \in Requests, RequestStep(r), NEW q \in Requests \ {r}
  PROVE  Untouched(q)
<1> USE DEF TypeOK, Untouched, Ask, Goto, Answer, Raise
<1>1. CASE AssetFound(r) \/ AssetRejected(r)
  BY <1>1 DEF AssetFound, AssetRejected
<1>2. CASE Insert(r)
  BY <1>2 DEF Insert
<1>3. CASE Load(r)
  <2>1. kind'[q] = kind[q] /\ target'[q] = target[q] /\ new'[q] = new[q] /\ wrote'[q] = wrote[q]
    BY <1>3 DEF Load
  <2>2. loaded'[q] = loaded[q] /\ previous'[q] = previous[q]
    BY <1>3 DEF Load
  <2>3. pc'[q] = pc[q] /\ failure'[q] = failure[q] /\ answer'[q] = answer[q]
    BY <1>3 DEF Load
  <2> QED
    BY <2>1, <2>2, <2>3
<1>4. CASE NullStatus(r)
  BY <1>4 DEF NullStatus
<1>5. CASE CommitSeverity(r) \/ CommitUpdate(r)
  BY <1>5 DEF CommitSeverity, CommitUpdate
<1>6. CASE CommitStale(r) \/ CommitDelete(r)
  BY <1>6 DEF CommitStale, CommitDelete
<1>7. CASE Refresh(r) \/ RefreshGone(r)
  BY <1>7 DEF Refresh, RefreshGone
<1>8. CASE Emit(r)
  BY <1>8 DEF Emit
<1>9. CASE DatabaseFails(r)
  BY <1>9 DEF DatabaseFails
<1> QED
  BY <1>1, <1>2, <1>3, <1>4, <1>5, <1>6, <1>7, <1>8, <1>9 DEF RequestStep

LEMMA StepType == IInv /\ [Next]_vars => TypeOK'
<1> SUFFICES ASSUME IInv, [Next]_vars PROVE TypeOK'
  OBVIOUS
<1> USE IncidentAssumption DEF IInv, TypeOK
<1> DEFINE Labels == {"new", "insert", "commit", "refresh", "emit", "done"}
           Codes == {0, 200, 201, 204, 404, 500}
           Moved == /\ pc' \in [Requests -> Labels] /\ failure' \in [Requests -> Failures]
                    /\ answer' \in [Requests -> Codes]
           Asked == /\ kind' \in [Requests -> Kinds] /\ target' \in [Requests -> Ids]
                    /\ new' \in [Requests -> Severities \cup Statuses]
<1>1. ASSUME NEW r \in Requests, NEW label \in Labels, Goto(r, label) PROVE Moved
  BY <1>1 DEF Goto
<1>2. ASSUME NEW r \in Requests, NEW status \in Codes, Answer(r, status) PROVE Moved
  BY <1>2 DEF Answer
<1>3. ASSUME NEW r \in Requests, NEW cause \in Failures, Raise(r, cause) PROVE Moved
  BY <1>3 DEF Raise
<1>4. ASSUME NEW r \in Requests, NEW k \in Kinds, NEW i \in Ids,
             NEW x \in Severities \cup Statuses, Ask(r, k, i, x)
      PROVE  Asked
  BY <1>4 DEF Ask
<1>5. ASSUME NEW r \in Requests, NEW b \in BOOLEAN, wrote' = [wrote EXCEPT ![r] = b]
      PROVE  wrote' \in [Requests -> BOOLEAN]
  BY <1>5, Zenon
<1>6. /\ \A k \in {"create", "severity", "update", "delete"} : k \in Kinds
      /\ \A f \in {"asset", "null", "database", "gone", "killed"} : f \in Failures
      /\ 1 \in Ids
  BY DEF Kinds, Failures, Ids
<1>7. ASSUME NEW r \in Requests, AssetFound(r) \/ AssetRejected(r) PROVE TypeOK'
  <2>1. Asked
    BY <1>4, <1>6, <1>7 DEF AssetFound, AssetRejected
  <2>2. Moved
    BY <1>1, <1>3, <1>6, <1>7 DEF AssetFound, AssetRejected
  <2> QED
    BY <1>7, <2>1, <2>2 DEF AssetFound, AssetRejected, tableVars
<1>8. ASSUME NEW r \in Requests, Insert(r) PROVE TypeOK'
  <2>1. new[r] \in Severities /\ nextId \in Ids
    BY <1>8 DEF Insert, StageInv, Stage
  <2>2. db' \in [Ids -> Rows \cup {Absent}]
    <3>1. [severity |-> new[r], status |-> "OPEN"] \in Rows
      BY <2>1 DEF Rows
    <3> QED
      BY <1>8, <2>1, <3>1 DEF Insert
  <2>3. nextId' \in 1..MaxIncidents + 1 /\ target' \in [Requests -> Ids]
    BY <1>8, <2>1 DEF Insert, Ids
  <2>4. Moved /\ wrote' \in [Requests -> BOOLEAN]
    BY <1>1, <1>5, <1>8 DEF Insert
  <2> QED
    BY <1>8, <2>2, <2>3, <2>4 DEF Insert
<1>9. ASSUME NEW r \in Requests, Load(r) PROVE TypeOK'
  <2>1. PICK i \in Ids :
          /\ \/ \E s \in Severities : Ask(r, "severity", i, s)
             \/ \E s \in Statuses : Ask(r, "update", i, s)
             \/ Ask(r, "delete", i, "OPEN")
          /\ IF db[i] = Absent
             THEN Answer(r, 404) /\ UNCHANGED <<loaded, previous>>
             ELSE /\ loaded' = [loaded EXCEPT ![r] = db[i]]
                  /\ previous' = [previous EXCEPT ![r] = db[i].severity]
                  /\ Goto(r, "commit")
    BY <1>9, Zenon DEF Load
  <2>2. Asked
    BY <1>4, <1>6, <2>1
  <2>3. Moved
    BY <1>1, <1>2, <2>1
  <2>4. db[i] # Absent => db[i].severity \in Severities
    BY DEF Rows
  <2>5. loaded' \in [Requests -> Rows \cup {Absent}] /\ previous' \in [Requests -> Severities \cup {Absent}]
    BY <2>1, <2>4
  <2> QED
    BY <1>9, <2>2, <2>3, <2>5 DEF Load, tableVars
<1>10. ASSUME NEW r \in Requests, NullStatus(r) PROVE TypeOK'
  <2>1. Asked /\ Moved
    BY <1>3, <1>4, <1>6, <1>10 DEF NullStatus
  <2> QED
    BY <1>10, <2>1 DEF NullStatus, tableVars
<1>11. ASSUME NEW r \in Requests, CommitSeverity(r) \/ CommitUpdate(r) PROVE TypeOK'
  <2>1. Moved
    BY <1>1, <1>11 DEF CommitSeverity, CommitUpdate
  <2>2. wrote' \in [Requests -> BOOLEAN]
    <3>1. wrote' = wrote \/ wrote' = [wrote EXCEPT ![r] = TRUE]
      BY <1>11 DEF CommitSeverity, CommitUpdate
    <3>2. CASE wrote' = wrote
      BY <3>2
    <3>3. CASE wrote' = [wrote EXCEPT ![r] = TRUE]
      BY <1>5, <3>3
    <3> QED
      BY <3>1, <3>2, <3>3
  <2>3. db' \in [Ids -> Rows \cup {Absent}]
    <3>1. CASE db' = db
      BY <3>1
    <3>2. CASE /\ db[target[r]] # Absent /\ new[r] \in Severities
               /\ db' = [db EXCEPT ![target[r]].severity = new[r]]
      BY <3>2 DEF Rows
    <3>3. CASE /\ db[target[r]] # Absent /\ new[r] \in Statuses
               /\ db' = [db EXCEPT ![target[r]].status = new[r]]
      BY <3>3 DEF Rows
    <3> QED
      BY <1>11, <3>1, <3>2, <3>3 DEF CommitSeverity, CommitUpdate, StageInv, Stage
  <2> QED
    BY <1>11, <2>1, <2>2, <2>3 DEF CommitSeverity, CommitUpdate
<1>12. ASSUME NEW r \in Requests, CommitStale(r) \/ RefreshGone(r) \/ DatabaseFails(r)
       PROVE  TypeOK'
  <2>1. Moved
    BY <1>3, <1>6, <1>12 DEF CommitStale, RefreshGone, DatabaseFails
  <2> QED
    BY <1>12, <2>1 DEF CommitStale, RefreshGone, DatabaseFails, tableVars
<1>13. ASSUME NEW r \in Requests, CommitDelete(r) PROVE TypeOK'
  <2>1. Moved
    BY <1>2, <1>13 DEF CommitDelete
  <2>2. db' \in [Ids -> Rows \cup {Absent}] /\ deleted' \subseteq Ids
    BY <1>13 DEF CommitDelete
  <2>3. wrote' \in [Requests -> BOOLEAN]
    BY <1>5, <1>13 DEF CommitDelete
  <2> QED
    BY <1>13, <2>1, <2>2, <2>3 DEF CommitDelete
<1>14. ASSUME NEW r \in Requests, Refresh(r) PROVE TypeOK'
  <2>1. Moved
    BY <1>1, <1>2, <1>14 DEF Refresh
  <2>2. loaded' \in [Requests -> Rows \cup {Absent}]
    BY <1>14 DEF Refresh
  <2> QED
    BY <1>14, <2>1, <2>2 DEF Refresh, tableVars
<1>15. ASSUME NEW r \in Requests, Emit(r) PROVE TypeOK'
  <2>1. Moved
    BY <1>2, <1>15 DEF Emit
  <2>2. loaded[r].severity \in Severities /\ (kind[r] = "severity" => previous[r] \in Severities)
    BY <1>15 DEF Emit, StageInv, Stage, Rows
  <2>3. events' \subseteq Events
    BY <1>15, <2>2 DEF Emit, Events
  <2> QED
    BY <1>15, <2>1, <2>3 DEF Emit, tableVars
<1>16. CASE Crash
  <2>1. Moved
    BY <1>6, <1>16 DEF Crash
  <2> QED
    BY <1>16, <2>1 DEF Crash, tableVars
<1>17. CASE UNCHANGED vars
  BY <1>17 DEF vars, tableVars, requestVars
<1> QED
  BY <1>7, <1>8, <1>9, <1>10, <1>11, <1>12, <1>13, <1>14, <1>15, <1>16, <1>17
     DEF Next, RequestStep

LEMMA StepTable == IInv /\ [Next]_vars => TableInv'
<1> SUFFICES ASSUME IInv, [Next]_vars PROVE TableInv'
  OBVIOUS
<1> USE IncidentAssumption DEF IInv, TypeOK, TableInv, Ids
<1>1. ASSUME UNCHANGED tableVars PROVE TableInv'
  BY <1>1 DEF tableVars
<1>2. ASSUME NEW r \in Requests, Insert(r) PROVE TableInv'
  BY <1>2 DEF Insert
<1>3. ASSUME NEW r \in Requests, CommitSeverity(r) \/ CommitUpdate(r) PROVE TableInv'
  <2>1. UNCHANGED <<nextId, deleted>>
    BY <1>3 DEF CommitSeverity, CommitUpdate
  <2>2. \A i \in Ids : db[i] = Absent => db'[i] = Absent
    <3>1. CASE db' = db
      BY <3>1
    <3>2. CASE db[target[r]] # Absent /\ \A i \in Ids \ {target[r]} : db'[i] = db[i]
      BY <3>2
    <3> QED
      BY <1>3, <3>1, <3>2 DEF CommitSeverity, CommitUpdate
  <2> QED
    BY <2>1, <2>2
<1>4. ASSUME NEW r \in Requests, CommitDelete(r) PROVE TableInv'
  <2>1. target[r] < nextId
    BY <1>4 DEF CommitDelete, StageInv, Stage
  <2>2. /\ nextId' = nextId /\ deleted' = deleted \cup {target[r]}
        /\ db' = [db EXCEPT ![target[r]] = Absent]
    BY <1>4 DEF CommitDelete
  <2> QED
    BY <2>1, <2>2
<1> QED
  BY <1>1, <1>2, <1>3, <1>4
     DEF Next, RequestStep, vars, AssetFound, AssetRejected, Load, NullStatus, CommitStale,
         Refresh, RefreshGone, Emit, DatabaseFails, Crash

LEMMA StepStage == IInv /\ [Next]_vars => StageInv'
<1> SUFFICES ASSUME IInv, [Next]_vars PROVE StageInv'
  OBVIOUS
<1> USE IncidentAssumption DEF IInv, TypeOK, StageInv, Stage, EventDue, EscalationDue
<1>1. nextId' \in Nat /\ nextId <= nextId'
  <2>1. nextId' = nextId \/ \E r \in Requests : Insert(r)
    BY Zenon DEF Next, RequestStep, vars, tableVars, AssetFound, AssetRejected, Load, NullStatus,
       CommitSeverity, CommitUpdate, CommitStale, CommitDelete, Refresh, RefreshGone, Emit,
       DatabaseFails, Crash
  <2> QED
    BY <2>1 DEF Insert
<1>2. ASSUME NEW q \in Requests, Untouched(q) PROVE Stage(q)'
  <2>1. /\ pc'[q] = pc[q] /\ kind'[q] = kind[q] /\ target'[q] = target[q] /\ new'[q] = new[q]
        /\ loaded'[q] = loaded[q] /\ previous'[q] = previous[q] /\ wrote'[q] = wrote[q]
        /\ failure'[q] = failure[q]
    BY <1>2 DEF Untouched
  <2>2. target[q] < nextId => target[q] < nextId'
    BY <1>1 DEF Ids
  <2> QED
    BY <2>1, <2>2
<1>3. ASSUME NEW r \in Requests, RequestStep(r), Stage(r)' PROVE StageInv'
  BY <1>2, <1>3, OthersUntouched
<1>4. ASSUME NEW r \in Requests, AssetFound(r) \/ AssetRejected(r) PROVE Stage(r)'
  BY <1>4 DEF AssetFound, AssetRejected, Ask, Goto, Raise
<1>5. ASSUME NEW r \in Requests, Insert(r) PROVE Stage(r)'
  BY <1>5 DEF Insert, Goto
<1>6. ASSUME NEW r \in Requests, Load(r) PROVE Stage(r)'
  <2>1. PICK i \in Ids :
          /\ \/ \E s \in Severities : Ask(r, "severity", i, s)
             \/ \E s \in Statuses : Ask(r, "update", i, s)
             \/ Ask(r, "delete", i, "OPEN")
          /\ IF db[i] = Absent
             THEN Answer(r, 404) /\ UNCHANGED <<loaded, previous>>
             ELSE /\ loaded' = [loaded EXCEPT ![r] = db[i]]
                  /\ previous' = [previous EXCEPT ![r] = db[i].severity]
                  /\ Goto(r, "commit")
    BY <1>6, Zenon DEF Load
  <2>2. target'[r] = i /\ kind'[r] \in {"severity", "update", "delete"}
        /\ (kind'[r] = "severity" => new'[r] \in Severities)
        /\ (kind'[r] = "update" => new'[r] \in Statuses)
    BY <2>1 DEF Ask
  <2>3. CASE db[i] = Absent
    BY <2>1, <2>3 DEF Answer
  <2>4. CASE db[i] # Absent
    <3>1. i < nextId /\ db[i] \in Rows
      BY <2>4 DEF TableInv, Ids
    <3>2. pc[r] = "new"
      BY <2>1 DEF Ask
    <3>3. UNCHANGED <<wrote, failure>>
      BY <1>6, <2>1, <2>4 DEF Load, Goto
    <3>4. pc'[r] = "commit" /\ loaded'[r] = db[i] /\ previous'[r] = db[i].severity
      BY <2>1, <2>4 DEF Goto
    <3>5. i < nextId'
      BY <1>1, <3>1 DEF Ids
    <3> QED
      BY <2>2, <3>1, <3>2, <3>3, <3>4, <3>5
  <2> QED
    BY <2>3, <2>4
<1>7. ASSUME NEW r \in Requests, NullStatus(r) PROVE Stage(r)'
  BY <1>7 DEF NullStatus, Raise
<1>8. ASSUME NEW r \in Requests, CommitSeverity(r) PROVE Stage(r)'
  BY <1>8 DEF CommitSeverity, Goto, Rows
<1>9. ASSUME NEW r \in Requests, CommitUpdate(r) PROVE Stage(r)'
  BY <1>9 DEF CommitUpdate, Goto
<1>10. ASSUME NEW r \in Requests, CommitStale(r) \/ RefreshGone(r) \/ DatabaseFails(r)
       PROVE  Stage(r)'
  BY <1>10 DEF CommitStale, RefreshGone, DatabaseFails, Raise
<1>11. ASSUME NEW r \in Requests, CommitDelete(r) PROVE Stage(r)'
  BY <1>11 DEF CommitDelete, Answer
<1>12. ASSUME NEW r \in Requests, Refresh(r) PROVE Stage(r)'
  <2>1. CASE EventDue(r)
    BY <1>12, <2>1 DEF Refresh, Goto
  <2>2. CASE ~EventDue(r)
    BY <1>12, <2>2 DEF Refresh, Answer
  <2> QED
    BY <2>1, <2>2
<1>13. ASSUME NEW r \in Requests, Emit(r) PROVE Stage(r)'
  BY <1>13 DEF Emit, Answer
<1>14. CASE Crash
  BY <1>1, <1>14 DEF Crash, Running
<1>15. CASE UNCHANGED vars
  BY <1>15 DEF vars, tableVars, requestVars
<1> QED
  BY <1>3, <1>4, <1>5, <1>6, <1>7, <1>8, <1>9, <1>10, <1>11, <1>12, <1>13, <1>14, <1>15
     DEF Next, RequestStep

\* The event names its request, its incident and the severity that was read back.
LEMMA EmitWrites ==
  ASSUME NEW r \in Requests, Emit(r)
  PROVE  \E e \in events' : /\ events' = events \cup {e} /\ e.by = r
                           /\ e.id = target[r] /\ e.severity = loaded[r].severity
<1> DEFINE created == [type |-> "created", id |-> target[r], by |-> r,
                       severity |-> loaded[r].severity, from |-> loaded[r].severity]
           escalated == [type |-> "escalated", id |-> target[r], by |-> r,
                         severity |-> loaded[r].severity, from |-> previous[r]]
<1>1. /\ created.by = r /\ created.id = target[r] /\ created.severity = loaded[r].severity
      /\ escalated.by = r /\ escalated.id = target[r]
      /\ escalated.severity = loaded[r].severity
  OBVIOUS
<1>2. events' = events \cup {created} \/ events' = events \cup {escalated}
  BY DEF Emit
<1> HIDE DEF created, escalated
<1> QED
  BY <1>1, <1>2

\* Nobody else writes one.
LEMMA EventsFromEmit ==
  ASSUME NEW r \in Requests, RequestStep(r), ~Emit(r)
  PROVE  events' = events
BY Zenon DEF RequestStep, AssetFound, AssetRejected, Insert, Load, NullStatus, CommitSeverity,
   CommitUpdate, CommitStale, CommitDelete, Refresh, RefreshGone, DatabaseFails

\* A raise is due an event: severities are ranked, so it is no repetition.
LEMMA RaisesAreDue == ASSUME TypeOK, NEW r \in Requests, Raises(r) PROVE EscalationDue(r)
<1>1. \A s \in DOMAIN Rank : Rank[s] \in Nat
  BY DEF Rank
<1>2. new[r] \in DOMAIN Rank
  BY IncidentAssumption DEF Raises, Escalations
<1> QED
  BY <1>1, <1>2 DEF Raises, EscalationDue

LEMMA StepEvents == IInv /\ [Next]_vars => (EventInv /\ EventsMatchWrites)'
<1> SUFFICES ASSUME IInv, [Next]_vars PROVE (EventInv /\ EventsMatchWrites)'
  OBVIOUS
<1> USE IncidentAssumption DEF IInv, TypeOK, EventInv
<1> DEFINE Told(r) == (wrote[r] /\ (kind[r] = "create" \/ Raises(r)) /\ answer[r] \in {200, 201})
                        => Announced(r)
           Due(r) == /\ wrote[r] /\ answer[r] \in {200, 201}
                     /\ kind[r] = "create" \/ (kind[r] = "severity" /\ new[r] \in Escalations)
           Refused(r) == (answer[r] = 404 \/ failure[r] \in {"asset", "null"}) => ~wrote[r]
           Matched(r) == Told(r) /\ (Announced(r) => Due(r)) /\ Refused(r)
           Last(r) == /\ Announced(r) => pc[r] = "done"
                      /\ pc[r] # "done" => answer[r] = 0
<1>0. /\ EventsMatchWrites <=> \A r \in Requests : Matched(r)
      /\ EventInv <=> \A r \in Requests : Last(r)
      /\ EventsMatchWrites' <=> \A r \in Requests : Matched(r)'
      /\ EventInv' <=> \A r \in Requests : Last(r)'
  <2>1. EventsMatchWrites <=> \A r \in Requests : Matched(r)
    BY DEF EventsMatchWrites
  <2>2. EventsMatchWrites' <=> \A r \in Requests : Matched(r)'
    BY DEF EventsMatchWrites
  <2>3. EventInv <=> \A r \in Requests : Last(r)
    BY DEF Announced
  <2>4. EventInv' <=> \A r \in Requests : Last(r)'
    BY DEF Announced
  <2> QED
    BY <2>1, <2>2, <2>3, <2>4
<1> HIDE DEF EventInv
<1>1. ASSUME NEW r \in Requests, RequestStep(r), Matched(r)', Last(r)'
      PROVE  (EventInv /\ EventsMatchWrites)'
  <2>1. ASSUME NEW q \in Requests, q # r PROVE Matched(q)' /\ Last(q)'
    <3>1. Announced(q)' <=> Announced(q)
      BY <1>1, <2>1, EmitWrites, EventsFromEmit DEF Announced
    <3>2. Untouched(q)
      BY <1>1, <2>1, OthersUntouched
    <3>3. Matched(q) /\ Last(q)
      BY <1>0
    <3> QED
      BY <3>1, <3>2, <3>3 DEF Untouched, Raises
  <2> QED
    BY <1>0, <1>1, <2>1
<1>2. \A r \in Requests : pc[r] # "done" => ~Announced(r) /\ answer[r] = 0 /\ failure[r] = "none"
  BY <1>0 DEF StageInv, Stage
\* A step that ends a request with neither an event nor a change.
<1>3. ASSUME NEW r \in Requests, events' = events, pc[r] # "done",
             \/ answer'[r] = answer[r] /\ failure'[r] = failure[r]
             \/ answer'[r] = 500 /\ pc'[r] = "done" /\
                  (failure'[r] \in {"asset", "null"} => ~wrote'[r])
      PROVE  Matched(r)' /\ Last(r)'
  BY <1>2, <1>3 DEF Announced
<1>4. ASSUME NEW r \in Requests, AssetFound(r) \/ AssetRejected(r) \/ NullStatus(r)
      PROVE  Matched(r)' /\ Last(r)'
  <2>1. events' = events /\ pc[r] = "new" /\ ~wrote'[r]
    BY <1>4 DEF AssetFound, AssetRejected, NullStatus, Ask, StageInv, Stage
  <2>2. \/ answer'[r] = answer[r] /\ failure'[r] = failure[r]
        \/ answer'[r] = 500 /\ pc'[r] = "done"
    BY <1>4 DEF AssetFound, AssetRejected, NullStatus, Goto, Raise
  <2> QED
    BY <1>3, <2>1, <2>2
<1>5. ASSUME NEW r \in Requests, Insert(r) \/ CommitSeverity(r) \/ CommitUpdate(r)
                                \/ CommitStale(r) \/ RefreshGone(r) \/ DatabaseFails(r)
      PROVE  Matched(r)' /\ Last(r)'
  <2>1. events' = events /\ pc[r] # "done"
    BY <1>5 DEF Insert, CommitSeverity, CommitUpdate, CommitStale, RefreshGone, DatabaseFails
  <2>2. \/ answer'[r] = answer[r] /\ failure'[r] = failure[r]
        \/ answer'[r] = 500 /\ pc'[r] = "done" /\ failure'[r] \in {"gone", "database"}
    BY <1>5 DEF Insert, CommitSeverity, CommitUpdate, CommitStale, RefreshGone, DatabaseFails,
       Goto, Raise
  <2> QED
    BY <1>3, <2>1, <2>2
<1>6. ASSUME NEW r \in Requests, Load(r) PROVE Matched(r)' /\ Last(r)'
  <2>1. pc[r] = "new" /\ events' = events /\ ~wrote'[r]
    BY <1>6 DEF Load, Ask, StageInv, Stage
  <2>2. (answer'[r] = answer[r]) \/ pc'[r] = "done"
    BY <1>6 DEF Load, Goto, Answer
  <2> QED
    BY <1>2, <2>1, <2>2 DEF Announced
<1>7. ASSUME NEW r \in Requests, CommitDelete(r) PROVE Matched(r)' /\ Last(r)'
  <2>1. /\ pc[r] = "commit" /\ events' = events /\ pc'[r] = "done" /\ answer'[r] = 204
        /\ failure' = failure
    BY <1>7 DEF CommitDelete, Answer
  <2> QED
    BY <1>2, <2>1 DEF Announced
<1>8. ASSUME NEW r \in Requests, Refresh(r) PROVE Matched(r)' /\ Last(r)'
  <2>1. pc[r] = "refresh" /\ UNCHANGED <<events, kind, new, wrote, previous, failure>>
    BY <1>8 DEF Refresh, tableVars, Goto, Answer
  <2>2. CASE EventDue(r)
    BY <1>3, <1>8, <2>1, <2>2 DEF Refresh, Goto
  <2>3. CASE ~EventDue(r)
    <3>1. pc'[r] = "done" /\ answer'[r] = 200
      BY <1>8, <2>3 DEF Refresh, Answer
    <3>2. kind'[r] # "create" /\ ~Raises(r)'
      <4>1. Raises(r)' <=> Raises(r)
        BY <2>1 DEF Raises
      <4> QED
        BY <2>1, <2>3, <4>1, RaisesAreDue DEF EventDue
    <3> QED
      BY <1>2, <2>1, <3>1, <3>2 DEF Announced
  <2> QED
    BY <2>2, <2>3
<1>9. ASSUME NEW r \in Requests, Emit(r) PROVE Matched(r)' /\ Last(r)'
  <2>1. /\ pc[r] = "emit" /\ pc'[r] = "done" /\ answer'[r] \in {200, 201}
        /\ UNCHANGED <<kind, new, wrote, failure>>
    BY <1>9 DEF Emit, Answer
  <2>2. Announced(r)'
    BY <1>9, EmitWrites DEF Announced
  <2>3. Due(r)'
    BY <2>1 DEF StageInv, Stage, EventDue, EscalationDue
  <2>4. failure'[r] = "none"
    BY <1>2, <2>1
  <2> QED
    BY <2>1, <2>2, <2>3, <2>4
<1>10. CASE Crash
  <2>1. /\ UNCHANGED <<events, kind, new, wrote, previous, answer>>
        /\ \A r \in Requests : /\ pc'[r] = "done" \/ pc'[r] = pc[r]
                               /\ failure'[r] = "killed" \/ failure'[r] = failure[r]
    BY <1>10 DEF Crash, Running
  <2>2. \A r \in Requests : Matched(r) /\ Last(r)
    BY <1>0
  <2>3. \A r \in Requests : (Announced(r)' <=> Announced(r)) /\ (Raises(r)' <=> Raises(r))
    BY <2>1 DEF Announced, Raises
  <2>4. \A r \in Requests : Matched(r)' /\ Last(r)'
    BY <2>1, <2>2, <2>3
  <2> QED
    BY <1>0, <2>4
<1>11. CASE UNCHANGED vars
  BY <1>11 DEF vars, requestVars, EventsMatchWrites, EventInv, Announced, Raises
<1> QED
  BY <1>1, <1>4, <1>5, <1>6, <1>7, <1>8, <1>9, <1>10, <1>11 DEF Next, RequestStep

LEMMA StepAnnounced == IInv /\ [Next]_vars => AnnouncedInv'
<1> SUFFICES ASSUME IInv, [Next]_vars PROVE AnnouncedInv'
  OBVIOUS
<1> USE IncidentAssumption DEF IInv, TypeOK
<1>1. events \subseteq events'
  BY EmitWrites, EventsFromEmit DEF Next, vars, Crash
\* Incident i keeps its severity, and whoever answers for it goes on doing so or
\* has announced it.
<1>2. ASSUME NEW i \in Ids, db[i] # Absent, db'[i] # Absent, db'[i].severity = db[i].severity,
             db[i].severity \in Escalations,
             \A q \in Requests : Answerable(q, i) =>
               Answerable(q, i)' \/ \E e \in events' : e.id = i /\ e.severity = db[i].severity
      PROVE  \/ \E e \in events' : e.id = i /\ e.severity = db'[i].severity
             \/ \E q \in Requests : Answerable(q, i)'
  BY <1>1, <1>2 DEF AnnouncedInv
\* The others answer as before.
<1>3. ASSUME NEW r \in Requests, RequestStep(r), NEW i \in Ids, db'[i].severity = db[i].severity,
             NEW q \in Requests, q # r, Answerable(q, i)
      PROVE  Answerable(q, i)'
  BY <1>3, OthersUntouched DEF Answerable, Untouched
<1>4. ASSUME NEW r \in Requests, RequestStep(r),
             \A i \in Ids : db'[i] # Absent => db[i] # Absent /\ db'[i].severity = db[i].severity,
             \A i \in Ids : Answerable(r, i) /\ db[i] # Absent /\ db[i].severity \in Escalations =>
               Answerable(r, i)' \/ \E e \in events' : e.id = i /\ e.severity = db[i].severity
      PROVE  AnnouncedInv'
  BY <1>2, <1>3, <1>4 DEF AnnouncedInv
<1>5. \A r \in Requests, i \in Ids :
        Answerable(r, i) => pc[r] \in {"refresh", "emit", "done"}
  BY DEF Answerable, StageInv, Stage
<1>6. ASSUME NEW r \in Requests, AssetFound(r) \/ AssetRejected(r) \/ Load(r) \/ NullStatus(r)
      PROVE  AnnouncedInv'
  <2>1. db' = db /\ pc[r] = "new"
    BY <1>6 DEF AssetFound, AssetRejected, Load, NullStatus, Ask, tableVars
  <2> QED
    BY <1>4, <1>5, <1>6, <2>1 DEF RequestStep
\* The writer answers for what it wrote.
<1>7. ASSUME NEW r \in Requests, Insert(r) PROVE AnnouncedInv'
  <2>1. PICK n \in Ids : n = nextId
    BY <1>7 DEF Insert
  <2>2. /\ db'[n].severity = new[r] /\ kind'[r] = "create" /\ wrote'[r]
        /\ target'[r] = n /\ new' = new /\ pc'[r] = "refresh" /\ pc[r] = "insert"
        /\ \A i \in Ids \ {n} : db'[i] = db[i]
    BY <1>7, <2>1 DEF Insert, Goto, StageInv, Stage
  <2>3. Answerable(r, n)'
    BY <2>2 DEF Answerable
  <2>4. ASSUME NEW i \in Ids, i # n, db'[i] # Absent, db'[i].severity \in Escalations
        PROVE  \/ \E e \in events' : e.id = i /\ e.severity = db'[i].severity
               \/ \E q \in Requests : Answerable(q, i)'
    BY <1>2, <1>3, <1>5, <1>7, <2>2, <2>4 DEF RequestStep
  <2> QED
    BY <2>3, <2>4 DEF AnnouncedInv
<1>8. ASSUME NEW r \in Requests, CommitSeverity(r) PROVE AnnouncedInv'
  <2>1. pc[r] = "commit" /\ RequestStep(r)
    BY <1>8 DEF CommitSeverity, RequestStep
  <2>2. CASE db' = db
    BY <1>4, <1>5, <2>1, <2>2
  <2>3. CASE /\ db[target[r]] # Absent
             /\ db' = [db EXCEPT ![target[r]].severity = new[r]]
             /\ wrote' = [wrote EXCEPT ![r] = TRUE]
    <3>0. PICK t \in Ids : t = target[r]
      OBVIOUS
    <3>1. /\ db'[t].severity = new[r] /\ \A i \in Ids \ {t} : db'[i] = db[i]
          /\ wrote'[r] /\ kind'[r] = "severity" /\ target' = target /\ new' = new
          /\ pc'[r] = "refresh"
      BY <1>8, <2>3, <3>0 DEF CommitSeverity, Goto, Rows
    <3>2. Answerable(r, t)'
      BY <3>0, <3>1 DEF Answerable
    <3>3. ASSUME NEW i \in Ids, i # t, db'[i] # Absent, db'[i].severity \in Escalations
          PROVE  \/ \E e \in events' : e.id = i /\ e.severity = db'[i].severity
                 \/ \E q \in Requests : Answerable(q, i)'
      BY <1>2, <1>3, <1>5, <2>1, <3>1, <3>3
    <3> QED
      BY <3>2, <3>3 DEF AnnouncedInv
  <2> QED
    BY <1>8, <2>2, <2>3 DEF CommitSeverity
<1>9. ASSUME NEW r \in Requests, CommitUpdate(r) PROVE AnnouncedInv'
  <2>1. pc[r] = "commit" /\ RequestStep(r)
    BY <1>9 DEF CommitUpdate, RequestStep
  <2>2. \A i \in Ids : db'[i] # Absent => db[i] # Absent /\ db'[i].severity = db[i].severity
    BY <1>9 DEF CommitUpdate, Rows
  <2> QED
    BY <1>4, <1>5, <2>1, <2>2
<1>10. ASSUME NEW r \in Requests, CommitDelete(r) PROVE AnnouncedInv'
  <2>1. pc[r] = "commit" /\ RequestStep(r)
    BY <1>10 DEF CommitDelete, RequestStep
  <2>2. \A i \in Ids : db'[i] # Absent => db'[i] = db[i]
    BY <1>10 DEF CommitDelete
  <2> QED
    BY <1>4, <1>5, <2>1, <2>2
<1>11. ASSUME NEW r \in Requests, CommitStale(r) \/ RefreshGone(r) \/ DatabaseFails(r)
       PROVE  AnnouncedInv'
  <2>1. db' = db /\ RequestStep(r)
    BY <1>11 DEF CommitStale, RefreshGone, DatabaseFails, RequestStep, tableVars
  <2>2. \A i \in Ids : Answerable(r, i) => Answerable(r, i)'
    BY <1>11 DEF CommitStale, RefreshGone, DatabaseFails, tableVars, Raise, Answerable
  <2> QED
    BY <1>4, <2>1, <2>2
<1>12. ASSUME NEW r \in Requests, Refresh(r) PROVE AnnouncedInv'
  <2>1. /\ db' = db /\ RequestStep(r) /\ pc[r] = "refresh"
        /\ loaded'[r] = db[target[r]] /\ UNCHANGED <<kind, target, new, wrote>>
    BY <1>12 DEF Refresh, RequestStep, tableVars
  <2>2. ASSUME NEW i \in Ids, Answerable(r, i), db[i].severity \in Escalations
        PROVE  Answerable(r, i)'
    <3>1. EventDue(r)
      BY <2>1, <2>2 DEF Answerable, EventDue, EscalationDue, StageInv, Stage
    <3>2. pc'[r] = "emit"
      BY <1>12, <3>1 DEF Refresh, Goto
    <3> QED
      BY <2>1, <2>2, <3>2 DEF Answerable
  <2> QED
    BY <1>4, <2>1, <2>2
\* The event has the severity that was read back.
<1>13. ASSUME NEW r \in Requests, Emit(r) PROVE AnnouncedInv'
  <2>1. db' = db /\ RequestStep(r) /\ pc[r] = "emit"
    BY <1>13 DEF Emit, RequestStep, tableVars
  <2>2. \E e \in events' : e.id = target[r] /\ e.severity = loaded[r].severity
    BY <1>13, EmitWrites
  <2>3. \A i \in Ids : Answerable(r, i) => target[r] = i /\ loaded[r].severity = db[i].severity
    BY <2>1 DEF Answerable, StageInv, Stage
  <2> QED
    BY <1>4, <2>1, <2>2, <2>3
<1>14. CASE Crash
  <2>1. db' = db /\ UNCHANGED <<kind, target, new, wrote, loaded>>
    BY <1>14 DEF Crash, tableVars
  <2>2. \A r \in Requests : /\ failure[r] # "none" => failure'[r] # "none"
                            /\ pc[r] \in {"refresh", "emit"} => failure'[r] # "none"
    BY <1>14 DEF Crash, Running
  <2>3. \A r \in Requests, i \in Ids : Answerable(r, i) => Answerable(r, i)'
    BY <2>1, <2>2 DEF Answerable
  <2> QED
    BY <1>2, <2>1, <2>3 DEF AnnouncedInv
<1>15. CASE UNCHANGED vars
  BY <1>15 DEF vars, tableVars, requestVars, AnnouncedInv, Answerable
<1> QED
  BY <1>6, <1>7, <1>8, <1>9, <1>10, <1>11, <1>12, <1>13, <1>14, <1>15 DEF Next, RequestStep

LEMMA InvariantHolds == Spec => []IInv
<1>1. IInv /\ [Next]_vars => IInv'
  BY StepType, StepTable, StepStage, StepEvents, StepAnnounced DEF IInv
<1> QED
  BY InitIInv, <1>1, PTL DEF Spec
-----------------------------------------------------------------------------
(* The theorems.                                                           *)

\* Every variable keeps its type.
THEOREM TypeCorrect == Spec => []TypeOK
<1>1. IInv => TypeOK
  BY DEF IInv
<1> QED
  BY InvariantHolds, <1>1, PTL

\* Whoever is told of a creation or a raise finds its event, an event stands for
\* such a write or for a demotion that ends at HIGH, and a refused request wrote
\* nothing (incident_service.py, incident_repository.py).
THEOREM EventsAreWrites == Spec => []EventsMatchWrites
<1>1. IInv => EventsMatchWrites
  BY DEF IInv
<1> QED
  BY InvariantHolds, <1>1, PTL

\* At rest, an incident at HIGH or CRITICAL was announced there, or the request
\* that put it there was cut off (incident_service.py:change_severity).
THEOREM NothingSevereIsSilent == Spec => []FinalSeverityAnnounced
<1>1. IInv => FinalSeverityAnnounced
  BY DEF IInv, AnnouncedInv, Answerable, FinalSeverityAnnounced, CutOff
<1> QED
  BY InvariantHolds, <1>1, PTL

\* A deleted incident stays deleted, and no step changes both columns of one
\* (incident_repository.py).
THEOREM WritesDoNotCollide == Spec => WritesStandApart
<1> DEFINE Apart == /\ \A i \in deleted : db'[i] = Absent
                    /\ \A i \in Ids : db[i] # Absent /\ db'[i] # Absent =>
                         db'[i].severity = db[i].severity \/ db'[i].status = db[i].status
<1>1. IInv /\ [Next]_vars => [Apart]_vars
  <2> SUFFICES ASSUME IInv, Next PROVE Apart
    OBVIOUS
  <2> USE IncidentAssumption DEF IInv, TypeOK, TableInv
  <2>1. ASSUME db' = db PROVE Apart
    BY <2>1
  <2>2. ASSUME NEW r \in Requests, Insert(r) PROVE Apart
    BY <2>2 DEF Insert, Ids
  <2>3. ASSUME NEW r \in Requests, CommitSeverity(r) PROVE Apart
    BY <2>3 DEF CommitSeverity, Rows
  <2>4. ASSUME NEW r \in Requests, CommitUpdate(r) PROVE Apart
    BY <2>4 DEF CommitUpdate, Rows
  <2>5. ASSUME NEW r \in Requests, CommitDelete(r) PROVE Apart
    BY <2>5 DEF CommitDelete
  <2> QED
    BY <2>1, <2>2, <2>3, <2>4, <2>5
       DEF Next, RequestStep, tableVars, AssetFound, AssetRejected, Load, NullStatus,
           CommitStale, Refresh, RefreshGone, Emit, DatabaseFails, Crash
<1> QED
  BY InvariantHolds, <1>1, PTL DEF Spec, WritesStandApart
=============================================================================
