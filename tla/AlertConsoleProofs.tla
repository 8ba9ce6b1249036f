-------------------------- MODULE AlertConsoleProofs --------------------------
(***************************************************************************)
(* AlertConsole's safety for any sets of detection runs, status changes,   *)
(* views and services, and any threshold: what the unlocked dictionary     *)
(* still guarantees.                                                       *)
(***************************************************************************)
EXTENDS AlertConsole, FiniteSetTheorems, TLAPS

\* The record x is what run r made of service s, its status aside.
Records(x, r, s) ==
  /\ pc[r] \in {"storing", "done"}
  /\ s \in Fired(collected[r]) \ pending[r]
  /\ x.cites = Evidence(collected[r], s)

\* An alert of a run is in the store, or in the hands of a responder, only
\* after the run has stored it.
StoreInv ==
  \A r \in Runs, s \in Services :
    /\ alerts[AlertId(r, s)] # NoAlert => Records(alerts[AlertId(r, s)], r, s)
    /\ \A p \in Patches :
         pc[p] = "write" /\ target[p] = AlertId(r, s) => Records(current[p], r, s)

PatchInv ==
  \A p \in Patches :
    pc[p] = "write" => target[p] \in AlertIds /\ current[p] \in Alerts

RunInv ==
  \A r \in Runs :
    /\ pending[r] \subseteq Fired(collected[r])
    /\ pc[r] # "storing" => pending[r] = {}
    /\ lastClear = r => pc[r] \in {"cleared", "storing", "done"}

\* Run r has had the store to itself since it cleared it.
Alone(r) ==
  /\ \A q \in Runs \ {r} : pc[q] \notin {"cleared", "storing"}
  /\ \A p \in Patches : pc[p] = "write" => pc[r] = "done" /\ target[p] \in Held
  /\ \A a \in Held : a[1] = r
  /\ pc[r] = "cleared" => Held = {}
  /\ pc[r] = "storing" => before[r] = 0
  /\ pc[r] = "done" => stored[r] = Cardinality(Held)

LastInv ==
  \A r \in Runs : lastClear = r =>
    /\ pc[r] \in {"storing", "done"} =>
         \A s \in Fired(collected[r]) \ pending[r] : alerts[AlertId(r, s)] # NoAlert
    /\ r \notin overlapped => Alone(r)

IInv ==
  /\ TypeOK
  /\ StoreInv
  /\ PatchInv
  /\ RunInv
  /\ LastInv
-----------------------------------------------------------------------------
(* Sets.                                                                   *)

LEMMA Ids ==
  /\ \A r \in Runs, s \in Services : AlertId(r, s) \in AlertIds /\ AlertId(r, s)[1] = r
  /\ \A a \in AlertIds : \E r \in Runs, s \in Services : a = AlertId(r, s)
  /\ \A r, q \in Runs, s, t \in Services : AlertId(r, s) = AlertId(q, t) => r = q /\ s = t
BY DEF AlertId, AlertIds

LEMMA RequestSets ==
  /\ \A r \in Runs : r \in Requests /\ r \notin Patches /\ r \notin Views
  /\ \A p \in Patches : p \in Requests /\ p \notin Views
  /\ \A v \in Views : v \in Requests
BY ConsoleAssumption DEF Requests

LEMMA FiredServices == \A found : Fired(found) \subseteq Services
BY DEF Fired

\* There are finitely many alert ids: one row of them for each run.
LEMMA FiniteIds == IsFiniteSet(AlertIds)
BY ConsoleAssumption, FS_Product DEF AlertIds

LEMMA HeldBounded ==
  ASSUME TypeOK
  PROVE  /\ IsFiniteSet(Held) /\ Cardinality(Held) \in 0..Most /\ Most \in Nat
         /\ (\A a \in AlertIds : alerts[a] = NoAlert) => Cardinality(Held) = 0
<1>1. Held \in SUBSET AlertIds
  BY DEF Held
<1>2. Most \in Nat
  BY FiniteIds, FS_CardinalityType DEF Most
<1>3. IsFiniteSet(Held) /\ Cardinality(Held) <= Most
  BY <1>1, FiniteIds, FS_Subset DEF Most
<1>4. Cardinality(Held) \in Nat
  BY <1>3, FS_CardinalityType
<1>5. (\A a \in AlertIds : alerts[a] = NoAlert) => Held = {}
  BY DEF Held
<1> QED
  BY <1>2, <1>3, <1>4, <1>5, FS_EmptySet
-----------------------------------------------------------------------------
LEMMA InitIInv == Init => IInv
<1> SUFFICES ASSUME Init PROVE IInv
  OBVIOUS
<1> USE DEF Init
<1>1. Most \in Nat
  BY FiniteIds, FS_CardinalityType DEF Most
<1>2. TypeOK
  BY <1>1 DEF TypeOK, AlertStatus
<1>3. StoreInv
  BY Ids, RequestSets DEF StoreInv
<1>4. PatchInv
  BY RequestSets DEF PatchInv
<1>5. RunInv
  BY ConsoleAssumption, RequestSets DEF RunInv
<1>6. LastInv
  BY ConsoleAssumption DEF LastInv
<1> QED
  BY <1>2, <1>3, <1>4, <1>5, <1>6 DEF IInv
-----------------------------------------------------------------------------
(* Every step preserves it.                                                *)

LEMMA StepType == IInv /\ [Next]_vars => TypeOK'
<1> SUFFICES ASSUME IInv, [Next]_vars PROVE TypeOK'
  OBVIOUS
<1> USE DEF IInv, TypeOK
<1>0. Most \in Nat /\ Cardinality(Held) \in 0..Most
  BY HeldBounded
<1>1. CASE LogFailure
  BY <1>1 DEF LogFailure, runVars, patchVars
<1>2. ASSUME NEW r \in Runs, Collect(r)
      PROVE  TypeOK'
  <2>1. \A found \in Collections(r) : found \in SUBSET Events
    BY DEF Collections, HealthEvents, Events, Readers
  <2>2. collected' \in [Runs -> SUBSET Events]
    BY <1>2, <2>1 DEF Collect
  <2> QED
    BY <1>2, <2>2 DEF Collect, patchVars
<1>3. ASSUME NEW r \in Runs, CollectFails(r)
      PROVE  TypeOK'
  BY <1>3 DEF CollectFails, runVars, patchVars
<1>4. ASSUME NEW r \in Runs, Clear(r)
      PROVE  TypeOK'
  BY <1>4 DEF Clear, patchVars
<1>5. ASSUME NEW r \in Runs, Count(r)
      PROVE  TypeOK'
  <2>1. before' \in [Runs -> 0..Most]
    BY <1>0, <1>5 DEF Count
  <2>2. pending' \in [Runs -> SUBSET Services]
    BY <1>5, FiredServices DEF Count
  <2> QED
    BY <1>5, <2>1, <2>2 DEF Count, patchVars
<1>6. ASSUME NEW r \in Runs, Store(r)
      PROVE  TypeOK'
  <2>1. PICK s \in pending[r] :
          /\ alerts' = [alerts EXCEPT ![AlertId(r, s)] =
                          [cites |-> Evidence(collected[r], s), status |-> "OPEN"]]
          /\ pending' = [pending EXCEPT ![r] = @ \ {s}]
    BY <1>6 DEF Store
  <2>2. [cites |-> Evidence(collected[r], s), status |-> "OPEN"] \in Alerts
    BY DEF Alerts, AlertStatus, Evidence
  <2> QED
    BY <1>6, <2>1, <2>2 DEF Store, patchVars
<1>7. ASSUME NEW r \in Runs, Report(r)
      PROVE  TypeOK'
  <2>1. Cardinality(Held) - before[r] \in -Most..Most /\ 0 \in 0..Most
    BY <1>0
  <2> QED
    BY <1>7, <2>1 DEF Report, patchVars
<1>8. ASSUME NEW p \in Patches, PatchRead(p)
      PROVE  TypeOK'
  <2>1. PICK a \in Held, s \in AlertStatus :
          /\ target' = [target EXCEPT ![p] = a]
          /\ asked' = [asked EXCEPT ![p] = s]
          /\ current' = [current EXCEPT ![p] = alerts[a]]
    BY <1>8 DEF PatchRead
  <2>2. a \in AlertIds
    BY DEF Held
  <2>3. Writing \cap Runs \subseteq Runs
    OBVIOUS
  <2> QED
    BY <1>8, <2>1, <2>2, <2>3 DEF PatchRead, runVars
<1>9. ASSUME NEW p \in Patches, PatchMissing(p)
      PROVE  TypeOK'
  BY <1>9 DEF PatchMissing, runVars, patchVars
<1>10. ASSUME NEW p \in Patches, PatchWrite(p)
       PROVE  TypeOK'
  <2>1. [cites |-> current[p].cites, status |-> asked[p]] \in Alerts
    <3>1. current[p] \in Alerts
      BY <1>10 DEF PatchWrite, PatchInv
    <3> QED
      BY <3>1 DEF Alerts
  <2>2. "OPEN" \in AlertStatus
    BY DEF AlertStatus
  <2> QED
    BY <1>10, <2>1, <2>2 DEF PatchWrite, runVars
<1>11. ASSUME NEW v \in Views, View(v)
       PROVE  TypeOK'
  <2>1. CASE ViewFails(v)
    BY <2>1 DEF ViewFails, runVars, patchVars
  <2>2. CASE ViewAnswers(v)
    <3>1. \A a \in Held : alerts[a].cites \in SUBSET Events
      BY DEF Held, Alerts
    <3> QED
      BY <2>2, <3>1 DEF ViewAnswers, runVars, patchVars
  <2> QED
    BY <1>11, <2>1, <2>2 DEF View
<1>12. CASE UNCHANGED vars
  BY <1>12 DEF vars, runVars, patchVars
<1> QED
  BY <1>1, <1>2, <1>3, <1>4, <1>5, <1>6, <1>7, <1>8, <1>9, <1>10, <1>11, <1>12
  DEF Next, Detect, Patch

\* What a run made of a service stays what it made of it.
LEMMA RecordsStand ==
  ASSUME IInv, [Next]_vars, NEW r \in Runs, NEW s \in Services, NEW x, Records(x, r, s)
  PROVE  Records(x, r, s)'
<1> USE DEF IInv, TypeOK
<1>1. pc[r] \in {"storing", "done"} /\ s \in Fired(collected[r]) \ pending[r]
  BY DEF Records
<1>2. collected'[r] = collected[r]
  <2>1. CASE \E q \in Runs : Collect(q)
    BY <1>1, <2>1 DEF Collect
  <2>2. CASE ~(\E q \in Runs : Collect(q))
    BY <2>2 DEF Next, vars, runVars, LogFailure, Detect, CollectFails, Clear, Count, Store, Report,
      Patch, PatchRead, PatchMissing, PatchWrite, View, ViewAnswers, ViewFails
  <2> QED
    BY <2>1, <2>2
<1>3. pending'[r] \subseteq pending[r]
  <2>1. CASE \E q \in Runs : Count(q) \/ Store(q)
    BY <1>1, <2>1 DEF Count, Store
  <2>2. CASE ~(\E q \in Runs : Count(q) \/ Store(q))
    BY <2>2 DEF Next, vars, runVars, LogFailure, Detect, Collect, CollectFails, Clear, Report,
      Patch, PatchRead, PatchMissing, PatchWrite, View, ViewAnswers, ViewFails
  <2> QED
    BY <2>1, <2>2
<1>4. pc'[r] \in {"storing", "done"}
  <2>1. ASSUME NEW q \in Runs, Detect(q)
        PROVE  pc'[r] \in {"storing", "done"}
    <3>0. q \in Requests /\ r \in Requests
      BY RequestSets
    <3>1. CASE Collect(q) \/ CollectFails(q) \/ Clear(q) \/ Count(q)
      BY <1>1, <3>0, <3>1 DEF Collect, CollectFails, Clear, Count
    <3>2. CASE Store(q) \/ Report(q)
      BY <1>1, <3>0, <3>2 DEF Store, Report
    <3> QED
      BY <2>1, <3>1, <3>2 DEF Detect
  <2>2. CASE ~(\E q \in Runs : Detect(q))
    BY <1>1, <2>2, RequestSets DEF Next, vars, LogFailure,
      Patch, PatchRead, PatchMissing, PatchWrite, View, ViewAnswers, ViewFails
  <2> QED
    BY <2>1, <2>2
<1>5. Fired(collected'[r]) = Fired(collected[r]) /\ Evidence(collected'[r], s) = Evidence(collected[r], s)
  BY <1>2
<1> QED
  BY <1>1, <1>3, <1>4, <1>5 DEF Records

\* Where the store's content can come from.
LEMMA AlertsFrom ==
  ASSUME IInv, [Next]_vars, NEW a \in AlertIds, alerts'[a] # NoAlert
  PROVE  \/ alerts'[a] = alerts[a]
         \/ \E r \in Runs : Store(r) /\ \E s \in pending[r] :
              /\ a = AlertId(r, s)
              /\ alerts'[a] = [cites |-> Evidence(collected[r], s), status |-> "OPEN"]
              /\ pending'[r] = pending[r] \ {s}
         \/ \E p \in Patches : /\ PatchWrite(p) /\ target[p] = a
                               /\ alerts'[a] = [cites |-> current[p].cites, status |-> asked[p]]
<1> USE DEF IInv, TypeOK
<1>1. CASE \E r \in Runs : Clear(r)
  BY <1>1 DEF Clear
<1>2. CASE \E r \in Runs : Store(r)
  <2>1. PICK r \in Runs : Store(r)
    BY <1>2
  <2>2. PICK s \in pending[r] :
          /\ alerts' = [alerts EXCEPT ![AlertId(r, s)] =
                          [cites |-> Evidence(collected[r], s), status |-> "OPEN"]]
          /\ pending' = [pending EXCEPT ![r] = @ \ {s}]
    BY <2>1 DEF Store
  <2>3. CASE a = AlertId(r, s)
    BY <2>1, <2>2, <2>3
  <2>4. CASE a # AlertId(r, s)
    BY <2>2, <2>4
  <2> QED
    BY <2>3, <2>4
<1>3. CASE \E p \in Patches : PatchWrite(p)
  <2>1. PICK p \in Patches : PatchWrite(p)
    BY <1>3
  <2> QED
    BY <2>1 DEF PatchWrite
<1>4. CASE ~(\E r \in Runs : Clear(r) \/ Store(r)) /\ ~(\E p \in Patches : PatchWrite(p))
  BY <1>4 DEF Next, vars, LogFailure, Detect, Collect, CollectFails, Count, Report,
    Patch, PatchRead, PatchMissing, View, ViewAnswers, ViewFails
<1> QED
  BY <1>1, <1>2, <1>3, <1>4

\* Where the copies in the responders' hands come from.
LEMMA CopiesFrom ==
  ASSUME IInv, [Next]_vars, NEW p \in Patches, pc'[p] = "write"
  PROVE  \/ pc[p] = "write" /\ target'[p] = target[p] /\ current'[p] = current[p]
              /\ asked'[p] = asked[p]
         \/ PatchRead(p) /\ target'[p] \in Held /\ current'[p] = alerts[target'[p]]
<1> USE DEF IInv, TypeOK
<1>0. p \notin Runs /\ p \notin Views /\ p \in Requests
  BY RequestSets, ConsoleAssumption
<1>1. CASE PatchRead(p)
  <2>1. PICK a \in Held, s \in AlertStatus :
          /\ target' = [target EXCEPT ![p] = a]
          /\ current' = [current EXCEPT ![p] = alerts[a]]
    BY <1>1, Zenon DEF PatchRead
  <2>2. target'[p] = a /\ current'[p] = alerts[a]
    BY <1>0, <2>1
  <2> QED
    BY <1>1, <2>1, <2>2
<1>2. CASE PatchMissing(p) \/ PatchWrite(p)
  BY <1>0, <1>2 DEF PatchMissing, PatchWrite
<1>3. ASSUME NEW q \in Patches \ {p}, Patch(q)
      PROVE  pc'[p] = pc[p] /\ target'[p] = target[p] /\ current'[p] = current[p]
               /\ asked'[p] = asked[p]
  <2>1. CASE PatchRead(q)
    <3>1. PICK a \in Held, s \in AlertStatus :
            /\ target' = [target EXCEPT ![q] = a]
            /\ asked' = [asked EXCEPT ![q] = s]
            /\ current' = [current EXCEPT ![q] = alerts[a]]
      BY <2>1 DEF PatchRead
    <3> QED
      BY <1>0, <2>1, <3>1 DEF PatchRead
  <2>2. CASE PatchMissing(q)
    BY <1>0, <2>2 DEF PatchMissing, patchVars
  <2>3. CASE PatchWrite(q)
    BY <1>0, <2>3 DEF PatchWrite
  <2> QED
    BY <1>3, <2>1, <2>2, <2>3 DEF Patch
<1>4. CASE (\E r \in Runs : Detect(r)) \/ (\E v \in Views : View(v)) \/ LogFailure \/ UNCHANGED vars
  BY <1>0, <1>4 DEF Detect, Collect, CollectFails, Clear, Count, Store, Report, View, ViewAnswers,
    ViewFails, LogFailure, vars, patchVars
<1> QED
  BY <1>1, <1>2, <1>3, <1>4 DEF Next, Patch

LEMMA StepStore == IInv /\ [Next]_vars => StoreInv'
<1> SUFFICES ASSUME IInv, [Next]_vars, NEW r \in Runs, NEW s \in Services
             PROVE  /\ alerts'[AlertId(r, s)] # NoAlert => Records(alerts[AlertId(r, s)], r, s)'
                    /\ \A p \in Patches :
                         pc'[p] = "write" /\ target'[p] = AlertId(r, s) => Records(current[p], r, s)'
  BY DEF StoreInv
<1>1. PICK a \in AlertIds : a = AlertId(r, s)
  BY Ids
<1>2. PICK old : old = alerts[a] /\ (old # NoAlert => Records(old, r, s)')
  <2>1. PICK x : x = alerts[a]
    OBVIOUS
  <2>2. x # NoAlert => Records(x, r, s)
    BY <1>1, <2>1 DEF IInv, StoreInv
  <2>3. x # NoAlert => Records(x, r, s)'
    BY <2>2, RecordsStand
  <2> QED
    BY <2>1, <2>3
<1>3. ASSUME NEW p \in Patches, pc[p] = "write", target[p] = a
      PROVE  \E x : x = current[p] /\ Records(x, r, s)'
  <2>1. PICK x : x = current[p]
    OBVIOUS
  <2>2. Records(x, r, s)
    BY <1>1, <1>3, <2>1 DEF IInv, StoreInv
  <2>3. Records(x, r, s)'
    BY <2>2, RecordsStand
  <2> QED
    BY <2>1, <2>3
<1>4. alerts'[a] # NoAlert => Records(alerts[a], r, s)'
  <2> HAVE alerts'[a] # NoAlert
  <2>1. CASE alerts'[a] = alerts[a]
    BY <1>2, <2>1 DEF Records
  <2>2. ASSUME NEW q \in Runs, Store(q), NEW t \in pending[q], a = AlertId(q, t),
               alerts'[a] = [cites |-> Evidence(collected[q], t), status |-> "OPEN"],
               pending'[q] = pending[q] \ {t}
        PROVE  Records(alerts[a], r, s)'
    <3>0. t \in Services
      BY DEF IInv, TypeOK
    <3>1. q = r /\ t = s
      <4>1. AlertId(r, s) = AlertId(q, t)
        BY <1>1, <2>2
      <4> QED
        BY <3>0, <4>1 DEF AlertId
    <3>2. s \in Fired(collected[r])
      BY <2>2, <3>1 DEF IInv, RunInv
    <3>3. pc'[r] = "storing" /\ collected' = collected
      BY <2>2, <3>1 DEF Store
    <3>4. Fired(collected'[r]) = Fired(collected[r]) /\ Evidence(collected'[r], s) = Evidence(collected[r], s)
      BY <3>3
    <3> QED
      BY <2>2, <3>1, <3>2, <3>3, <3>4 DEF Records
  <2>3. ASSUME NEW p \in Patches, PatchWrite(p), target[p] = a,
               alerts'[a] = [cites |-> current[p].cites, status |-> asked[p]]
        PROVE  Records(alerts[a], r, s)'
    <3>1. pc[p] = "write"
      BY <2>3 DEF PatchWrite
    <3>2. PICK x : x = current[p] /\ Records(x, r, s)'
      BY <1>3, <2>3, <3>1
    <3> QED
      BY <2>3, <3>2 DEF Records
  <2> QED
    BY <2>1, <2>2, <2>3, AlertsFrom
<1>5. ASSUME NEW p \in Patches, pc'[p] = "write", target'[p] = a
      PROVE  Records(current[p], r, s)'
  <2>1. CASE pc[p] = "write" /\ target'[p] = target[p] /\ current'[p] = current[p]
    <3>1. PICK x : x = current[p] /\ Records(x, r, s)'
      BY <1>3, <1>5, <2>1
    <3> QED
      BY <2>1, <3>1 DEF Records
  <2>2. CASE target'[p] \in Held /\ current'[p] = alerts[target'[p]]
    BY <1>2, <1>5, <2>2 DEF Records, Held
  <2> QED
    BY <1>5, <2>1, <2>2, CopiesFrom
<1> QED
  BY <1>1, <1>4, <1>5

LEMMA StepPatch == IInv /\ [Next]_vars => PatchInv'
<1> SUFFICES ASSUME IInv, [Next]_vars, NEW p \in Patches, pc'[p] = "write"
             PROVE  target'[p] \in AlertIds /\ current'[p] \in Alerts
  BY DEF PatchInv
<1>1. \A a \in Held : a \in AlertIds /\ alerts[a] \in Alerts
  BY DEF Held, IInv, TypeOK
<1>2. pc[p] = "write" => target[p] \in AlertIds /\ current[p] \in Alerts
  BY DEF IInv, PatchInv
<1> QED
  BY <1>1, <1>2, CopiesFrom

LEMMA StepRun == IInv /\ [Next]_vars => RunInv'
<1> SUFFICES ASSUME IInv, [Next]_vars, NEW r \in Runs
             PROVE  /\ pending'[r] \subseteq Fired(collected'[r])
                    /\ pc'[r] # "storing" => pending'[r] = {}
                    /\ lastClear' = r => pc'[r] \in {"cleared", "storing", "done"}
  BY DEF RunInv
<1> USE DEF IInv, TypeOK
<1>0. r \in Requests /\ r \notin Patches /\ r \notin Views
  BY RequestSets
<1>1. /\ pending[r] \subseteq Fired(collected[r])
      /\ pc[r] # "storing" => pending[r] = {}
      /\ lastClear = r => pc[r] \in {"cleared", "storing", "done"}
  BY DEF RunInv
<1>2. CASE Collect(r)
  BY <1>0, <1>1, <1>2 DEF Collect
<1>3. CASE CollectFails(r) \/ Clear(r)
  BY <1>0, <1>1, <1>3 DEF CollectFails, Clear, runVars
<1>4. CASE Count(r)
  BY <1>0, <1>1, <1>4 DEF Count
<1>5. CASE Store(r)
  BY <1>0, <1>1, <1>5 DEF Store
<1>6. CASE Report(r)
  BY <1>0, <1>1, <1>6 DEF Report
<1>7. ASSUME NEW q \in Runs \ {r}, Detect(q)
      PROVE  /\ pc'[r] = pc[r] /\ pending'[r] = pending[r] /\ collected'[r] = collected[r]
             /\ lastClear' = r => lastClear = r
  <2>0. q \in Requests
    BY RequestSets
  <2>1. CASE Collect(q) \/ CollectFails(q)
    BY <1>0, <2>0, <2>1 DEF Collect, CollectFails, runVars
  <2>2. CASE Clear(q) \/ Count(q)
    BY <1>0, <2>0, <2>2 DEF Clear, Count
  <2>3. CASE Store(q) \/ Report(q)
    BY <1>0, <2>0, <2>3 DEF Store, Report
  <2> QED
    BY <1>7, <2>1, <2>2, <2>3 DEF Detect
<1>8. CASE (\E p \in Patches : Patch(p)) \/ (\E v \in Views : View(v)) \/ LogFailure \/ UNCHANGED vars
  BY <1>0, <1>1, <1>8 DEF Patch, PatchRead, PatchMissing, PatchWrite, View, ViewAnswers,
    ViewFails, LogFailure, vars, runVars
<1>9. CASE \E q \in Runs \ {r} : Detect(q)
  BY <1>1, <1>7, <1>9
<1> QED
  BY <1>2, <1>3, <1>4, <1>5, <1>6, <1>8, <1>9 DEF Next, Detect

\* Only a clear takes an alert out of the store.
LEMMA OnlyClearLoses ==
  ASSUME IInv, [Next]_vars, \A q \in Runs : ~Clear(q), NEW a \in Held
  PROVE  a \in Held'
<1> USE DEF IInv, TypeOK, Held
<1>0. \A x \in Alerts : x # NoAlert
  BY NoAlertAssumption
<1>1. ASSUME NEW q \in Runs, Store(q)
      PROVE  alerts'[a] # NoAlert
  <2>1. PICK s \in pending[q] :
          alerts' = [alerts EXCEPT ![AlertId(q, s)] =
                          [cites |-> Evidence(collected[q], s), status |-> "OPEN"]]
    BY <1>1 DEF Store
  <2>2. [cites |-> Evidence(collected[q], s), status |-> "OPEN"] \in Alerts
    BY DEF Alerts, AlertStatus, Evidence
  <2> QED
    BY <1>0, <2>1, <2>2
<1>2. ASSUME NEW p \in Patches, PatchWrite(p)
      PROVE  alerts'[a] # NoAlert
  <2>1. [cites |-> current[p].cites, status |-> asked[p]] \in Alerts
    <3>1. current[p] \in Alerts
      BY <1>2 DEF PatchWrite, PatchInv
    <3> QED
      BY <3>1 DEF Alerts
  <2> QED
    BY <1>0, <1>2, <2>1 DEF PatchWrite
<1>3. CASE ~(\E q \in Runs : Store(q)) /\ ~(\E p \in Patches : PatchWrite(p))
  <2>1. alerts' = alerts
    BY <1>3 DEF Next, vars, LogFailure, Detect, Collect, CollectFails, Count, Report,
      Patch, PatchRead, PatchMissing, View, ViewAnswers, ViewFails
  <2> QED
    BY <2>1
<1> QED
  BY <1>1, <1>2, <1>3

\* A run that has not cleared the store is not the last to have done so.
LEMMA LastClear ==
  ASSUME IInv, [Next]_vars, \A q \in Runs : ~Clear(q)
  PROVE  lastClear' = lastClear /\ overlapped \subseteq overlapped'
BY DEF Next, vars, runVars, LogFailure, Detect, Collect, CollectFails, Count, Store, Report,
  Patch, PatchRead, PatchMissing, PatchWrite, View, ViewAnswers, ViewFails

LEMMA StepStands ==
  ASSUME IInv, [Next]_vars, NEW r \in Runs, lastClear' = r, pc'[r] \in {"storing", "done"},
         NEW s \in Services, s \in Fired(collected'[r]) \ pending'[r]
  PROVE  alerts'[AlertId(r, s)] # NoAlert
<1> USE DEF IInv, TypeOK
<1>0. r \in Requests /\ r \notin Patches /\ r \notin Views
  BY RequestSets
<1>1. \A q \in Runs : ~Clear(q)
  BY <1>0 DEF Clear
<1>2. lastClear = r /\ pc[r] \in {"cleared", "storing", "done"}
  BY <1>1, LastClear DEF RunInv
<1>3. PICK a \in AlertIds : a = AlertId(r, s)
  BY Ids
<1>4. ASSUME pc[r] \in {"storing", "done"}, s \in Fired(collected[r]) \ pending[r]
      PROVE  alerts'[a] # NoAlert
  <2>1. a \in Held
    BY <1>2, <1>3, <1>4 DEF LastInv, Held
  <2> QED
    BY <1>1, <2>1, OnlyClearLoses DEF Held
<1>5. CASE Count(r)
  BY <1>0, <1>5 DEF Count
<1>6. CASE Store(r)
  <2>1. PICK t \in pending[r] :
          /\ alerts' = [alerts EXCEPT ![AlertId(r, t)] =
                          [cites |-> Evidence(collected[r], t), status |-> "OPEN"]]
          /\ pending' = [pending EXCEPT ![r] = @ \ {t}]
    BY <1>6 DEF Store
  <2>2. CASE s = t
    <3>1. [cites |-> Evidence(collected[r], s), status |-> "OPEN"] \in Alerts
      BY DEF Alerts, AlertStatus, Evidence
    <3> QED
      BY <1>3, <2>1, <2>2, <3>1, NoAlertAssumption
  <2>3. CASE s # t
    BY <1>3, <1>4, <1>6, <2>1, <2>3 DEF Store
  <2> QED
    BY <2>2, <2>3
<1>7. CASE ~Count(r) /\ ~Store(r)
  <2>1. pending'[r] = pending[r] /\ collected'[r] = collected[r] /\ pc[r] \in {"storing", "done"}
    <3>1. CASE Report(r)
      BY <1>0, <3>1 DEF Report
    <3>2. CASE Collect(r) \/ CollectFails(r)
      BY <1>2, <3>2 DEF Collect, CollectFails
    <3>3. ASSUME NEW q \in Runs \ {r}, Detect(q)
          PROVE  pc'[r] = pc[r] /\ pending'[r] = pending[r] /\ collected'[r] = collected[r]
      <4>0. q \in Requests
        BY RequestSets
      <4>1. CASE Collect(q) \/ CollectFails(q)
        BY <1>0, <4>0, <4>1 DEF Collect, CollectFails, runVars
      <4>2. CASE Count(q)
        BY <1>0, <4>0, <4>2 DEF Count
      <4>3. CASE Store(q) \/ Report(q)
        BY <1>0, <4>0, <4>3 DEF Store, Report
      <4> QED
        BY <1>1, <3>3, <4>1, <4>2, <4>3 DEF Detect
    <3>4. CASE (\E p \in Patches : Patch(p)) \/ (\E v \in Views : View(v)) \/ LogFailure \/ UNCHANGED vars
      BY <1>0, <1>2, <3>4 DEF Patch, PatchRead, PatchMissing, PatchWrite, View, ViewAnswers,
        ViewFails, LogFailure, vars, runVars
    <3> QED
      BY <1>1, <1>2, <1>7, <3>1, <3>2, <3>3, <3>4 DEF Next, Detect
  <2> QED
    BY <1>3, <1>4, <2>1
<1> QED
  BY <1>3, <1>5, <1>6, <1>7

LEMMA HeldSame ==
  ASSUME \A a \in AlertIds : alerts'[a] = NoAlert <=> alerts[a] = NoAlert
  PROVE  Held' = Held
BY DEF Held

LEMMA StepAlone ==
  ASSUME IInv, [Next]_vars, NEW r \in Runs, lastClear' = r, r \notin overlapped'
  PROVE  Alone(r)'
<1> USE DEF IInv, TypeOK
<1>0. r \in Requests /\ r \notin Patches /\ r \notin Views
  BY RequestSets
<1>1. CASE Clear(r)
  <2>1. Writing = {}
    BY <1>1 DEF Clear
  <2>2. Held' = {} /\ pc'[r] = "cleared"
    BY <1>0, <1>1 DEF Clear, Held
  <2>3. \A q \in Requests \ {r} : pc'[q] = pc[q]
    BY <1>1 DEF Clear
  <2>4. \A q \in Runs \ {r} : pc'[q] \notin {"cleared", "storing"}
    BY <2>1, <2>3, RequestSets DEF Writing
  <2>5. \A p \in Patches : pc'[p] # "write"
    BY <1>0, <2>1, <2>3, RequestSets DEF Writing
  <2> QED
    BY <2>2, <2>4, <2>5 DEF Alone
<1>2. CASE \A q \in Runs : ~Clear(q)
  <2>1. lastClear = r /\ r \notin overlapped /\ pc[r] \in {"cleared", "storing", "done"}
    BY <1>2, LastClear DEF RunInv
  <2>2. Alone(r)
    BY <2>1 DEF LastInv
  <2>3. CASE Count(r)
    <3>1. Cardinality(Held) = 0
      BY <2>2, <2>3, FS_EmptySet DEF Count, Alone
    <3>2. pc'[r] = "storing" /\ before'[r] = 0 /\ alerts' = alerts
      BY <1>0, <2>3, <3>1 DEF Count
    <3>3. Held' = Held
      BY <3>2, HeldSame
    <3>4. \A q \in Requests \ {r} : pc'[q] = pc[q]
      BY <2>3 DEF Count
    <3>5. \A p \in Patches : pc'[p] # "write"
      BY <1>0, <2>2, <2>3, <3>4, RequestSets DEF Count, Alone
    <3> QED
      BY <2>2, <3>2, <3>3, <3>4, <3>5, RequestSets DEF Alone
  <2>4. CASE Store(r)
    <3>1. PICK s \in pending[r] :
            alerts' = [alerts EXCEPT ![AlertId(r, s)] =
                          [cites |-> Evidence(collected[r], s), status |-> "OPEN"]]
      BY <2>4 DEF Store
    <3>2. \A a \in Held' : a \in Held \/ a = AlertId(r, s)
      BY <3>1 DEF Held
    <3>3. AlertId(r, s)[1] = r
      BY DEF AlertId
    <3>4. pc' = pc /\ before' = before /\ pc[r] = "storing"
      BY <2>4 DEF Store
    <3>5. \A a \in Held' : a[1] = r
      BY <2>2, <3>2, <3>3 DEF Alone
    <3> QED
      BY <2>2, <3>4, <3>5 DEF Alone
  <2>5. CASE Report(r)
    <3>1. pc[r] = "storing" /\ pc'[r] = "done" /\ alerts' = alerts
      BY <1>0, <2>5 DEF Report
    <3>2. Held' = Held
      BY <3>1, HeldSame
    <3>3. stored'[r] = Cardinality(Held)
      <4>1. before[r] = 0
        BY <2>2, <3>1 DEF Alone
      <4>2. Cardinality(Held) \in Int
        BY HeldBounded
      <4> QED
        BY <2>5, <4>1, <4>2 DEF Report
    <3>4. \A q \in Requests \ {r} : pc'[q] = pc[q]
      BY <2>5 DEF Report
    <3>5. \A p \in Patches : pc'[p] # "write"
      BY <1>0, <2>2, <3>1, <3>4, RequestSets DEF Alone
    <3> QED
      BY <2>2, <3>1, <3>2, <3>3, <3>4, <3>5, RequestSets DEF Alone
  <2>6. CASE CollectFails(r) \/ Collect(r)
    BY <2>1, <2>6 DEF CollectFails, Collect
  <2>7. ASSUME NEW q \in Runs \ {r}, Detect(q)
        PROVE  Alone(r)'
    <3>1. Collect(q) \/ CollectFails(q)
      BY <1>2, <2>2, <2>7 DEF Detect, Count, Store, Report, Alone
    <3>2. pc'[q] \in {"evaluated", "done"} /\ \A t \in Requests \ {q} : pc'[t] = pc[t]
      BY <3>1, RequestSets DEF Collect, CollectFails
    <3>3. alerts' = alerts /\ before' = before /\ stored' = stored /\ target' = target
      BY <3>1 DEF Collect, CollectFails, runVars, patchVars
    <3>4. Held' = Held
      BY <3>3, HeldSame
    <3>5. pc'[r] = pc[r]
      BY <1>0, <3>2
    <3>6. \A p \in Patches : pc'[p] = pc[p]
      BY <3>2, RequestSets
    <3>7. \A t \in Runs \ {r} : pc'[t] \notin {"cleared", "storing"}
      BY <2>2, <3>2, RequestSets DEF Alone
    <3> QED
      BY <2>2, <3>3, <3>4, <3>5, <3>6, <3>7 DEF Alone
  <2>8. ASSUME NEW p \in Patches, Patch(p)
        PROVE  Alone(r)'
    <3>0. p \in Requests /\ p \notin Runs /\ p # r
      BY <1>0, RequestSets
    <3>1. before' = before /\ stored' = stored /\ \A q \in Requests \ {p} : pc'[q] = pc[q]
      BY <2>8 DEF Patch, PatchRead, PatchMissing, PatchWrite, runVars
    <3>2. \A q \in Runs : pc'[q] = pc[q]
      BY <3>0, <3>1, RequestSets
    <3>3. CASE PatchRead(p)
      <4>1. r \notin Writing
        BY <3>3 DEF PatchRead
      <4>2. pc[r] = "done"
        BY <2>1, <4>1 DEF Writing
      <4>3. alerts' = alerts
        BY <3>3 DEF PatchRead
      <4>4. Held' = Held
        BY <4>3, HeldSame
      <4>5. \A q \in Patches : pc'[q] = "write" => target'[q] \in Held
        <5>1. PICK a \in Held : target' = [target EXCEPT ![p] = a]
          BY <3>3 DEF PatchRead
        <5> QED
          BY <2>2, <3>1, <5>1, RequestSets DEF Alone
      <4> QED
        BY <2>2, <3>1, <3>2, <4>2, <4>4, <4>5 DEF Alone
    <3>4. CASE PatchMissing(p)
      <4>1. alerts' = alerts /\ target' = target /\ pc'[p] # "write"
        BY <3>0, <3>4 DEF PatchMissing, patchVars
      <4>2. Held' = Held
        BY <4>1, HeldSame
      <4>3. \A q \in Patches : pc'[q] = "write" => pc[q] = "write"
        BY <3>1, <4>1, RequestSets
      <4> QED
        BY <2>2, <3>1, <3>2, <4>1, <4>2, <4>3 DEF Alone
    <3>5. CASE PatchWrite(p)
      <4>1. pc[p] = "write" /\ pc[r] = "done" /\ target[p] \in Held
        BY <2>2, <3>5 DEF PatchWrite, Alone
      <4>2. [cites |-> current[p].cites, status |-> asked[p]] \in Alerts
        <5>1. current[p] \in Alerts
          BY <4>1 DEF PatchInv
        <5> QED
          BY <5>1 DEF Alerts
      <4>3. Held' = Held
        <5>1. \A a \in AlertIds : alerts'[a] = NoAlert <=> alerts[a] = NoAlert
          BY <3>5, <4>1, <4>2, NoAlertAssumption DEF PatchWrite, Held
        <5> QED
          BY <5>1, HeldSame
      <4>4. \A q \in Patches : pc'[q] = "write" => pc[q] = "write" /\ target'[q] = target[q]
        BY <3>0, <3>1, <3>5, RequestSets DEF PatchWrite
      <4> QED
        BY <2>2, <3>1, <3>2, <4>1, <4>3, <4>4 DEF Alone
    <3> QED
      BY <2>8, <3>3, <3>4, <3>5 DEF Patch
  <2>9. CASE (\E v \in Views : View(v)) \/ LogFailure \/ UNCHANGED vars
    <3>1. alerts' = alerts /\ before' = before /\ stored' = stored /\ target' = target
      BY <2>9 DEF View, ViewAnswers, ViewFails, LogFailure, vars, runVars, patchVars
    <3>2. \A q \in Runs \cup Patches : pc'[q] = pc[q]
      BY <2>9, RequestSets DEF View, ViewAnswers, ViewFails, LogFailure, vars
    <3>3. Held' = Held
      BY <3>1, HeldSame
    <3> QED
      BY <2>2, <3>1, <3>2, <3>3 DEF Alone
  <2> QED
    BY <1>2, <2>3, <2>4, <2>5, <2>6, <2>7, <2>8, <2>9 DEF Next, Detect
<1>3. CASE \E q \in Runs \ {r} : Clear(q)
  BY <1>3 DEF Clear
<1> QED
  BY <1>1, <1>2, <1>3

LEMMA StepLast == IInv /\ [Next]_vars => LastInv'
<1> SUFFICES ASSUME IInv, [Next]_vars, NEW r \in Runs, lastClear' = r
             PROVE  /\ pc'[r] \in {"storing", "done"} =>
                         \A s \in Fired(collected'[r]) \ pending'[r] :
                            alerts'[AlertId(r, s)] # NoAlert
                    /\ r \notin overlapped' => Alone(r)'
  BY DEF LastInv
<1> QED
  BY StepStands, StepAlone, FiredServices

LEMMA InvariantHolds == Spec => []IInv
<1>1. IInv /\ [Next]_vars => IInv'
  BY StepType, StepStore, StepPatch, StepRun, StepLast DEF IInv
<1> QED
  BY InitIInv, <1>1, PTL DEF Spec
-----------------------------------------------------------------------------
(* What is promised of the alert store.                                    *)

\* Every variable keeps its type; a report in particular lies between minus
\* and plus the number of alert ids, however runs overlap (extend).
THEOREM TypeCorrect == Spec => []TypeOK
BY InvariantHolds, PTL DEF IInv

\* An alert in the store cites exactly what the run that minted it collected
\* about the service it is about (persist_alerts, set_status).
THEOREM StoredEvidenceIsFaithful == Spec => []EvidenceAsCollected
<1>1. IInv => EvidenceAsCollected
  BY DEF IInv, StoreInv, Records, EvidenceAsCollected
<1> QED
  BY <1>1, InvariantHolds, PTL

\* The last run to clear the store keeps all its alerts, and if it had the
\* store to itself they are the only ones and it reports their number
\* (run_detection, AlertStore.extend).
THEOREM LastDetectionStands == Spec => []LastRunStands
<1>1. IInv => LastRunStands
  <2> SUFFICES ASSUME IInv, NEW r \in Runs, pc[r] = "done", lastClear = r
               PROVE  /\ \A s \in Fired(collected[r]) : alerts[AlertId(r, s)] # NoAlert
                      /\ r \notin overlapped =>
                           /\ Held = {AlertId(r, s) : s \in Fired(collected[r])}
                           /\ stored[r] = Cardinality(Held)
    BY DEF LastRunStands
  <2>1. \A s \in Fired(collected[r]) : alerts[AlertId(r, s)] # NoAlert
    BY DEF IInv, LastInv, RunInv
  <2>2. ASSUME r \notin overlapped
        PROVE  Held = {AlertId(r, s) : s \in Fired(collected[r])}
    <3>1. Alone(r)
      BY <2>2 DEF IInv, LastInv
    <3>2. ASSUME NEW a \in Held
          PROVE  \E s \in Fired(collected[r]) : a = AlertId(r, s)
      <4>1. PICK q \in Runs, s \in Services : a = AlertId(q, s)
        BY Ids DEF Held
      <4>2. q = r
        BY <3>1, <4>1, Ids DEF Alone
      <4>3. s \in Fired(collected[r])
        BY <4>1, <4>2 DEF Held, IInv, StoreInv, Records
      <4> QED
        BY <4>1, <4>2, <4>3
    <3>3. \A s \in Fired(collected[r]) : AlertId(r, s) \in Held
      BY <2>1, Ids, FiredServices DEF Held
    <3> QED
      BY <3>2, <3>3
  <2>3. r \notin overlapped => stored[r] = Cardinality(Held)
    BY DEF IInv, LastInv, Alone
  <2> QED
    BY <2>1, <2>2, <2>3
<1> QED
  BY <1>1, InvariantHolds, PTL

\* No step of another run changes the status a responder gave to an alert that
\* stays in the store (set_status, new_alert_id).
THEOREM TriageIsKept == Spec => TriageHolds
<1> DEFINE Kept ==
      \A a \in AlertIds :
        (a \in Held /\ alerts'[a] # NoAlert /\ alerts'[a].status # alerts[a].status)
          => \E p \in Patches :
               pc[p] = "write" /\ target[p] = a /\ alerts'[a].status = asked[p]
<1>1. IInv /\ [Next]_vars => Kept
  <2> SUFFICES ASSUME IInv, [Next]_vars, NEW a \in AlertIds, a \in Held,
                      alerts'[a] # NoAlert, alerts'[a].status # alerts[a].status
               PROVE  \E p \in Patches :
                        pc[p] = "write" /\ target[p] = a /\ alerts'[a].status = asked[p]
    OBVIOUS
  <2>1. ASSUME NEW r \in Runs, Store(r), NEW s \in pending[r], a = AlertId(r, s)
        PROVE  FALSE
    <3>1. s \in Services
      BY DEF IInv, TypeOK
    <3> QED
      BY <2>1, <3>1 DEF Held, IInv, StoreInv, Records
  <2>2. PICK p \in Patches : /\ PatchWrite(p) /\ target[p] = a
                             /\ alerts'[a] = [cites |-> current[p].cites, status |-> asked[p]]
    BY <2>1, AlertsFrom
  <2> QED
    BY <2>2 DEF PatchWrite
<1>2. IInv /\ [Next]_vars => [Kept]_vars
  BY <1>1
<1> QED
  BY <1>2, InvariantHolds, PTL DEF Spec, TriageHolds
=============================================================================
