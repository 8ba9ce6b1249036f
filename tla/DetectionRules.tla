---------------------------- MODULE DetectionRules ----------------------------
(***************************************************************************)
(* The four detection rules of soc/rules, as operators on a set of         *)
(* collected events and a moment.  A rule keeps no state, so this is all   *)
(* there is to one.                                                        *)
(*                                                                         *)
(* An event is a record with the fields the rules read: req (the request   *)
(* that caused it), type, at (its timestamp, in ticks), service, user, ip, *)
(* status and privileged (its endpoint is under /api/v1/auth/users).  The  *)
(* collector's store sorts by timestamp; no rule depends on the order      *)
(* except for the wording, so a set of events will do.                     *)
(*                                                                         *)
(* An alert keeps its rule, the subject it was raised for, affected_user,  *)
(* severity, the cited events and whether it speaks of a recovery.         *)
(* affected_service and affected_entity follow from the rule and what is   *)
(* cited; the description is wording.                                      *)
(***************************************************************************)
EXTENDS Integers, FiniteSets

CONSTANTS
  LoginThreshold,      \* FAILURE_THRESHOLD of Rule 1
  LoginWindow,
  RefusalThreshold,    \* REFUSAL_THRESHOLD of Rule 2
  RefusalWindow,
  RequestThreshold,    \* REQUEST_THRESHOLD of Rule 3
  RateLimitThreshold,  \* RATE_LIMIT_THRESHOLD of Rule 3
  RateWindow,
  FaultThreshold,      \* FAILURE_THRESHOLD of Rule 4
  FaultWindow,
  Nobody               \* Python's None, in the fields user and ip

ASSUME RulesAssumption ==
  /\ {LoginThreshold, RefusalThreshold, RequestThreshold, RateLimitThreshold,
      FaultThreshold} \subseteq Nat \ {0}
  /\ {LoginWindow, RefusalWindow, RateWindow, FaultWindow} \subseteq Nat

FailedLogins == "Multiple Failed Logins"
UnauthorisedAccess == "Unauthorised Endpoint Access"
AbnormalRate == "Abnormal Request Rate"
ServiceFailure == "Service Failure"

\* A mistake: the window is open at its older end.
WithinOpen(found, now, window) ==
  {e \in found : now - window < e.at /\ e.at <= now}

\* The detection window, inclusive at both ends.
Within(found, now, window) ==
  {e \in found : now - window <= e.at /\ e.at <= now}

\* build_alert.
Alert(rule, subject, user, severity, cites, recovered) ==
  [rule |-> rule, subject |-> subject, user |-> user, severity |-> severity,
   cites |-> cites, recovered |-> recovered]

\* The one user that a set of events names, or nobody.
SingleUser(found) ==
  LET users == {e.user : e \in found} \ {Nobody}
  IN IF Cardinality(users) = 1 THEN CHOOSE u \in users : TRUE ELSE Nobody
-----------------------------------------------------------------------------
(* Rule 1: failed logins, counted per account and per address.  A burst    *)
(* that trips both raises two alerts.                                      *)

MultipleFailedLogins(found, now) ==
  LET recent == {e \in Within(found, now, LoginWindow) : e.type = "AUTH_FAILED"}
      Account(u) == {e \in recent : e.user = u}
      Address(i) == {e \in recent : e.ip = i}
      Raise(subject, user, events) ==
        Alert(FailedLogins, subject, user, "HIGH", events, FALSE)
      alerts == {Raise(<<"user", u>>, u, Account(u)) :
                   u \in {e.user : e \in recent} \ {Nobody}}
                \cup
                {Raise(<<"address", i>>, SingleUser(Address(i)), Address(i)) :
                   i \in {e.ip : e \in recent} \ {Nobody}}
  IN  {a \in alerts : Cardinality(a.cites) >= LoginThreshold}
-----------------------------------------------------------------------------
(* Rule 2: refusals, counted per user if the event names one and per       *)
(* address otherwise.                                                      *)

IsRefusal(e) ==
  /\ e.type # "AUTH_FAILED"
  /\ e.type = "UNAUTHORISED_ACCESS" \/ e.status \in {401, 403}

SubjectOf(e) ==
  IF e.user # Nobody THEN <<"user", e.user>>
  ELSE IF e.ip # Nobody THEN <<"address", e.ip>>
  ELSE <<"unattributed", Nobody>>

RefusalAlerts(found, now) ==
  LET refusals == {e \in Within(found, now, RefusalWindow) : IsRefusal(e)}
      Of(s) == {e \in refusals : SubjectOf(e) = s}
  IN  {Alert(UnauthorisedAccess, s, IF s[1] = "user" THEN s[2] ELSE Nobody,
             IF \E e \in Of(s) : e.privileged THEN "HIGH" ELSE "MEDIUM",
             Of(s), FALSE) :
         s \in {SubjectOf(e) : e \in refusals}}

UnauthorisedEndpointAccess(found, now) ==
  {a \in RefusalAlerts(found, now) : Cardinality(a.cites) >= RefusalThreshold}
-----------------------------------------------------------------------------
(* Rule 3: requests received from, and requests throttled for, one address.*)

\* A mistake: both ends of a request are counted.
RequestEventTypesBoth == {"REQUEST_RECEIVED", "REQUEST_COMPLETED"}

RequestEventTypes == {"REQUEST_RECEIVED"}

AbnormalRequestRate(found, now) ==
  LET windowed == {e \in Within(found, now, RateWindow) : e.ip # Nobody}
      Throttled(i) == {e \in windowed : e.ip = i /\ e.type = "RATE_LIMIT_EXCEEDED"}
      Volume(i) == {e \in windowed : e.ip = i /\ e.type \in RequestEventTypes}
      Breaches(i) == \/ Cardinality(Throttled(i)) >= RateLimitThreshold
                     \/ Cardinality(Volume(i)) >= RequestThreshold
  IN  {Alert(AbnormalRate, <<"address", i>>, SingleUser(Throttled(i) \cup Volume(i)),
             "HIGH", Throttled(i) \cup Volume(i), FALSE) :
         i \in {j \in {e.ip : e \in windowed} : Breaches(j)}}
-----------------------------------------------------------------------------
(* Rule 4: a service that fails.                                           *)

ImmediateEventTypes == {"CIRCUIT_OPENED", "HEALTH_CHECK_FAILED"}
FailureEventTypes == {"DEPENDENCY_FAILURE", "SERVICE_ERROR"}

ServiceAlerts(found, now) ==
  LET windowed == Within(found, now, FaultWindow)
      Failing(s) == {e \in windowed : e.service = s
                       /\ e.type \in ImmediateEventTypes \cup FailureEventTypes}
      Fires(s) == \/ \E e \in Failing(s) : e.type \in ImmediateEventTypes
                  \/ Cardinality(Failing(s)) >= FaultThreshold
      Recovered(s) == \E e \in windowed : e.service = s /\ e.type = "CIRCUIT_CLOSED"
  IN  {Alert(ServiceFailure, <<"service", s>>, Nobody, "HIGH", Failing(s),
             Recovered(s)) :
         s \in {t \in {e.service : e \in windowed} : Fires(t)}}

\* A mistake: a service that recovered is not reported.
ServiceFailuresRecovered(found, now) ==
  {a \in ServiceAlerts(found, now) : ~a.recovered}

\* The recovery is noted in the alert, which is raised all the same.
ServiceFailures(found, now) == ServiceAlerts(found, now)
-----------------------------------------------------------------------------
\* evaluate_all.
EvaluateAll(found, now) ==
  MultipleFailedLogins(found, now) \cup UnauthorisedEndpointAccess(found, now)
    \cup AbnormalRequestRate(found, now) \cup ServiceFailures(found, now)
=============================================================================
