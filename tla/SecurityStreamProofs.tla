------------------------- MODULE SecurityStreamProofs -------------------------
(***************************************************************************)
(* What the rules say of SecurityStream's requests, for any number of      *)
(* requests, names and addresses, any thresholds and any windows.          *)
(***************************************************************************)
EXTENDS SecurityStream, FiniteSetTheorems, TLAPS

(* The rules: what each alert rests on, and that more evidence in the      *)
(* window never takes an alert away.                                       *)

OfUser(F, n, u) == {e \in Within(F, n, LoginWindow) : e.type = "AUTH_FAILED" /\ e.user = u}
OfAddress(F, n, i) == {e \in Within(F, n, LoginWindow) : e.type = "AUTH_FAILED" /\ e.ip = i}
Refusals(F, n, s) == {e \in Within(F, n, RefusalWindow) : IsRefusal(e) /\ SubjectOf(e) = s}
FromAddress(F, n, i) == {e \in Within(F, n, RateWindow) : e.ip # Nobody /\ e.ip = i}
Throttles(F, n, i) == {e \in FromAddress(F, n, i) : e.type = "RATE_LIMIT_EXCEEDED"}
Volumes(F, n, i) == {e \in FromAddress(F, n, i) : e.type \in RequestEventTypes}
Failures(F, n, s) ==
  {e \in Within(F, n, FaultWindow) :
     e.service = s /\ e.type \in ImmediateEventTypes \cup FailureEventTypes}

UserAlert(F, n, u) ==
  Alert(FailedLogins, <<"user", u>>, u, "HIGH", OfUser(F, n, u), FALSE)
AddressAlert(F, n, i) ==
  Alert(FailedLogins, <<"address", i>>, SingleUser(OfAddress(F, n, i)), "HIGH",
        OfAddress(F, n, i), FALSE)
RefusalAlert(F, n, s) ==
  Alert(UnauthorisedAccess, s, IF s[1] = "user" THEN s[2] ELSE Nobody,
        IF \E e \in Refusals(F, n, s) : e.privileged THEN "HIGH" ELSE "MEDIUM",
        Refusals(F, n, s), FALSE)
RateAlert(F, n, i) ==
  Alert(AbnormalRate, <<"address", i>>,
        SingleUser(Throttles(F, n, i) \cup Volumes(F, n, i)), "HIGH",
        Throttles(F, n, i) \cup Volumes(F, n, i), FALSE)
FaultAlert(F, n, s) ==
  Alert(ServiceFailure, <<"service", s>>, Nobody, "HIGH", Failures(F, n, s),
        \E e \in Within(F, n, FaultWindow) : e.service = s /\ e.type = "CIRCUIT_CLOSED")

Breach(F, n, i) ==
  \/ Cardinality(Throttles(F, n, i)) >= RateLimitThreshold
  \/ Cardinality(Volumes(F, n, i)) >= RequestThreshold

Faulty(F, n, s) ==
  \/ \E e \in Failures(F, n, s) : e.type \in ImmediateEventTypes
  \/ Cardinality(Failures(F, n, s)) >= FaultThreshold

\* A set that reaches a threshold is not empty.
LEMMA Thresholds ==
  \A c \in {LoginThreshold, RefusalThreshold, RequestThreshold, RateLimitThreshold,
            FaultThreshold} : \A S : Cardinality(S) >= c => S # {}
<1>1. Cardinality({}) = 0
  BY FS_EmptySet
<1> QED
  BY <1>1, RulesAssumption

LEMMA LoginAlerts ==
  ASSUME NEW F, NEW n, NEW a
  PROVE  a \in MultipleFailedLogins(F, n) <=>
           \/ \E u : /\ u # Nobody /\ Cardinality(OfUser(F, n, u)) >= LoginThreshold
                     /\ a = UserAlert(F, n, u)
           \/ \E i : /\ i # Nobody /\ Cardinality(OfAddress(F, n, i)) >= LoginThreshold
                     /\ a = AddressAlert(F, n, i)
<1> DEFINE recent == {e \in Within(F, n, LoginWindow) : e.type = "AUTH_FAILED"}
           Account(u) == {e \in recent : e.user = u}
           Address(i) == {e \in recent : e.ip = i}
<1>1. \A x : Account(x) = OfUser(F, n, x) /\ Address(x) = OfAddress(F, n, x)
  BY DEF OfUser, OfAddress
<1>2. \A x : /\ Cardinality(Account(x)) >= LoginThreshold => \E e \in recent : e.user = x
             /\ Cardinality(Address(x)) >= LoginThreshold => \E e \in recent : e.ip = x
  BY Thresholds
<1>3. a \in MultipleFailedLogins(F, n) <=>
        /\ Cardinality(a.cites) >= LoginThreshold
        /\ \/ \E u \in {e.user : e \in recent} \ {Nobody} :
                a = Alert(FailedLogins, <<"user", u>>, u, "HIGH", Account(u), FALSE)
           \/ \E i \in {e.ip : e \in recent} \ {Nobody} :
                a = Alert(FailedLogins, <<"address", i>>, SingleUser(Address(i)), "HIGH",
                          Address(i), FALSE)
  BY Zenon DEF MultipleFailedLogins
<1>4. \A x : /\ UserAlert(F, n, x).cites = Account(x) /\ AddressAlert(F, n, x).cites = Address(x)
             /\ UserAlert(F, n, x) = Alert(FailedLogins, <<"user", x>>, x, "HIGH", Account(x), FALSE)
             /\ AddressAlert(F, n, x) =
                  Alert(FailedLogins, <<"address", x>>, SingleUser(Address(x)), "HIGH",
                        Address(x), FALSE)
  BY <1>1 DEF UserAlert, AddressAlert, Alert
<1> HIDE DEF recent, Account, Address
<1>5. a \in MultipleFailedLogins(F, n) <=>
        /\ Cardinality(a.cites) >= LoginThreshold
        /\ \/ \E u : u # Nobody /\ (\E e \in recent : e.user = u) /\ a = UserAlert(F, n, u)
           \/ \E i : i # Nobody /\ (\E e \in recent : e.ip = i) /\ a = AddressAlert(F, n, i)
  BY <1>3, <1>4
<1> QED
  BY <1>1, <1>2, <1>4, <1>5

LEMMA RefusalAlertsAre ==
  ASSUME NEW F, NEW n, NEW a
  PROVE  a \in UnauthorisedEndpointAccess(F, n) <=>
           \E s : /\ Cardinality(Refusals(F, n, s)) >= RefusalThreshold
                  /\ a = RefusalAlert(F, n, s)
<1> DEFINE refusals == {e \in Within(F, n, RefusalWindow) : IsRefusal(e)}
           Of(s) == {e \in refusals : SubjectOf(e) = s}
<1>1. \A s : Of(s) = Refusals(F, n, s)
  BY DEF Refusals
<1>2. \A s : Cardinality(Of(s)) >= RefusalThreshold => \E e \in refusals : SubjectOf(e) = s
  BY Thresholds
<1>3. a \in UnauthorisedEndpointAccess(F, n) <=>
        /\ Cardinality(a.cites) >= RefusalThreshold
        /\ \E s \in {SubjectOf(e) : e \in refusals} :
             a = Alert(UnauthorisedAccess, s, IF s[1] = "user" THEN s[2] ELSE Nobody,
                       IF \E e \in Of(s) : e.privileged THEN "HIGH" ELSE "MEDIUM",
                       Of(s), FALSE)
  BY Zenon DEF UnauthorisedEndpointAccess, RefusalAlerts
<1>4. \A s : /\ RefusalAlert(F, n, s).cites = Of(s)
             /\ RefusalAlert(F, n, s) =
                  Alert(UnauthorisedAccess, s, IF s[1] = "user" THEN s[2] ELSE Nobody,
                        IF \E e \in Of(s) : e.privileged THEN "HIGH" ELSE "MEDIUM",
                        Of(s), FALSE)
  BY <1>1 DEF RefusalAlert, Alert
<1> HIDE DEF refusals, Of
<1>5. a \in UnauthorisedEndpointAccess(F, n) <=>
        /\ Cardinality(a.cites) >= RefusalThreshold
        /\ \E s : (\E e \in refusals : SubjectOf(e) = s) /\ a = RefusalAlert(F, n, s)
  BY <1>3, <1>4
<1> QED
  BY <1>1, <1>2, <1>4, <1>5

LEMMA RateAlertsAre ==
  ASSUME NEW F, NEW n, NEW a
  PROVE  a \in AbnormalRequestRate(F, n) <=> \E i : Breach(F, n, i) /\ a = RateAlert(F, n, i)
<1> DEFINE windowed == {e \in Within(F, n, RateWindow) : e.ip # Nobody}
           Throttled(i) == {e \in windowed : e.ip = i /\ e.type = "RATE_LIMIT_EXCEEDED"}
           Volume(i) == {e \in windowed : e.ip = i /\ e.type \in RequestEventTypes}
           Breaches(i) == \/ Cardinality(Throttled(i)) >= RateLimitThreshold
                          \/ Cardinality(Volume(i)) >= RequestThreshold
<1>1. \A i : Throttled(i) = Throttles(F, n, i) /\ Volume(i) = Volumes(F, n, i)
  BY DEF Throttles, Volumes, FromAddress
<1>2. \A i : Breaches(i) => \E e \in windowed : e.ip = i
  <2> SUFFICES ASSUME NEW i, Breaches(i) PROVE \E e \in windowed : e.ip = i
    OBVIOUS
  <2>1. Throttled(i) # {} \/ Volume(i) # {}
    BY Thresholds
  <2> QED
    BY <2>1
<1>3. a \in AbnormalRequestRate(F, n) <=>
        \E i \in {j \in {e.ip : e \in windowed} : Breaches(j)} :
          a = Alert(AbnormalRate, <<"address", i>>, SingleUser(Throttled(i) \cup Volume(i)),
                    "HIGH", Throttled(i) \cup Volume(i), FALSE)
  BY Zenon DEF AbnormalRequestRate
<1>4. \A i : /\ Breach(F, n, i) <=> Breaches(i)
             /\ RateAlert(F, n, i) =
                  Alert(AbnormalRate, <<"address", i>>, SingleUser(Throttled(i) \cup Volume(i)),
                        "HIGH", Throttled(i) \cup Volume(i), FALSE)
  BY <1>1 DEF Breach, RateAlert
<1> HIDE DEF windowed, Throttled, Volume, Breaches
<1> QED
  BY <1>2, <1>3, <1>4

LEMMA FaultAlertsAre ==
  ASSUME NEW F, NEW n, NEW a
  PROVE  a \in ServiceFailures(F, n) <=> \E s : Faulty(F, n, s) /\ a = FaultAlert(F, n, s)
<1> DEFINE windowed == Within(F, n, FaultWindow)
           Failing(s) == {e \in windowed : e.service = s
                            /\ e.type \in ImmediateEventTypes \cup FailureEventTypes}
           Fires(s) == \/ \E e \in Failing(s) : e.type \in ImmediateEventTypes
                       \/ Cardinality(Failing(s)) >= FaultThreshold
           Recovered(s) == \E e \in windowed : e.service = s /\ e.type = "CIRCUIT_CLOSED"
<1>1. \A s : Failing(s) = Failures(F, n, s)
  BY DEF Failures
<1>2. \A s : Fires(s) => \E e \in windowed : e.service = s
  <2> SUFFICES ASSUME NEW s, Fires(s) PROVE \E e \in windowed : e.service = s
    OBVIOUS
  <2>1. Failing(s) # {}
    BY Thresholds
  <2> QED
    BY <2>1
<1>3. a \in ServiceFailures(F, n) <=>
        \E s \in {t \in {e.service : e \in windowed} : Fires(t)} :
          a = Alert(ServiceFailure, <<"service", s>>, Nobody, "HIGH", Failing(s), Recovered(s))
  BY Zenon DEF ServiceFailures, ServiceAlerts
<1>4. \A s : /\ Faulty(F, n, s) <=> Fires(s)
             /\ FaultAlert(F, n, s) =
                  Alert(ServiceFailure, <<"service", s>>, Nobody, "HIGH", Failing(s), Recovered(s))
  BY <1>1 DEF Faulty, FaultAlert
<1> HIDE DEF windowed, Failing, Fires, Recovered
<1> QED
  BY <1>2, <1>3, <1>4

\* What the rules name themselves, and what they cite.
LEMMA WhatIsCited ==
  ASSUME NEW F, NEW n, NEW a
  PROVE  /\ a \in MultipleFailedLogins(F, n) =>
              /\ a.rule = FailedLogins
              /\ \A c \in a.cites : c \in F /\ c.type = "AUTH_FAILED"
         /\ a \in UnauthorisedEndpointAccess(F, n) => a.rule = UnauthorisedAccess
         /\ a \in AbnormalRequestRate(F, n) =>
              /\ a.rule = AbnormalRate
              /\ \A c \in a.cites : c \in F /\ c.type \in {"REQUEST_RECEIVED", "RATE_LIMIT_EXCEEDED"}
         /\ a \in ServiceFailures(F, n) =>
              /\ a.rule = ServiceFailure
              /\ \A c \in a.cites : c \in F /\ c.type \in ImmediateEventTypes \cup FailureEventTypes
<1>1. \A x : /\ UserAlert(F, n, x).rule = FailedLogins /\ UserAlert(F, n, x).cites = OfUser(F, n, x)
             /\ AddressAlert(F, n, x).rule = FailedLogins
             /\ AddressAlert(F, n, x).cites = OfAddress(F, n, x)
             /\ RefusalAlert(F, n, x).rule = UnauthorisedAccess
  BY DEF UserAlert, AddressAlert, RefusalAlert, Alert
<1>2. \A x : /\ RateAlert(F, n, x).rule = AbnormalRate
             /\ RateAlert(F, n, x).cites = Throttles(F, n, x) \cup Volumes(F, n, x)
             /\ FaultAlert(F, n, x).rule = ServiceFailure
             /\ FaultAlert(F, n, x).cites = Failures(F, n, x)
  BY DEF RateAlert, FaultAlert, Alert
<1>3. \A x : /\ \A c \in OfUser(F, n, x) \cup OfAddress(F, n, x) : c \in F /\ c.type = "AUTH_FAILED"
             /\ \A c \in Throttles(F, n, x) \cup Volumes(F, n, x) :
                  c \in F /\ c.type \in {"REQUEST_RECEIVED", "RATE_LIMIT_EXCEEDED"}
             /\ \A c \in Failures(F, n, x) :
                  c \in F /\ c.type \in ImmediateEventTypes \cup FailureEventTypes
  BY DEF OfUser, OfAddress, Throttles, Volumes, FromAddress, Failures, Within, RequestEventTypes
<1>4. a \in MultipleFailedLogins(F, n) =>
        a.rule = FailedLogins /\ \A c \in a.cites : c \in F /\ c.type = "AUTH_FAILED"
  BY <1>1, <1>3, LoginAlerts
<1>5. a \in UnauthorisedEndpointAccess(F, n) => a.rule = UnauthorisedAccess
  BY <1>1, RefusalAlertsAre
<1>6. a \in AbnormalRequestRate(F, n) =>
        /\ a.rule = AbnormalRate
        /\ \A c \in a.cites : c \in F /\ c.type \in {"REQUEST_RECEIVED", "RATE_LIMIT_EXCEEDED"}
  BY <1>2, <1>3, RateAlertsAre
<1>7. a \in ServiceFailures(F, n) =>
        /\ a.rule = ServiceFailure
        /\ \A c \in a.cites : c \in F /\ c.type \in ImmediateEventTypes \cup FailureEventTypes
  BY <1>2, <1>3, FaultAlertsAre
<1> QED
  BY <1>4, <1>5, <1>6, <1>7

\* The threshold stays reached when the set grows.
LEMMA StillReached ==
  ASSUME NEW S, NEW T, S \subseteq T, IsFiniteSet(T), NEW c \in Nat, Cardinality(S) >= c
  PROVE  Cardinality(T) >= c
BY FS_Subset, FS_CardinalityType

\* An alert that a set of events raises, a set with all of them in its window
\* raises as well, and no milder.
LEMMA MoreEvidence ==
  ASSUME NEW F, NEW n, NEW G, NEW m, IsFiniteSet(G),
         \A w \in Nat : Within(F, n, w) \subseteq Within(G, m, w),
         NEW a \in EvaluateAll(F, n)
  PROVE  \E b \in EvaluateAll(G, m) :
           a.rule = b.rule /\ a.subject = b.subject /\ Severer(b, a)
<1>0. \A w : Within(G, m, w) \subseteq G
  BY DEF Within
<1>1. \A x : /\ OfUser(F, n, x) \subseteq OfUser(G, m, x) /\ OfUser(G, m, x) \subseteq G
             /\ OfAddress(F, n, x) \subseteq OfAddress(G, m, x) /\ OfAddress(G, m, x) \subseteq G
             /\ Refusals(F, n, x) \subseteq Refusals(G, m, x) /\ Refusals(G, m, x) \subseteq G
             /\ Throttles(F, n, x) \subseteq Throttles(G, m, x) /\ Throttles(G, m, x) \subseteq G
             /\ Volumes(F, n, x) \subseteq Volumes(G, m, x) /\ Volumes(G, m, x) \subseteq G
             /\ Failures(F, n, x) \subseteq Failures(G, m, x) /\ Failures(G, m, x) \subseteq G
  BY <1>0, RulesAssumption DEF OfUser, OfAddress, Refusals, Throttles, Volumes, FromAddress, Failures
<1>2. \A x : /\ Cardinality(OfUser(F, n, x)) >= LoginThreshold
                  => Cardinality(OfUser(G, m, x)) >= LoginThreshold
             /\ Cardinality(OfAddress(F, n, x)) >= LoginThreshold
                  => Cardinality(OfAddress(G, m, x)) >= LoginThreshold
             /\ Cardinality(Refusals(F, n, x)) >= RefusalThreshold
                  => Cardinality(Refusals(G, m, x)) >= RefusalThreshold
             /\ Breach(F, n, x) => Breach(G, m, x)
             /\ Faulty(F, n, x) => Faulty(G, m, x)
  <2> SUFFICES ASSUME NEW x
               PROVE  /\ Cardinality(OfUser(F, n, x)) >= LoginThreshold
                           => Cardinality(OfUser(G, m, x)) >= LoginThreshold
                      /\ Cardinality(OfAddress(F, n, x)) >= LoginThreshold
                           => Cardinality(OfAddress(G, m, x)) >= LoginThreshold
                      /\ Cardinality(Refusals(F, n, x)) >= RefusalThreshold
                           => Cardinality(Refusals(G, m, x)) >= RefusalThreshold
                      /\ Breach(F, n, x) => Breach(G, m, x)
                      /\ Faulty(F, n, x) => Faulty(G, m, x)
    OBVIOUS
  <2>0. /\ IsFiniteSet(OfUser(G, m, x)) /\ IsFiniteSet(OfAddress(G, m, x))
        /\ IsFiniteSet(Refusals(G, m, x)) /\ IsFiniteSet(Throttles(G, m, x))
        /\ IsFiniteSet(Volumes(G, m, x)) /\ IsFiniteSet(Failures(G, m, x))
    BY <1>1, FS_Subset
  <2>1. Cardinality(OfUser(F, n, x)) >= LoginThreshold
          => Cardinality(OfUser(G, m, x)) >= LoginThreshold
    BY <1>1, <2>0, StillReached, RulesAssumption
  <2>2. Cardinality(OfAddress(F, n, x)) >= LoginThreshold
          => Cardinality(OfAddress(G, m, x)) >= LoginThreshold
    BY <1>1, <2>0, StillReached, RulesAssumption
  <2>3. Cardinality(Refusals(F, n, x)) >= RefusalThreshold
          => Cardinality(Refusals(G, m, x)) >= RefusalThreshold
    BY <1>1, <2>0, StillReached, RulesAssumption
  <2>4. Breach(F, n, x) => Breach(G, m, x)
    <3>1. Cardinality(Throttles(F, n, x)) >= RateLimitThreshold
            => Cardinality(Throttles(G, m, x)) >= RateLimitThreshold
      BY <1>1, <2>0, StillReached, RulesAssumption
    <3>2. Cardinality(Volumes(F, n, x)) >= RequestThreshold
            => Cardinality(Volumes(G, m, x)) >= RequestThreshold
      BY <1>1, <2>0, StillReached, RulesAssumption
    <3> QED
      BY <3>1, <3>2 DEF Breach
  <2>5. Faulty(F, n, x) => Faulty(G, m, x)
    <3>1. Cardinality(Failures(F, n, x)) >= FaultThreshold
            => Cardinality(Failures(G, m, x)) >= FaultThreshold
      BY <1>1, <2>0, StillReached, RulesAssumption
    <3> QED
      BY <1>1, <3>1 DEF Faulty
  <2> QED
    BY <2>1, <2>2, <2>3, <2>4, <2>5
<1>3. CASE a \in MultipleFailedLogins(F, n)
  <2>1. CASE \E u : /\ u # Nobody /\ Cardinality(OfUser(F, n, u)) >= LoginThreshold
                    /\ a = UserAlert(F, n, u)
    <3>1. PICK u : /\ u # Nobody /\ Cardinality(OfUser(F, n, u)) >= LoginThreshold
                   /\ a = UserAlert(F, n, u)
      BY <2>1
    <3>2. UserAlert(G, m, u) \in EvaluateAll(G, m)
      BY <1>2, <3>1, LoginAlerts DEF EvaluateAll
    <3>3. /\ a.rule = UserAlert(G, m, u).rule /\ a.subject = UserAlert(G, m, u).subject
          /\ UserAlert(G, m, u).severity = "HIGH"
      BY <3>1 DEF UserAlert, Alert
    <3> QED
      BY <3>2, <3>3 DEF Severer
  <2>2. CASE \E i : /\ i # Nobody /\ Cardinality(OfAddress(F, n, i)) >= LoginThreshold
                    /\ a = AddressAlert(F, n, i)
    <3>1. PICK i : /\ i # Nobody /\ Cardinality(OfAddress(F, n, i)) >= LoginThreshold
                   /\ a = AddressAlert(F, n, i)
      BY <2>2
    <3>2. AddressAlert(G, m, i) \in EvaluateAll(G, m)
      BY <1>2, <3>1, LoginAlerts DEF EvaluateAll
    <3>3. /\ a.rule = AddressAlert(G, m, i).rule /\ a.subject = AddressAlert(G, m, i).subject
          /\ AddressAlert(G, m, i).severity = "HIGH"
      BY <3>1 DEF AddressAlert, Alert
    <3> QED
      BY <3>2, <3>3 DEF Severer
  <2> QED
    BY <1>3, <2>1, <2>2, LoginAlerts
<1>4. CASE a \in UnauthorisedEndpointAccess(F, n)
  <2>1. PICK s : /\ Cardinality(Refusals(F, n, s)) >= RefusalThreshold
                 /\ a = RefusalAlert(F, n, s)
    BY <1>4, RefusalAlertsAre
  <2>2. RefusalAlert(G, m, s) \in EvaluateAll(G, m)
    BY <1>2, <2>1, RefusalAlertsAre DEF EvaluateAll
  <2>3. a.rule = RefusalAlert(G, m, s).rule /\ a.subject = RefusalAlert(G, m, s).subject
    BY <2>1 DEF RefusalAlert, Alert
  <2>4. /\ a.severity = IF \E e \in Refusals(F, n, s) : e.privileged THEN "HIGH" ELSE "MEDIUM"
        /\ RefusalAlert(G, m, s).severity =
             IF \E e \in Refusals(G, m, s) : e.privileged THEN "HIGH" ELSE "MEDIUM"
    BY <2>1 DEF RefusalAlert, Alert
  <2>5. (\E e \in Refusals(F, n, s) : e.privileged) => \E e \in Refusals(G, m, s) : e.privileged
    BY <1>1
  <2>6. Severer(RefusalAlert(G, m, s), a)
    BY <2>4, <2>5 DEF Severer
  <2> QED
    BY <2>2, <2>3, <2>6
<1>5. CASE a \in AbnormalRequestRate(F, n)
  <2>1. PICK i : Breach(F, n, i) /\ a = RateAlert(F, n, i)
    BY <1>5, RateAlertsAre
  <2>2. RateAlert(G, m, i) \in EvaluateAll(G, m)
    BY <1>2, <2>1, RateAlertsAre DEF EvaluateAll
  <2>3. /\ a.rule = RateAlert(G, m, i).rule /\ a.subject = RateAlert(G, m, i).subject
        /\ RateAlert(G, m, i).severity = "HIGH"
    BY <2>1 DEF RateAlert, Alert
  <2> QED
    BY <2>2, <2>3 DEF Severer
<1>6. CASE a \in ServiceFailures(F, n)
  <2>1. PICK s : Faulty(F, n, s) /\ a = FaultAlert(F, n, s)
    BY <1>6, FaultAlertsAre
  <2>2. FaultAlert(G, m, s) \in EvaluateAll(G, m)
    BY <1>2, <2>1, FaultAlertsAre DEF EvaluateAll
  <2>3. /\ a.rule = FaultAlert(G, m, s).rule /\ a.subject = FaultAlert(G, m, s).subject
        /\ FaultAlert(G, m, s).severity = "HIGH"
    BY <2>1 DEF FaultAlert, Alert
  <2> QED
    BY <2>2, <2>3 DEF Severer
<1> QED
  BY <1>3, <1>4, <1>5, <1>6 DEF EvaluateAll
-----------------------------------------------------------------------------
(* The stream: what it may hold of a request, by where the request stands. *)

Wrote(r, type) == \E w \in written : w.req = r /\ w.type = type

RequestInv ==
  \A r \in Requests :
    /\ stage[r] = "unsent" => \A type \in EventTypes : ~Wrote(r, type)
    /\ stage[r] = "serving" => \A type \in EventTypes \ {"REQUEST_RECEIVED"} : ~Wrote(r, type)
    /\ stage[r] = "storing" =>
         \A type \in EventTypes \ (ResilienceTypes \cup {"REQUEST_RECEIVED"}) : ~Wrote(r, type)
    /\ stage[r] \in {"unsent", "serving", "storing"} => status[r] = 0
    /\ stage[r] # "done" => \A type \in GatewayTypes : ~Wrote(r, type)
    /\ Wrote(r, "REQUEST_RECEIVED") => status[r] # 429
    /\ Wrote(r, "RATE_LIMIT_EXCEEDED") => status[r] = 429
    /\ Wrote(r, "AUTH_FAILED") => status[r] = 401
    /\ Wrote(r, "AUTH_SUCCESS") => status[r] = 200
    /\ Wrote(r, "SERVICE_ERROR") <=> status[r] \in {500, 503}
    /\ stage[r] = "done" =>
         /\ status[r] \in {401, 403} => Wrote(r, "UNAUTHORISED_ACCESS")
         /\ status[r] = 429 => Wrote(r, "RATE_LIMIT_EXCEEDED")

\* An event tells of its request once, and a rejected login is an AUTH_FAILED.
StreamInv ==
  /\ \A d, e \in written : d.req = e.req /\ d.type = e.type => d = e
  /\ \A w \in written : w.at <= clock
  /\ \A r \in Requests, t \in 0..MaxTime :
       [req |-> r, at |-> t] \in rejected
         <=> [req |-> r, type |-> "AUTH_FAILED", at |-> t] \in written

IInv == TypeOK /\ RequestInv /\ StreamInv

\* How a service may end a request, and what it writes then.
Answers(code, types) ==
  /\ types \subseteq EventTypes \ (GatewayTypes \cup ResilienceTypes \cup {"REQUEST_RECEIVED"})
  /\ code \in {200, 201, 401, 403, 500, 502, 503}
  /\ "AUTH_FAILED" \in types => code = 401
  /\ "AUTH_SUCCESS" \in types => code = 200
  /\ "SERVICE_ERROR" \in types <=> code \in {500, 503}

\* What any step of request r comes to.
Step(r, types) ==
  /\ types \subseteq EventTypes
  /\ Write(r, types)
  /\ clock' = clock
  /\ \A q \in Requests \ {r} :
       request'[q] = request[q] /\ status'[q] = status[q] /\ stage'[q] = stage[q]
  /\ \/ /\ stage[r] = "unsent" /\ stage'[r] = "answered"
        /\ status'[r] \in {401, 429} /\ types = {}
     \/ /\ stage[r] = "unsent" /\ stage'[r] = "serving"
        /\ status'[r] = status[r] /\ types = {"REQUEST_RECEIVED"}
     \/ /\ stage[r] = "serving" /\ stage'[r] = "storing"
        /\ request'[r] = request[r] /\ status'[r] = status[r]
        /\ types \subseteq ResilienceTypes
     \/ /\ stage[r] \in {"serving", "storing"} /\ stage'[r] = "answered"
        /\ request'[r] = request[r] /\ Answers(status'[r], types)
     \/ /\ stage[r] = "answered" /\ stage'[r] = "done"
        /\ request'[r] = request[r] /\ status'[r] = status[r]
        /\ types \subseteq GatewayTypes
        /\ "UNAUTHORISED_ACCESS" \in types <=> status[r] \in {401, 403}
        /\ "RATE_LIMIT_EXCEEDED" \in types <=> status[r] = 429
  /\ rejected' = IF "AUTH_FAILED" \in types THEN rejected \cup {[req |-> r, at |-> clock]}
                                            ELSE rejected

LEMMA GatewaySteps ==
  ASSUME TypeOK, NEW r \in Requests, Gateway(r)
  PROVE  TypeOK' /\ \E types : Step(r, types)
<1> USE DEF TypeOK
<1>0. \A q \in Sendable : q \in [route : Routes, token : BOOLEAN, name : Users \cup {Nobody},
                                 ip : Addresses \cup {Nobody}]
  BY DEF Sendable
<1>1. CASE RefuseToken(r) \/ Throttle(r)
  <2>1. written' = written /\ stage'[r] = "answered" /\ status'[r] \in {401, 429}
    BY <1>1 DEF RefuseToken, Throttle
  <2>2. Step(r, {})
    BY <1>1, <2>1 DEF RefuseToken, Throttle, Step, Write
  <2>3. TypeOK'
    BY <1>0, <1>1 DEF RefuseToken, Throttle
  <2> QED
    BY <2>2, <2>3
<1>2. CASE Forward(r)
  <2>1. "REQUEST_RECEIVED" \in EventTypes
    BY DEF EventTypes
  <2>2. Step(r, {"REQUEST_RECEIVED"})
    BY <1>2, <2>1 DEF Forward, Step
  <2>3. TypeOK'
    BY <1>0, <1>2, <2>1 DEF Forward, Write
  <2> QED
    BY <2>2, <2>3
<1>3. CASE GatewayLog(r)
  <2> DEFINE types == CASE status[r] = 429 -> {"RATE_LIMIT_EXCEEDED"}
                        [] status[r] \in {401, 403} -> {"UNAUTHORISED_ACCESS"}
                        [] OTHER -> {}
  <2>1. /\ types \subseteq GatewayTypes /\ "AUTH_FAILED" \notin types
        /\ "UNAUTHORISED_ACCESS" \in types <=> status[r] \in {401, 403}
        /\ "RATE_LIMIT_EXCEEDED" \in types <=> status[r] = 429
    BY DEF GatewayTypes
  <2>2. types \subseteq EventTypes
    BY DEF EventTypes
  <2>3. Write(r, types)
    BY <1>3, Zenon DEF GatewayLog
  <2> HIDE DEF types
  <2>4. Step(r, types)
    BY <1>3, <2>1, <2>2, <2>3 DEF GatewayLog, Step
  <2>5. TypeOK'
    BY <1>3, <2>2, <2>3 DEF GatewayLog, Write
  <2> QED
    BY <2>4, <2>5
<1> QED
  BY <1>1, <1>2, <1>3 DEF Gateway

\* The end of a request in its service.
LEMMA AnswerSteps ==
  ASSUME TypeOK, NEW r \in Requests, NEW code, NEW types,
         Answer(r, code, types), Answers(code, types), closed' \in BOOLEAN,
         rejected' = IF "AUTH_FAILED" \in types THEN rejected \cup {[req |-> r, at |-> clock]}
                                                ELSE rejected
  PROVE  TypeOK' /\ Step(r, types)
<1> USE DEF TypeOK, Answers
<1>1. TypeOK'
  BY DEF Answer, Write
<1>2. Step(r, types)
  BY DEF Answer, Step
<1> QED
  BY <1>1, <1>2

LEMMA ServiceSteps ==
  ASSUME TypeOK, NEW r \in Requests, Service(r)
  PROVE  TypeOK' /\ \E types : Step(r, types)
<1> USE DEF Answers, EventTypes, GatewayTypes, ResilienceTypes
<1>0. closed \in BOOLEAN
  BY DEF TypeOK
<1>1. CASE RejectLogin(r)
  <2>1. Answers(401, {"AUTH_FAILED", "REQUEST_COMPLETED"})
    OBVIOUS
  <2> QED
    BY <1>0, <1>1, <2>1, AnswerSteps DEF RejectLogin
<1>2. CASE AcceptLogin(r)
  <2>1. Answers(200, {"AUTH_SUCCESS", "REQUEST_COMPLETED"})
    OBVIOUS
  <2> QED
    BY <1>0, <1>2, <2>1, AnswerSteps DEF AcceptLogin
<1>3. CASE Forbid(r)
  <2>1. Answers(403, {"REQUEST_COMPLETED"})
    OBVIOUS
  <2> QED
    BY <1>0, <1>3, <2>1, AnswerSteps DEF Forbid
<1>4. CASE Serve(r)
  <2>1. Answers(200, {"REQUEST_COMPLETED"})
    OBVIOUS
  <2> QED
    BY <1>0, <1>4, <2>1, AnswerSteps DEF Serve
<1>5. CASE Raise(r)
  <2>1. Answers(500, {"SERVICE_ERROR"})
    OBVIOUS
  <2> QED
    BY <1>0, <1>5, <2>1, AnswerSteps DEF Raise
<1>6. CASE AnswerUnavailable(r)
  <2>1. Answers(503, {"SERVICE_ERROR", "REQUEST_COMPLETED"})
    OBVIOUS
  <2> QED
    BY <1>0, <1>6, <2>1, AnswerSteps DEF AnswerUnavailable
<1>7. CASE Kill(r)
  <2>1. Answers(502, {})
    OBVIOUS
  <2> QED
    BY <1>0, <1>7, <2>1, AnswerSteps DEF Kill
<1> QED
  BY <1>1, <1>2, <1>3, <1>4, <1>5, <1>6, <1>7 DEF Service

LEMMA DependentSteps ==
  ASSUME TypeOK, NEW r \in Requests, Dependent(r)
  PROVE  TypeOK' /\ \E types : Step(r, types)
<1> USE DEF Answers, EventTypes, GatewayTypes, ResilienceTypes
<1>0. closed \in BOOLEAN
  BY DEF TypeOK
<1>1. ASSUME NEW types \in SUBSET ResilienceTypes, LookUp(r, types), closed' \in BOOLEAN
      PROVE  TypeOK' /\ \E any : Step(r, any)
  <2>1. /\ stage[r] = "serving" /\ stage' = [stage EXCEPT ![r] = "storing"]
        /\ written' = written \cup {[req |-> r, type |-> t, at |-> clock] : t \in types}
        /\ UNCHANGED <<clock, request, status, rejected>>
    BY <1>1 DEF LookUp, Write
  <2>2. types \subseteq EventTypes /\ "AUTH_FAILED" \notin types
    OBVIOUS
  <2>3. TypeOK'
    BY <1>1, <2>1, <2>2 DEF TypeOK
  <2>4. Step(r, types)
    BY <2>1, <2>2 DEF Step, Write, TypeOK
  <2> QED
    BY <2>3, <2>4
<1>2. CASE DependencyFails(r)
  BY <1>0, <1>1, <1>2 DEF DependencyFails
<1>3. CASE Trip(r)
  BY <1>1, <1>3 DEF Trip
<1>4. CASE TrialFails(r)
  <2>1. PICK types \in SUBSET {"DEPENDENCY_FAILURE"} : LookUp(r, types \cup {"CIRCUIT_OPENED"})
    BY <1>4 DEF TrialFails
  <2>2. types \cup {"CIRCUIT_OPENED"} \in SUBSET ResilienceTypes
    OBVIOUS
  <2> QED
    BY <1>0, <1>1, <1>4, <2>1, <2>2 DEF TrialFails
<1>5. CASE Suppress(r)
  BY <1>0, <1>1, <1>5 DEF Suppress
<1>6. CASE Recover(r)
  BY <1>1, <1>6 DEF Recover
<1>7. CASE Create(r)
  <2>1. Answers(201, {"REQUEST_COMPLETED"})
    OBVIOUS
  <2> QED
    BY <1>0, <1>7, <2>1, AnswerSteps DEF Create
<1> QED
  BY <1>2, <1>3, <1>4, <1>5, <1>6, <1>7 DEF Dependent

\* All there is to a step.
LEMMA Steps ==
  ASSUME TypeOK, [Next]_vars
  PROVE  /\ TypeOK'
         /\ \/ \E r \in Requests : \E types : Step(r, types)
            \/ /\ UNCHANGED <<request, status, stage, written, rejected>>
               /\ clock' \in {clock, clock + 1}
<1>1. CASE Tick
  <2>1. clock' \in 0..MaxTime
    BY <1>1, StreamAssumption DEF Tick, TypeOK
  <2> QED
    BY <1>1, <2>1 DEF Tick, TypeOK
<1>2. CASE UNCHANGED vars
  BY <1>2 DEF vars, TypeOK
<1>3. ASSUME NEW r \in Requests, Gateway(r) \/ Service(r) \/ Dependent(r)
      PROVE  TypeOK' /\ \E types : Step(r, types)
  BY <1>3, GatewaySteps, ServiceSteps, DependentSteps
<1>4. CASE \E r \in Requests : Gateway(r) \/ Service(r) \/ Dependent(r)
  BY <1>3, <1>4
<1> QED
  BY <1>1, <1>2, <1>4 DEF Next
-----------------------------------------------------------------------------
LEMMA InitIInv == Init => IInv
<1> SUFFICES ASSUME Init PROVE IInv
  OBVIOUS
<1> USE StreamAssumption DEF Init
<1>1. TypeOK
  BY DEF TypeOK, Unsent, Routes
<1>2. RequestInv
  BY DEF RequestInv, Wrote
<1>3. StreamInv
  BY DEF StreamInv
<1> QED
  BY <1>1, <1>2, <1>3 DEF IInv

\* What a step leaves of its request in the stream.
LEMMA StepWrites ==
  ASSUME NEW r \in Requests, NEW types, Step(r, types)
  PROVE  /\ \A q, type : Wrote(q, type)' <=> Wrote(q, type) \/ (q = r /\ type \in types)
         /\ \A w : w \in written' <=>
              w \in written \/ \E type \in types : w = [req |-> r, type |-> type, at |-> clock]
<1>1. \A w : w \in written' <=>
        w \in written \/ \E type \in types : w = [req |-> r, type |-> type, at |-> clock]
  BY DEF Step, Write
<1>2. \A q, type : Wrote(q, type)' <=> Wrote(q, type) \/ (q = r /\ type \in types)
  <2> SUFFICES ASSUME NEW q, NEW type
               PROVE  Wrote(q, type)' <=> Wrote(q, type) \/ (q = r /\ type \in types)
    OBVIOUS
  <2>1. ASSUME NEW w \in written', w.req = q, w.type = type
        PROVE  Wrote(q, type) \/ (q = r /\ type \in types)
    <3>1. CASE w \in written
      BY <2>1, <3>1 DEF Wrote
    <3>2. CASE \E t \in types : w = [req |-> r, type |-> t, at |-> clock]
      BY <2>1, <3>2
    <3> QED
      BY <1>1, <3>1, <3>2
  <2>2. Wrote(q, type) => Wrote(q, type)'
    BY <1>1 DEF Wrote
  <2>3. ASSUME q = r, type \in types
        PROVE  Wrote(q, type)'
    <3>1. [req |-> r, type |-> type, at |-> clock] \in written'
      BY <1>1, <2>3
    <3> QED
      BY <2>3, <3>1 DEF Wrote
  <2>4. Wrote(q, type)' => Wrote(q, type) \/ (q = r /\ type \in types)
    BY <2>1 DEF Wrote
  <2> QED
    BY <2>2, <2>3, <2>4
<1> QED
  BY <1>1, <1>2

LEMMA StepRequest == IInv /\ [Next]_vars => RequestInv'
<1> SUFFICES ASSUME IInv, [Next]_vars PROVE RequestInv'
  OBVIOUS
<1> USE DEF IInv
<1>1. CASE UNCHANGED <<request, status, stage, written, rejected>>
  BY <1>1 DEF RequestInv, Wrote
<1>2. ASSUME NEW r \in Requests, NEW types, Step(r, types), NEW q \in Requests
      PROVE  /\ stage'[q] = "unsent" => \A type \in EventTypes : ~Wrote(q, type)'
             /\ stage'[q] = "serving" =>
                  \A type \in EventTypes \ {"REQUEST_RECEIVED"} : ~Wrote(q, type)'
             /\ stage'[q] = "storing" =>
                  \A type \in EventTypes \ (ResilienceTypes \cup {"REQUEST_RECEIVED"}) :
                    ~Wrote(q, type)'
             /\ stage'[q] \in {"unsent", "serving", "storing"} => status'[q] = 0
             /\ stage'[q] # "done" => \A type \in GatewayTypes : ~Wrote(q, type)'
             /\ Wrote(q, "REQUEST_RECEIVED")' => status'[q] # 429
             /\ Wrote(q, "RATE_LIMIT_EXCEEDED")' => status'[q] = 429
             /\ Wrote(q, "AUTH_FAILED")' => status'[q] = 401
             /\ Wrote(q, "AUTH_SUCCESS")' => status'[q] = 200
             /\ Wrote(q, "SERVICE_ERROR")' <=> status'[q] \in {500, 503}
             /\ stage'[q] = "done" =>
                  /\ status'[q] \in {401, 403} => Wrote(q, "UNAUTHORISED_ACCESS")'
                  /\ status'[q] = 429 => Wrote(q, "RATE_LIMIT_EXCEEDED")'
  <2>1. \A type : Wrote(q, type)' <=> Wrote(q, type) \/ (q = r /\ type \in types)
    BY <1>2, StepWrites
  <2>2. CASE q # r
    <3>1. status'[q] = status[q] /\ stage'[q] = stage[q]
      BY <1>2, <2>2 DEF Step
    <3>2. \A type : Wrote(q, type)' <=> Wrote(q, type)
      BY <2>1, <2>2
    <3> QED
      BY <3>1, <3>2 DEF RequestInv
  <2>3. CASE q = r
    <3>1. \A type : Wrote(r, type)' <=> Wrote(r, type) \/ type \in types
      BY <2>1, <2>3
    <3>2. CASE /\ stage[r] = "unsent" /\ stage'[r] = "answered"
               /\ status'[r] \in {401, 429} /\ types = {}
      <4>1. \A type \in EventTypes : ~Wrote(r, type)'
        BY <3>1, <3>2 DEF RequestInv
      <4> QED
        BY <2>3, <3>2, <4>1 DEF EventTypes, GatewayTypes
    <3>3. CASE /\ stage[r] = "unsent" /\ stage'[r] = "serving"
               /\ status'[r] = status[r] /\ types = {"REQUEST_RECEIVED"}
      <4>1. \A type \in EventTypes \ {"REQUEST_RECEIVED"} : ~Wrote(r, type)'
        BY <3>1, <3>3 DEF RequestInv
      <4>2. status'[r] = 0
        BY <3>3 DEF RequestInv
      <4> QED
        BY <2>3, <3>3, <4>1, <4>2 DEF EventTypes, GatewayTypes
    <3>4. CASE /\ stage[r] = "serving" /\ stage'[r] = "storing"
               /\ request'[r] = request[r] /\ status'[r] = status[r]
               /\ types \subseteq ResilienceTypes
      <4>1. \A type \in EventTypes \ (ResilienceTypes \cup {"REQUEST_RECEIVED"}) : ~Wrote(r, type)'
        BY <3>1, <3>4 DEF RequestInv
      <4>2. status'[r] = 0
        BY <3>4 DEF RequestInv
      <4> QED
        BY <2>3, <3>4, <4>1, <4>2 DEF EventTypes, GatewayTypes, ResilienceTypes
    <3>5. CASE /\ stage[r] \in {"serving", "storing"} /\ stage'[r] = "answered"
               /\ request'[r] = request[r] /\ Answers(status'[r], types)
      <4>1. \A type \in EventTypes \ (ResilienceTypes \cup {"REQUEST_RECEIVED"}) :
              Wrote(r, type)' <=> type \in types
        BY <3>1, <3>5 DEF RequestInv
      <4>2. \A type \in GatewayTypes : ~Wrote(r, type)'
        BY <3>5, <4>1 DEF Answers, GatewayTypes, EventTypes, ResilienceTypes
      <4> QED
        BY <2>3, <3>5, <4>1, <4>2 DEF EventTypes, GatewayTypes, ResilienceTypes, Answers
    <3>6. CASE /\ stage[r] = "answered" /\ stage'[r] = "done"
               /\ request'[r] = request[r] /\ status'[r] = status[r]
               /\ types \subseteq GatewayTypes
               /\ "UNAUTHORISED_ACCESS" \in types <=> status[r] \in {401, 403}
               /\ "RATE_LIMIT_EXCEEDED" \in types <=> status[r] = 429
      <4>1. \A type \in EventTypes \ GatewayTypes : Wrote(r, type)' <=> Wrote(r, type)
        BY <3>1, <3>6
      <4>2. \A type \in GatewayTypes : Wrote(r, type)' <=> type \in types
        BY <3>1, <3>6 DEF RequestInv
      <4> QED
        BY <2>3, <3>6, <4>1, <4>2 DEF RequestInv, EventTypes, GatewayTypes
    <3> QED
      BY <1>2, <3>2, <3>3, <3>4, <3>5, <3>6 DEF Step
  <2> QED
    BY <2>2, <2>3
<1>3. ASSUME NEW r \in Requests, NEW types, Step(r, types)
      PROVE  RequestInv'
  BY <1>2, <1>3 DEF RequestInv
<1> QED
  BY <1>1, <1>3, Steps

\* Nobody reports a request twice in the same way.
LEMMA Fresh ==
  ASSUME IInv, NEW r \in Requests, NEW types, Step(r, types)
  PROVE  \A type \in types : ~Wrote(r, type)
<1> USE DEF IInv
<1>1. CASE stage[r] = "unsent"
  BY <1>1 DEF RequestInv, Step
<1>2. CASE stage[r] \in {"serving", "storing"} /\ Answers(status'[r], types)
  BY <1>2 DEF RequestInv, Answers
<1>3. CASE stage[r] = "serving" /\ types \subseteq ResilienceTypes
  BY <1>3 DEF RequestInv, ResilienceTypes, EventTypes
<1>4. CASE stage[r] = "answered" /\ types \subseteq GatewayTypes
  BY <1>4 DEF RequestInv
<1> QED
  BY <1>1, <1>2, <1>3, <1>4 DEF Step

LEMMA StepStream == IInv /\ [Next]_vars => StreamInv'
<1> SUFFICES ASSUME IInv, [Next]_vars PROVE StreamInv'
  OBVIOUS
<1> USE DEF IInv
<1>0. clock \in Nat /\ \A w \in written : w.at \in Nat /\ w.at <= clock
  BY StreamAssumption DEF TypeOK, StreamInv
<1>1. CASE /\ UNCHANGED <<request, status, stage, written, rejected>>
           /\ clock' \in {clock, clock + 1}
  <2>1. \A w \in written' : w.at <= clock'
    BY <1>0, <1>1
  <2> QED
    BY <1>1, <2>1 DEF StreamInv
<1>2. ASSUME NEW r \in Requests, NEW types, Step(r, types)
      PROVE  StreamInv'
  <2> DEFINE New(type) == [req |-> r, type |-> type, at |-> clock]
  <2>0. clock' = clock
    BY <1>2 DEF Step
  <2>1. \A w \in written' : w \in written \/ \E type \in types : w = New(type)
    BY <1>2, StepWrites
  <2>2. \A w \in written, type \in types : ~(w.req = r /\ w.type = type)
    BY <1>2, Fresh DEF Wrote
  <2>3. ASSUME NEW d \in written', NEW e \in written', d.req = e.req, d.type = e.type
        PROVE  d = e
    <3>1. CASE d \in written /\ e \in written
      BY <2>3, <3>1 DEF StreamInv
    <3>2. CASE d \in written /\ \E type \in types : e = New(type)
      BY <2>2, <2>3, <3>2
    <3>3. CASE e \in written /\ \E type \in types : d = New(type)
      BY <2>2, <2>3, <3>3
    <3>4. CASE (\E type \in types : d = New(type)) /\ (\E type \in types : e = New(type))
      BY <2>3, <3>4
    <3> QED
      BY <2>1, <3>1, <3>2, <3>3, <3>4
  <2>4. ASSUME NEW w \in written'
        PROVE  w.at <= clock'
    BY <1>0, <2>0, <2>1
  <2>5. ASSUME NEW q \in Requests, NEW t \in 0..MaxTime
        PROVE  [req |-> q, at |-> t] \in rejected'
                 <=> [req |-> q, type |-> "AUTH_FAILED", at |-> t] \in written'
    <3>1. [req |-> q, at |-> t] \in rejected'
            <=> \/ [req |-> q, at |-> t] \in rejected
                \/ "AUTH_FAILED" \in types /\ q = r /\ t = clock
      BY <1>2 DEF Step
    <3>2. [req |-> q, type |-> "AUTH_FAILED", at |-> t] \in written'
            <=> \/ [req |-> q, type |-> "AUTH_FAILED", at |-> t] \in written
                \/ "AUTH_FAILED" \in types /\ q = r /\ t = clock
      BY <1>2, StepWrites
    <3> QED
      BY <3>1, <3>2 DEF StreamInv
  <2> QED
    BY <2>3, <2>4, <2>5 DEF StreamInv
<1> QED
  BY <1>1, <1>2, Steps

LEMMA InvariantHolds == Spec => []IInv
<1>1. IInv /\ [Next]_vars => IInv'
  BY Steps, StepRequest, StepStream DEF IInv
<1> QED
  BY <1>1, InitIInv, PTL DEF Spec

\* The stream's types.
THEOREM TypeCorrect == Spec => []TypeOK
<1>1. IInv => TypeOK
  BY DEF IInv
<1> QED
  BY <1>1, InvariantHolds, PTL

\* Every refusal and every failure is counted by a rule.
THEOREM NothingGoesUnseen == Spec => []NoBlindSpot
<1>1. ASSUME IInv, NEW r \in Requests, stage[r] = "done",
             status[r] \in {401, 403, 429, 500, 503}
      PROVE  Counted(r)
  <2>0. \A w \in written : /\ Event(w) \in Collected
                           /\ Event(w).req = w.req /\ Event(w).type = w.type
    BY DEF Collected, Event
  <2>1. CASE status[r] \in {401, 403}
    <3>1. PICK w \in written : w.req = r /\ w.type = "UNAUTHORISED_ACCESS"
      BY <1>1, <2>1 DEF IInv, RequestInv, Wrote
    <3>2. IsRefusal(Event(w))
      BY <2>0, <3>1 DEF IsRefusal
    <3> QED
      BY <2>0, <2>1, <3>1, <3>2 DEF Counted
  <2>2. CASE status[r] = 429
    <3>1. PICK w \in written : w.req = r /\ w.type = "RATE_LIMIT_EXCEEDED"
      BY <1>1, <2>2 DEF IInv, RequestInv, Wrote
    <3> QED
      BY <2>0, <2>2, <3>1 DEF Counted
  <2>3. CASE status[r] \in {500, 503}
    <3>1. PICK w \in written : w.req = r /\ w.type = "SERVICE_ERROR"
      BY <1>1, <2>3 DEF IInv, RequestInv, Wrote
    <3> QED
      BY <2>0, <2>3, <3>1 DEF Counted, FailureEventTypes
  <2> QED
    BY <1>1, <2>1, <2>2, <2>3
<1>2. IInv => NoBlindSpot
  BY <1>1 DEF NoBlindSpot
<1> QED
  BY <1>2, InvariantHolds, PTL
-----------------------------------------------------------------------------
(* Counting.                                                               *)

\* What is collected is what was written, an event of each.
LEMMA OneOfEach ==
  ASSUME IInv
  PROVE  /\ \A e \in Collected : \E w \in written : e = Event(w)
         /\ \A d, e \in Collected : d.req = e.req /\ d.type = e.type => d = e
<1>1. \A e \in Collected : \E w \in written : e = Event(w)
  BY DEF Collected
<1>2. \A w \in written : Event(w).req = w.req /\ Event(w).type = w.type
  BY DEF Event
<1>3. ASSUME NEW d \in Collected, NEW e \in Collected, d.req = e.req, d.type = e.type
      PROVE  d = e
  <2>1. PICK v \in written : d = Event(v)
    BY <1>1
  <2>2. PICK w \in written : e = Event(w)
    BY <1>1
  <2>3. v = w
    BY <1>2, <1>3, <2>1, <2>2 DEF IInv, StreamInv
  <2> QED
    BY <2>1, <2>2, <2>3
<1> QED
  BY <1>1, <1>3

\* The rules count a finite set.
Finite == IsFiniteSet(Collected)

LEMMA FinitelyCollected == IInv => Finite
<1> SUFFICES ASSUME IInv PROVE IsFiniteSet(Collected)
  BY DEF Finite
<1> DEFINE Pairs == Requests \X EventTypes
           f == [w \in written |-> <<w.req, w.type>>]
           g == [w \in written |-> Event(w)]
<1>1. IsFiniteSet(EventTypes)
  <2>1. \A S, x : IsFiniteSet(S) => IsFiniteSet(S \cup {x})
    BY FS_AddElement
  <2>2. \A s, t, u, v, w : IsFiniteSet({s, t, u, v, w})
    <3> TAKE s, t, u, v, w
    <3>1. IsFiniteSet({s} \cup {t})
      BY <2>1, FS_Singleton
    <3>2. IsFiniteSet((({s} \cup {t}) \cup {u}) \cup {v})
      BY <2>1, <3>1
    <3>3. {s, t, u, v, w} = ((({s} \cup {t}) \cup {u}) \cup {v}) \cup {w}
      OBVIOUS
    <3>4. IsFiniteSet(((({s} \cup {t}) \cup {u}) \cup {v}) \cup {w})
      BY <2>1, <3>2
    <3> QED
      BY <3>3, <3>4, Zenon
  <2>3. EventTypes =
          {"REQUEST_RECEIVED", "REQUEST_COMPLETED", "AUTH_FAILED", "AUTH_SUCCESS", "SERVICE_ERROR"}
          \cup {"DEPENDENCY_FAILURE", "CIRCUIT_OPENED", "CIRCUIT_CLOSED",
                "UNAUTHORISED_ACCESS", "RATE_LIMIT_EXCEEDED"}
    BY DEF EventTypes
  <2> QED
    BY <2>2, <2>3, FS_Union
<1>2. IsFiniteSet(Pairs)
  BY <1>1, FS_Product, StreamAssumption
<1>3. f \in Injection(written, Pairs)
  <2>1. f \in [written -> Pairs]
    BY DEF IInv, TypeOK
  <2>2. \A v, w \in written : f[v] = f[w] => v = w
    BY DEF IInv, StreamInv
  <2> QED
    BY <2>1, <2>2 DEF Injection, IsInjective
<1>4. IsFiniteSet(written)
  <2> HIDE DEF f, Pairs
  <2> QED
    BY <1>2, <1>3, FS_Injection
<1>5. g \in Surjection(written, Collected)
  BY DEF Surjection, Collected
<1> HIDE DEF g
<1> QED
  BY <1>4, <1>5, FS_Surjection

\* Of a set of events of one kind there are no more than requests they tell of.
LEMMA OnePerRequest ==
  ASSUME IInv, NEW S \in SUBSET Collected, NEW type, \A e \in S : e.type = type,
         NEW R, IsFiniteSet(R), \A e \in S : e.req \in R
  PROVE  IsFiniteSet(S) /\ Cardinality(S) <= Cardinality(R)
<1> DEFINE f == [e \in S |-> e.req]
<1>1. f \in [S -> R]
  OBVIOUS
<1>2. \A d, e \in S : f[d] = f[e] => d = e
  BY OneOfEach
<1>3. f \in Injection(S, R)
  BY <1>1, <1>2 DEF Injection, IsInjective
<1> HIDE DEF f
<1> QED
  BY <1>3, FS_Injection

\* Rule 2 counts what the gateway reports, and the service's own answer.
LEMMA RefusalsAre ==
  ASSUME IInv, NEW e \in Collected, IsRefusal(e)
  PROVE  e.type \in {"UNAUTHORISED_ACCESS", "REQUEST_COMPLETED"} /\ e.req \in Requests
<1>1. PICK w \in written : e = Event(w)
  BY OneOfEach
<1>2. /\ w.req \in Requests /\ w.type \in EventTypes
      /\ e.req = w.req /\ e.type = w.type /\ e.status = StatusOf(w) /\ Wrote(w.req, w.type)
  BY <1>1 DEF IInv, TypeOK, Event, Wrote
<1>3. CASE w.type = "UNAUTHORISED_ACCESS"
  BY <1>2, <1>3
<1>4. CASE w.type # "UNAUTHORISED_ACCESS" /\ StatusOf(w) \in {401, 403}
  <2>1. w.type \notin ResilienceTypes \cup {"REQUEST_RECEIVED"} /\ status[w.req] \in {401, 403}
    BY <1>4 DEF StatusOf, ResilienceTypes
  <2>2. w.type \notin {"RATE_LIMIT_EXCEEDED", "AUTH_SUCCESS", "SERVICE_ERROR"}
    BY <1>2, <2>1 DEF IInv, RequestInv
  <2> QED
    BY <1>2, <2>1, <2>2 DEF EventTypes, IsRefusal, ResilienceTypes
<1> QED
  BY <1>2, <1>3, <1>4 DEF IsRefusal

\* A set of events of two kinds tells of half as many requests, or more.
LEMMA TwoPerRequest ==
  ASSUME IInv, NEW C \in SUBSET Collected, NEW one, NEW other,
         \A e \in C : e.type \in {one, other},
         NEW c \in Nat, Cardinality(C) >= c
  PROVE  2 * Cardinality({e.req : e \in C}) >= c
<1> DEFINE R == {e.req : e \in C}
           G == {e \in C : e.type = one}
           M == {e \in C : e.type = other}
<1>1. IsFiniteSet(R)
  <2>1. \A e \in Collected : e.req \in Requests
    BY OneOfEach DEF IInv, TypeOK, Event
  <2>2. R \subseteq Requests
    BY <2>1
  <2> QED
    BY <2>2, FS_Subset, StreamAssumption
<1>2. /\ G \subseteq Collected /\ \A e \in G : e.req \in R
      /\ M \subseteq Collected /\ \A e \in M : e.req \in R
      /\ C = G \cup M
  OBVIOUS
<1>3. (\A e \in G : e.type = one) /\ (\A e \in M : e.type = other)
  OBVIOUS
<1> HIDE DEF R, G, M
<1>4. /\ IsFiniteSet(G) /\ Cardinality(G) <= Cardinality(R)
      /\ IsFiniteSet(M) /\ Cardinality(M) <= Cardinality(R)
  BY <1>1, <1>2, <1>3, OnePerRequest
<1>5. /\ Cardinality(G) \in Nat /\ Cardinality(M) \in Nat /\ Cardinality(R) \in Nat
      /\ Cardinality(C) \in Nat
  BY <1>1, <1>2, <1>4, FS_Union, FS_CardinalityType
<1>6. Cardinality(C) <= Cardinality(G) + Cardinality(M)
  <2>1. IsFiniteSet(G \cap M)
    BY <1>4, FS_Intersection
  <2>2. Cardinality(G \cup M) = Cardinality(G) + Cardinality(M) - Cardinality(G \cap M)
    BY <1>4, FS_Union
  <2>3. Cardinality(G \cap M) \in Nat
    BY <2>1, FS_CardinalityType
  <2> QED
    BY <1>2, <1>5, <2>2, <2>3
<1>7. 2 * Cardinality(R) >= c
  BY <1>4, <1>5, <1>6
<1> QED
  BY <1>7 DEF R

\* Which alerts are which rule's.
LEMMA RulesAre ==
  ASSUME NEW a \in Raised
  PROVE  /\ a.rule = UnauthorisedAccess => a \in UnauthorisedEndpointAccess(Collected, clock)
         /\ a.rule = ServiceFailure => a \in ServiceFailures(Collected, clock)
<1>1. /\ FailedLogins # UnauthorisedAccess /\ AbnormalRate # UnauthorisedAccess
      /\ ServiceFailure # UnauthorisedAccess
      /\ FailedLogins # ServiceFailure /\ AbnormalRate # ServiceFailure
  BY DEF FailedLogins, UnauthorisedAccess, AbnormalRate, ServiceFailure
<1> QED
  BY <1>1, WhatIsCited DEF Raised, EvaluateAll

LEMMA RefusalsAreCounted ==
  ASSUME IInv, NEW a \in UnauthorisedEndpointAccess(Collected, clock)
  PROVE  /\ a.cites \subseteq Collected
         /\ \A e \in a.cites : e.type \in {"UNAUTHORISED_ACCESS", "REQUEST_COMPLETED"}
         /\ 2 * Cardinality({e.req : e \in a.cites}) >= RefusalThreshold
<1>1. PICK s : /\ Cardinality(Refusals(Collected, clock, s)) >= RefusalThreshold
               /\ a = RefusalAlert(Collected, clock, s)
  BY RefusalAlertsAre
<1>2. a.cites = Refusals(Collected, clock, s)
  BY <1>1 DEF RefusalAlert, Alert
<1>3. a.cites \subseteq Collected /\ \A e \in a.cites : IsRefusal(e)
  BY <1>2 DEF Refusals, Within
<1>4. \A e \in a.cites : e.type \in {"UNAUTHORISED_ACCESS", "REQUEST_COMPLETED"}
  BY <1>3, RefusalsAre
<1>5. RefusalThreshold \in Nat
  BY RulesAssumption
<1>6. 2 * Cardinality({e.req : e \in a.cites}) >= RefusalThreshold
  BY <1>1, <1>2, <1>3, <1>4, <1>5, TwoPerRequest
<1> QED
  BY <1>3, <1>4, <1>6

\* Without an opened circuit Rule 4 counts failures, two kinds of them.
LEMMA FaultsAreCounted ==
  ASSUME IInv, NEW a \in ServiceFailures(Collected, clock), Counts(a) = a.cites
  PROVE  2 * Cardinality({e.req : e \in a.cites}) >= FaultThreshold
<1>1. PICK s : Faulty(Collected, clock, s) /\ a = FaultAlert(Collected, clock, s)
  BY FaultAlertsAre
<1>2. a.cites = Failures(Collected, clock, s)
  BY <1>1 DEF FaultAlert, Alert
<1>3. \A e \in a.cites : e.type \notin ImmediateEventTypes
  BY DEF Counts
<1>4. Cardinality(a.cites) >= FaultThreshold
  BY <1>1, <1>2, <1>3 DEF Faulty
<1>5. a.cites \subseteq Collected
      /\ \A e \in a.cites : e.type \in {"DEPENDENCY_FAILURE", "SERVICE_ERROR"}
  BY <1>2, <1>3 DEF Failures, Within, FailureEventTypes
<1>6. FaultThreshold \in Nat
  BY RulesAssumption
<1> QED
  BY <1>4, <1>5, <1>6, TwoPerRequest

\* The two ways a request is counted twice, and no third: the status keeps the
\* rest apart.
LEMMA ReportsApart ==
  ASSUME IInv, NEW a \in Raised, NEW d \in Counts(a), NEW e \in Counts(a), d.req = e.req
  PROVE  d = e \/ {d.type, e.type} \in DoubleReports
<1>0. d \in a.cites /\ e \in a.cites
      /\ d.type \notin ImmediateEventTypes /\ e.type \notin ImmediateEventTypes
  BY DEF Counts
<1>1. \A c \in Collected : /\ c.type = "REQUEST_RECEIVED" => status[c.req] # 429
                           /\ c.type = "RATE_LIMIT_EXCEEDED" => status[c.req] = 429
  <2> SUFFICES ASSUME NEW w \in written
               PROVE  /\ w.type = "REQUEST_RECEIVED" => status[w.req] # 429
                      /\ w.type = "RATE_LIMIT_EXCEEDED" => status[w.req] = 429
    BY OneOfEach DEF Event
  <2>1. w.req \in Requests /\ Wrote(w.req, w.type)
    BY DEF IInv, TypeOK, Wrote
  <2> QED
    BY <2>1 DEF IInv, RequestInv
\* Two kinds that may meet in one request, or one kind twice.
<1>2. ASSUME NEW one, NEW other, {one, other} \in DoubleReports,
             d \in Collected, e \in Collected, d.type \in {one, other}, e.type \in {one, other}
      PROVE  d = e \/ {d.type, e.type} \in DoubleReports
  <2>1. CASE d.type = e.type
    BY <1>2, <2>1, OneOfEach
  <2>2. CASE d.type # e.type
    <3>1. {d.type, e.type} = {one, other}
      BY <1>2, <2>2
    <3> QED
      BY <1>2, <3>1
  <2> QED
    BY <2>1, <2>2
<1>3. CASE a \in MultipleFailedLogins(Collected, clock)
  <2>1. \A c \in a.cites : c \in Collected /\ c.type = "AUTH_FAILED"
    BY <1>3, WhatIsCited
  <2> QED
    BY <1>0, <2>1, OneOfEach
<1>4. CASE a \in AbnormalRequestRate(Collected, clock)
  <2>1. \A c \in a.cites : c \in Collected /\ c.type \in {"REQUEST_RECEIVED", "RATE_LIMIT_EXCEEDED"}
    BY <1>4, WhatIsCited
  <2>2. d.type = e.type
    BY <1>0, <1>1, <2>1
  <2> QED
    BY <1>0, <2>1, <2>2, OneOfEach
<1>5. CASE a \in ServiceFailures(Collected, clock)
  <2>1. \A c \in a.cites : c \in Collected /\ c.type \in ImmediateEventTypes \cup FailureEventTypes
    BY <1>5, WhatIsCited
  <2>2. /\ d \in Collected /\ d.type \in {"DEPENDENCY_FAILURE", "SERVICE_ERROR"}
        /\ e \in Collected /\ e.type \in {"DEPENDENCY_FAILURE", "SERVICE_ERROR"}
    BY <1>0, <2>1 DEF FailureEventTypes
  <2> QED
    BY <1>2, <2>2 DEF DoubleReports
<1>6. CASE a \in UnauthorisedEndpointAccess(Collected, clock)
  <2>1. /\ d \in Collected /\ d.type \in {"UNAUTHORISED_ACCESS", "REQUEST_COMPLETED"}
        /\ e \in Collected /\ e.type \in {"UNAUTHORISED_ACCESS", "REQUEST_COMPLETED"}
    BY <1>0, <1>6, RefusalsAreCounted
  <2>2. {"REQUEST_COMPLETED", "UNAUTHORISED_ACCESS"} \in DoubleReports
    BY DEF DoubleReports
  <2> QED
    BY <1>2, <2>1, <2>2
<1> QED
  BY <1>3, <1>4, <1>5, <1>6 DEF Raised, EvaluateAll

\* A request is counted twice in two ways and in no other, so half as many
\* requests as a threshold asks for stand behind every alert that counts
\* (rule_unauthorised_access.py, rule_service_failure.py, middleware.py).
THEOREM ReportsAreNotRequests == Spec => []RequestsAreCounted
<1>1. IInv => RequestsAreCounted
  BY RulesAre, RefusalsAreCounted, FaultsAreCounted, ReportsApart DEF RequestsAreCounted
<1> QED
  BY <1>1, InvariantHolds, PTL
-----------------------------------------------------------------------------
(* Rule 1 and the logins.                                                  *)

Turned(w) == [req |-> w.req, type |-> "AUTH_FAILED", at |-> w.at]

LEMMA RejectionsAreEvents ==
  ASSUME IInv
  PROVE  /\ \A x \in rejected : /\ Event(Turned(x)) \in Collected
                                /\ Event(Turned(x)).type = "AUTH_FAILED"
                                /\ Event(Turned(x)).req = x.req /\ Event(Turned(x)).at = x.at
                                /\ Event(Turned(x)).user = request[x.req].name
                                /\ Event(Turned(x)).ip = request[x.req].ip
                                /\ x.at \in Nat /\ x.at <= clock
         /\ \A e \in Collected : e.type = "AUTH_FAILED"
              => \E x \in rejected : e = Event(Turned(x))
         /\ \A x, y \in rejected : x.req = y.req => x = y
<1>1. ASSUME NEW x \in rejected
      PROVE  /\ Turned(x) \in written
             /\ x.req \in Requests /\ x.at \in 0..MaxTime /\ x = [req |-> x.req, at |-> x.at]
  BY DEF IInv, TypeOK, StreamInv, Turned
<1>2. \A x \in rejected :
        /\ Event(Turned(x)) \in Collected /\ Event(Turned(x)).type = "AUTH_FAILED"
        /\ Event(Turned(x)).req = x.req /\ Event(Turned(x)).at = x.at
        /\ Event(Turned(x)).user = request[x.req].name
        /\ Event(Turned(x)).ip = request[x.req].ip
  <2> SUFFICES ASSUME NEW x \in rejected
               PROVE  /\ Event(Turned(x)) \in Collected /\ Event(Turned(x)).type = "AUTH_FAILED"
                      /\ Event(Turned(x)).req = x.req /\ Event(Turned(x)).at = x.at
                      /\ Event(Turned(x)).user = request[x.req].name
                      /\ Event(Turned(x)).ip = request[x.req].ip
    OBVIOUS
  <2>1. /\ Turned(x).req = x.req /\ Turned(x).type = "AUTH_FAILED" /\ Turned(x).at = x.at
    BY DEF Turned
  <2>2. UserOf(Turned(x)) = request[x.req].name /\ AddressOf(Turned(x)) = request[x.req].ip
    <3>1. \A w : w.type = "AUTH_FAILED" => UserOf(w) = request[w.req].name
      BY DEF UserOf, GatewayTypes
    <3>2. \A w : w.type = "AUTH_FAILED" => AddressOf(w) = request[w.req].ip
      BY DEF AddressOf, ResilienceTypes
    <3> HIDE DEF Turned
    <3> QED
      BY <2>1, <3>1, <3>2
  <2>3. Event(Turned(x)) \in Collected
    BY <1>1 DEF Collected
  <2> HIDE DEF Turned
  <2> QED
    BY <2>1, <2>2, <2>3 DEF Event
<1>3. \A x \in rejected : x.at \in Nat /\ x.at <= clock
  <2> SUFFICES ASSUME NEW x \in rejected PROVE x.at \in Nat /\ x.at <= clock
    OBVIOUS
  <2>1. Turned(x).at = x.at /\ Turned(x).at <= clock
    BY <1>1 DEF IInv, StreamInv, Turned
  <2> QED
    BY <1>1, <2>1, StreamAssumption
<1>4. ASSUME NEW e \in Collected, e.type = "AUTH_FAILED"
      PROVE  \E x \in rejected : e = Event(Turned(x))
  <2>1. PICK w \in written : e = Event(w)
    BY OneOfEach
  <2>2. w = [req |-> w.req, type |-> "AUTH_FAILED", at |-> w.at]
    BY <1>4, <2>1 DEF Event, IInv, TypeOK
  <2>3. [req |-> w.req, at |-> w.at] \in rejected
    BY <2>2 DEF IInv, TypeOK, StreamInv
  <2>4. Turned([req |-> w.req, at |-> w.at]) = w
    BY <2>2 DEF Turned
  <2> QED
    BY <2>1, <2>3, <2>4
<1>5. \A x, y \in rejected : x.req = y.req => x = y
  <2> SUFFICES ASSUME NEW x \in rejected, NEW y \in rejected, x.req = y.req PROVE x = y
    OBVIOUS
  <2>1. Turned(x) = Turned(y)
    BY <1>1 DEF IInv, StreamInv, Turned
  <2> QED
    BY <1>1, <2>1 DEF Turned
<1> QED
  BY <1>2, <1>3, <1>4, <1>5

\* As many rejections as events, of whichever logins.
LEMMA SameNumber ==
  ASSUME IInv, NEW X \in SUBSET RecentlyRejected,
         NEW E, E \subseteq Within(Collected, clock, LoginWindow),
         \A e \in E : e.type = "AUTH_FAILED",
         \A x \in RecentlyRejected : x \in X <=> Event(Turned(x)) \in E
  PROVE  Cardinality(X) = Cardinality(E)
<1> DEFINE f == [x \in X |-> Event(Turned(x))]
<1>0. X \subseteq rejected
  BY DEF RecentlyRejected
<1>1. f \in [X -> E]
  OBVIOUS
<1>2. \A x, y \in X : f[x] = f[y] => x = y
  BY <1>0, RejectionsAreEvents
<1>3. ASSUME NEW e \in E
      PROVE  \E x \in X : f[x] = e
  <2>1. e \in Collected /\ clock - LoginWindow <= e.at
    BY DEF Within
  <2>2. PICK x \in rejected : e = Event(Turned(x))
    BY <2>1, RejectionsAreEvents
  <2>3. x \in RecentlyRejected
    BY <2>1, <2>2, RejectionsAreEvents DEF RecentlyRejected
  <2> QED
    BY <2>2, <2>3
<1>4. f \in Bijection(X, E)
  BY <1>1, <1>2, <1>3 DEF Bijection, Injection, Surjection, IsInjective
<1>5. IsFiniteSet(E)
  <2>1. E \subseteq Collected
    BY DEF Within
  <2> QED
    BY <2>1, FinitelyCollected, FS_Subset DEF Finite
<1> HIDE DEF f
<1> QED
  BY <1>4, <1>5, FS_Injection, FS_Bijection DEF Bijection, ExistsBijection

\* Whom Rule 1 names.
LEMMA NamesAre ==
  ASSUME NEW x
  PROVE  /\ x # Nobody =>
              (<<FailedLogins, <<"user", x>>>> \in Firing
                 <=> Cardinality(OfUser(Collected, clock, x)) >= LoginThreshold)
         /\ x # Nobody =>
              (<<FailedLogins, <<"address", x>>>> \in Firing
                 <=> Cardinality(OfAddress(Collected, clock, x)) >= LoginThreshold)
<1>1. \A a \in Raised : a.rule = FailedLogins => a \in MultipleFailedLogins(Collected, clock)
  <2>1. /\ FailedLogins # UnauthorisedAccess /\ AbnormalRate # FailedLogins
        /\ ServiceFailure # FailedLogins
    BY DEF FailedLogins, UnauthorisedAccess, AbnormalRate, ServiceFailure
  <2> QED
    BY <2>1, WhatIsCited DEF Raised, EvaluateAll
<1>2. \A s : <<FailedLogins, s>> \in Firing
               <=> \E a \in MultipleFailedLogins(Collected, clock) : a.subject = s
  <2>1. MultipleFailedLogins(Collected, clock) \subseteq Raised
    BY DEF Raised, EvaluateAll
  <2>2. \A a \in MultipleFailedLogins(Collected, clock) : a.rule = FailedLogins
    BY WhatIsCited
  <2> QED
    BY <1>1, <2>1, <2>2 DEF Firing
<1>3. \A y : /\ UserAlert(Collected, clock, y).subject = <<"user", y>>
             /\ AddressAlert(Collected, clock, y).subject = <<"address", y>>
  BY DEF UserAlert, AddressAlert, Alert
<1>4. \A y, z : /\ <<"user", y>> # <<"address", z>>
                /\ <<"user", y>> = <<"user", z>> => y = z
                /\ <<"address", y>> = <<"address", z>> => y = z
  OBVIOUS
<1>5. x # Nobody =>
        (<<FailedLogins, <<"user", x>>>> \in Firing
           <=> Cardinality(OfUser(Collected, clock, x)) >= LoginThreshold)
  BY <1>2, <1>3, <1>4, LoginAlerts
<1>6. x # Nobody =>
        (<<FailedLogins, <<"address", x>>>> \in Firing
           <=> Cardinality(OfAddress(Collected, clock, x)) >= LoginThreshold)
  BY <1>2, <1>3, <1>4, LoginAlerts
<1> QED
  BY <1>5, <1>6

\* Rule 1 names an account, or an address, iff enough of its logins were turned
\* down in the window.
THEOREM BruteForceIsSeen == Spec => []BruteForceIsExact
<1>0. \A x \in RecentlyRejected : x \in rejected /\ clock - LoginWindow <= x.at
  BY DEF RecentlyRejected
<1>1. ASSUME IInv, NEW x \in RecentlyRejected, NEW y
      PROVE  /\ Event(Turned(x)) \in OfUser(Collected, clock, y) <=> request[x.req].name = y
             /\ Event(Turned(x)) \in OfAddress(Collected, clock, y) <=> request[x.req].ip = y
  <2>1. Event(Turned(x)) \in Within(Collected, clock, LoginWindow)
    BY <1>0, <1>1, RejectionsAreEvents DEF Within
  <2> QED
    BY <1>0, <1>1, <2>1, RejectionsAreEvents DEF OfUser, OfAddress
<1>2. \A y : /\ OfUser(Collected, clock, y) \subseteq Within(Collected, clock, LoginWindow)
             /\ \A e \in OfUser(Collected, clock, y) : e.type = "AUTH_FAILED"
             /\ OfAddress(Collected, clock, y) \subseteq Within(Collected, clock, LoginWindow)
             /\ \A e \in OfAddress(Collected, clock, y) : e.type = "AUTH_FAILED"
  BY DEF OfUser, OfAddress
<1>3. ASSUME IInv, NEW u \in Users
      PROVE  (<<FailedLogins, <<"user", u>>>> \in Firing) <=>
               Cardinality({x \in RecentlyRejected : request[x.req].name = u}) >= LoginThreshold
  <2> DEFINE X == {x \in RecentlyRejected : request[x.req].name = u}
  <2>1. \A x \in RecentlyRejected : x \in X <=> Event(Turned(x)) \in OfUser(Collected, clock, u)
    BY <1>1, <1>3
  <2>2. X \in SUBSET RecentlyRejected
    OBVIOUS
  <2> HIDE DEF X
  <2>3. Cardinality(X) = Cardinality(OfUser(Collected, clock, u))
    BY <1>2, <1>3, <2>1, <2>2, SameNumber
  <2> QED
    BY <2>3, NamesAre, StreamAssumption DEF X
<1>4. ASSUME IInv, NEW i \in Addresses
      PROVE  (<<FailedLogins, <<"address", i>>>> \in Firing) <=>
               Cardinality({x \in RecentlyRejected : request[x.req].ip = i}) >= LoginThreshold
  <2> DEFINE X == {x \in RecentlyRejected : request[x.req].ip = i}
  <2>1. \A x \in RecentlyRejected : x \in X <=> Event(Turned(x)) \in OfAddress(Collected, clock, i)
    BY <1>1, <1>4
  <2>2. X \in SUBSET RecentlyRejected
    OBVIOUS
  <2> HIDE DEF X
  <2>3. Cardinality(X) = Cardinality(OfAddress(Collected, clock, i))
    BY <1>2, <1>4, <2>1, <2>2, SameNumber
  <2> QED
    BY <2>3, NamesAre, StreamAssumption DEF X
<1>5. IInv => BruteForceIsExact
  BY <1>3, <1>4 DEF BruteForceIsExact
<1> QED
  BY <1>5, InvariantHolds, PTL
-----------------------------------------------------------------------------
(* Evidence adds, and time takes away.                                     *)

\* What was collected of an event, its request's further course does not change.
LEMMA EventsStay ==
  ASSUME IInv, NEW r \in Requests, NEW types, Step(r, types)
  PROVE  Collected \subseteq Collected'
<1>1. ASSUME NEW w \in written
      PROVE  w \in written' /\ Event(w)' = Event(w)
  <2>0. w.req \in Requests /\ w.type \in EventTypes /\ Wrote(w.req, w.type)
    BY DEF IInv, TypeOK, Wrote
  <2>1. w \in written'
    BY <1>1, StepWrites
  <2>2. stage[w.req] # "unsent"
    BY <2>0 DEF IInv, RequestInv
  <2>3. request'[w.req] = request[w.req]
    BY <2>0, <2>2 DEF Step
  <2>4. status'[w.req] = status[w.req] \/ w.type \in ResilienceTypes \cup {"REQUEST_RECEIVED"}
    <3>1. CASE stage[w.req] = "serving"
      BY <2>0, <3>1 DEF IInv, RequestInv
    <3>2. CASE stage[w.req] = "storing"
      BY <2>0, <3>2 DEF IInv, RequestInv
    <3>3. CASE stage[w.req] \notin {"serving", "storing"}
      BY <2>0, <2>2, <3>3 DEF Step
    <3> QED
      BY <3>1, <3>2, <3>3
  <2>5. ServiceOf(w)' = ServiceOf(w)
    BY <2>3 DEF ServiceOf
  <2>6. UserOf(w)' = UserOf(w)
    BY <2>3 DEF UserOf
  <2>7. AddressOf(w)' = AddressOf(w)
    BY <2>3 DEF AddressOf
  <2>8. StatusOf(w)' = StatusOf(w)
    BY <2>4 DEF StatusOf
  <2> QED
    BY <2>1, <2>3, <2>5, <2>6, <2>7, <2>8 DEF Event
<1>2. \A e \in Collected : e \in Collected'
  <2> SUFFICES ASSUME NEW e \in Collected PROVE e \in Collected'
    OBVIOUS
  <2>1. PICK w \in written : e = Event(w)
    BY OneOfEach
  <2>2. w \in written' /\ e = Event(w)'
    BY <1>1, <2>1
  <2> QED
    BY <2>2 DEF Collected
<1> QED
  BY <1>2

\* No event silences an alert or lowers its severity, and none appears without
\* one.
THEOREM EvidenceAdds == Spec => EvidenceOnlyAdds
<1>1. ASSUME IInv, Finite', [Next]_vars, clock' = clock
      PROVE  \A a \in Raised : \E b \in Raised' :
               a.rule = b.rule /\ a.subject = b.subject /\ Severer(b, a)
  <2>1. Collected \subseteq Collected'
    <3>1. CASE \E r \in Requests : \E types : Step(r, types)
      BY <1>1, <3>1, EventsStay
    <3>2. CASE UNCHANGED <<request, status, stage, written, rejected>>
      BY <3>2 DEF Collected, Event, ServiceOf, UserOf, AddressOf, StatusOf
    <3> QED
      BY <1>1, <3>1, <3>2, Steps DEF IInv
  <2>2. IsFiniteSet(Collected')
    BY <1>1 DEF Finite
  <2>3. \A w \in Nat : Within(Collected, clock, w) \subseteq Within(Collected', clock', w)
    BY <1>1, <2>1 DEF Within
  <2>4. \A a \in EvaluateAll(Collected, clock) : \E b \in EvaluateAll(Collected', clock') :
          a.rule = b.rule /\ a.subject = b.subject /\ Severer(b, a)
    BY <2>2, <2>3, MoreEvidence
  <2> QED
    BY <2>4 DEF Raised
<1>2. ASSUME IInv, [Next]_vars, clock' # clock
      PROVE  Firing' \subseteq Firing
  <2>1. /\ clock' = clock + 1 /\ clock \in Nat
        /\ UNCHANGED <<request, status, stage, written, rejected>>
    BY <1>2, Steps, StreamAssumption DEF IInv, Step, TypeOK
  <2>2. Collected' = Collected
    BY <2>1 DEF Collected, Event, ServiceOf, UserOf, AddressOf, StatusOf
  <2>3. \A e \in Collected : e.at \in Nat /\ e.at <= clock
    BY <1>2, StreamAssumption DEF Collected, Event, IInv, TypeOK, StreamInv
  <2>4. \A w \in Nat : Within(Collected, clock', w) \subseteq Within(Collected, clock, w)
    BY <2>1, <2>3 DEF Within
  <2>5. \A b \in EvaluateAll(Collected, clock') : \E a \in EvaluateAll(Collected, clock) :
          b.rule = a.rule /\ b.subject = a.subject
    BY <1>2, <2>4, FinitelyCollected, MoreEvidence DEF Finite
  <2>6. Raised' = EvaluateAll(Collected, clock')
    BY <2>2 DEF Raised
  <2> QED
    BY <2>5, <2>6 DEF Firing, Raised
<1>3. IInv /\ Finite' /\ [Next]_vars =>
        [/\ clock' = clock =>
              \A a \in Raised : \E b \in Raised' :
                 a.rule = b.rule /\ a.subject = b.subject /\ Severer(b, a)
         /\ clock' # clock => Firing' \subseteq Firing]_vars
  BY <1>1, <1>2
<1> QED
  BY <1>3, FinitelyCollected, InvariantHolds, PTL DEF Spec, EvidenceOnlyAdds
=============================================================================
