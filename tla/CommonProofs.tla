---------------------------- MODULE CommonProofs ----------------------------
(***************************************************************************)
(* Proofs about libs/common.  The resilient client: for any set of         *)
(* threads, any number of attempts and any threshold.  The registry: for   *)
(* any set of services and any intervals, how old what it says can be;     *)
(* each bound is a race of two clocks, the age of the truth and the time   *)
(* that is left to correct the entry.  The two specifications share no     *)
(* variable.                                                               *)
(***************************************************************************)
EXTENDS ResilientClient, ServiceRegistry, TLAPS

(* The resilient client.                                                   *)

\* GETs the thread inside the lock has already lost.
InFlight == IF holder = NoThread THEN 0 ELSE attempts[holder]

\* A closed breaker's count is below the threshold, and every failed GET since
\* the last answer belongs to a counted request or to the one in flight.
Counting ==
  /\ breaker = "closed" =>
       /\ counter < FailMax
       /\ strikes = counter * MaxAttempts + InFlight
  /\ breaker # "closed" => counter = FailMax

\* What a call may rely on at each point of `get`.
CallInv ==
  \A t \in Threads :
    /\ pc[t] = "wait" => attempts[t] = 0
    /\ pc[t] = "call" => attempts[t] < MaxAttempts
    /\ pc[t] # "idle" => answer[t] = "none"

IInv ==
  /\ TypeOK
  /\ LoneTrial
  /\ StreamTellsState
  /\ Counting
  /\ CallInv
  /\ FailureIsEvidenced
-----------------------------------------------------------------------------
(* Arithmetic the provers need spelled out.                                *)

\* One more request of m attempts.
LEMMA OneMoreRequest ==
  ASSUME NEW n \in Nat, NEW m \in Nat
  PROVE  (n + 1) * m = n * m + m
BY SMT

\* Fewer requests are no more attempts.
LEMMA FewerRequests ==
  ASSUME NEW n \in Nat, NEW k \in Nat, NEW m \in Nat, n <= k
  PROVE  n * m <= k * m
BY SMT
-----------------------------------------------------------------------------
(* The initial states satisfy the invariant.                               *)

LEMMA InitIInv == Init => IInv
<1> SUFFICES ASSUME Init PROVE IInv
  OBVIOUS
<1> USE ClientAssumption DEF Init
<1>1. TypeOK
  <2>1. breaker \in BreakerStates /\ counter \in 0..FailMax
    BY DEF BreakerStates
  <2>2. /\ dependency \in {"up", "down"} /\ circuitEvent \in {"closed", "open"}
        /\ cooled \in BOOLEAN /\ strikes \in Nat
        /\ holder \in Threads \cup {NoThread}
    OBVIOUS
  <2>3. /\ pc \in [Threads -> {"idle", "wait", "call", "settle"}]
        /\ attempts \in [Threads -> 0..MaxAttempts]
    OBVIOUS
  <2>4. outcome \in [Threads -> Outcomes] /\ answer \in [Threads -> Answers]
    BY DEF Outcomes, Answers
  <2>5. wasOpen \in [Threads -> BOOLEAN] /\ recorded \in [Threads -> BOOLEAN]
    BY Zenon
  <2> QED
    BY <2>1, <2>2, <2>3, <2>4, <2>5, Zenon DEF TypeOK
<1>2. LoneTrial /\ StreamTellsState /\ CallInv /\ FailureIsEvidenced
  BY DEF LoneTrial, StreamTellsState, CallInv, FailureIsEvidenced, Degraded
<1>3. Counting
  BY DEF Counting, InFlight
<1> QED
  BY <1>1, <1>2, <1>3 DEF IInv
-----------------------------------------------------------------------------
(* Every step preserves it, one lemma for each conjunct.                   *)

LEMMA StepType == IInv /\ [Next]_vars => TypeOK'
<1> SUFFICES ASSUME IInv, [Next]_vars PROVE TypeOK'
  OBVIOUS
<1> USE ClientAssumption DEF IInv, TypeOK, BreakerStates, Outcomes, Answers,
        Answered, Degraded, breakerVars, callVars
<1>1. ASSUME NEW t \in Threads, Start(t) PROVE TypeOK'
  <2>1. (breaker = "open") \in BOOLEAN
    OBVIOUS
  <2>2. wasOpen' \in [Threads -> BOOLEAN] /\ recorded' \in [Threads -> BOOLEAN]
    BY <1>1, <2>1, Zenon DEF Start
  <2> QED
    BY <1>1, <2>2 DEF Start
<1>2. ASSUME NEW t \in Threads, Admit(t) PROVE TypeOK'
  BY <1>2 DEF Admit
<1>3. ASSUME NEW t \in Threads, Refuse(t) PROVE TypeOK'
  BY <1>3 DEF Refuse
<1>4. ASSUME NEW t \in Threads, Retry(t) PROVE TypeOK'
  BY <1>4 DEF Retry
<1>5. ASSUME NEW t \in Threads, Exhaust(t) PROVE TypeOK'
  <2>1. /\ attempts' \in [Threads -> 0..MaxAttempts]
        /\ counter' \in 0..FailMax
        /\ pc' \in [Threads -> {"idle", "wait", "call", "settle"}]
        /\ holder' \in Threads \cup {NoThread}
    BY <1>5 DEF Exhaust, CountFailure, CallInv
  <2>2. /\ dependency' \in {"up", "down"}
        /\ wasOpen' \in [Threads -> BOOLEAN] /\ recorded' \in [Threads -> BOOLEAN]
        /\ answer' \in [Threads -> Answers]
    BY <1>5 DEF Exhaust
  <2>3. CASE Tripping
    <3>1. Trip /\ outcome' = [outcome EXCEPT ![t] = "breaker_error"]
      BY <1>5, <2>3, Zenon DEF Exhaust
    <3> QED
      BY <2>1, <2>2, <3>1 DEF Trip
  <2>4. CASE ~Tripping
    <3>1. /\ strikes' = strikes + 1
          /\ outcome' = [outcome EXCEPT ![t] = "transient"]
          /\ UNCHANGED <<breaker, cooled, circuitEvent>>
      BY <1>5, <2>4, Zenon DEF Exhaust
    <3> QED
      BY <2>1, <2>2, <3>1
  <2> QED
    BY <2>3, <2>4
<1>6. ASSUME NEW t \in Threads, Reply(t) PROVE TypeOK'
  BY <1>6 DEF Reply, Succeed, CallInv
<1>7. ASSUME NEW t \in Threads, Return(t) PROVE TypeOK'
  BY <1>7 DEF Return
<1>8. ASSUME NEW t \in Threads, Degrade(t) PROVE TypeOK'
  <2>1. Emits(t) \in BOOLEAN
    BY DEF Emits
  <2>2. recorded' \in [Threads -> BOOLEAN]
    BY <1>8, <2>1, Zenon DEF Degrade
  <2> QED
    BY <1>8, <2>2 DEF Degrade
<1>9. CASE DependencyFails \/ DependencyRecovers \/ Cool
  BY <1>9 DEF DependencyFails, DependencyRecovers, Cool
<1>10. CASE UNCHANGED vars
  BY <1>10 DEF vars
<1> QED
  BY <1>1, <1>2, <1>3, <1>4, <1>5, <1>6, <1>7, <1>8, <1>9, <1>10
     DEF Next, CallStep

LEMMA StepTrial == IInv /\ [Next]_vars => (LoneTrial /\ StreamTellsState)'
<1> SUFFICES ASSUME IInv, [Next]_vars PROVE (LoneTrial /\ StreamTellsState)'
  OBVIOUS
<1> USE ClientAssumption DEF IInv, TypeOK, BreakerStates, LoneTrial,
        StreamTellsState, breakerVars, callVars
<1>1. ASSUME NEW t \in Threads, Start(t) PROVE (LoneTrial /\ StreamTellsState)'
  BY <1>1 DEF Start
<1>2. ASSUME NEW t \in Threads, Admit(t) PROVE (LoneTrial /\ StreamTellsState)'
  BY <1>2 DEF Admit
<1>3. ASSUME NEW t \in Threads, Refuse(t) PROVE (LoneTrial /\ StreamTellsState)'
  BY <1>3 DEF Refuse
<1>4. ASSUME NEW t \in Threads, Retry(t) PROVE (LoneTrial /\ StreamTellsState)'
  BY <1>4 DEF Retry
<1>5. ASSUME NEW t \in Threads, Exhaust(t) PROVE (LoneTrial /\ StreamTellsState)'
  <2>1. /\ \A u \in Threads : pc'[u] = "call" <=> holder' = u
        /\ holder' = NoThread
        /\ breaker # "open"
    BY <1>5 DEF Exhaust
  <2>2. CASE Tripping
    <3>1. Trip
      BY <1>5, <2>2, Zenon DEF Exhaust
    <3> QED
      BY <2>1, <3>1 DEF Trip
  <2>3. CASE ~Tripping
    <3>1. UNCHANGED <<breaker, cooled, circuitEvent>>
      BY <1>5, <2>3, Zenon DEF Exhaust
    <3> QED
      BY <2>1, <2>3, <3>1 DEF Tripping
  <2> QED
    BY <2>2, <2>3
<1>6. ASSUME NEW t \in Threads, Reply(t) PROVE (LoneTrial /\ StreamTellsState)'
  BY <1>6 DEF Reply, Succeed
<1>7. ASSUME NEW t \in Threads, Return(t) \/ Degrade(t)
      PROVE  (LoneTrial /\ StreamTellsState)'
  BY <1>7 DEF Return, Degrade
<1>8. CASE DependencyFails \/ DependencyRecovers \/ Cool
  BY <1>8 DEF DependencyFails, DependencyRecovers, Cool
<1>9. CASE UNCHANGED vars
  BY <1>9 DEF vars
<1> QED
  BY <1>1, <1>2, <1>3, <1>4, <1>5, <1>6, <1>7, <1>8, <1>9 DEF Next, CallStep

LEMMA StepCall == IInv /\ [Next]_vars => (CallInv /\ FailureIsEvidenced)'
<1> SUFFICES ASSUME IInv, [Next]_vars PROVE (CallInv /\ FailureIsEvidenced)'
  OBVIOUS
<1> USE ClientAssumption DEF IInv, TypeOK, CallInv, FailureIsEvidenced, Tripped,
        Degraded, Answered, breakerVars, callVars
<1>1. ASSUME NEW t \in Threads, Start(t) PROVE (CallInv /\ FailureIsEvidenced)'
  BY <1>1 DEF Start
<1>2. ASSUME NEW t \in Threads, Admit(t) PROVE (CallInv /\ FailureIsEvidenced)'
  BY <1>2 DEF Admit
<1>3. ASSUME NEW t \in Threads, Refuse(t) PROVE (CallInv /\ FailureIsEvidenced)'
  BY <1>3 DEF Refuse
<1>4. ASSUME NEW t \in Threads, Retry(t) PROVE (CallInv /\ FailureIsEvidenced)'
  BY <1>4 DEF Retry
<1>5. ASSUME NEW t \in Threads, Exhaust(t) PROVE (CallInv /\ FailureIsEvidenced)'
  BY <1>5 DEF Exhaust
<1>6. ASSUME NEW t \in Threads, Reply(t) PROVE (CallInv /\ FailureIsEvidenced)'
  BY <1>6 DEF Reply
<1>7. ASSUME NEW t \in Threads, Return(t) PROVE (CallInv /\ FailureIsEvidenced)'
  BY <1>7 DEF Return
<1>8. ASSUME NEW t \in Threads, Degrade(t) PROVE (CallInv /\ FailureIsEvidenced)'
  <2>1. CallInv'
    BY <1>8 DEF Degrade
  <2>2. recorded'[t] = Emits(t)
    BY <1>8 DEF Degrade
  <2>3. outcome[t] = "transient" => recorded'[t]
    BY <2>2 DEF Emits
  <2>4. (answer'[t] \in Degraded /\ attempts'[t] = MaxAttempts)
          => recorded'[t] \/ Tripped(t)'
    BY <1>8, <2>3 DEF Degrade
  <2>5. ASSUME NEW u \in Threads, u # t
        PROVE  /\ answer'[u] = answer[u] /\ attempts'[u] = attempts[u]
               /\ recorded'[u] = recorded[u] /\ outcome'[u] = outcome[u]
    BY <1>8, <2>5 DEF Degrade
  <2> QED
    BY <2>1, <2>4, <2>5
<1>9. CASE DependencyFails \/ DependencyRecovers \/ Cool
  BY <1>9 DEF DependencyFails, DependencyRecovers, Cool
<1>10. CASE UNCHANGED vars
  BY <1>10 DEF vars
<1> QED
  BY <1>1, <1>2, <1>3, <1>4, <1>5, <1>6, <1>7, <1>8, <1>9, <1>10
     DEF Next, CallStep

LEMMA StepCounting == IInv /\ [Next]_vars => Counting'
<1> SUFFICES ASSUME IInv, [Next]_vars PROVE Counting'
  OBVIOUS
<1> USE ClientAssumption DEF IInv, TypeOK, BreakerStates, Counting, InFlight,
        LoneTrial, CallInv, breakerVars, callVars
<1>1. ASSUME NEW t \in Threads, Start(t) PROVE Counting'
  BY <1>1 DEF Start
<1>2. ASSUME NEW t \in Threads, Admit(t) PROVE Counting'
  BY <1>2 DEF Admit
<1>3. ASSUME NEW t \in Threads, Refuse(t) PROVE Counting'
  BY <1>3 DEF Refuse
<1>4. ASSUME NEW t \in Threads, Retry(t) PROVE Counting'
  BY <1>4 DEF Retry
<1>5. ASSUME NEW t \in Threads, Exhaust(t) PROVE Counting'
  <2>1. CASE Tripping
    BY <1>5, <2>1 DEF Exhaust, Trip, Tripping, CountFailure
  <2>2. CASE ~Tripping
    <3>1. /\ breaker' = "closed" /\ holder' = NoThread
          /\ counter' = counter + 1 /\ counter' < FailMax
          /\ attempts[t] + 1 = MaxAttempts
          /\ strikes' = counter * MaxAttempts + attempts[t] + 1
      BY <1>5, <2>2 DEF Exhaust, Tripping, CountFailure
    <3>2. strikes' = (counter + 1) * MaxAttempts
      BY <3>1, OneMoreRequest
    <3> QED
      BY <3>1, <3>2
  <2> QED
    BY <2>1, <2>2
<1>6. ASSUME NEW t \in Threads, Reply(t) PROVE Counting'
  BY <1>6 DEF Reply, Succeed
<1>7. ASSUME NEW t \in Threads, Return(t) \/ Degrade(t) PROVE Counting'
  BY <1>7 DEF Return, Degrade
<1>8. CASE DependencyFails \/ DependencyRecovers \/ Cool
  BY <1>8 DEF DependencyFails, DependencyRecovers, Cool
<1>9. CASE UNCHANGED vars
  BY <1>9 DEF vars
<1> QED
  BY <1>1, <1>2, <1>3, <1>4, <1>5, <1>6, <1>7, <1>8, <1>9 DEF Next, CallStep

LEMMA InvariantHolds == Spec => []IInv
<1>1. IInv /\ [Next]_vars => IInv'
  BY StepType, StepTrial, StepCall, StepCounting DEF IInv
<1> QED
  BY InitIInv, <1>1, PTL DEF Spec
-----------------------------------------------------------------------------
(* What follows for the properties of ResilientClient.                     *)

\* Every variable keeps its type, whatever the threads do.
THEOREM TypeCorrect == Spec => []TypeOK
BY InvariantHolds, PTL DEF IInv

\* At most one thread is on the trial request, and only after the cooldown.
THEOREM TrialIsAlone == Spec => []LoneTrial
BY InvariantHolds, PTL DEF IInv

\* The last circuit event on the stream is always the breaker's state.
THEOREM StreamIsTruthful == Spec => []StreamTellsState
BY InvariantHolds, PTL DEF IInv

\* An exhausted request leaves a DEPENDENCY_FAILURE or its own CIRCUIT_OPENED.
THEOREM ExhaustionLeavesEvidence == Spec => []FailureIsEvidenced
BY InvariantHolds, PTL DEF IInv

\* No GET leaves the process while the breaker is open: the thread that makes
\* it holds the lock, and the lock is never held with the breaker open.
LEMMA AttemptNeedsLiveBreaker ==
  IInv /\ [Next]_vars =>
    ((\E t \in Threads : attempts'[t] > attempts[t]) => breaker # "open")
<1> SUFFICES ASSUME IInv, [Next]_vars, breaker = "open",
                    NEW u \in Threads, attempts'[u] > attempts[u]
             PROVE  FALSE
  OBVIOUS
<1> USE ClientAssumption DEF IInv, TypeOK, breakerVars, callVars
<1>1. \A t \in Threads : pc[t] # "call"
  BY DEF LoneTrial
<1>2. ASSUME NEW t \in Threads, CallStep(t) PROVE FALSE
  <2>1. CASE Start(t)
    BY <2>1 DEF Start
  <2>2. CASE Admit(t) \/ Refuse(t)
    BY <2>2 DEF Admit, Refuse
  <2>3. CASE Retry(t) \/ Exhaust(t) \/ Reply(t)
    BY <1>1, <2>3 DEF Retry, Exhaust, Reply
  <2>4. CASE Return(t) \/ Degrade(t)
    BY <2>4 DEF Return, Degrade
  <2> QED
    BY <1>2, <2>1, <2>2, <2>3, <2>4 DEF CallStep
<1>3. CASE DependencyFails \/ DependencyRecovers \/ Cool \/ UNCHANGED vars
  BY <1>3 DEF DependencyFails, DependencyRecovers, Cool, vars
<1> QED
  BY <1>2, <1>3 DEF Next

THEOREM OpenMeansNoNetwork == Spec => NoNetworkWhileOpen
BY InvariantHolds, AttemptNeedsLiveBreaker, PTL DEF Spec, NoNetworkWhileOpen

\* A closed breaker opens on failed GET number FailMax * MaxAttempts in a row,
\* never earlier, never later.
LEMMA StepBudget ==
  IInv /\ [Next]_vars =>
    (breaker = "closed" =>
       /\ breaker' = "open" => strikes + 1 = FailMax * MaxAttempts
       /\ strikes' > strikes => strikes + 1 < FailMax * MaxAttempts)
<1> DEFINE Budget ==
      /\ breaker' = "open" => strikes + 1 = FailMax * MaxAttempts
      /\ strikes' > strikes => strikes + 1 < FailMax * MaxAttempts
<1> SUFFICES ASSUME IInv, [Next]_vars, breaker = "closed" PROVE Budget
  OBVIOUS
<1> USE ClientAssumption DEF IInv, TypeOK, breakerVars, callVars
<1>1. ASSUME NEW t \in Threads, pc[t] = "call"
      PROVE  /\ attempts[t] + 1 <= MaxAttempts
             /\ strikes = counter * MaxAttempts + attempts[t]
             /\ (counter + 1) * MaxAttempts = counter * MaxAttempts + MaxAttempts
             /\ (counter + 1) * MaxAttempts <= FailMax * MaxAttempts
  <2>1. attempts[t] + 1 <= MaxAttempts /\ counter + 1 <= FailMax
    BY <1>1 DEF CallInv, Counting
  <2>2. strikes = counter * MaxAttempts + attempts[t]
    BY <1>1 DEF Counting, InFlight, LoneTrial
  <2>3. (counter + 1) * MaxAttempts = counter * MaxAttempts + MaxAttempts
    BY OneMoreRequest
  <2>4. (counter + 1) * MaxAttempts <= FailMax * MaxAttempts
    BY <2>1, FewerRequests
  <2> QED
    BY <2>1, <2>2, <2>3, <2>4
<1>2. ASSUME NEW t \in Threads, Retry(t) PROVE Budget
  <2>1. /\ breaker' = "closed"
        /\ pc[t] = "call"
        /\ attempts[t] + 1 < MaxAttempts
    BY <1>2 DEF Retry
  <2>2. counter * MaxAttempts \in Nat /\ FailMax * MaxAttempts \in Nat
    OBVIOUS
  <2> QED
    BY <1>1, <2>1, <2>2
<1>3. ASSUME NEW t \in Threads, Exhaust(t) PROVE Budget
  <2>1. pc[t] = "call" /\ attempts[t] + 1 >= MaxAttempts
    BY <1>3 DEF Exhaust
  <2>2. strikes + 1 = (counter + 1) * MaxAttempts
    BY <1>1, <2>1
  <2>3. CASE Tripping
    <3>1. strikes' = 0 /\ counter + 1 = FailMax
      BY <1>3, <2>3 DEF Exhaust, Trip, Tripping, Counting
    <3> QED
      BY <2>2, <3>1
  <2>4. CASE ~Tripping
    <3>1. breaker' = "closed" /\ counter + 2 <= FailMax
      BY <1>3, <2>4 DEF Exhaust, Tripping
    <3>2. (counter + 2) * MaxAttempts = (counter + 1) * MaxAttempts + MaxAttempts
      BY OneMoreRequest
    <3>3. (counter + 2) * MaxAttempts <= FailMax * MaxAttempts
      BY <3>1, FewerRequests
    <3> QED
      BY <2>2, <3>1, <3>2, <3>3
  <2> QED
    BY <2>3, <2>4
<1>4. ASSUME NEW t \in Threads, Reply(t) PROVE Budget
  BY <1>4 DEF Reply, Succeed
<1>5. ASSUME NEW t \in Threads,
             Start(t) \/ Admit(t) \/ Refuse(t) \/ Return(t) \/ Degrade(t)
      PROVE  Budget
  BY <1>5 DEF Start, Admit, Refuse, Return, Degrade
<1>6. CASE DependencyFails \/ DependencyRecovers \/ Cool \/ UNCHANGED vars
  BY <1>6 DEF DependencyFails, DependencyRecovers, Cool, vars
<1> HIDE DEF Budget
<1> QED
  BY <1>2, <1>3, <1>4, <1>5, <1>6 DEF Next, CallStep

THEOREM BudgetIsExact == Spec => FaultBudget
BY InvariantHolds, StepBudget, PTL DEF Spec, FaultBudget
-----------------------------------------------------------------------------
(* The client implements the abstract breaker: a GET is a step of nobody   *)
(* until it answers or exhausts its request.                               *)

LEMMA StepRefines == IInv /\ [Next]_vars => [Breaker!Next]_(Breaker!cbVars)
<1> SUFFICES ASSUME IInv, [Next]_vars PROVE [Breaker!Next]_(Breaker!cbVars)
  OBVIOUS
<1> USE ClientAssumption DEF IInv, TypeOK, breakerVars, callVars, Breaker!cbVars
<1>1. ASSUME NEW t \in Threads, Exhaust(t), Tripping
      PROVE  Breaker!RequestTrips \/ Breaker!TrialFailed
  <2>1. Trip /\ pc[t] = "call" /\ CountFailure
    BY <1>1, Zenon DEF Exhaust
  <2>2. holder = t
    BY <2>1 DEF LoneTrial
  <2>3. breaker # "open"
    BY <2>2 DEF LoneTrial
  <2>4. counter' = FailMax
    BY <1>1, <2>1 DEF Counting, Tripping, CountFailure
  <2>5. Breaker!Open
    BY <2>1, <2>4 DEF Breaker!Open, Trip
  <2>6. CASE breaker = "closed"
    BY <1>1, <2>5, <2>6 DEF Breaker!RequestTrips, Counting, Tripping
  <2>7. CASE breaker = "half_open"
    BY <2>5, <2>7 DEF Breaker!TrialFailed, LoneTrial
  <2> QED
    BY <2>3, <2>6, <2>7 DEF BreakerStates
<1>2. ASSUME NEW t \in Threads, Exhaust(t), ~Tripping
      PROVE  Breaker!RequestFailed
  <2>1. /\ UNCHANGED <<breaker, cooled, circuitEvent>>
        /\ pc[t] = "call"
        /\ CountFailure
    BY <1>2, Zenon DEF Exhaust
  <2>2. breaker = "closed"
    BY <1>2, <2>1 DEF LoneTrial, BreakerStates, Tripping
  <2> QED
    BY <1>2, <2>1, <2>2 DEF Breaker!RequestFailed, Counting, Tripping, CountFailure
<1>3. ASSUME NEW t \in Threads, Reply(t) PROVE Breaker!RequestAnswered
  <2>1. breaker # "open"
    BY <1>3 DEF Reply, LoneTrial
  <2> QED
    BY <1>3, <2>1 DEF Reply, Succeed, LoneTrial, StreamTellsState, BreakerStates,
                      Breaker!RequestAnswered, Breaker!Admissible
<1>4. ASSUME NEW t \in Threads,
             Start(t) \/ Admit(t) \/ Refuse(t) \/ Retry(t) \/ Return(t) \/ Degrade(t)
      PROVE  UNCHANGED Breaker!cbVars
  BY <1>4 DEF Start, Admit, Refuse, Retry, Return, Degrade, BreakerStates
<1>5. CASE Cool
  BY <1>5 DEF Cool, Breaker!Next, Breaker!Cool
<1>6. CASE DependencyFails \/ DependencyRecovers \/ UNCHANGED vars
  BY <1>6 DEF DependencyFails, DependencyRecovers, vars
<1> QED
  BY <1>1, <1>2, <1>3, <1>4, <1>5, <1>6 DEF Next, CallStep, Breaker!Next

\* Seen from outside, threads, lock and retries included, the client is one
\* circuit breaker in front of its dependency.
THEOREM ClientImplementsBreaker == Spec => ImplementsBreaker
<1>1. Init => Breaker!Init
  BY DEF Init, Breaker!Init
<1> QED
  BY <1>1, InvariantHolds, StepRefines, PTL DEF Spec, ImplementsBreaker, Breaker!Spec
-----------------------------------------------------------------------------
(* The registry.                                                           *)

\* Without its agent, Consul lists nobody, and it polls only who is listed.
AgentInv(s) ==
  /\ ~agent => entry[s] = "none"
  /\ entry[s] = "none" => poll[s] = "none"

\* The histories measure what they say.
HistoryInv(s) ==
  /\ Healthy(s) => unseen[s] = 0
  /\ ~Healthy(s) => well[s] = 0
  /\ dead[s] # 0 => container[s] = "stopped"

\* A poll under way was answered after it was sent, by what the service was;
\* nothing is due meanwhile, and no time is counted outside a poll.
AnswerInv(s) ==
  /\ poll[s] = "none" => since[s] = 0
  /\ poll[s] # "none" => due[s] = 0
  /\ poll[s] = "well" => unseen[s] <= since[s]
  /\ poll[s] = "ill" => well[s] <= since[s]
  /\ poll[s] = "well" /\ dead[s] # 0 => dead[s] - 1 <= since[s]

\* What is listed wrongly is polled before it gets too old.
PollInv(s) ==
  /\ entry[s] = "passing" => unseen[s] + due[s] <= Timeout + Interval + since[s]
  /\ entry[s] = "critical" => well[s] + due[s] <= Timeout + Interval + since[s]

\* The entry that a dead service leaves is polled, and then removed, in time; a
\* service whose deregistration went through has none.
RemovalInv(s) ==
  /\ container[s] = "stopped" /\ dead[s] = 0 => entry[s] = "none"
  /\ dead[s] # 0 /\ entry[s] = "passing" =>
       dead[s] - 1 + due[s] <= Timeout + Interval + since[s]
  /\ dead[s] # 0 /\ entry[s] = "critical" => dead[s] - 1 <= Stale + critical[s]

ServiceInv(s) == AgentInv(s) /\ HistoryInv(s) /\ AnswerInv(s) /\ PollInv(s) /\ RemovalInv(s)

RegistryInv == RegistryTypeOK /\ AlarmIsRecent /\ \A s \in Services : ServiceInv(s)
-----------------------------------------------------------------------------
LEMMA InitRegistryInv == RegistryInit => RegistryInv
<1> SUFFICES ASSUME RegistryInit PROVE RegistryInv
  OBVIOUS
<1> USE RegistryAssumption DEF RegistryInit
<1>1. RegistryTypeOK
  <2>1. database \in [Services -> BOOLEAN]
    BY Zenon
  <2> QED
    BY <2>1 DEF RegistryTypeOK, Late, Linger, Stale
<1>2. AlarmIsRecent /\ \A s \in Services : ServiceInv(s)
  BY DEF AlarmIsRecent, ServiceInv, AgentInv, HistoryInv, AnswerInv, PollInv, RemovalInv, Healthy
<1> QED
  BY <1>1, <1>2 DEF RegistryInv
-----------------------------------------------------------------------------
(* Every step preserves it.                                                *)

\* Ages stop just above their bounds.
LEMMA OlderIsBounded ==
  ASSUME NEW bound \in Nat, NEW age \in 0..bound + 1
  PROVE  /\ Older(age, bound) \in 0..bound + 1
         /\ Older(age, bound) <= age + 1
BY DEF Older

\* The bounds are natural numbers.
LEMMA BoundsAreNat ==
  /\ Late \in Nat /\ Stale \in Nat /\ Linger \in Nat
  /\ Stale = Timeout + Interval + Timeout /\ Linger = Stale + Late
BY RegistryAssumption DEF Late, Stale, Linger

\* Of the registry's steps, six are the service's, and note its health at most.
LEMMA NoteHealthKeeps ==
  ASSUME RegistryTypeOK, NEW s \in Services, NEW before \in BOOLEAN, NEW after \in BOOLEAN,
         NoteHealth(s, before, after)
  PROVE  /\ unseen' \in [Services -> 0..Stale + 1]
         /\ well' \in [Services -> 0..Stale + 1]
         /\ \A q \in Services : unseen'[q] <= unseen[q] /\ well'[q] <= well[q]
         /\ \A q \in Services \ {s} : unseen'[q] = unseen[q] /\ well'[q] = well[q]
         /\ before \/ after => unseen'[s] = 0
         /\ ~(before /\ after) => well'[s] = 0
BY BoundsAreNat DEF RegistryTypeOK, NoteHealth

\* What a watch that begins or ends leaves of Consul's state.
LEMMA WatchKeeps ==
  ASSUME RegistryTypeOK, NEW s \in Services, NEW status \in {"none", "critical", "passing"},
         NEW first \in 0..Interval, Watch(s, status, first)
  PROVE  /\ entry' \in [Services -> {"none", "critical", "passing"}]
         /\ due' \in [Services -> 0..Interval]
         /\ poll' \in [Services -> {"none", "sent", "well", "ill"}]
         /\ since' \in [Services -> 0..Timeout]
         /\ critical' \in [Services -> 0..Late]
         /\ entry'[s] = status /\ due'[s] = first /\ poll'[s] = "none" /\ since'[s] = 0
         /\ critical'[s] = 0
         /\ \A q \in Services \ {s} :
              /\ entry'[q] = entry[q] /\ due'[q] = due[q] /\ poll'[q] = poll[q]
              /\ since'[q] = since[q] /\ critical'[q] = critical[q]
BY RegistryAssumption, BoundsAreNat DEF RegistryTypeOK, Watch

\* The acting service changes nobody else's state.
Kept(q) ==
  /\ container'[q] = container[q] /\ (database'[q] <=> database[q])
  /\ entry'[q] = entry[q] /\ due'[q] = due[q] /\ poll'[q] = poll[q]
  /\ since'[q] = since[q] /\ critical'[q] = critical[q]
  /\ unseen'[q] = unseen[q] /\ well'[q] = well[q] /\ dead'[q] = dead[q]

LEMMA KeptKeeps ==
  ASSUME NEW q \in Services, ServiceInv(q), Kept(q), agent' = agent
  PROVE  ServiceInv(q)'
BY DEF ServiceInv, AgentInv, HistoryInv, AnswerInv, PollInv, RemovalInv, Healthy, Kept

\* The service's own steps: its container, its registration, its database.
LEMMA StepLife ==
  ASSUME RegistryInv, NEW s \in Services, Life(s)
  PROVE  RegistryInv'
<1> USE RegistryAssumption, BoundsAreNat DEF Move
<1>1. RegistryTypeOK /\ AlarmIsRecent /\ ServiceInv(s) /\ Healthy(s) \in BOOLEAN
  BY DEF RegistryInv, Healthy, RegistryTypeOK
\* It suffices to look at the service and the types.
<1>2. ASSUME RegistryTypeOK', ServiceInv(s)', agent' = agent, reported' = reported,
             \A q \in Services : well'[q] <= well[q],
             \A q \in Services \ {s} : Kept(q)
      PROVE  RegistryInv'
  <2>1. \A q \in Services : ServiceInv(q)'
    BY <1>2, KeptKeeps DEF RegistryInv
  <2>2. AlarmIsRecent'
    BY <1>1, <1>2 DEF AlarmIsRecent, RegistryTypeOK
  <2> QED
    BY <1>2, <2>1, <2>2 DEF RegistryInv
<1>3. CASE StartContainer(s)
  <2>1. RegistryTypeOK'
    BY <1>1, <1>3 DEF StartContainer, RegistryTypeOK, consul
  <2>2. \A q \in Services \ {s} : Kept(q)
    BY <1>1, <1>3 DEF StartContainer, RegistryTypeOK, consul, Kept
  <2>3. ServiceInv(s)'
    BY <1>1, <1>3 DEF StartContainer, RegistryTypeOK, consul, ServiceInv, AgentInv, HistoryInv,
                      AnswerInv, PollInv, RemovalInv, Healthy
  <2> QED
    BY <1>1, <1>2, <1>3, <2>1, <2>2, <2>3 DEF StartContainer, RegistryTypeOK
<1>4. CASE Register(s)
  <2>1. /\ container[s] = "registering" /\ container' = [container EXCEPT ![s] = "starting"]
        /\ UNCHANGED <<database, agent, reported, well, dead>>
        /\ well[s] = 0 /\ dead[s] = 0
    BY <1>1, <1>4 DEF Register, ServiceInv, HistoryInv, Healthy
  <2>2. CASE UNCHANGED <<consul, unseen>>
    <3>1. RegistryTypeOK'
      BY <1>1, <2>1, <2>2 DEF RegistryTypeOK, consul
    <3>2. \A q \in Services \ {s} : Kept(q)
      BY <1>1, <2>1, <2>2 DEF RegistryTypeOK, consul, Kept
    <3>3. ServiceInv(s)'
      BY <1>1, <2>1, <2>2 DEF RegistryTypeOK, consul, ServiceInv, AgentInv, HistoryInv,
                              AnswerInv, PollInv, RemovalInv, Healthy
    <3> QED
      BY <1>1, <1>2, <2>1, <3>1, <3>2, <3>3 DEF RegistryTypeOK
  <2>3. CASE agent /\ ~UNCHANGED <<consul, unseen>>
    <3>1. PICK first \in 0..Interval, status \in {"critical", "passing"} : Watch(s, status, first)
      BY <1>4, <2>3 DEF Register
    <3>2. unseen' = [unseen EXCEPT ![s] = 0]
      BY <1>4, <2>3 DEF Register
    <3>3. /\ entry' \in [Services -> {"none", "critical", "passing"}]
          /\ due' \in [Services -> 0..Interval]
          /\ poll' \in [Services -> {"none", "sent", "well", "ill"}]
          /\ since' \in [Services -> 0..Timeout]
          /\ critical' \in [Services -> 0..Late]
          /\ entry'[s] \in {"critical", "passing"} /\ due'[s] \in 0..Interval
          /\ poll'[s] = "none" /\ since'[s] = 0 /\ critical'[s] = 0
          /\ \A q \in Services \ {s} :
               /\ entry'[q] = entry[q] /\ due'[q] = due[q] /\ poll'[q] = poll[q]
               /\ since'[q] = since[q] /\ critical'[q] = critical[q]
      BY <1>1, <3>1, WatchKeeps
    <3>4. RegistryTypeOK'
      BY <1>1, <2>1, <3>2, <3>3 DEF RegistryTypeOK
    <3>5. \A q \in Services \ {s} : Kept(q)
      BY <1>1, <2>1, <3>2, <3>3 DEF RegistryTypeOK, Kept
    <3>6. ServiceInv(s)'
      BY <1>1, <2>1, <2>3, <3>2, <3>3 DEF RegistryTypeOK, ServiceInv, AgentInv, HistoryInv,
                                         AnswerInv, PollInv, RemovalInv, Healthy
    <3> QED
      BY <1>1, <1>2, <2>1, <3>4, <3>5, <3>6 DEF RegistryTypeOK
  <2> QED
    BY <1>4, <2>2, <2>3 DEF Register
<1>5. CASE Deregister(s)
  <2>1. /\ container[s] = "draining" /\ container' = [container EXCEPT ![s] = "stopped"]
        /\ UNCHANGED <<database, agent, reported, unseen, well>>
        /\ dead[s] = 0
    BY <1>1, <1>5 DEF Deregister, ServiceInv, HistoryInv
  <2>2. CASE dead' = [dead EXCEPT ![s] = 1] /\ UNCHANGED consul
    <3>1. RegistryTypeOK'
      BY <1>1, <2>1, <2>2 DEF RegistryTypeOK, consul
    <3>2. \A q \in Services \ {s} : Kept(q)
      BY <1>1, <2>1, <2>2 DEF RegistryTypeOK, consul, Kept
    <3>3. ServiceInv(s)'
      BY <1>1, <2>1, <2>2 DEF RegistryTypeOK, consul, ServiceInv, AgentInv, HistoryInv,
                              AnswerInv, PollInv, RemovalInv, Healthy
    <3> QED
      BY <1>1, <1>2, <2>1, <3>1, <3>2, <3>3 DEF RegistryTypeOK
  <2>3. CASE Watch(s, "none", 0) /\ UNCHANGED dead
    <3>1. /\ entry' \in [Services -> {"none", "critical", "passing"}]
          /\ due' \in [Services -> 0..Interval]
          /\ poll' \in [Services -> {"none", "sent", "well", "ill"}]
          /\ since' \in [Services -> 0..Timeout]
          /\ critical' \in [Services -> 0..Late]
          /\ entry'[s] = "none" /\ due'[s] = 0 /\ poll'[s] = "none" /\ since'[s] = 0
          /\ \A q \in Services \ {s} :
               /\ entry'[q] = entry[q] /\ due'[q] = due[q] /\ poll'[q] = poll[q]
               /\ since'[q] = since[q] /\ critical'[q] = critical[q]
      BY <1>1, <2>3, WatchKeeps
    <3>2. RegistryTypeOK'
      BY <1>1, <2>1, <2>3, <3>1 DEF RegistryTypeOK
    <3>3. \A q \in Services \ {s} : Kept(q)
      BY <1>1, <2>1, <2>3, <3>1 DEF RegistryTypeOK, Kept
    <3>4. ServiceInv(s)'
      BY <1>1, <2>1, <2>3, <3>1 DEF RegistryTypeOK, ServiceInv, AgentInv, HistoryInv,
                                   AnswerInv, PollInv, RemovalInv, Healthy
    <3> QED
      BY <1>1, <1>2, <2>1, <3>2, <3>3, <3>4 DEF RegistryTypeOK
  <2> QED
    BY <1>5, <2>2, <2>3 DEF Deregister
\* Serve, Stop, Kill and the database only note the health, and Kill the death.
<1>6. ASSUME NEW before \in BOOLEAN, NEW after \in BOOLEAN, NoteHealth(s, before, after),
             before <=> Healthy(s), after <=> Healthy(s)', ~(before /\ after),
             container' \in [Services ->
               {"stopped", "registering", "starting", "serving", "draining"}],
             database' \in [Services -> BOOLEAN],
             \A q \in Services \ {s} :
               container'[q] = container[q] /\ (database'[q] <=> database[q]),
             UNCHANGED <<agent, consul, reported>>,
             \/ container[s] # "stopped" /\ container'[s] = "stopped"
                /\ dead' = [dead EXCEPT ![s] = 1]
             \/ container'[s] # "stopped" /\ container[s] # "stopped" /\ UNCHANGED dead
             \/ container'[s] = container[s] /\ UNCHANGED dead
      PROVE  RegistryInv'
  <2>1. /\ unseen' \in [Services -> 0..Stale + 1]
        /\ well' \in [Services -> 0..Stale + 1]
        /\ \A q \in Services : unseen'[q] <= unseen[q] /\ well'[q] <= well[q]
        /\ \A q \in Services \ {s} : unseen'[q] = unseen[q] /\ well'[q] = well[q]
        /\ after => unseen'[s] = 0
        /\ well'[s] = 0
    BY <1>1, <1>6, NoteHealthKeeps
  <2>2. dead' \in [Services -> 0..Linger + 2]
    BY <1>1, <1>6 DEF RegistryTypeOK
  <2>3. RegistryTypeOK'
    BY <1>1, <1>6, <2>1, <2>2 DEF RegistryTypeOK, consul
  <2>4. \A q \in Services \ {s} : Kept(q)
    BY <1>1, <1>6, <2>1 DEF RegistryTypeOK, consul, Kept
  <2>5. /\ unseen'[s] \in Nat /\ unseen[s] \in Nat /\ well[s] \in Nat /\ since[s] \in Nat
        /\ due[s] \in 0..Interval /\ critical[s] \in Nat /\ dead[s] \in Nat
        /\ entry'[s] = entry[s] /\ due'[s] = due[s] /\ poll'[s] = poll[s]
        /\ since'[s] = since[s] /\ critical'[s] = critical[s]
    BY <1>1, <1>6, <2>1 DEF RegistryTypeOK, consul
  <2>6. (AgentInv(s) /\ HistoryInv(s))'
    BY <1>1, <1>6, <2>1, <2>5 DEF RegistryTypeOK, ServiceInv, AgentInv, HistoryInv
  <2>7. (AnswerInv(s) /\ PollInv(s))'
    <3>1. dead'[s] = dead[s] \/ dead'[s] = 1
      BY <1>1, <1>6 DEF RegistryTypeOK
    <3> QED
      BY <1>1, <2>1, <2>5, <3>1 DEF ServiceInv, AnswerInv, PollInv
  <2>8. RemovalInv(s)'
    <3>1. \/ dead'[s] = 1
          \/ container'[s] # "stopped" /\ dead'[s] = 0
          \/ container'[s] = container[s] /\ dead'[s] = dead[s]
      BY <1>1, <1>6 DEF RegistryTypeOK, ServiceInv, HistoryInv
    <3> QED
      BY <1>1, <2>5, <3>1 DEF ServiceInv, RemovalInv
  <2> QED
    BY <1>2, <1>6, <2>1, <2>3, <2>4, <2>6, <2>7, <2>8 DEF ServiceInv
<1>7. CASE Serve(s)
  <2>1. /\ NoteHealth(s, FALSE, database[s]) /\ database[s] \in BOOLEAN /\ ~Healthy(s)
        /\ database[s] <=> Healthy(s)'
    BY <1>1, <1>7 DEF Serve, Healthy, RegistryTypeOK
  <2> QED
    BY <1>1, <1>6, <1>7, <2>1 DEF Serve, RegistryTypeOK
<1>8. CASE Stop(s)
  <2>1. NoteHealth(s, Healthy(s), FALSE) /\ ~Healthy(s)'
    BY <1>1, <1>8 DEF Stop, Healthy, RegistryTypeOK
  <2> QED
    BY <1>1, <1>6, <1>8, <2>1 DEF Stop, RegistryTypeOK
<1>9. CASE Kill(s)
  <2>1. NoteHealth(s, Healthy(s), FALSE) /\ ~Healthy(s)'
    BY <1>1, <1>9 DEF Kill, Healthy, RegistryTypeOK
  <2> QED
    BY <1>1, <1>6, <1>9, <2>1 DEF Kill, RegistryTypeOK
<1>10. CASE DatabaseFlips(s)
  <2> DEFINE after == container[s] = "serving" /\ ~database[s]
  <2>1. database' \in [Services -> BOOLEAN] /\ (database'[s] <=> ~database[s])
    <3>1. (~database[s]) \in BOOLEAN
      OBVIOUS
    <3>2. database' = [database EXCEPT ![s] = ~database[s]] /\ database \in [Services -> BOOLEAN]
      BY <1>1, <1>10 DEF DatabaseFlips, RegistryTypeOK
    <3> QED
      BY <3>1, <3>2, Zenon
  <2>2. \A q \in Services \ {s} : database'[q] <=> database[q]
    BY <1>1, <1>10 DEF DatabaseFlips, RegistryTypeOK
  <2>3. NoteHealth(s, Healthy(s), after) /\ after \in BOOLEAN /\ UNCHANGED container
    BY <1>10 DEF DatabaseFlips
  <2>4. (after <=> Healthy(s)') /\ ~(Healthy(s) /\ after)
    BY <2>1, <2>3 DEF Healthy
  <2>5. UNCHANGED <<agent, consul, reported, dead>>
    BY <1>10 DEF DatabaseFlips
  <2> HIDE DEF after
  <2> QED
    BY <1>1, <1>6, <2>1, <2>2, <2>3, <2>4, <2>5 DEF RegistryTypeOK
<1> QED
  BY <1>3, <1>4, <1>5, <1>7, <1>8, <1>9, <1>10 DEF Life

\* Consul's steps for one service: its polls and its removals.
LEMMA StepConsul ==
  ASSUME RegistryInv, NEW s \in Services, Send(s) \/ Answer(s) \/ ComesIn(s) \/ Remove(s)
  PROVE  RegistryInv'
<1> USE RegistryAssumption, BoundsAreNat
<1>1. RegistryTypeOK /\ AlarmIsRecent /\ ServiceInv(s) /\ Healthy(s) \in BOOLEAN
  BY DEF RegistryInv, Healthy, RegistryTypeOK
<1>2. UNCHANGED <<container, database, agent, reported, unseen, well, dead>>
  BY DEF Send, Answer, ComesIn, Land, Remove, history
<1>3. ASSUME RegistryTypeOK', ServiceInv(s)', \A q \in Services \ {s} : Kept(q)
      PROVE  RegistryInv'
  <2>1. \A q \in Services : ServiceInv(q)'
    BY <1>2, <1>3, KeptKeeps DEF RegistryInv
  <2>2. AlarmIsRecent'
    BY <1>1, <1>2 DEF AlarmIsRecent
  <2> QED
    BY <1>3, <2>1, <2>2 DEF RegistryInv
<1>4. CASE Send(s)
  <2>1. RegistryTypeOK'
    BY <1>1, <1>2, <1>4 DEF Send, RegistryTypeOK
  <2>2. \A q \in Services \ {s} : Kept(q)
    BY <1>1, <1>2, <1>4 DEF Send, RegistryTypeOK, Kept
  <2>3. ServiceInv(s)'
    BY <1>1, <1>2, <1>4 DEF Send, RegistryTypeOK, ServiceInv, AgentInv, HistoryInv, AnswerInv,
                            PollInv, RemovalInv, Healthy
  <2> QED
    BY <1>3, <2>1, <2>2, <2>3
<1>5. CASE Answer(s)
  <2>1. RegistryTypeOK'
    BY <1>1, <1>2, <1>5 DEF Answer, RegistryTypeOK
  <2>2. \A q \in Services \ {s} : Kept(q)
    BY <1>1, <1>2, <1>5 DEF Answer, RegistryTypeOK, Kept
  <2>3. ServiceInv(s)'
    BY <1>1, <1>2, <1>5 DEF Answer, RegistryTypeOK, ServiceInv, AgentInv, HistoryInv, AnswerInv,
                            PollInv, RemovalInv, Healthy
  <2> QED
    BY <1>3, <2>1, <2>2, <2>3
<1>6. CASE ComesIn(s)
  <2>1. PICK status \in {"critical", "passing"} :
          Land(s, status) /\ (status = "passing" <=> poll[s] = "well")
    BY <1>6 DEF ComesIn
  <2>2. RegistryTypeOK'
    BY <1>1, <1>2, <2>1 DEF Land, RegistryTypeOK
  <2>3. \A q \in Services \ {s} : Kept(q)
    BY <1>1, <1>2, <2>1 DEF Land, RegistryTypeOK, Kept
  <2>4. /\ poll[s] \in {"well", "ill"} /\ entry'[s] = status /\ due'[s] = Interval
        /\ poll'[s] = "none" /\ since'[s] = 0
        /\ critical'[s] = IF status = entry[s] THEN critical[s] ELSE 0
    BY <1>1, <2>1 DEF Land, RegistryTypeOK
  <2>5. /\ unseen[s] \in Nat /\ well[s] \in Nat /\ since[s] \in 0..Timeout /\ dead[s] \in Nat
        /\ due[s] \in Nat /\ critical[s] \in Nat
        /\ entry[s] \in {"none", "critical", "passing"}
    BY <1>1 DEF RegistryTypeOK
  <2>6. (AgentInv(s) /\ HistoryInv(s) /\ AnswerInv(s))'
    BY <1>1, <1>2, <2>1, <2>4, <2>5 DEF ServiceInv, AgentInv, HistoryInv, AnswerInv, Healthy
  <2>7. PollInv(s)'
    BY <1>1, <1>2, <2>1, <2>4, <2>5 DEF ServiceInv, AnswerInv, PollInv
  <2>8. RemovalInv(s)'
    BY <1>1, <1>2, <2>1, <2>4, <2>5 DEF ServiceInv, AgentInv, AnswerInv, RemovalInv
  <2> QED
    BY <1>3, <2>2, <2>3, <2>6, <2>7, <2>8 DEF ServiceInv
<1>7. CASE Remove(s)
  <2>1. /\ entry' \in [Services -> {"none", "critical", "passing"}]
        /\ due' \in [Services -> 0..Interval]
        /\ poll' \in [Services -> {"none", "sent", "well", "ill"}]
        /\ since' \in [Services -> 0..Timeout]
        /\ critical' \in [Services -> 0..Late]
        /\ entry'[s] = "none" /\ due'[s] = 0 /\ poll'[s] = "none" /\ since'[s] = 0
        /\ \A q \in Services \ {s} :
             /\ entry'[q] = entry[q] /\ due'[q] = due[q] /\ poll'[q] = poll[q]
             /\ since'[q] = since[q] /\ critical'[q] = critical[q]
    BY <1>1, <1>7, WatchKeeps DEF Remove
  <2>2. RegistryTypeOK'
    BY <1>1, <1>2, <2>1 DEF RegistryTypeOK
  <2>3. \A q \in Services \ {s} : Kept(q)
    BY <1>2, <2>1 DEF Kept
  <2>4. ServiceInv(s)'
    BY <1>1, <1>2, <2>1 DEF ServiceInv, AgentInv, HistoryInv, AnswerInv, PollInv, RemovalInv,
                            Healthy
  <2> QED
    BY <1>3, <2>2, <2>3, <2>4
<1> QED
  BY <1>4, <1>5, <1>6, <1>7

\* The agent, the collector and time.
LEMMA StepOthers ==
  ASSUME RegistryInv, AgentFlips \/ Collect \/ Tick \/ UNCHANGED registryVars
  PROVE  RegistryInv'
<1> USE RegistryAssumption, BoundsAreNat
<1>1. RegistryTypeOK /\ AlarmIsRecent /\ \A s \in Services : ServiceInv(s) /\ Healthy(s) \in BOOLEAN
  BY DEF RegistryInv, Healthy, RegistryTypeOK
<1>2. CASE AgentFlips
  <2>1. agent' \in BOOLEAN
    BY <1>1, <1>2, Zenon DEF AgentFlips, RegistryTypeOK
  <2>2. RegistryTypeOK'
    BY <1>1, <1>2, <2>1 DEF AgentFlips, RegistryTypeOK, history
  <2>3. AlarmIsRecent'
    BY <1>1, <1>2 DEF AgentFlips, AlarmIsRecent, history
  <2>4. \A s \in Services : ServiceInv(s)'
    BY <1>1, <1>2 DEF AgentFlips, history, ServiceInv, AgentInv, HistoryInv, AnswerInv, PollInv,
                      RemovalInv, Healthy
  <2> QED
    BY <2>2, <2>3, <2>4 DEF RegistryInv
<1>3. CASE Collect \/ UNCHANGED registryVars
  <2>1. /\ UNCHANGED <<container, database, agent, entry, due, poll, since, critical, unseen, well,
                       dead>>
        /\ \A s \in reported' : s \in reported \/ entry[s] = "critical"
        /\ reported' \subseteq Services
    BY <1>1, <1>3 DEF Collect, registryVars, consul, history, RegistryTypeOK
  <2>2. RegistryTypeOK'
    BY <1>1, <2>1 DEF RegistryTypeOK
  <2>3. \A s \in Services : ServiceInv(s)'
    BY <1>1, <2>1, KeptKeeps DEF Kept
  <2>4. ASSUME NEW s \in reported' PROVE well[s] <= Stale
    <3>1. CASE s \in reported
      BY <1>1, <3>1 DEF AlarmIsRecent
    <3>2. CASE entry[s] = "critical"
      <4>1. s \in Services /\ ServiceInv(s)
        BY <1>1, <2>1
      <4>2. well[s] + due[s] <= Timeout + Interval + since[s]
        BY <3>2, <4>1 DEF ServiceInv, PollInv
      <4>3. well[s] \in Nat /\ due[s] \in Nat /\ since[s] \in 0..Timeout
        BY <1>1, <4>1 DEF RegistryTypeOK
      <4> QED
        BY <4>2, <4>3
    <3> QED
      BY <2>1, <3>1, <3>2
  <2> QED
    BY <2>1, <2>2, <2>3, <2>4 DEF RegistryInv, AlarmIsRecent
<1>4. CASE Tick
  <2>1. UNCHANGED <<container, database, agent, entry, poll>> /\ reported' = {}
    BY <1>4 DEF Tick
  <2>2. ASSUME NEW s \in Services
        PROVE  /\ due'[s] \in 0..Interval /\ since'[s] \in 0..Timeout /\ critical'[s] \in 0..Late
               /\ unseen'[s] \in 0..Stale + 1 /\ well'[s] \in 0..Stale + 1
               /\ dead'[s] \in 0..Linger + 2
               /\ unseen'[s] <= unseen[s] + 1 /\ well'[s] <= well[s] + 1
               /\ Healthy(s) => unseen'[s] = 0
               /\ ~Healthy(s) => well'[s] = 0
               /\ dead'[s] <= dead[s] + 1 /\ (dead'[s] = 0 <=> dead[s] = 0)
    <3>1. /\ due[s] \in 0..Interval /\ since[s] \in 0..Timeout /\ critical[s] \in 0..Late
          /\ unseen[s] \in 0..Stale + 1 /\ well[s] \in 0..Stale + 1 /\ dead[s] \in 0..Linger + 2
      BY <1>1 DEF RegistryTypeOK
    <3>2. /\ Older(unseen[s], Stale) \in 0..Stale + 1 /\ Older(unseen[s], Stale) <= unseen[s] + 1
          /\ Older(well[s], Stale) \in 0..Stale + 1 /\ Older(well[s], Stale) <= well[s] + 1
      BY <3>1, OlderIsBounded
    <3>3. /\ Older(dead[s], Linger + 1) \in 1..Linger + 2
          /\ Older(dead[s], Linger + 1) <= dead[s] + 1
      BY <3>1 DEF Older
    <3>4. poll[s] # "none" => since[s] < Timeout
      BY <1>1, <1>4 DEF Tick, ServiceInv, AgentInv
    <3> QED
      BY <1>1, <1>4, <3>1, <3>2, <3>3, <3>4 DEF Tick
  <2>3. RegistryTypeOK'
    <3>1. /\ due' \in [Services -> 0..Interval] /\ since' \in [Services -> 0..Timeout]
          /\ critical' \in [Services -> 0..Late]
          /\ unseen' \in [Services -> 0..Stale + 1] /\ well' \in [Services -> 0..Stale + 1]
          /\ dead' \in [Services -> 0..Linger + 2]
      BY <1>4, <2>2 DEF Tick
    <3> QED
      BY <1>1, <2>1, <3>1 DEF RegistryTypeOK
  <2>4. ASSUME NEW s \in Services PROVE ServiceInv(s)'
    <3>1. /\ due[s] \in Nat /\ since[s] \in Nat /\ critical[s] \in Nat
          /\ unseen[s] \in Nat /\ well[s] \in Nat /\ dead[s] \in Nat
      BY <1>1 DEF RegistryTypeOK
    <3>2. /\ poll[s] = "none" /\ entry[s] # "none" => due[s] > 0 /\ due'[s] = due[s] - 1
          /\ poll[s] = "none" => since'[s] = 0
          /\ poll[s] # "none" => since'[s] = since[s] + 1
          /\ due[s] = 0 => due'[s] = 0
          /\ entry[s] = "critical" => critical'[s] = critical[s] + 1
      BY <1>4, <3>1 DEF Tick
    <3>3. ServiceInv(s)
      BY <1>1
    <3>4. (AgentInv(s) /\ HistoryInv(s))'
      BY <2>1, <2>2, <3>3 DEF ServiceInv, AgentInv, HistoryInv, Healthy
    <3>5. AnswerInv(s)'
      BY <2>1, <2>2, <3>1, <3>2, <3>3 DEF ServiceInv, AnswerInv
    <3>6. PollInv(s)'
      BY <2>1, <2>2, <3>1, <3>2, <3>3 DEF ServiceInv, AnswerInv, PollInv
    <3>7. RemovalInv(s)'
      BY <2>1, <2>2, <3>1, <3>2, <3>3 DEF ServiceInv, AnswerInv, RemovalInv
    <3> QED
      BY <3>4, <3>5, <3>6, <3>7 DEF ServiceInv
  <2> QED
    BY <2>1, <2>3, <2>4 DEF RegistryInv, AlarmIsRecent
<1> QED
  BY <1>2, <1>3, <1>4

LEMMA RegistryInvHolds == RegistrySpec => []RegistryInv
<1>1. RegistryInv /\ [RegistryNext]_registryVars => RegistryInv'
  BY StepLife, StepConsul, StepOthers DEF RegistryNext
<1> QED
  BY InitRegistryInv, <1>1, PTL DEF RegistrySpec
-----------------------------------------------------------------------------
(* The theorems.                                                           *)

\* Every variable keeps its type; the ages that stop counting are above every
\* bound they are compared with.
THEOREM RegistryTypeCorrect == RegistrySpec => []RegistryTypeOK
<1>1. RegistryInv => RegistryTypeOK
  BY DEF RegistryInv
<1> QED
  BY RegistryInvHolds, <1>1, PTL

\* What Consul lists and the collector reports is never older than an interval
\* between two polls that take their whole timeout, and a stopped service is off
\* the list, at once when its deregistration went through, and in time when that
\* call failed or it was killed (registry.py, service.py, health.py).
THEOREM ListingIsNeverStale == RegistrySpec => []ListingIsRecent
<1>1. RegistryInv => ListingIsRecent
  <2> SUFFICES ASSUME RegistryInv PROVE ListingIsRecent
    OBVIOUS
  <2> USE RegistryAssumption, BoundsAreNat
  <2>1. \A s \in Services : /\ ServiceInv(s) /\ since[s] \in 0..Timeout /\ due[s] \in Nat
                            /\ unseen[s] \in Nat /\ dead[s] \in Nat /\ critical[s] \in 0..Late
                            /\ entry[s] \in {"none", "critical", "passing"}
    BY DEF RegistryInv, RegistryTypeOK
  <2>2. PassingIsRecent
    BY <2>1 DEF PassingIsRecent, ServiceInv, PollInv
  <2>3. StoppedIsGone
    <3> SUFFICES ASSUME NEW s \in Services, container[s] = "stopped", entry[s] # "none"
                 PROVE  dead[s] \in 1..Linger + 1
      BY DEF StoppedIsGone
    <3>1. dead[s] # 0 /\ RemovalInv(s)
      BY <2>1 DEF ServiceInv, RemovalInv
    <3>2. CASE entry[s] = "passing"
      BY <2>1, <3>1, <3>2 DEF RemovalInv
    <3>3. CASE entry[s] = "critical"
      BY <2>1, <3>1, <3>3 DEF RemovalInv
    <3> QED
      BY <2>1, <3>2, <3>3
  <2> QED
    BY <2>2, <2>3 DEF ListingIsRecent, RegistryInv
<1> QED
  BY RegistryInvHolds, <1>1, PTL
=============================================================================
