-------------------------- MODULE ResilientClient --------------------------
(***************************************************************************)
(* libs/common/http_client.py: one long-lived client guards one dependency *)
(* with breaker( retry( one HTTP GET ) ).  The routes that call it are     *)
(* plain `def` handlers, so FastAPI runs them on a pool of threads, and    *)
(* every thread shares the client and its pybreaker instance.              *)
(*                                                                         *)
(* A call is: read breaker_state without the lock (was_open), take the     *)
(* breaker's lock, be refused or make up to MaxAttempts GETs, release the  *)
(* lock, and only then degrade and emit.  Between those points any other   *)
(* thread may move the breaker.                                            *)
(*                                                                         *)
(* pybreaker and tenacity are external: they are modelled from the way     *)
(* this file configures and calls them.                                    *)
(***************************************************************************)
EXTENDS Naturals

CONSTANTS
  Threads,      \* request threads sharing the client
  NoThread,     \* the holder of a free lock
  MaxAttempts,  \* settings.retry_max_attempts (config.py: ge=1)
  FailMax       \* settings.circuit_fail_max (config.py: ge=1)

ASSUME ClientAssumption ==
  /\ NoThread \notin Threads
  /\ MaxAttempts \in Nat \ {0}
  /\ FailMax \in Nat \ {0}

VARIABLES
  \* The dependency and the breaker, shared by every thread.
  dependency,   \* "up": answers a GET; "down": error, timeout or 5xx
  breaker,      \* pybreaker's current_state
  counter,      \* its count of failed requests, saturated at FailMax
  cooled,       \* reset_timeout has passed since opened_at
  holder,       \* the thread inside the breaker's lock
  \* One call per thread.
  pc,           \* where the thread stands in `get`
  wasOpen,      \* the local was_open
  attempts,     \* GETs this call has put on the network
  outcome,      \* what the breaker returned or raised into `get`
  answer,       \* what `get` gave its caller
  recorded,     \* this call emitted a DEPENDENCY_FAILURE
  \* The event stream, as far as the properties read it.
  circuitEvent, \* the last CIRCUIT_OPENED / CIRCUIT_CLOSED written
  strikes       \* GETs failed in a row since an answer or an opening

breakerVars == <<breaker, counter, cooled, holder, circuitEvent, strikes>>
callVars == <<pc, wasOpen, attempts, outcome, answer, recorded>>
vars == <<dependency, breakerVars, callVars>>

BreakerStates == {"closed", "open", "half_open"}
Answered == {"value", "http_error"}
Outcomes == {"none", "transient", "breaker_error"} \cup Answered
Degraded == {"fallback", "unavailable"}
Answers == {"none"} \cup Answered \cup Degraded

TypeOK ==
  /\ dependency \in {"up", "down"}
  /\ breaker \in BreakerStates
  /\ counter \in 0..FailMax
  /\ cooled \in BOOLEAN
  /\ holder \in Threads \cup {NoThread}
  /\ pc \in [Threads -> {"idle", "wait", "call", "settle"}]
  /\ wasOpen \in [Threads -> BOOLEAN]
  /\ attempts \in [Threads -> 0..MaxAttempts]
  /\ outcome \in [Threads -> Outcomes]
  /\ answer \in [Threads -> Answers]
  /\ recorded \in [Threads -> BOOLEAN]
  /\ circuitEvent \in {"closed", "open"}
  /\ strikes \in Nat

Init ==
  /\ dependency \in {"up", "down"}
  /\ breaker = "closed"
  /\ counter = 0
  /\ cooled = FALSE
  /\ holder = NoThread
  /\ pc = [t \in Threads |-> "idle"]
  /\ wasOpen = [t \in Threads |-> FALSE]
  /\ attempts = [t \in Threads |-> 0]
  /\ outcome = [t \in Threads |-> "none"]
  /\ answer = [t \in Threads |-> "none"]
  /\ recorded = [t \in Threads |-> FALSE]
  /\ circuitEvent = "closed"
  /\ strikes = 0
-----------------------------------------------------------------------------
(* The breaker's own steps, all taken inside its lock.                     *)

\* open(): the cooldown restarts and the listener writes CIRCUIT_OPENED, for
\* the trip and again for every failed trial.
Trip ==
  /\ breaker' = "open"
  /\ cooled' = FALSE
  /\ circuitEvent' = "open"
  /\ strikes' = 0

\* Mistakes in the same place, for the mutation runs: the listener forgets
\* CIRCUIT_CLOSED; a 4xx or a success leaves the count standing; a successful
\* trial leaves the breaker half-open.
SucceedSilently ==
  /\ counter' = 0
  /\ strikes' = 0
  /\ breaker' = "closed"
  /\ UNCHANGED <<cooled, circuitEvent>>

SucceedUncleared ==
  /\ strikes' = 0
  /\ breaker' = "closed"
  /\ circuitEvent' = IF breaker = "half_open" THEN "closed" ELSE circuitEvent
  /\ UNCHANGED <<cooled, counter>>

SucceedUnclosed ==
  /\ counter' = 0
  /\ strikes' = 0
  /\ UNCHANGED <<breaker, circuitEvent, cooled>>

\* _handle_success: the count is cleared, and a trial closes the circuit with
\* a CIRCUIT_CLOSED.  Excluded exceptions (a 4xx, a body that is not JSON)
\* take this path too.
Succeed ==
  /\ counter' = 0
  /\ strikes' = 0
  /\ breaker' = "closed"
  /\ circuitEvent' = IF breaker = "half_open" THEN "closed" ELSE circuitEvent
  /\ UNCHANGED cooled

\* A failed request trips a half-open breaker, and a closed one at FailMax.
Tripping == breaker = "half_open" \/ counter + 1 >= FailMax

CountFailure == counter' = IF counter < FailMax THEN counter + 1 ELSE counter
-----------------------------------------------------------------------------
(* One call of `get`.                                                      *)

\* get() is entered: was_open is read without the lock.
Start(t) ==
  /\ pc[t] = "idle"
  /\ pc' = [pc EXCEPT ![t] = "wait"]
  /\ wasOpen' = [wasOpen EXCEPT ![t] = breaker = "open"]
  /\ attempts' = [attempts EXCEPT ![t] = 0]
  /\ outcome' = [outcome EXCEPT ![t] = "none"]
  /\ answer' = [answer EXCEPT ![t] = "none"]
  /\ recorded' = [recorded EXCEPT ![t] = FALSE]
  /\ UNCHANGED <<dependency, breakerVars>>

\* A mistake: the call is made outside the lock.
AdmitUnlocked(t) ==
  /\ pc[t] = "wait"
  /\ holder = NoThread
  /\ breaker = "open" => cooled
  /\ breaker' = IF breaker = "open" THEN "half_open" ELSE breaker
  /\ pc' = [pc EXCEPT ![t] = "call"]
  /\ UNCHANGED <<dependency, counter, cooled, holder, circuitEvent, strikes,
                 wasOpen, attempts, outcome, answer, recorded>>

\* The lock is free and the breaker lets the call out: a closed breaker does,
\* and an open one whose cooldown has passed, as its half-open trial.
Admit(t) ==
  /\ pc[t] = "wait"
  /\ holder = NoThread
  /\ breaker = "open" => cooled
  /\ holder' = t
  /\ breaker' = IF breaker = "open" THEN "half_open" ELSE breaker
  /\ pc' = [pc EXCEPT ![t] = "call"]
  /\ UNCHANGED <<dependency, counter, cooled, circuitEvent, strikes,
                 wasOpen, attempts, outcome, answer, recorded>>

\* The lock is free and the open breaker raises CircuitBreakerError at once.
Refuse(t) ==
  /\ pc[t] = "wait"
  /\ holder = NoThread
  /\ breaker = "open"
  /\ ~cooled
  /\ outcome' = [outcome EXCEPT ![t] = "breaker_error"]
  /\ pc' = [pc EXCEPT ![t] = "settle"]
  /\ UNCHANGED <<dependency, breakerVars, wasOpen, attempts, answer, recorded>>

\* Mistakes: one attempt too many; the layers nested the other way, so that
\* each attempt counts against the threshold.
RetryOnceMore(t) ==
  /\ pc[t] = "call"
  /\ dependency = "down"
  /\ attempts[t] <= MaxAttempts
  /\ attempts' = [attempts EXCEPT ![t] = @ + 1]
  /\ strikes' = strikes + 1
  /\ UNCHANGED <<dependency, breaker, counter, cooled, holder, circuitEvent,
                 pc, wasOpen, outcome, answer, recorded>>

RetryCounted(t) ==
  /\ pc[t] = "call"
  /\ dependency = "down"
  /\ attempts[t] + 1 < MaxAttempts
  /\ attempts' = [attempts EXCEPT ![t] = @ + 1]
  /\ strikes' = strikes + 1
  /\ CountFailure
  /\ UNCHANGED <<dependency, breaker, cooled, holder, circuitEvent,
                 pc, wasOpen, outcome, answer, recorded>>

\* One GET ends in a connection error, a timeout or a 5xx, and tenacity has
\* attempts left: the thread backs off and tries again, still inside the lock.
Retry(t) ==
  /\ pc[t] = "call"
  /\ dependency = "down"
  /\ attempts[t] + 1 < MaxAttempts
  /\ attempts' = [attempts EXCEPT ![t] = @ + 1]
  /\ strikes' = strikes + 1
  /\ UNCHANGED <<dependency, breaker, counter, cooled, holder, circuitEvent,
                 pc, wasOpen, outcome, answer, recorded>>

\* A mistake: the stop condition waits for one attempt more than Retry makes.
ExhaustNever(t) ==
  /\ pc[t] = "call"
  /\ dependency = "down"
  /\ attempts[t] + 1 > MaxAttempts
  /\ CountFailure
  /\ Trip
  /\ holder' = NoThread
  /\ pc' = [pc EXCEPT ![t] = "settle"]
  /\ UNCHANGED <<dependency, wasOpen, attempts, outcome, answer, recorded>>

\* The last GET fails: all attempts together are one failure.  The exception
\* that leaves the breaker is the trip when it trips, else the fault itself.
Exhaust(t) ==
  /\ pc[t] = "call"
  /\ dependency = "down"
  /\ attempts[t] + 1 >= MaxAttempts
  /\ attempts' = [attempts EXCEPT ![t] = @ + 1]
  /\ CountFailure
  /\ \/ /\ Tripping
        /\ Trip
        /\ outcome' = [outcome EXCEPT ![t] = "breaker_error"]
     \/ /\ ~Tripping
        /\ strikes' = strikes + 1
        /\ outcome' = [outcome EXCEPT ![t] = "transient"]
        /\ UNCHANGED <<breaker, cooled, circuitEvent>>
  /\ holder' = NoThread
  /\ pc' = [pc EXCEPT ![t] = "settle"]
  /\ UNCHANGED <<dependency, wasOpen, answer, recorded>>

\* The dependency answers, with a body or with an error of the caller's own.
Reply(t) ==
  /\ pc[t] = "call"
  /\ dependency = "up"
  /\ attempts' = [attempts EXCEPT ![t] = @ + 1]
  /\ \E kind \in Answered : outcome' = [outcome EXCEPT ![t] = kind]
  /\ Succeed
  /\ holder' = NoThread
  /\ pc' = [pc EXCEPT ![t] = "settle"]
  /\ UNCHANGED <<dependency, wasOpen, answer, recorded>>

\* `get` returns the body, or lets the HTTPStatusError propagate.
Return(t) ==
  /\ pc[t] = "settle"
  /\ outcome[t] \in Answered
  /\ answer' = [answer EXCEPT ![t] = outcome[t]]
  /\ pc' = [pc EXCEPT ![t] = "idle"]
  /\ UNCHANGED <<dependency, breakerVars, wasOpen, attempts, outcome, recorded>>

\* A mistake: was_open decides for every failure.
EmitsUnlessOpen(t) == ~wasOpen[t]

\* A CircuitBreakerError is silent when was_open was read as open; every other
\* failure writes a DEPENDENCY_FAILURE.
Emits(t) == outcome[t] = "transient" \/ ~wasOpen[t]

\* _degrade: emit or not, then the fallback, or 503 when none was declared.
Degrade(t) ==
  /\ pc[t] = "settle"
  /\ outcome[t] \in {"transient", "breaker_error"}
  /\ recorded' = [recorded EXCEPT ![t] = Emits(t)]
  /\ \E kind \in Degraded : answer' = [answer EXCEPT ![t] = kind]
  /\ pc' = [pc EXCEPT ![t] = "idle"]
  /\ UNCHANGED <<dependency, breakerVars, wasOpen, attempts, outcome>>
-----------------------------------------------------------------------------
(* The environment.                                                        *)

DependencyFails == dependency = "up" /\ dependency' = "down"
                   /\ UNCHANGED <<breakerVars, callVars>>

DependencyRecovers == dependency = "down" /\ dependency' = "up"
                      /\ UNCHANGED <<breakerVars, callVars>>

\* reset_timeout passes.
Cool ==
  /\ breaker = "open"
  /\ ~cooled
  /\ cooled' = TRUE
  /\ UNCHANGED <<dependency, breaker, counter, holder, circuitEvent, strikes,
                 callVars>>

CallStep(t) ==
  \/ Start(t)
  \/ Admit(t)
  \/ Refuse(t)
  \/ Retry(t)
  \/ Exhaust(t)
  \/ Reply(t)
  \/ Return(t)
  \/ Degrade(t)

Next ==
  \/ \E t \in Threads : CallStep(t)
  \/ DependencyFails
  \/ DependencyRecovers
  \/ Cool

Spec == Init /\ [][Next]_vars

(***************************************************************************)
(* A thread that is running runs on: httpx has a timeout and tenacity a    *)
(* bounded number of attempts.  The clock moves.  The lock is Python's     *)
(* RLock, which is not first-come first-served: some waiting thread gets   *)
(* it, and no particular thread is promised that it will.  Nobody is       *)
(* obliged to call.                                                        *)
(***************************************************************************)
Fairness ==
  /\ \A t \in Threads : WF_vars(Retry(t) \/ Exhaust(t) \/ Reply(t))
  /\ \A t \in Threads : WF_vars(Return(t) \/ Degrade(t))
  /\ WF_vars(\E t \in Threads : Admit(t) \/ Refuse(t))
  /\ WF_vars(Cool)

FairSpec == Spec /\ Fairness
-----------------------------------------------------------------------------
(* What the client must do.                                                *)

\* The half-open state lasts exactly as long as one thread is inside the lock
\* with the trial request, and begins only after the cooldown, and nobody is
\* inside the lock of an open breaker: a recovering dependency never meets two
\* requests at once (pybreaker before_call, and get's use of call).
LoneTrial ==
  /\ breaker = "half_open" => holder # NoThread /\ cooled
  /\ breaker = "open" => holder = NoThread
  /\ \A t \in Threads : pc[t] = "call" <=> holder = t

\* The last circuit event on the stream tells the breaker's state, the trial
\* counting as open: a reader of the stream never believes in a closed
\* circuit that is open (BreakerEventListener.state_change).
StreamTellsState == circuitEvent = "closed" <=> breaker = "closed"

\* A request that spent all its attempts leaves evidence for Rule 4: its own
\* DEPENDENCY_FAILURE, or the CIRCUIT_OPENED it caused (get, _degrade).
Tripped(t) == outcome[t] = "breaker_error" /\ attempts[t] > 0

FailureIsEvidenced ==
  \A t \in Threads :
    (answer[t] \in Degraded /\ attempts[t] = MaxAttempts)
      => recorded[t] \/ Tripped(t)

\* No GET leaves the process while the breaker is open (docs/patterns.md).
NoNetworkWhileOpen ==
  [][(\E t \in Threads : attempts'[t] > attempts[t]) => breaker # "open"]_vars

\* A closed breaker opens on failed GET number FailMax * MaxAttempts in a row,
\* never earlier and never later: retries of one request count as one
\* failure, and requests are counted across threads (http_client.py header).
FaultBudget ==
  [][breaker = "closed" =>
       /\ breaker' = "open" => strikes + 1 = FailMax * MaxAttempts
       /\ strikes' > strikes => strikes + 1 < FailMax * MaxAttempts]_vars

\* Whatever the threads do, the client is one circuit breaker per dependency.
Breaker == INSTANCE CircuitBreaker WITH
  circuit <- IF breaker = "closed" THEN "closed" ELSE "open",
  failures <- counter,
  told <- circuitEvent

ImplementsBreaker == Breaker!Spec

\* A dead dependency cannot keep the lock: whoever holds it lets it go.
LockIsReleased == \A t \in Threads : holder = t ~> holder # t

\* Once the dependency is back for good and requests keep coming, the circuit
\* closes and stays closed (the "cooldown lets a trial call through").
RecoveryClosesCircuit ==
  (<>[](dependency = "up") /\ []<>(\E t \in Threads : pc[t] = "wait"))
    => <>[](breaker = "closed")
=============================================================================
