--------------------------- MODULE CircuitBreaker ---------------------------
(***************************************************************************)
(* What the circuit breaker in front of one dependency promises, with no   *)
(* threads, no lock and no retries: a request either fails or is answered, *)
(* in one step.  FailMax failed requests in a row open the circuit; while  *)
(* it is open nothing reaches the dependency until a cooldown has passed;  *)
(* then one trial request decides.  The half-open state is not visible     *)
(* here, because the event stream has no node for it (circuit_events.py).  *)
(* ResilientClient is shown to implement this specification.               *)
(***************************************************************************)
EXTENDS Naturals

CONSTANT FailMax  \* settings.circuit_fail_max

VARIABLES
  circuit,   \* "closed" or "open", as the caller and the SOC understand it
  failures,  \* failed requests in a row while the circuit was closed
  cooled,    \* the cooldown since the circuit last opened has passed
  told       \* the last circuit event on the stream says this

cbVars == <<circuit, failures, cooled, told>>

Init ==
  /\ circuit = "closed"
  /\ failures = 0
  /\ cooled = FALSE
  /\ told = "closed"

\* A request may go out: the circuit is closed, or this is the trial request.
Admissible == circuit = "closed" \/ cooled

Open ==
  /\ circuit' = "open"
  /\ told' = "open"
  /\ cooled' = FALSE
  /\ failures' = FailMax

\* Any answer, a 4xx included, proves the dependency healthy.
RequestAnswered ==
  /\ Admissible
  /\ circuit' = "closed"
  /\ told' = "closed"
  /\ failures' = 0
  /\ UNCHANGED cooled

\* One failed request short of the threshold.
RequestFailed ==
  /\ circuit = "closed"
  /\ failures + 1 < FailMax
  /\ failures' = failures + 1
  /\ UNCHANGED <<circuit, cooled, told>>

\* The request that reaches the threshold.
RequestTrips == circuit = "closed" /\ failures + 1 = FailMax /\ Open

\* A failed trial request starts the cooldown again.
TrialFailed == circuit = "open" /\ cooled /\ Open

Cool ==
  /\ circuit = "open"
  /\ ~cooled
  /\ cooled' = TRUE
  /\ UNCHANGED <<circuit, failures, told>>

Next == RequestAnswered \/ RequestFailed \/ RequestTrips \/ TrialFailed \/ Cool

Spec == Init /\ [][Next]_cbVars
=============================================================================
