---------------------------- MODULE SecurityStream ----------------------------
(***************************************************************************)
(* How a request becomes security events, and what the rules make of them: *)
(* the gateway (gateway/kong.yml), the request middleware of every service *)
(* (libs/common/middleware.py), a login (auth_service.py), and the four    *)
(* rules over everything written so far.                                   *)
(*                                                                         *)
(* One request is seen by up to three writers: the middleware, which       *)
(* reports it when it comes in and when it is answered, the handler, and   *)
(* the gateway, whose file-log plugin reports every 401, 403 and 429 it    *)
(* answers, whoever decided it.  They write at different moments, and a    *)
(* service may be killed between two of them.  Requests interleave.        *)
(*                                                                         *)
(* Time is counted in ticks and an event carries the tick it was written   *)
(* in.  The health events that a live collection adds are left to          *)
(* AlertConsole: here the rules read the written stream alone.  Kong is    *)
(* external: that it may send a request anew when the connection to a      *)
(* service breaks, or give up on one, is left out.                         *)
(***************************************************************************)
EXTENDS DetectionRules

CONSTANTS
  Requests,    \* requests, each sent once
  Users,       \* names tried at the login
  Addresses,   \* client addresses
  Consumer,    \* sentinel-ir-client, Kong's only consumer
  MaxTime      \* bound on the clock

ASSUME StreamAssumption ==
  /\ IsFiniteSet(Requests) /\ MaxTime \in Nat
  /\ Nobody \notin Users \cup Addresses \cup {Consumer}

Routes == {"login", "admin", "other"}
EventTypes == {"REQUEST_RECEIVED", "REQUEST_COMPLETED", "AUTH_FAILED",
               "AUTH_SUCCESS", "SERVICE_ERROR", "DEPENDENCY_FAILURE",
               "CIRCUIT_OPENED", "CIRCUIT_CLOSED", "UNAUTHORISED_ACCESS",
               "RATE_LIMIT_EXCEEDED"}

VARIABLES
  clock,
  request,   \* what each request asks for, once it was sent
  status,    \* its HTTP status, 0 while it has none
  stage,     \* where it stands
  written,   \* the event stream: which event, of which request, when
  closed,    \* the state of incident-service's circuit breaker
  rejected   \* history: logins that were turned down, and when

vars == <<clock, request, status, stage, written, closed, rejected>>

Unsent == [route |-> "other", token |-> FALSE, name |-> Nobody, ip |-> Nobody]

TypeOK ==
  /\ clock \in 0..MaxTime
  /\ request \in [Requests -> [route : Routes, token : BOOLEAN,
                               name : Users \cup {Nobody},
                               ip : Addresses \cup {Nobody}]]
  /\ status \in [Requests -> {0, 200, 201, 401, 403, 429, 500, 502, 503}]
  /\ stage \in [Requests -> {"unsent", "serving", "storing", "answered", "done"}]
  /\ written \subseteq [req : Requests, type : EventTypes, at : 0..MaxTime]
  /\ closed \in BOOLEAN
  /\ rejected \subseteq [req : Requests, at : 0..MaxTime]

Init ==
  /\ clock = 0
  /\ request = [r \in Requests |-> Unsent]
  /\ status = [r \in Requests |-> 0]
  /\ stage = [r \in Requests |-> "unsent"]
  /\ written = {}
  /\ closed = TRUE
  /\ rejected = {}
-----------------------------------------------------------------------------
(* What the collector reads: every field a rule looks at.                  *)

GatewayTypes == {"UNAUTHORISED_ACCESS", "RATE_LIMIT_EXCEEDED"}
ResilienceTypes == {"DEPENDENCY_FAILURE", "CIRCUIT_OPENED", "CIRCUIT_CLOSED"}

\* Login and user administration are auth-service's.
ServiceOf(e) ==
  CASE e.type \in GatewayTypes -> "api-gateway"
    [] e.type \notin GatewayTypes /\ request[e.req].route \in {"login", "admin"} ->
         "auth-service"
    [] OTHER -> "incident-service"

\* The name that was tried, in the login's own event; the consumer, in the
\* gateway's, if a token was presented; nobody in the middleware's, for no
\* component sets the X-User-Id that it reads.
UserOf(e) ==
  CASE e.type \in {"AUTH_FAILED", "AUTH_SUCCESS"} -> request[e.req].name
    [] e.type \in GatewayTypes /\ request[e.req].token -> Consumer
    [] OTHER -> Nobody

\* The client's address, which the resilient client does not know.
AddressOf(e) == IF e.type \in ResilienceTypes THEN Nobody ELSE request[e.req].ip

\* 100 stands for a request that has no status yet.
StatusOf(e) ==
  CASE e.type = "REQUEST_RECEIVED" -> 100
    [] e.type \in ResilienceTypes -> 503
    [] OTHER -> status[e.req]

Event(e) ==
  [req |-> e.req, type |-> e.type, at |-> e.at, service |-> ServiceOf(e),
   user |-> UserOf(e), ip |-> AddressOf(e), status |-> StatusOf(e),
   privileged |-> request[e.req].route = "admin"]

Collected == {Event(e) : e \in written}

\* The alerts a detection run raises at this moment.
Raised == EvaluateAll(Collected, clock)
Firing == {<<a.rule, a.subject>> : a \in Raised}
-----------------------------------------------------------------------------
\* Request r now has this status and has had these events written.
Write(r, types) ==
  written' = written \cup {[req |-> r, type |-> t, at |-> clock] : t \in types}

Tick ==
  /\ clock < MaxTime
  /\ clock' = clock + 1
  /\ UNCHANGED <<request, status, stage, written, closed, rejected>>
-----------------------------------------------------------------------------
(* The gateway.                                                            *)

\* A request the gateway may see: a login needs no token and names an account.
Sendable ==
  {q \in [route : Routes, token : BOOLEAN, name : Users \cup {Nobody},
          ip : Addresses] :
     IF q.route = "login" THEN ~q.token /\ q.name # Nobody ELSE q.name = Nobody}

\* A protected route without a valid token: 401, no service sees it.
RefuseToken(r) ==
  /\ stage[r] = "unsent"
  /\ \E q \in Sendable :
       /\ q.route # "login" /\ ~q.token
       /\ request' = [request EXCEPT ![r] = q]
  /\ status' = [status EXCEPT ![r] = 401]
  /\ stage' = [stage EXCEPT ![r] = "answered"]
  /\ UNCHANGED <<clock, written, closed, rejected>>

\* The rate limit is spent: 429.  The token has been checked before.
Throttle(r) ==
  /\ stage[r] = "unsent"
  /\ \E q \in Sendable :
       /\ q.route = "login" \/ q.token
       /\ request' = [request EXCEPT ![r] = q]
  /\ status' = [status EXCEPT ![r] = 429]
  /\ stage' = [stage EXCEPT ![r] = "answered"]
  /\ UNCHANGED <<clock, written, closed, rejected>>

\* The request reaches its service, whose middleware reports it.
Forward(r) ==
  /\ stage[r] = "unsent"
  /\ \E q \in Sendable :
       /\ q.route = "login" \/ q.token
       /\ request' = [request EXCEPT ![r] = q]
  /\ stage' = [stage EXCEPT ![r] = "serving"]
  /\ Write(r, {"REQUEST_RECEIVED"})
  /\ UNCHANGED <<clock, status, closed, rejected>>

\* A mistake: an event type that the schema does not have.
GatewayLogMisspelt(r) ==
  /\ stage[r] = "answered"
  /\ stage' = [stage EXCEPT ![r] = "done"]
  /\ Write(r, CASE status[r] = 429 -> {"RATE_LIMIT_EXCEEDED"}
                [] status[r] \in {401, 403} -> {"UNAUTHORIZED_ACCESS"}
                [] OTHER -> {})
  /\ UNCHANGED <<clock, request, status, closed, rejected>>

\* The log phase, after the answer was sent: whatever the status came from.
GatewayLog(r) ==
  /\ stage[r] = "answered"
  /\ stage' = [stage EXCEPT ![r] = "done"]
  /\ Write(r, CASE status[r] = 429 -> {"RATE_LIMIT_EXCEEDED"}
                [] status[r] \in {401, 403} -> {"UNAUTHORISED_ACCESS"}
                [] OTHER -> {})
  /\ UNCHANGED <<clock, request, status, closed, rejected>>
-----------------------------------------------------------------------------
(* The services.  Handler and middleware write one after the other in one  *)
(* request's own thread, so their last events are one step.                *)

Answer(r, code, types) ==
  /\ stage[r] \in {"serving", "storing"}
  /\ status' = [status EXCEPT ![r] = code]
  /\ stage' = [stage EXCEPT ![r] = "answered"]
  /\ Write(r, types)
  /\ UNCHANGED <<clock, request>>

\* An unknown user, a disabled account and a wrong password look the same.
RejectLogin(r) ==
  /\ request[r].route = "login"
  /\ Answer(r, 401, {"AUTH_FAILED", "REQUEST_COMPLETED"})
  /\ rejected' = rejected \cup {[req |-> r, at |-> clock]}
  /\ UNCHANGED closed

AcceptLogin(r) ==
  /\ request[r].route = "login"
  /\ Answer(r, 200, {"AUTH_SUCCESS", "REQUEST_COMPLETED"})
  /\ UNCHANGED <<closed, rejected>>

\* require_admin: an analyst's token on an administrator's route.
Forbid(r) ==
  /\ request[r].route = "admin"
  /\ Answer(r, 403, {"REQUEST_COMPLETED"})
  /\ UNCHANGED <<closed, rejected>>

Serve(r) ==
  /\ stage[r] = "serving" /\ request[r].route # "login"
  /\ Answer(r, 200, {"REQUEST_COMPLETED"})
  /\ UNCHANGED <<closed, rejected>>

\* A mistake: the middleware reports answers only.
RaiseUnrecorded(r) ==
  /\ Answer(r, 500, {})
  /\ UNCHANGED <<closed, rejected>>

\* An exception nobody handles passes the middleware, which reports it and
\* lets it pass; the answer is made outside it.  The database that fails after the
\* asset was looked up is one.
Raise(r) ==
  /\ Answer(r, 500, {"SERVICE_ERROR"})
  /\ UNCHANGED <<closed, rejected>>

\* A handled error with a status of 5xx: reported twice, as fault and as answer.
AnswerUnavailable(r) ==
  /\ stage[r] = "serving"
  /\ Answer(r, 503, {"SERVICE_ERROR", "REQUEST_COMPLETED"})
  /\ UNCHANGED <<closed, rejected>>

\* The service is killed: the gateway answers 502, nobody writes anything.
Kill(r) ==
  /\ Answer(r, 502, {})
  /\ UNCHANGED <<closed, rejected>>
-----------------------------------------------------------------------------
(* incident-service creates an incident: it looks the asset up first, and  *)
(* inserts the row afterwards, in steps that other requests come between   *)
(* and that may end the request.  What the resilient client writes of the  *)
(* lookup depends on its breaker; ResilientClient has the mechanism.       *)

LookUp(r, types) ==
  /\ stage[r] = "serving" /\ request[r].route = "other"
  /\ stage' = [stage EXCEPT ![r] = "storing"]
  /\ Write(r, types)
  /\ UNCHANGED <<clock, request, status, rejected>>

\* The retries are spent, or the call waited while another one spent its own.
DependencyFails(r) == LookUp(r, {"DEPENDENCY_FAILURE"}) /\ UNCHANGED closed

\* The failure that trips the breaker.
Trip(r) ==
  /\ closed
  /\ LookUp(r, {"DEPENDENCY_FAILURE", "CIRCUIT_OPENED"})
  /\ closed' = FALSE

\* The trial that fails opens the circuit once more.  Whether the failure is
\* recorded as well depends on the state the caller read before it.
TrialFails(r) ==
  /\ ~closed
  /\ \E types \in SUBSET {"DEPENDENCY_FAILURE"} :
       LookUp(r, types \cup {"CIRCUIT_OPENED"})
  /\ UNCHANGED closed

\* A call the open circuit suppresses leaves no trace of its own.
Suppress(r) == ~closed /\ LookUp(r, {}) /\ UNCHANGED closed

\* The trial that succeeds.
Recover(r) ==
  /\ ~closed
  /\ LookUp(r, {"CIRCUIT_CLOSED"})
  /\ closed' = TRUE

\* The incident is stored, with the asset or without it.
Create(r) ==
  /\ stage[r] = "storing"
  /\ Answer(r, 201, {"REQUEST_COMPLETED"})
  /\ UNCHANGED <<closed, rejected>>
-----------------------------------------------------------------------------
Gateway(r) == RefuseToken(r) \/ Throttle(r) \/ Forward(r) \/ GatewayLog(r)

Service(r) ==
  \/ RejectLogin(r)
  \/ AcceptLogin(r)
  \/ Forbid(r)
  \/ Serve(r)
  \/ Raise(r)
  \/ AnswerUnavailable(r)
  \/ Kill(r)

Dependent(r) ==
  \/ DependencyFails(r)
  \/ Trip(r)
  \/ TrialFails(r)
  \/ Suppress(r)
  \/ Recover(r)
  \/ Create(r)

Next ==
  \/ Tick
  \/ \E r \in Requests : Gateway(r) \/ Service(r) \/ Dependent(r)

Spec == Init /\ [][Next]_vars
-----------------------------------------------------------------------------
(* What the rules must say about the requests, however they were reported. *)

\* Rule 1 says exactly what happened: an account, or an address, is named iff
\* enough of its logins were turned down inside the window, and the login
\* endpoint's other reporters neither add to the count nor hide it
\* (rule_failed_logins.py, auth_service.py).
RecentlyRejected == {x \in rejected : clock - LoginWindow <= x.at}

BruteForceIsExact ==
  /\ \A u \in Users :
       (<<FailedLogins, <<"user", u>>>> \in Firing) <=>
         Cardinality({x \in RecentlyRejected : request[x.req].name = u})
           >= LoginThreshold
  /\ \A i \in Addresses :
       (<<FailedLogins, <<"address", i>>>> \in Firing) <=>
         Cardinality({x \in RecentlyRejected : request[x.req].ip = i})
           >= LoginThreshold

\* The rules count events, and up to four events tell of one request.  A request
\* counts twice in the two ways named here and in no other: Rule 2 counts a
\* refusal by a service that the gateway reports as well, and Rule 4 counts the
\* failed lookup and the fault of a request whose database failed next.  So no
\* threshold is reached by fewer than half as many requests, unless an opened
\* circuit decides; with the thresholds of 3 one bounced or failed request stays
\* silent (rule_abnormal_rate.py's remark on double-counting,
\* rule_unauthorised_access.py, rule_service_failure.py, middleware.py).  It does
\* not say that Rule 2's refusals are no failed logins: see LoginsAreLeftToRuleOne.
DoubleReports ==
  {{"REQUEST_COMPLETED", "UNAUTHORISED_ACCESS"}, {"DEPENDENCY_FAILURE", "SERVICE_ERROR"}}

Counts(a) == {c \in a.cites : c.type \notin ImmediateEventTypes}

RequestsAreCounted ==
  \A a \in Raised :
    /\ \A d, e \in Counts(a) :
         d.req = e.req => d = e \/ {d.type, e.type} \in DoubleReports
    /\ a.rule = UnauthorisedAccess =>
         2 * Cardinality({e.req : e \in a.cites}) >= RefusalThreshold
    /\ a.rule = ServiceFailure /\ Counts(a) = a.cites =>
         2 * Cardinality({e.req : e \in a.cites}) >= FaultThreshold

\* "Excluded although it carries a 401 ... counting it here would make every
\* brute-force run fire two rules for one attack": an alert of Rule 2 rests on
\* something besides failed logins.  AUTH_FAILED is left out, but the 401 of the
\* same request is in its REQUEST_COMPLETED and in the gateway's
\* UNAUTHORISED_ACCESS, and both are counted.
LoginsAreLeftToRuleOne ==
  \A a \in Raised :
    a.rule = UnauthorisedAccess => \E e \in a.cites : request[e.req].route # "login"

\* Whatever a service or the gateway turned away or failed at is counted by a
\* rule: no combination of route, refuser and error path leaves a request out.
\* A kill does, and so does the open circuit (middleware.py, kong.yml's
\* file-log).
Counted(r) ==
  \E e \in Collected :
    /\ e.req = r
    /\ CASE status[r] \in {401, 403} -> IsRefusal(e)
         [] status[r] = 429 -> e.type = "RATE_LIMIT_EXCEEDED"
         [] OTHER -> e.type \in FailureEventTypes

NoBlindSpot ==
  \A r \in Requests :
    (stage[r] = "done" /\ status[r] \in {401, 403, 429, 500, 503}) => Counted(r)

\* Evidence only ever adds to what is raised, and only time takes away from
\* it: no event, be it a recovery or a success, silences an alert or lowers
\* its severity, and no alert appears without an event (rule_service_failure.py
\* on recovery, base.py's pure functions).
Severer(a, b) == a.severity = "HIGH" \/ b.severity = "MEDIUM"

EvidenceOnlyAdds ==
  [][/\ clock' = clock =>
          \A a \in Raised : \E b \in Raised' :
             a.rule = b.rule /\ a.subject = b.subject /\ Severer(b, a)
     /\ clock' # clock => Firing' \subseteq Firing]_vars
=============================================================================
