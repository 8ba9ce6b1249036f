---------------------------- MODULE ServiceRegistry ---------------------------
(***************************************************************************)
(* Who is listed where: the life of a service's container (the lifespan of *)
(* libs/common/service.py), its entry in Consul (libs/common/registry.py), *)
(* the /health that Consul polls (libs/common/health.py) and the SOC       *)
(* collector that turns critical checks into HEALTH_CHECK_FAILED events    *)
(* (soc/collector/health.py).  The console and the compose commands stop   *)
(* and start services and databases; nothing restarts a container.         *)
(*                                                                         *)
(* A service registers once, before its start-up hook and before it serves *)
(* /health, and takes its entry back when it is stopped, not when it dies. *)
(* Either call may fail, with Consul there or not; the service goes on.    *)
(* Consul is external: an agent in -dev mode, which forgets everything     *)
(* when it stops.  It polls a first time within Interval and then Interval *)
(* after the last poll ended, waits Timeout for the answer, and removes an *)
(* entry that has been critical for RemoveAfter at its next round, at most *)
(* Round later.  A check that is registered again keeps its status or      *)
(* becomes critical.  Time passes in ticks; Consul's rounds are never      *)
(* late, and a healthy service answers a poll within Timeout.              *)
(***************************************************************************)
EXTENDS Naturals

CONSTANTS
  Services,
  Interval,     \* _HEALTH_CHECK_INTERVAL
  Timeout,      \* _HEALTH_CHECK_TIMEOUT
  RemoveAfter,  \* _DEREGISTER_CRITICAL_AFTER
  Round         \* how often Consul looks for entries to remove

ASSUME RegistryAssumption ==
  Interval \in Nat \ {0} /\ Timeout \in Nat /\ RemoveAfter \in Nat /\ Round \in Nat

VARIABLES
  container,  \* stopped, registering, starting, serving or draining
  database,   \* the service's database container answers
  agent,      \* Consul runs
  entry,      \* each service's check: none, critical or passing
  due,        \* ticks until its next poll
  poll,       \* its poll: none, sent, or answered well or ill
  since,      \* ticks since the poll was sent
  critical,   \* ticks since the entry became critical
  reported,   \* the services whose HEALTH_CHECK_FAILED the last collection has
  \* History.
  unseen,     \* ticks since the service was last healthy, or registered
  well,       \* ticks that it has been healthy
  dead        \* 0, or one more than the ticks since it ended without its entry being
              \* taken back

history == <<unseen, well, dead>>
consul == <<entry, due, poll, since, critical>>
registryVars == <<container, database, agent, consul, reported, history>>

Late == RemoveAfter + Round
\* How old a verdict gets: as it comes in, until the next poll, until that ends.
Stale == Timeout + Interval + Timeout
\* The longest a dead service is listed: until a poll finds it, then its removal.
Linger == Stale + Late

\* Ages are only compared with these bounds, so they stop just above them.
Older(age, bound) == IF age > bound THEN age ELSE age + 1

RegistryTypeOK ==
  /\ container \in [Services -> {"stopped", "registering", "starting", "serving", "draining"}]
  /\ database \in [Services -> BOOLEAN]
  /\ agent \in BOOLEAN
  /\ entry \in [Services -> {"none", "critical", "passing"}]
  /\ due \in [Services -> 0..Interval]
  /\ poll \in [Services -> {"none", "sent", "well", "ill"}]
  /\ since \in [Services -> 0..Timeout]
  /\ critical \in [Services -> 0..Late]
  /\ reported \subseteq Services
  /\ unseen \in [Services -> 0..Stale + 1]
  /\ well \in [Services -> 0..Stale + 1]
  /\ dead \in [Services -> 0..Linger + 2]

\* build_health_router: /health says 200.
Healthy(s) == container[s] = "serving" /\ database[s]

\* Before `docker compose up`.
RegistryInit ==
  /\ container = [s \in Services |-> "stopped"]
  /\ database \in [Services -> BOOLEAN]
  /\ agent = TRUE
  /\ entry = [s \in Services |-> "none"]
  /\ due = [s \in Services |-> 0]
  /\ poll = [s \in Services |-> "none"]
  /\ since = [s \in Services |-> 0]
  /\ critical = [s \in Services |-> 0]
  /\ reported = {}
  /\ unseen = [s \in Services |-> 0]
  /\ well = [s \in Services |-> 0]
  /\ dead = [s \in Services |-> 0]
-----------------------------------------------------------------------------
(* The service.                                                            *)

\* The histories of s when it turns well or ill in this step.
NoteHealth(s, before, after) ==
  /\ unseen' = IF before \/ after THEN [unseen EXCEPT ![s] = 0] ELSE unseen
  /\ well' = IF before /\ after THEN well ELSE [well EXCEPT ![s] = 0]

Move(s, from, to) ==
  /\ container[s] = from
  /\ container' = [container EXCEPT ![s] = to]

\* control_container, start, or compose up.
StartContainer(s) ==
  /\ Move(s, "stopped", "registering")
  /\ dead' = [dead EXCEPT ![s] = 0]
  /\ UNCHANGED <<database, agent, consul, reported, unseen, well>>

\* Consul starts to watch s anew, or no longer watches it.
Watch(s, status, first) ==
  /\ entry' = [entry EXCEPT ![s] = status]
  /\ due' = [due EXCEPT ![s] = first]
  /\ poll' = [poll EXCEPT ![s] = "none"]
  /\ since' = [since EXCEPT ![s] = 0]
  /\ critical' = [critical EXCEPT ![s] = 0]

\* A mistake: the first poll takes a second interval.
RegisterLate(s) ==
  /\ Move(s, "registering", "starting")
  /\ \/ agent /\ Watch(s, "critical", 2 * Interval) /\ unseen' = [unseen EXCEPT ![s] = 0]
     \/ UNCHANGED <<consul, unseen>>
  /\ UNCHANGED <<database, agent, reported, well, dead>>

\* lifespan: register_service, or its warning.
Register(s) ==
  /\ Move(s, "registering", "starting")
  /\ \/ /\ agent
        /\ \E first \in 0..Interval, status \in {"critical", "passing"} :
             /\ status = "passing" => entry[s] = "passing"
             /\ Watch(s, status, first)
        /\ unseen' = [unseen EXCEPT ![s] = 0]
     \/ UNCHANGED <<consul, unseen>>
  /\ UNCHANGED <<database, agent, reported, well, dead>>

\* lifespan: on_startup returns, whatever the database said.
Serve(s) ==
  /\ Move(s, "starting", "serving")
  /\ NoteHealth(s, FALSE, database[s])
  /\ UNCHANGED <<database, agent, consul, reported, dead>>

\* control_container, stop: the requests end and the lifespan resumes.
Stop(s) ==
  /\ Move(s, "serving", "draining")
  /\ NoteHealth(s, Healthy(s), FALSE)
  /\ UNCHANGED <<database, agent, consul, reported, dead>>

\* lifespan: deregister_service, or its warning, after which what Consul has
\* stays.
Deregister(s) ==
  /\ Move(s, "draining", "stopped")
  /\ \/ agent /\ Watch(s, "none", 0) /\ UNCHANGED dead
     \/ dead' = [dead EXCEPT ![s] = 1] /\ UNCHANGED consul
  /\ UNCHANGED <<database, agent, reported, unseen, well>>

\* The process is killed, at whatever point it is.
Kill(s) ==
  /\ container[s] # "stopped"
  /\ container' = [container EXCEPT ![s] = "stopped"]
  /\ NoteHealth(s, Healthy(s), FALSE)
  /\ dead' = [dead EXCEPT ![s] = 1]
  /\ UNCHANGED <<database, agent, consul, reported>>

\* The database container is stopped or started.
DatabaseFlips(s) ==
  /\ database' = [database EXCEPT ![s] = ~@]
  /\ NoteHealth(s, Healthy(s), container[s] = "serving" /\ ~database[s])
  /\ UNCHANGED <<container, agent, consul, reported, dead>>
-----------------------------------------------------------------------------
(* Consul.  A poll is sent, answered by what the service is at that moment *)
(* (a refused connection or none is an answer of its own), and comes in,   *)
(* each at a moment of its own.                                            *)

\* The poll of /health is sent.
Send(s) ==
  /\ entry[s] # "none" /\ due[s] = 0 /\ poll[s] = "none"
  /\ poll' = [poll EXCEPT ![s] = "sent"]
  /\ UNCHANGED <<container, database, agent, entry, due, since, critical, reported, history>>

\* A mistake: /health reports what /health/live does.
AnswerLive(s) ==
  /\ poll[s] = "sent"
  /\ poll' = [poll EXCEPT ![s] = IF container[s] = "serving" THEN "well" ELSE "ill"]
  /\ UNCHANGED <<container, database, agent, entry, due, since, critical, reported, history>>

\* /health answers, or nobody does.
Answer(s) ==
  /\ poll[s] = "sent"
  /\ poll' = [poll EXCEPT ![s] = IF Healthy(s) THEN "well" ELSE "ill"]
  /\ UNCHANGED <<container, database, agent, entry, due, since, critical, reported, history>>

\* The answer changes the check.
Land(s, status) ==
  /\ poll[s] \in {"well", "ill"}
  /\ entry' = [entry EXCEPT ![s] = status]
  /\ due' = [due EXCEPT ![s] = Interval]
  /\ poll' = [poll EXCEPT ![s] = "none"]
  /\ since' = [since EXCEPT ![s] = 0]
  /\ critical' = IF status = entry[s] THEN critical ELSE [critical EXCEPT ![s] = 0]
  /\ UNCHANGED <<container, database, agent, reported, history>>

\* A mistake: a check that failed once stays failed.
ComesInLatched(s) ==
  Land(s, IF poll[s] = "well" /\ entry[s] = "passing" THEN "passing" ELSE "critical")

\* The answer comes in.
ComesIn(s) == Land(s, IF poll[s] = "well" THEN "passing" ELSE "critical")

\* DeregisterCriticalServiceAfter.
Remove(s) ==
  /\ entry[s] = "critical" /\ critical[s] >= RemoveAfter
  /\ Watch(s, "none", 0)
  /\ UNCHANGED <<container, database, agent, reported, history>>

\* The agent stops and forgets, or starts with nothing.
AgentFlips ==
  /\ agent' = ~agent
  /\ entry' = [s \in Services |-> "none"]
  /\ due' = [s \in Services |-> 0]
  /\ poll' = [s \in Services |-> "none"]
  /\ since' = [s \in Services |-> 0]
  /\ critical' = [s \in Services |-> 0]
  /\ UNCHANGED <<container, database, reported, history>>
-----------------------------------------------------------------------------
(* The collector, and time.                                                *)

\* collect, critical_checks and events_from_checks; without Consul the health
\* source is skipped.
Collect ==
  /\ reported' = IF agent THEN {s \in Services : entry[s] = "critical"} ELSE {}
  /\ UNCHANGED <<container, database, agent, consul, history>>

\* The report is read, by the rules or by nobody, before time passes.
Tick ==
  /\ \A s \in Services : entry[s] # "none" =>
       /\ IF poll[s] = "none" THEN due[s] > 0 ELSE since[s] < Timeout
       /\ entry[s] = "critical" => critical[s] < Late
  /\ due' = [s \in Services |-> IF due[s] = 0 THEN 0 ELSE due[s] - 1]
  /\ since' = [s \in Services |-> IF poll[s] = "none" THEN 0 ELSE since[s] + 1]
  /\ critical' = [s \in Services |-> IF entry[s] = "critical" THEN critical[s] + 1
                                                              ELSE critical[s]]
  /\ unseen' = [s \in Services |-> IF Healthy(s) THEN 0 ELSE Older(unseen[s], Stale)]
  /\ well' = [s \in Services |-> IF Healthy(s) THEN Older(well[s], Stale) ELSE 0]
  /\ dead' = [s \in Services |-> IF dead[s] = 0 THEN 0 ELSE Older(dead[s], Linger + 1)]
  /\ reported' = {}
  /\ UNCHANGED <<container, database, agent, entry, poll>>

Life(s) ==
  \/ StartContainer(s) \/ Register(s) \/ Serve(s) \/ Stop(s) \/ Deregister(s) \/ Kill(s)
  \/ DatabaseFlips(s)

RegistryNext ==
  \/ \E s \in Services : Life(s) \/ Send(s) \/ Answer(s) \/ ComesIn(s) \/ Remove(s)
  \/ AgentFlips \/ Collect \/ Tick

\* Time passes, and Consul does its rounds.
RegistrySpec ==
  /\ RegistryInit /\ [][RegistryNext]_registryVars /\ WF_registryVars(Tick)
  /\ \A s \in Services : /\ WF_registryVars(Send(s)) /\ WF_registryVars(Answer(s))
                          /\ WF_registryVars(ComesIn(s)) /\ WF_registryVars(Remove(s))
-----------------------------------------------------------------------------
(* What the registry must do.                                              *)

\* An instance is listed as passing only while it was healthy, or registered,
\* no longer ago than a verdict lasts: an interval between two polls that take
\* the whole timeout.
PassingIsRecent ==
  \A s \in Services : entry[s] = "passing" => unseen[s] <= Stale

\* The collector reports nobody who has been healthy for longer than that,
\* whatever started, stopped or was registered meanwhile.
AlarmIsRecent ==
  \A s \in reported : well[s] <= Stale

\* A stopped service is not listed: at once when its deregistration went
\* through (deregister_service: "immediately rather than after the
\* deregister-critical timeout"), and a bounded time later when that call
\* failed or the service was killed.
StoppedIsGone ==
  \A s \in Services : container[s] = "stopped" /\ entry[s] # "none" =>
    dead[s] \in 1..Linger + 1

\* What the list and the collector say of a service is never older than that.
ListingIsRecent == PassingIsRecent /\ AlarmIsRecent /\ StoppedIsGone

\* How long it may take until a poll finds s well, if it is.
UntilSeen(s) ==
  CASE poll[s] = "none"            -> due[s] + Timeout
    [] poll[s] \in {"sent", "well"} -> Timeout - since[s]
    [] poll[s] = "ill"             -> Timeout - since[s] + Interval + Timeout

\* A listed service that is well again for good, with Consul up, in time for a
\* poll to see it before it is due to be removed, is in the end listed as
\* passing, for good.
ListedConverges ==
  \A s \in Services :
    (/\ entry[s] # "none" /\ (entry[s] = "critical" => critical[s] + UntilSeen(s) < RemoveAfter)
     /\ [](Healthy(s) /\ agent)) ~> [](entry[s] = "passing")
-----------------------------------------------------------------------------
(* What the docs say and the code does not do.                             *)

\* "Consul holds every running service instance" (registry/README.md): one that
\* stays up, with its database and Consul, is in the end on the list.
RunningIsListed ==
  \A s \in Services : ([](Healthy(s) /\ agent)) ~> (entry[s] # "none")
=============================================================================
