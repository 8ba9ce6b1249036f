---------------------------- MODULE GraphConsole ----------------------------
(***************************************************************************)
(* The console's graph screens, console/graph_api: questions, queries and  *)
(* pictures read the knowledge graph while loads, started from the same    *)
(* page, write it.  All are threads of one process.                        *)
(*                                                                         *)
(* Two globals of the process are shared by them, and nothing guards       *)
(* either.  kg/loader/connection keeps one Neo4j driver, made by the first *)
(* reader and closed by every load at its end; each access of the variable *)
(* is a step here.  redirect_stdout puts a load's buffer in the place of   *)
(* sys.stdout, and puts back at the end what it had found.                 *)
(*                                                                         *)
(* Neo4j is external: a transaction commits or fails as a whole.  On a     *)
(* closed driver a new session fails and one already open may finish, so   *)
(* either is possible.  A driver keeps the connections of the work it did  *)
(* and tries one before it uses it only if asked to, which nothing does:   *)
(* after a restart of Neo4j a kept one may fail whoever gets it, unless    *)
(* execute_write tries again, and at a failure the driver drops them all.  *)
(***************************************************************************)
EXTENDS GraphQuestions

CONSTANTS
  Loads, Requests,  \* each once
  Sources,          \* what a load may collect
  Asks,             \* what may be asked: questions, queries and pictures
  PictureLimit,     \* the most edges of a picture, 200
  LLMSettings,      \* the model's, as the environment may have them
  Terminal,         \* sys.stdout at the start
  MaxOutages        \* bound on Neo4j's restarts

Actors == Loads \cup Requests

ASSUME ConsoleAssumption ==
  /\ Loads \cap Requests = {} /\ Terminal \notin Actors
  /\ Sources \subseteq [alerts : SUBSET Alerts, incidents : SUBSET Incidents,
                        severity : [Incidents -> Severities]]
  /\ \A ask \in Asks : /\ ask.kind \in {"ask", "query", "alerts", "neighbourhood"}
                       /\ ask.kind = "query" => ask.key \in QueryKeys
  /\ PictureLimit \in Nat \ {0}
  /\ LLMSettings \subseteq {"none", "well", "malformed"}
  /\ MaxOutages \in Nat

VARIABLES
  graph, reachable, outages,  \* Neo4j
  driver,    \* connection._driver: none, open, or closed and still there
  pool,      \* the connections it keeps: none, from before Neo4j left, or since
  made,      \* history: how often Neo4j had left when it was made
  handle,    \* the driver that an actor took: orphan if the variable lost it,
             \* stale if it may keep a connection from before Neo4j left then
  stdout,    \* whose buffer print writes to
  saved,     \* what a load will put back
  mixed,     \* the loads with a line of theirs elsewhere or another's in their buffer
  pc,
  found,     \* what a load collected
  exit,      \* and its exit code, 500 for an exception; -1 before and after
  asked,     \* a request: what is asked
  seen,      \* history: the graph when it was
  read,      \* history: the graph that its query found
  shown,     \* the evidence in the answer and what its text states
  status,
  disturbed, \* history: actors whose driver a load closed, or whose Neo4j left
  aged,      \* history: actors that took a driver older than Neo4j's last leave
  overlapped \* history: loads that another one ran beside

world == <<reachable, outages>>
drivers == <<driver, pool, made>>
loadVars == <<stdout, saved, mixed, found, exit, overlapped>>
requestVars == <<asked, seen, read, shown, status>>
vars == <<graph, world, drivers, handle, pc, loadVars, requestVars, disturbed, aged>>

NoAsk == [kind |-> "none"]
NotYet == [alerts |-> {NoName}, incidents |-> {}, severity |-> <<>>]
NoAnswer == [evidence |-> {}, text |-> {}]

TypeOK ==
  /\ graph \in Graphs
  /\ reachable \in BOOLEAN /\ outages \in 0..MaxOutages
  /\ driver \in {"none", "open", "closed"}
  /\ pool \in {"empty", "warm", "stale"} /\ made \in 0..MaxOutages
  /\ handle \in [Actors -> {"none", "shared", "orphan", "stale", "closed"}]
  /\ stdout \in Loads \cup {Terminal}
  /\ saved \in [Loads -> Loads \cup {Terminal}]
  /\ mixed \subseteq Loads
  /\ pc \in [Actors -> {"idle", "rehearse", "collect", "look", "make", "take",
                        "topology", "events", "security-knowledge", "test",
                        "close", "forget", "report", "restore", "query", "phrase",
                        "answered", "done"}]
  /\ found \in [Loads -> Sources \cup {NotYet}]
  /\ exit \in [Loads -> {-1, 0, 1, 500}]
  /\ asked \in [Requests -> Asks \cup {NoAsk}]
  /\ seen \in [Requests -> Graphs] /\ read \in [Requests -> Graphs]
  /\ status \in [Requests -> {0, 200, 404, 500, 503}]
  /\ disturbed \subseteq Actors /\ aged \subseteq Actors /\ overlapped \subseteq Loads

Init ==
  /\ graph = Empty /\ reachable = TRUE /\ outages = 0
  /\ driver = "none" /\ pool = "empty" /\ made = 0
  /\ handle = [a \in Actors |-> "none"]
  /\ stdout = Terminal
  /\ saved = [l \in Loads |-> Terminal]
  /\ mixed = {}
  /\ pc = [a \in Actors |-> "idle"]
  /\ found = [l \in Loads |-> NotYet]
  /\ exit = [l \in Loads |-> -1]
  /\ asked = [r \in Requests |-> NoAsk]
  /\ seen = [r \in Requests |-> Empty] /\ read = [r \in Requests |-> Empty]
  /\ shown = [r \in Requests |-> NoAnswer]
  /\ status = [r \in Requests |-> 0]
  /\ disturbed = {} /\ aged = {} /\ overlapped = {}

\* print: into whichever buffer is there.
Prints(l) ==
  mixed' = IF stdout = l THEN mixed
           ELSE mixed \cup {m \in {l, stdout} \cap Loads : pc[m] # "done"}

Goes(a, label) == pc' = [pc EXCEPT ![a] = label]
Running(l) == pc[l] \notin {"idle", "done"}
-----------------------------------------------------------------------------
(* The driver, by whoever uses it.                                         *)

\* The first thing an actor does with it once it has it.
First(a) == IF a \in Loads THEN "topology" ELSE "query"

\* What happens to an actor that raises.
Raises(a) ==
  IF a \in Loads
  THEN /\ Goes(a, "test")
       /\ Prints(a)
       /\ exit' = [exit EXCEPT ![a] = 1]
       /\ found' = [found EXCEPT ![a] = NotYet]
       /\ UNCHANGED <<stdout, saved, overlapped, requestVars>>
  ELSE /\ Goes(a, "answered")
       /\ status' = [status EXCEPT ![a] = 500]
       /\ UNCHANGED <<loadVars, asked, seen, read, shown>>

\* get_driver: is there one?
Look(a) ==
  /\ pc[a] = "look"
  /\ Goes(a, IF driver = "none" THEN "make" ELSE "take")
  /\ UNCHANGED <<graph, world, drivers, handle, loadVars, requestVars, disturbed, aged>>

\* A driver that the variable lost, in the hands of whoever holds it.
Orphaned == IF pool = "stale" THEN "stale" ELSE "orphan"

\* GraphDatabase.driver does not connect yet.  Who holds another keeps it.
Make(a) ==
  /\ pc[a] = "make"
  /\ driver' = "open" /\ pool' = "empty" /\ made' = outages
  /\ handle' = [b \in Actors |-> IF handle[b] = "shared" THEN Orphaned ELSE handle[b]]
  /\ Goes(a, "take")
  /\ UNCHANGED <<graph, world, loadVars, requestVars, disturbed, aged>>

\* It returns the variable, which is read once more.
Take(a) ==
  /\ pc[a] = "take"
  /\ handle' = [handle EXCEPT ![a] =
                  CASE driver = "open" -> "shared" [] driver = "closed" -> "closed"
                    [] driver = "none" -> "none"]
  /\ disturbed' = IF driver = "closed" /\ \E l \in Loads : pc[l] = "forget"
                  THEN disturbed \cup {a} ELSE disturbed
  /\ aged' = IF driver = "open" /\ made < outages THEN aged \cup {a} ELSE aged
  /\ IF driver = "none" THEN Raises(a)
     ELSE Goes(a, First(a)) /\ UNCHANGED <<loadVars, requestVars>>
  /\ UNCHANGED <<graph, world, drivers>>

\* Schema statements and queries are sent once; execute_write tries again.
Stale(a) ==
  /\ pc[a] \in {"topology", "query"}
  /\ handle[a] = "stale" \/ (handle[a] = "shared" /\ pool = "stale")

MayWork == reachable
MayFail(a) == ~reachable \/ handle[a] = "closed" \/ Stale(a)

\* The connection goes back to the driver.
Keeps(a) == pool' = IF handle[a] = "shared" /\ pool = "empty" THEN "warm" ELSE pool

\* A statement fails, and with it what the driver keeps.
Fail(a) ==
  /\ pc[a] \in {"topology", "events", "security-knowledge", "query"}
  /\ MayFail(a)
  /\ Raises(a)
  /\ pool' = IF handle[a] = "shared" THEN "empty" ELSE pool
  /\ handle' = [b \in Actors |-> IF b = a THEN "none" ELSE handle[b]]
  /\ UNCHANGED <<graph, world, driver, made, disturbed, aged>>
-----------------------------------------------------------------------------
(* A load: load_graph around kg/loader/main.main.                          *)

\* A load begins, and from here on prints into its own buffer.  A dry run
\* does not ask for the graph.
Begin(l) ==
  /\ pc[l] = "idle"
  /\ Goes(l, "rehearse") \/ (reachable /\ Goes(l, "collect"))
  /\ saved' = [saved EXCEPT ![l] = stdout]
  /\ stdout' = l
  /\ LET others == {m \in Loads \ {l} : Running(m)}
     IN overlapped' = IF others = {} THEN overlapped
                                     ELSE overlapped \cup others \cup {l}
  /\ UNCHANGED <<graph, world, drivers, handle, mixed, found, exit,
                 requestVars, disturbed, aged>>

\* _require_graph says no.
Decline(l) ==
  /\ pc[l] = "idle" /\ ~reachable
  /\ Goes(l, "done")
  /\ UNCHANGED <<graph, world, drivers, handle, loadVars, requestVars, disturbed, aged>>

\* The source cannot be collected, or it is and its writes are counted, which
\* ends a dry run.
Collect(l) ==
  /\ pc[l] \in {"rehearse", "collect"}
  /\ \/ /\ Prints(l)
        /\ exit' = [exit EXCEPT ![l] = 1]
        /\ Goes(l, "restore")
        /\ UNCHANGED found
     \/ /\ pc[l] = "rehearse"
        /\ Prints(l)
        /\ exit' = [exit EXCEPT ![l] = 0]
        /\ Goes(l, "restore")
        /\ UNCHANGED found
     \/ /\ pc[l] = "collect"
        /\ Prints(l)
        /\ \E source \in Sources : found' = [found EXCEPT ![l] = source]
        /\ Goes(l, "look")
        /\ UNCHANGED exit
  /\ UNCHANGED <<graph, world, drivers, handle, stdout, saved, overlapped,
                 requestVars, disturbed, aged>>

\* The three transactions, the first with the schema statements before it.
Stages == <<"topology", "events", "security-knowledge", "test">>
After(label) == Stages[1 + CHOOSE n \in 1..3 : Stages[n] = label]

Apply(l) ==
  /\ pc[l] \in {"topology", "events", "security-knowledge"}
  /\ MayWork
  /\ graph' = CASE pc[l] = "topology" -> LandTopology(graph)
                [] pc[l] = "events" -> LandEvents(graph, found[l])
                [] pc[l] = "security-knowledge" -> LandKnowledge(graph)
  /\ found' = [found EXCEPT ![l] = IF pc[l] = "events" THEN NotYet ELSE @]
  /\ handle' = [handle EXCEPT ![l] = IF pc[l] = "security-knowledge" THEN "none" ELSE @]
  /\ Keeps(l)
  /\ Prints(l)
  /\ Goes(l, After(pc[l]))
  /\ UNCHANGED <<world, driver, made, stdout, saved, exit, overlapped, requestVars,
                 disturbed, aged>>

\* close_driver, in the finally: is there one?
CloseTest(l) ==
  /\ pc[l] = "test"
  /\ Goes(l, IF driver = "none" THEN "report" ELSE "close")
  /\ UNCHANGED <<graph, world, drivers, handle, loadVars, requestVars, disturbed, aged>>

\* Close it under whoever holds it; by now there may be none, and None has no
\* close.
Close(l) ==
  /\ pc[l] = "close"
  /\ IF driver = "none"
     THEN /\ exit' = [exit EXCEPT ![l] = 500]
          /\ Goes(l, "restore")
          /\ UNCHANGED <<driver, pool, handle, disturbed>>
     ELSE /\ driver' = "closed" /\ pool' = "empty"
          /\ handle' = [b \in Actors |-> IF handle[b] = "shared" THEN "closed"
                                                                 ELSE handle[b]]
          /\ disturbed' = disturbed \cup {b \in Actors \ {l} : handle[b] = "shared"}
          /\ Goes(l, "forget")
          /\ UNCHANGED exit
  /\ UNCHANGED <<graph, world, made, stdout, saved, mixed, found, overlapped,
                 requestVars, aged>>

\* A mistake: the closed driver stays for the next reader.
ForgetNothing(l) ==
  /\ pc[l] = "forget"
  /\ Goes(l, "report")
  /\ UNCHANGED <<graph, world, drivers, handle, loadVars, requestVars, disturbed, aged>>

Forget(l) ==
  /\ pc[l] = "forget"
  /\ driver' = "none" /\ pool' = "empty"
  /\ handle' = [b \in Actors |-> IF handle[b] = "shared" THEN Orphaned ELSE handle[b]]
  /\ disturbed' = disturbed \cup {b \in Actors \ {l} : pc[b] \in {"take", "close"}}
  /\ Goes(l, "report")
  /\ UNCHANGED <<graph, world, made, loadVars, requestVars, aged>>

\* "Graph load complete.", unless it failed.
Report(l) ==
  /\ pc[l] = "report"
  /\ IF exit[l] = 1 THEN UNCHANGED <<mixed, exit>>
     ELSE Prints(l) /\ exit' = [exit EXCEPT ![l] = 0]
  /\ Goes(l, "restore")
  /\ UNCHANGED <<graph, world, drivers, handle, stdout, saved, found,
                 overlapped, requestVars, disturbed, aged>>

\* A mistake: the terminal's stdout is not put back.
RestoreNothing(l) ==
  /\ pc[l] = "restore"
  /\ saved' = [saved EXCEPT ![l] = Terminal]
  /\ exit' = [exit EXCEPT ![l] = -1]
  /\ disturbed' = disturbed \ {l} /\ aged' = aged \ {l}
  /\ Goes(l, "done")
  /\ UNCHANGED <<graph, world, drivers, handle, stdout, mixed, found, overlapped,
                 requestVars>>

\* The redirection ends, and the response quotes the buffer.
Restore(l) ==
  /\ pc[l] = "restore"
  /\ stdout' = saved[l]
  /\ saved' = [saved EXCEPT ![l] = Terminal]
  /\ exit' = [exit EXCEPT ![l] = -1]
  /\ disturbed' = disturbed \ {l} /\ aged' = aged \ {l}
  /\ Goes(l, "done")
  /\ UNCHANGED <<graph, world, drivers, handle, mixed, found, overlapped, requestVars>>
-----------------------------------------------------------------------------
(* A request.                                                              *)

\* The edges of an alert's picture: its own, those of its technique that lead
\* to no alert, and those of the users behind its events.
OwnEdges(g, alert) ==
  UNION {(EvidenceOf[a] \X {"CREATED_ALERT"} \X {a})
           \cup ({a} \X {"INDICATES"} \X Indicated(g, a))
           \cup {<<i, "CONTAINS", a>> : i \in {j \in Incidents : <<j, a>> \in g.contains}} :
             a \in g.alerts \cap {alert}}
TechniqueEdges(t) ==
  {<<p[1], "TARGETS", p[2]>> : p \in {q \in Targets : q[1] = t}}
    \cup {<<p[1], "EXPLOITS", p[2]>> : p \in {q \in Exploits : q[1] = t}}
    \cup {<<p[1], "MITIGATES", p[2]>> : p \in {q \in Mitigates : q[2] = t}}
    \cup {<<p[1], "SUPPORTS_RESPONSE_TO", p[2]>> : p \in {q \in SupportsResponseTo : q[2] = t}}
    \cup {<<p[1], "SUBTECHNIQUE_OF", p[2]>> : p \in {q \in SubtechniqueOf : t \in {q[1], q[2]}}}
Neighbourhood(g, alert) ==
  OwnEdges(g, alert)
    \cup UNION {(UNION {TechniqueEdges(t) : t \in Indicated(g, a)})
                  \cup {<<UserOf[e], "TRIGGERED", e>> :
                           e \in {f \in EvidenceOf[a] : UserOf[f] # NoName}} :
                    a \in g.alerts \cap {alert}}

\* LIMIT.  A UNION's branches come one after the other.
Pictures(g, alert) ==
  LET all == Neighbourhood(g, alert)
      own == OwnEdges(g, alert)
  IN IF Cardinality(all) <= PictureLimit THEN {all}
     ELSE {some \in kSubset(PictureLimit, all) : own \subseteq some \/ some \subseteq own}

\* What there is for it in the graph.
Reads(ask, g) ==
  CASE ask.kind = "ask" -> LET e == Retrieve(ask.question, g) IN e.nodes \cup e.edges
    [] ask.kind = "query" -> LET rows == Rows(ask.key, ask.parameter, g)
                             IN UNION {Nodes(ask.key, r) \cup Edges(ask.key, r) : r \in rows}
    [] ask.kind = "alerts" -> g.alerts
    [] ask.kind = "neighbourhood" -> Neighbourhood(g, ask.parameter)

\* What generate may make of it.
Texts(ask, g) ==
  IF ask.kind = "ask"
  THEN {Template(ask.question, Retrieve(ask.question, g), kept) : kept \in Kept(ask.question, g)}
  ELSE {{}}

\* _require_graph; a question that no query answers does not get further.
Ask(r) ==
  /\ pc[r] = "idle"
  /\ \E ask \in Asks :
       /\ asked' = [asked EXCEPT ![r] = ask]
       /\ \/ ~reachable /\ Goes(r, "answered") /\ status' = [status EXCEPT ![r] = 503]
          \/ /\ reachable /\ ask.kind = "ask" /\ ~Supported(ask.question)
             /\ Goes(r, "answered") /\ status' = [status EXCEPT ![r] = 200]
          \/ /\ reachable /\ (ask.kind = "ask" => Supported(ask.question))
             /\ Goes(r, "look") /\ UNCHANGED status
  /\ seen' = [seen EXCEPT ![r] = graph]
  /\ UNCHANGED <<graph, world, drivers, handle, loadVars, read, shown, disturbed, aged>>

\* The query runs; the model is tried for evidence there is.
Query(r) ==
  /\ pc[r] = "query" /\ MayWork
  /\ read' = [read EXCEPT ![r] = graph]
  /\ \E evidence \in IF asked[r].kind = "neighbourhood"
                     THEN Pictures(graph, asked[r].parameter) ELSE {Reads(asked[r], graph)},
        text \in Texts(asked[r], graph) :
       /\ shown' = [shown EXCEPT ![r] = [evidence |-> evidence, text |-> text]]
       /\ IF asked[r].kind = "ask" /\ asked[r].llm /\ evidence # {}
          THEN Goes(r, "phrase") /\ UNCHANGED status
          ELSE /\ Goes(r, "answered")
               /\ status' = [status EXCEPT ![r] =
                    IF asked[r].kind = "neighbourhood" /\ evidence = {} THEN 404 ELSE 200]
  /\ Keeps(r)
  /\ handle' = [handle EXCEPT ![r] = "none"]
  /\ UNCHANGED <<graph, world, driver, made, loadVars, asked, seen, disturbed, aged>>

\* generate_llm: without a key, and whatever way the call fails, the template's
\* words stand; else they are the model's, not known here.  The numbers among
\* its settings are read before it tries.
Phrase(r) ==
  /\ pc[r] = "phrase"
  /\ \E settings \in LLMSettings :
       /\ shown' = shown \/ (settings = "well" /\ shown' = [shown EXCEPT ![r].text = {}])
       /\ status' = [status EXCEPT ![r] = IF settings = "malformed" THEN 500 ELSE 200]
  /\ Goes(r, "answered")
  /\ UNCHANGED <<graph, world, drivers, handle, loadVars, asked, seen, read, disturbed, aged>>

\* The page has it; nothing of the request is left.
Deliver(r) ==
  /\ pc[r] = "answered"
  /\ Goes(r, "done")
  /\ asked' = [asked EXCEPT ![r] = NoAsk]
  /\ seen' = [seen EXCEPT ![r] = Empty] /\ read' = [read EXCEPT ![r] = Empty]
  /\ shown' = [shown EXCEPT ![r] = NoAnswer]
  /\ status' = [status EXCEPT ![r] = 0]
  /\ disturbed' = disturbed \ {r} /\ aged' = aged \ {r}
  /\ UNCHANGED <<graph, world, drivers, handle, loadVars>>
-----------------------------------------------------------------------------
\* Neo4j leaves, and the connections to it are dead although nobody knows.
Leave ==
  /\ reachable /\ outages < MaxOutages
  /\ reachable' = FALSE /\ outages' = outages + 1
  /\ disturbed' = disturbed \cup {a \in Actors : pc[a] \notin {"idle", "answered", "done"}}
  /\ pool' = IF pool = "warm" THEN "stale" ELSE pool
  /\ handle' = [a \in Actors |-> IF handle[a] = "orphan" THEN "stale" ELSE handle[a]]
  /\ UNCHANGED <<graph, driver, made, pc, loadVars, requestVars, aged>>

ComeBack ==
  /\ ~reachable
  /\ reachable' = TRUE
  /\ UNCHANGED <<graph, outages, drivers, handle, pc, loadVars, requestVars, disturbed,
                 aged>>

Load(l) ==
  \/ Begin(l) \/ Decline(l) \/ Collect(l) \/ Apply(l)
  \/ CloseTest(l) \/ Close(l) \/ Forget(l) \/ Report(l) \/ Restore(l)

Next ==
  \/ \E a \in Actors : Look(a) \/ Make(a) \/ Take(a) \/ Fail(a)
  \/ \E l \in Loads : Load(l)
  \/ \E r \in Requests : Ask(r) \/ Query(r) \/ Phrase(r) \/ Deliver(r)
  \/ Leave \/ ComeBack

Spec == Init /\ [][Next]_vars
-----------------------------------------------------------------------------
(* What the screens owe their readers.                                     *)

Answered(r) == pc[r] = "answered" /\ status[r] = 200

\* What an answer may state, each fact by what makes it one: first the facts
\* that more of the graph leaves as they are, then those that a load may change,
\* the counts and an incident's severity and want of alerts.
Facts(g) ==
  {<<a, "created-by", RuleOf[a]>> : a \in g.alerts}
    \cup {<<a, "advised-by", RuleOf[a]>> : a \in g.alerts}
    \cup {<<a, "rated", SeverityOf[a]>> : a \in g.alerts}
    \cup {<<a, "is", "OPEN">> : a \in g.alerts}
    \cup {<<a, "affects", AffectedService[a]>> : a \in g.alerts}
    \cup {<<a, "indicates", TechniqueOf[RuleOf[a]]>> : a \in g.indicates}
    \cup {f \in {p[1] : p \in Mitigates} \X {"helps-against"} \X g.indicates :
             <<f[1], TechniqueOf[RuleOf[f[3]]]>> \in Mitigates}
    \cup {f \in {p[1] : p \in SupportsResponseTo} \X {"covers"} \X g.indicates :
             <<f[1], TechniqueOf[RuleOf[f[3]]]>> \in SupportsResponseTo}
    \cup {<<p[1], "targets", p[2]>> : p \in IF g.knowledge THEN Targets ELSE {}}
    \cup (UNION {{<<p[1], "protects", q[2]>> : q \in {t \in Targets : t[1] = p[2]}} :
                 p \in IF g.knowledge THEN Mitigates ELSE {}})
    \cup {<<p[1], "needs", p[2], 1>> : p \in IF g.topology THEN DependsOn ELSE {}}
    \cup {<<i, "AFFECTS", AssetOf[i]>> : i \in g.incidents}
    \cup {<<p[1], "CONTAINS", p[2]>> : p \in g.contains}

\* The events that link a user to grave alerts.
Linking(g, u) ==
  {e \in Events : UserOf[e] = u /\ \E a \in g.alerts \cap Grave : e \in EvidenceOf[a]}
LinkedUsers(g) == {UserOf[e] : e \in {f \in Events : Linking(g, UserOf[f]) # {}}} \ {NoName}

FactsOfTheMoment(g) ==
  {<<"alerts-of", s, Cardinality({a \in g.alerts : AffectedService[a] = s})>> : s \in Nameable}
    \cup {<<"impacted-by", s, Cardinality({d \in Services : g.topology /\ <<d, s>> \in DependsOn})>> :
             s \in Nameable}
    \cup {<<"users", Cardinality(LinkedUsers(g))>>, <<"incidents", Cardinality(g.incidents)>>}
    \cup {<<i, "rated", g.severity[i]>> : i \in g.incidents}
    \cup {<<i, "CONTAINS", NoName>> :
             i \in {j \in g.incidents : \A a \in Alerts : <<j, a>> \notin g.contains}}
    \cup UNION {{<<u, "linked", RuleOf[a], SeverityOf[a], Cardinality(Linking(g, u))>> :
                   a \in {b \in g.alerts \cap Grave : \E e \in EvidenceOf[b] : UserOf[e] = u}} :
                 u \in LinkedUsers(g)}

\* An answer has all that the graph held when it was asked for, a picture as
\* much of it as its limit lets in, and nothing that the graph does not hold
\* now, whatever loads wrote meanwhile and since.  It states only facts that
\* hold now, or that a load may have changed since its query but that held
\* together then; and of the others, all that there were to state when it was
\* asked ("every claim is backed by a node or relationship it shows alongside",
\* rag/README).  Of a user whom several rules flagged it lets one rule pass
\* with the events of all, as _unique makes it: see LinkagesAreHeld.
AnswersAreCurrent ==
  \A r \in Requests : Answered(r) =>
    /\ \/ Reads(asked[r], seen[r]) \subseteq shown[r].evidence
       \/ asked[r].kind = "neighbourhood" /\ Cardinality(shown[r].evidence) = PictureLimit
    /\ shown[r].evidence \subseteq Reads(asked[r], graph)
    /\ shown[r].text # {} =>
         /\ shown[r].text \subseteq Facts(graph) \cup FactsOfTheMoment(read[r])
         /\ \A text \in Texts(asked[r], seen[r]) :
              text \ FactsOfTheMoment(seen[r]) \subseteq shown[r].text

\* No request and no load fails but for Neo4j having left or another load's end
\* having taken the driver away while it ran, or for a driver that it took and
\* that was made before Neo4j last left; but a question fails for malformed
\* settings of the model too.  What a load did to the driver before does not
\* matter.
FailuresHaveCauses ==
  /\ \A r \in Requests : status[r] = 500 =>
       \/ r \in disturbed \cup aged
       \/ /\ asked[r].kind = "ask" /\ asked[r].llm
          /\ shown[r].evidence # {} /\ "malformed" \in LLMSettings
  /\ \A l \in Loads :
       /\ exit[l] = 500 => l \in disturbed
       /\ exit[l] = 1 /\ pc[l] # "restore" => l \in disturbed \cup aged

\* A load that ran beside no other answers with what it printed, all of it and
\* nothing else, and puts the terminal back, although requests ran meanwhile
\* and other loads before ("capturing what it prints").
SoloOutputIsWhole ==
  /\ \A l \in mixed : l \in overlapped
  /\ (overlapped = {} /\ \A l \in Loads : ~Running(l)) => stdout = Terminal
-----------------------------------------------------------------------------
(* What the docs say and the code does not do.                             *)

\* The driver is "meant to be created once per process and shared"
\* (connection.py): with Neo4j there all the time, no query and no load fails.
SharedDriverServes ==
  outages = 0 => /\ \A r \in Requests : status[r] = 500 => shown[r] # NoAnswer
                 /\ \A l \in Loads : exit[l] # 500

\* "An answer is structurally incapable of stating something the graph does not
\* hold" (rag/README): a user's rule, severity and number of events are those of
\* one row of q2, "the rule that flagged them, and the events that are the
\* evidence for it" (retriever.py).
LinkagesAreHeld ==
  \A r \in Requests : Answered(r) =>
    {f \in shown[r].text : Len(f) = 5} \subseteq
      {<<row.user, "linked", row.rule, row.severity, Cardinality(row.events)>> :
         row \in UsersHighSeverity(read[r])}

\* generate_llm "never crashes the caller" (llm.py): a question for which there
\* is evidence is answered.
PhrasingNeverFails ==
  \A r \in Requests : shown[r].evidence # {} => status[r] # 500
=============================================================================
