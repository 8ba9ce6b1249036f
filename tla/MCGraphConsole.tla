--------------------------- MODULE MCGraphConsole ---------------------------
(***************************************************************************)
(* Two loads and a request.  Three alerts may be collected: a brute force  *)
(* and a misuse of privilege, both of ann's, and a service failure that    *)
(* nobody triggered; one incident groups the first and the last.  Not all  *)
(* of it is collected, and a capture has less of it than the live log, and *)
(* an earlier severity of the incident.                                    *)
(***************************************************************************)
EXTENDS GraphConsole, TLC

MCRuleOf == "brute" :> "Multiple Failed Logins" @@ "misuse" :> "Unauthorised Endpoint Access"
              @@ "failure" :> "Service Failure"
MCAffectedService == "brute" :> "auth-service" @@ "misuse" :> "auth-service"
              @@ "failure" :> "asset-service"
MCEvidenceOf == "brute" :> {"e1"} @@ "misuse" :> {"e2"} @@ "failure" :> {"e3"}
MCUserOf == "e1" :> "ann" @@ "e2" :> "ann" @@ "e3" :> "-"
MCAssetOf == "incident-1" :> "core-auth-db"
MCGroups == "incident-1" :> {"brute", "failure"}

MCSeverityOf == "brute" :> "HIGH" @@ "misuse" :> "HIGH" @@ "failure" :> "HIGH"

Live == [alerts |-> {"brute", "misuse"}, incidents |-> {"incident-1"},
         severity |-> "incident-1" :> "CRITICAL"]
Capture == [alerts |-> {"brute"}, incidents |-> {"incident-1"},
            severity |-> "incident-1" :> "HIGH"]
MCSource == {Live}
MCSources == {Live, Capture}

Q(said, alert, service, llm) ==
  [kind |-> "ask", llm |-> llm,
   question |-> [said |-> said, alert |-> alert, service |-> service]]

\* One of each kind of request, for what may fail.
MCAsks ==
  {Q({"why was", "what should be done"}, "brute", "-", TRUE),
   Q({"which threats"}, "-", "api-gateway", FALSE),
   [kind |-> "neighbourhood", parameter |-> "misuse"]}

\* A question for each query, and the other screens, for what is answered.
MCQuestions ==
  {Q({"why was", "what should be done"}, "brute", "-", TRUE),
   Q({"which alerts"}, "-", "auth-service", FALSE),
   Q({"which threats", "which controls"}, "-", "auth-service", FALSE),
   Q({"which users", "failed logins"}, "-", "-", FALSE),
   Q({"what is affected", "fails"}, "-", "asset-service", FALSE),
   Q({"which incidents", "incidents", "failed logins"}, "-", "-", FALSE),
   [kind |-> "query", key |-> "users_high_severity", parameter |-> "-"],
   [kind |-> "alerts"],
   [kind |-> "neighbourhood", parameter |-> "misuse"]}
MCLinkage == {Q({"which users", "failed logins"}, "-", "-", FALSE)}
MCPhrased == {Q({"why was", "what should be done"}, "brute", "-", TRUE)}

ConsoleSymmetry == Permutations(Loads)

\* The other variables tell of output and of failures, and no step of these
\* depends on them.
AnswersView == <<graph, world, drivers, handle, pc, found, requestVars>>
=============================================================================
