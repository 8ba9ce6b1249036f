--------------------------- MODULE MCAlertConsole ---------------------------
(***************************************************************************)
(* Two detection runs over two services, a responder and an investigator.  *)
(* Services are interchangeable, and so are runs.                          *)
(***************************************************************************)
EXTENDS AlertConsole, TLC

ConsoleSymmetry ==
  {f @@ g : f \in Permutations(Services), g \in Permutations(Runs)}
=============================================================================
