---------------------------- MODULE MCGraphLoader ----------------------------
(***************************************************************************)
(* Two loads of a log that grows to two failed logins and two events of an *)
(* incident.  All kinds of names are interchangeable.                      *)
(***************************************************************************)
EXTENDS GraphLoader, TLC

LoaderSymmetry ==
  {f @@ g @@ h @@ k : f \in Permutations(Loads), g \in Permutations(Attempts),
                      h \in Permutations(Users), k \in Permutations(Addresses)}
=============================================================================
