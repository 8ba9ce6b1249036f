-------------------------- MODULE MCSecurityStream --------------------------
(***************************************************************************)
(* Two requests, each of which the stream may report up to four times.     *)
(* Requests, names and addresses are interchangeable.                      *)
(***************************************************************************)
EXTENDS SecurityStream, TLC

StreamSymmetry ==
  {f @@ g @@ h : f \in Permutations(Requests), g \in Permutations(Users),
                 h \in Permutations(Addresses)}
=============================================================================
