------------------------- MODULE MCIncidentService -------------------------
(***************************************************************************)
(* Three requests against two incidents.  The requests are interchangeable *)
(* and no property names one, so permuting them is a symmetry.             *)
(***************************************************************************)
EXTENDS IncidentService, TLC

RequestSymmetry == Permutations(Requests)
=============================================================================
