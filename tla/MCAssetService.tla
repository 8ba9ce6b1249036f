---------------------------- MODULE MCAssetService ----------------------------
EXTENDS AssetService, TLC

\* Requests are alike, and so are names.
Symmetry == Permutations(Requests) \cup Permutations(Names)
=============================================================================
