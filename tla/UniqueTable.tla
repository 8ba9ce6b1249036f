----------------------------- MODULE UniqueTable ------------------------------
(***************************************************************************)
(* What a table with a unique column promises its service: a row enters    *)
(* with a key nobody has, keeps its key or takes one nobody has, and does  *)
(* not come back once it left.  Each is one step, whatever sessions it     *)
(* takes.  asset-service promises it of its names, auth-service of its     *)
(* user names and, a second time, of its email addresses.                  *)
(***************************************************************************)
CONSTANTS Ids, Keys, None  \* row ids, values of the unique column, no row

VARIABLES
  key,   \* the key of each row, None where there is no row
  spent  \* the ids that have been given out

vars == <<key, spent>>

Free(k) == \A i \in Ids : key[i] # k

Init ==
  /\ key \in [Ids -> Keys \cup {None}]
  /\ spent = {i \in Ids : key[i] # None}
  /\ \A i, j \in spent : key[i] = key[j] => i = j

Enter(i, k) ==
  /\ i \notin spent /\ Free(k)
  /\ key' = [key EXCEPT ![i] = k]
  /\ spent' = spent \cup {i}

Rename(i, k) ==
  /\ key[i] # None /\ Free(k)
  /\ key' = [key EXCEPT ![i] = k]
  /\ UNCHANGED spent

Leave(i) ==
  /\ key[i] # None
  /\ key' = [key EXCEPT ![i] = None]
  /\ UNCHANGED spent

Next == \E i \in Ids : Leave(i) \/ \E k \in Keys : Enter(i, k) \/ Rename(i, k)

Spec == Init /\ [][Next]_vars
=============================================================================
