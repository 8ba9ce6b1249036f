----------------------------- MODULE AssetService -----------------------------
(***************************************************************************)
(* services/asset-service: the asset register under concurrent requests.   *)
(* Each request runs on a thread of its own with a session of its own, and *)
(* is cut where another one can commit: load, commit, re-read, answer.     *)
(*                                                                         *)
(* A row has its unique name and its criticality, which decides whether a  *)
(* read is an event; the other columns behave like the name, without its   *)
(* constraint.                                                             *)
(* The database and SQLAlchemy are external: a flush sends the columns     *)
(* that differ from the loaded ones, in one UPDATE; an UPDATE that matches *)
(* no row raises StaleDataError, a DELETE that matches none only warns; a  *)
(* rollback expires the session's row, so that its next use reads the      *)
(* table again.  A refused INSERT also uses up an id, which nobody can     *)
(* tell, so it is left out here.                                           *)
(***************************************************************************)
EXTENDS Naturals

CONSTANTS
  Requests,   \* requests served; each is served once
  Names,
  Null,       \* Python's None: no row, and JSON's null
  Unset,      \* the field is not in the body
  MaxAssets   \* bound on the ids the database hands out

Criticality == {"LOW", "CRITICAL"}

ASSUME AssetAssumption ==
  /\ MaxAssets \in Nat \ {0}
  /\ Null # Unset
  /\ {Null, Unset} \cap (Names \cup Criticality) = {}

VARIABLES
  \* Durable.
  table,     \* asset_db: the row of each id
  nextId,    \* the id sequence
  accesses,  \* the requests whose ASSET_ACCESSED was written
  \* One request each.
  pc, op,
  mine,      \* its session's copy of the row
  reply,     \* its HTTP status, 0 while it runs, and the row it speaks of
  wrote,     \* history: its transaction changed the table
  overtaken  \* history: another one wrote to the row since it was loaded

requestVars == <<pc, op, mine, reply, wrote, overtaken>>
vars == <<table, nextId, accesses, requestVars>>

Ids == 1..MaxAssets
Rows == [name : Names, criticality : Criticality]
NoRow == [name |-> Null, criticality |-> Null]

\* AssetUpdate: any field may be absent, and any may be null.
Bodies == [name : Names \cup {Null, Unset}, criticality : Criticality \cup {Null, Unset}]

Ops == [kind : {"create", "update", "get", "delete"}, asset : Ids, body : Bodies]
NoOp == [kind |-> "none", asset |-> 1, body |-> NoRow]

TypeOK ==
  /\ table \in [Ids -> Rows \cup {NoRow}]
  /\ nextId \in 1..MaxAssets + 1
  /\ accesses \subseteq Requests
  /\ pc \in [Requests -> {"new", "write", "conflict", "refresh", "read", "done"}]
  /\ op \in [Requests -> Ops \cup {NoOp}]
  /\ mine \in [Requests -> Rows \cup {NoRow}]
  /\ reply \in [Requests -> [status : {0, 200, 201, 204, 404, 409, 500},
                             row : Rows \cup {NoRow}]]
  /\ wrote \in [Requests -> BOOLEAN]
  /\ overtaken \in [Requests -> BOOLEAN]

\* One asset is registered.
Init ==
  /\ \E row \in Rows : table = [i \in Ids |-> IF i = 1 THEN row ELSE NoRow]
  /\ nextId = 2
  /\ accesses = {}
  /\ pc = [r \in Requests |-> "new"]
  /\ op = [r \in Requests |-> NoOp]
  /\ mine = [r \in Requests |-> NoRow]
  /\ reply = [r \in Requests |-> [status |-> 0, row |-> NoRow]]
  /\ wrote = [r \in Requests |-> FALSE]
  /\ overtaken = [r \in Requests |-> FALSE]
-----------------------------------------------------------------------------
(* The database.                                                           *)

Present(i) == table[i] # NoRow

\* A mistake: the constraint is missing and nothing else looks.
TakenNever(n, i) == FALSE

\* The unique constraint on the name: another row has it.
Taken(n, i) == \E j \in Ids \ {i} : table[j].name = n

\* A mistake: the null is not an integrity violation.
RefusedButNull(r, row) == row.name # Null /\ Taken(row.name, op[r].asset)

\* IntegrityError: the name is taken or a column that is NOT NULL gets null.
Refused(r, row) ==
  Taken(row.name, op[r].asset) \/ \E c \in DOMAIN row : row[c] = Null

\* The row as the UPDATE of request r leaves it: the columns of the body that
\* differ from the session's copy are sent, the others stay as they are.
Flushed(r, i) ==
  [c \in DOMAIN NoRow |->
     IF op[r].body[c] \in {Unset, mine[r][c]} THEN table[i][c] ELSE op[r].body[c]]

Dirty(r) == \E c \in DOMAIN NoRow : op[r].body[c] \notin {Unset, mine[r][c]}

\* Request r has written to row i.
Overtake(r, i) ==
  overtaken' = [q \in Requests |->
                  overtaken[q] \/ (q # r /\ op[q].asset = i /\ pc[q] # "new")]
-----------------------------------------------------------------------------
(* One request.                                                            *)

Goto(r, label) == pc' = [pc EXCEPT ![r] = label] /\ UNCHANGED <<mine, reply>>

\* The session is closed with its answer (get_session).
Answer(r, status, row) ==
  /\ pc' = [pc EXCEPT ![r] = "done"]
  /\ mine' = [mine EXCEPT ![r] = NoRow]
  /\ reply' = [reply EXCEPT ![r] = [status |-> status, row |-> row]]

\* error_handlers: an exception that no handler claims.
Raise(r) == Answer(r, 500, NoRow)

\* POST: AssetCreate takes no nulls, and every field has a value.
AskCreate(r) ==
  /\ pc[r] = "new" /\ nextId \in Ids
  /\ \E row \in Rows :
       op' = [op EXCEPT ![r] = [kind |-> "create", asset |-> nextId, body |-> row]]
  /\ Goto(r, "write")
  /\ UNCHANGED <<table, nextId, accesses, wrote, overtaken>>

\* create: INSERT and commit, or the conflict; the rolled back row was never
\* persistent, so its name is still the requested one.
Insert(r) ==
  /\ pc[r] = "write" /\ op[r].kind = "create" /\ nextId \in Ids
  /\ op' = [op EXCEPT ![r].asset = nextId]
  /\ IF Taken(op[r].body.name, nextId)
     THEN /\ Answer(r, 409, op[r].body)
          /\ UNCHANGED <<table, nextId, wrote>>
     ELSE /\ table' = [table EXCEPT ![nextId] = op[r].body]
          /\ nextId' = nextId + 1
          /\ wrote' = [wrote EXCEPT ![r] = TRUE]
          /\ Goto(r, "refresh")
  /\ UNCHANGED <<accesses, overtaken>>

\* GET, PUT and DELETE on one asset: look it up.  PUT with a null criticality
\* reads .value of None before it writes anything.
Load(r) ==
  /\ pc[r] = "new"
  /\ \E o \in Ops :
       /\ o.kind # "create"
       /\ o.kind # "update" => o.body = [c \in DOMAIN NoRow |-> Unset]
       /\ o.asset < nextId
       /\ op' = [op EXCEPT ![r] = o]
       /\ IF ~Present(o.asset)
          THEN Answer(r, 404, NoRow)
          ELSE IF o.body.criticality = Null
          THEN Raise(r)
          ELSE /\ mine' = [mine EXCEPT ![r] = table[o.asset]]
               /\ pc' = [pc EXCEPT ![r] = IF o.kind = "get" THEN "read" ELSE "write"]
               /\ UNCHANGED reply
  /\ UNCHANGED <<table, nextId, accesses, wrote, overtaken>>

\* update, up to the commit.
Write(r) ==
  /\ pc[r] = "write" /\ op[r].kind = "update"
  /\ LET i == op[r].asset IN
       CASE ~Dirty(r) ->
              Goto(r, "refresh") /\ UNCHANGED <<table, wrote, overtaken>>
         [] Dirty(r) /\ ~Present(i) ->
              Raise(r) /\ UNCHANGED <<table, wrote, overtaken>>
         [] Dirty(r) /\ Present(i) /\ Refused(r, Flushed(r, i)) ->
              Goto(r, "conflict") /\ UNCHANGED <<table, wrote, overtaken>>
         [] Dirty(r) /\ Present(i) /\ ~Refused(r, Flushed(r, i)) ->
              /\ table' = [table EXCEPT ![i] = Flushed(r, i)]
              /\ wrote' = [wrote EXCEPT ![r] = TRUE]
              /\ Overtake(r, i)
              /\ Goto(r, "refresh")
  /\ UNCHANGED <<nextId, accesses, op>>

\* update's handler rolled back, and now reads asset.name for its message: the
\* expired row is loaded again, or it is gone and ObjectDeletedError rises.
Conflict(r) ==
  /\ pc[r] = "conflict"
  /\ IF Present(op[r].asset) THEN Answer(r, 409, table[op[r].asset]) ELSE Raise(r)
  /\ UNCHANGED <<table, nextId, accesses, op, wrote, overtaken>>

\* A mistake: the row is not read again.
RefreshSkipped(r) ==
  /\ pc[r] = "refresh"
  /\ IF op[r].kind = "create" THEN Answer(r, 201, op[r].body) ELSE Answer(r, 200, mine[r])
  /\ UNCHANGED <<table, nextId, accesses, op, wrote, overtaken>>

\* create and update read their row once more, or find it gone.
Refresh(r) ==
  /\ pc[r] = "refresh"
  /\ IF Present(op[r].asset)
     THEN Answer(r, IF op[r].kind = "create" THEN 201 ELSE 200, table[op[r].asset])
     ELSE Raise(r)
  /\ UNCHANGED <<table, nextId, accesses, op, wrote, overtaken>>

\* delete: of two, both are told it worked.
Delete(r) ==
  /\ pc[r] = "write" /\ op[r].kind = "delete"
  /\ LET i == op[r].asset IN
       /\ table' = [table EXCEPT ![i] = NoRow]
       /\ wrote' = [wrote EXCEPT ![r] = Present(i)]
       /\ Overtake(r, i)
  /\ Answer(r, 204, NoRow)
  /\ UNCHANGED <<nextId, accesses, op>>

\* A mistake: the event is decided from the table, the answer from the session.
ReadAgain(r) ==
  /\ pc[r] = "read"
  /\ accesses' = IF table[op[r].asset].criticality = "CRITICAL" THEN accesses \cup {r}
                                                                ELSE accesses
  /\ Answer(r, 200, mine[r])
  /\ UNCHANGED <<table, nextId, op, wrote, overtaken>>

\* get: the ASSET_ACCESSED of a critical asset, then the answer.
Read(r) ==
  /\ pc[r] = "read"
  /\ accesses' = IF mine[r].criticality = "CRITICAL" THEN accesses \cup {r} ELSE accesses
  /\ Answer(r, 200, mine[r])
  /\ UNCHANGED <<table, nextId, op, wrote, overtaken>>

\* A statement fails; what was not committed is not kept.
DatabaseFails(r) ==
  /\ pc[r] \in {"write", "conflict", "refresh"}
  /\ Raise(r)
  /\ UNCHANGED <<table, nextId, accesses, op, wrote, overtaken>>

\* The process is killed: nobody is answered (status 0).
Crash ==
  /\ \E r \in Requests : pc[r] \notin {"new", "done"}
  /\ pc' = [r \in Requests |-> IF pc[r] = "new" THEN "new" ELSE "done"]
  /\ mine' = [r \in Requests |-> NoRow]
  /\ UNCHANGED <<table, nextId, accesses, op, reply, wrote, overtaken>>

RequestStep(r) ==
  \/ AskCreate(r) \/ Insert(r) \/ Load(r) \/ Write(r) \/ Conflict(r)
  \/ Refresh(r) \/ Delete(r) \/ Read(r) \/ DatabaseFails(r)

Next == Crash \/ \E r \in Requests : RequestStep(r)

Spec == Init /\ [][Next]_vars
-----------------------------------------------------------------------------
(* What the register must do.                                              *)

\* The names are unique at every moment, no id is used twice and no deleted
\* asset returns, although requests load, rename, insert and delete side by
\* side ("the unique constraint is the authority, not a prior SELECT").
Register ==
  INSTANCE UniqueTable WITH
    Ids <- Ids, Keys <- Names, None <- Null,
    key <- [i \in Ids |-> table[i].name], spent <- 1..(nextId - 1)

ImplementsUniqueTable == Register!Spec

\* A refused request left no trace, and an accepted one is told the row it
\* asked for, unless another request wrote to that row since it was loaded.
RepliesMatchWrites ==
  \A r \in Requests :
    /\ reply[r].status \in {404, 409} => ~wrote[r]
    /\ (reply[r].status \in {200, 201} /\ op[r].kind # "get" /\ ~overtaken[r]) =>
         \A c \in DOMAIN NoRow : op[r].body[c] \in {Unset, reply[r].row[c]}

\* Who was shown a critical asset is on the event stream, and nobody else is,
\* even if its criticality changes while it is read (AssetService.get).
CriticalReadsAnnounced ==
  \A r \in Requests :
    reply[r].status = 200 /\ op[r].kind = "get" =>
      (r \in accesses <=> reply[r].row.criticality = "CRITICAL")

=============================================================================
