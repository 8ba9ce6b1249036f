-------------------------- MODULE AssetServiceProofs --------------------------
(***************************************************************************)
(* AssetService's safety for any set of requests and names and any number  *)
(* of ids.                                                                 *)
(***************************************************************************)
EXTENDS AssetService, TLAPS

\* The rows beyond the sequence do not exist, and two rows never share a name.
TableInv ==
  /\ \A i \in Ids : i >= nextId => table[i] = NoRow
  /\ \A i, j \in Ids : table[i].name # Null /\ table[i].name = table[j].name => i = j

\* What a request may rely on at each of its stages.
StageInv ==
  \A r \in Requests :
    /\ pc[r] \in {"write", "conflict", "refresh", "read"} => op[r] \in Ops
    /\ pc[r] = "write" => op[r].kind \in {"create", "update", "delete"}
    /\ pc[r] = "conflict" => op[r].kind = "update"
    /\ pc[r] = "refresh" => op[r].kind \in {"create", "update"} /\ op[r].asset < nextId
    /\ pc[r] = "read" => op[r].kind = "get"
    /\ pc[r] = "write" /\ op[r].kind = "create" => op[r].body \in Rows
    /\ pc[r] = "write" /\ op[r].kind = "update" => op[r].asset < nextId
    /\ pc[r] \in {"new", "write", "conflict", "read"} => ~wrote[r]
    /\ reply[r].status # 0 => pc[r] = "done"
    /\ pc[r] # "done" => r \notin accesses

\* Until another request writes to its row, an updater's copy is the row, and
\* after its own commit the row is what it asked for.
SessionInv ==
  \A r \in Requests :
    ~overtaken[r] =>
      /\ pc[r] = "write" /\ op[r].kind = "update" => mine[r] = table[op[r].asset]
      /\ pc[r] = "refresh" =>
           \A c \in DOMAIN NoRow : op[r].body[c] \in {Unset, table[op[r].asset][c]}

IInv ==
  /\ TypeOK
  /\ TableInv
  /\ StageInv
  /\ SessionInv
  /\ RepliesMatchWrites
  /\ CriticalReadsAnnounced
-----------------------------------------------------------------------------
(* Rows.                                                                   *)

LEMMA RowColumns == DOMAIN NoRow = {"name", "criticality"}
BY DEF NoRow

\* A row and the absence of one are told apart by the name.
LEMMA RowNames ==
  /\ NoRow.name = Null
  /\ \A row \in Rows : row.name # Null /\ row.name \in Names
BY AssetAssumption DEF Rows, NoRow

\* What the database accepts is a row.
LEMMA FlushedIsRow ==
  ASSUME TypeOK, NEW r \in Requests, op[r] \in Ops,
         NEW i \in Ids, Present(i), ~Refused(r, Flushed(r, i))
  PROVE  Flushed(r, i) \in Rows
<1>1. table[i] \in Rows
  BY DEF Present, TypeOK
<1>2. Flushed(r, i).name = (IF op[r].body.name \in {Unset, mine[r].name}
                            THEN table[i].name ELSE op[r].body.name)
  BY RowColumns DEF Flushed
<1>3. Flushed(r, i).criticality =
        (IF op[r].body.criticality \in {Unset, mine[r].criticality}
         THEN table[i].criticality ELSE op[r].body.criticality)
  BY RowColumns DEF Flushed
<1>4. DOMAIN Flushed(r, i) = {"name", "criticality"}
  BY RowColumns DEF Flushed
<1>5. Flushed(r, i).name # Null /\ Flushed(r, i).criticality # Null
  BY <1>4 DEF Refused
<1>6. op[r].body \in Bodies
  BY DEF Ops
<1>7. Flushed(r, i).name \in Names
  BY <1>1, <1>2, <1>5, <1>6 DEF Rows, Bodies
<1>8. Flushed(r, i).criticality \in Criticality
  BY <1>1, <1>3, <1>5, <1>6 DEF Rows, Bodies
<1>9. Flushed(r, i) = [name |-> Flushed(r, i).name, criticality |-> Flushed(r, i).criticality]
  BY RowColumns DEF Flushed
<1> QED
  BY <1>7, <1>8, <1>9 DEF Rows
-----------------------------------------------------------------------------
(* The initial states satisfy the invariant.                               *)

LEMMA InitIInv == Init => IInv
<1> SUFFICES ASSUME Init PROVE IInv
  OBVIOUS
<1> USE AssetAssumption, RowNames DEF Init
<1>1. PICK row \in Rows : table = [i \in Ids |-> IF i = 1 THEN row ELSE NoRow]
  OBVIOUS
<1>2. TypeOK
  <2>1. table \in [Ids -> Rows \cup {NoRow}]
    BY <1>1
  <2>2. /\ nextId \in 1..MaxAssets + 1 /\ accesses \subseteq Requests
        /\ pc \in [Requests -> {"new", "write", "conflict", "refresh", "read", "done"}]
        /\ mine \in [Requests -> Rows \cup {NoRow}]
        /\ op \in [Requests -> Ops \cup {NoOp}]
    OBVIOUS
  <2>3. reply \in [Requests -> [status : {0, 200, 201, 204, 404, 409, 500},
                                row : Rows \cup {NoRow}]]
    OBVIOUS
  <2>4. wrote \in [Requests -> BOOLEAN] /\ overtaken \in [Requests -> BOOLEAN]
    BY Zenon
  <2> QED
    BY <2>1, <2>2, <2>3, <2>4, ZenonT(40) DEF TypeOK
<1>3. TableInv
  BY <1>1 DEF TableInv, Ids
<1>4. StageInv /\ SessionInv
  BY DEF StageInv, SessionInv
<1>5. RepliesMatchWrites /\ CriticalReadsAnnounced
  BY DEF RepliesMatchWrites, CriticalReadsAnnounced
<1> QED
  BY <1>2, <1>3, <1>4, <1>5 DEF IInv
-----------------------------------------------------------------------------
(* Every step preserves it, one lemma for each conjunct.                   *)

LEMMA StepType == IInv /\ [Next]_vars => TypeOK'
<1> SUFFICES ASSUME IInv, [Next]_vars PROVE TypeOK'
  OBVIOUS
<1> USE AssetAssumption, RowNames DEF IInv, TypeOK
<1> DEFINE Replies == [status : {0, 200, 201, 204, 404, 409, 500}, row : Rows \cup {NoRow}]
           Stages == {"new", "write", "conflict", "refresh", "read", "done"}
           Copies == Rows \cup {NoRow}
<1>1. ASSUME NEW r \in Requests, NEW s \in {200, 201, 204, 404, 409, 500},
             NEW row \in Copies, Answer(r, s, row)
      PROVE  /\ pc' \in [Requests -> Stages] /\ mine' \in [Requests -> Copies]
             /\ reply' \in [Requests -> Replies]
  BY <1>1 DEF Answer
<1>2. ASSUME NEW r \in Requests, NEW label \in Stages, Goto(r, label)
      PROVE  /\ pc' \in [Requests -> Stages] /\ mine' \in [Requests -> Copies]
             /\ reply' \in [Requests -> Replies]
  BY <1>2 DEF Goto
<1>3. ASSUME NEW r \in Requests, Raise(r)
      PROVE  /\ pc' \in [Requests -> Stages] /\ mine' \in [Requests -> Copies]
             /\ reply' \in [Requests -> Replies]
  BY <1>1, <1>3 DEF Raise
<1>4. ASSUME NEW r \in Requests, NEW i \in Ids, Overtake(r, i)
      PROVE  overtaken' \in [Requests -> BOOLEAN]
  <2>1. \A q \in Requests :
          (overtaken[q] \/ (q # r /\ op[q].asset = i /\ pc[q] # "new")) \in BOOLEAN
    OBVIOUS
  <2> QED
    BY <1>4, <2>1, ZenonT(40) DEF Overtake
<1>5. ASSUME NEW r \in Requests, NEW b \in BOOLEAN, wrote' = [wrote EXCEPT ![r] = b]
      PROVE  wrote' \in [Requests -> BOOLEAN]
  BY <1>5, ZenonT(40)
<1>6. ASSUME NEW r \in Requests, AskCreate(r) PROVE TypeOK'
  <2>1. op' \in [Requests -> Ops \cup {NoOp}]
    BY <1>6 DEF AskCreate, Ops, Bodies, Rows
  <2>2. /\ pc' \in [Requests -> Stages] /\ mine' \in [Requests -> Copies]
        /\ reply' \in [Requests -> Replies]
    BY <1>2, <1>6 DEF AskCreate
  <2> QED
    BY <1>6, <2>1, <2>2, ZenonT(40) DEF AskCreate
<1>7. ASSUME NEW r \in Requests, Insert(r) PROVE TypeOK'
  <2>1. op[r] \in Ops /\ op[r].body \in Rows
    BY <1>7 DEF Insert, StageInv
  <2>2. op' \in [Requests -> Ops \cup {NoOp}]
    BY <1>7, <2>1 DEF Insert, Ops
  <2>3. accesses' \subseteq Requests /\ overtaken' \in [Requests -> BOOLEAN]
    BY <1>7, ZenonT(40) DEF Insert
  <2>4. CASE Taken(op[r].body.name, nextId)
    <3>1. Answer(r, 409, op[r].body) /\ UNCHANGED <<table, nextId, wrote>>
      BY <1>7, <2>4 DEF Insert
    <3> QED
      BY <1>1, <2>1, <2>2, <2>3, <3>1
  <2>5. CASE ~Taken(op[r].body.name, nextId)
    <3>1. /\ table' = [table EXCEPT ![nextId] = op[r].body]
          /\ nextId \in Ids /\ nextId' = nextId + 1
          /\ wrote' = [wrote EXCEPT ![r] = TRUE]
          /\ Goto(r, "refresh")
      BY <1>7, <2>5, ZenonT(40) DEF Insert
    <3>2. table' \in [Ids -> Copies] /\ nextId' \in 1..MaxAssets + 1
      BY <2>1, <3>1 DEF Ids
    <3>3. wrote' \in [Requests -> BOOLEAN]
      BY <1>5, <3>1
    <3> QED
      BY <1>2, <2>2, <2>3, <3>1, <3>2, <3>3
  <2> QED
    BY <2>4, <2>5
<1>8. ASSUME NEW r \in Requests, Load(r) PROVE TypeOK'
  <2>1. PICK o \in Ops :
          /\ op' = [op EXCEPT ![r] = o]
          /\ \/ Answer(r, 404, NoRow)
             \/ Raise(r)
             \/ /\ mine' = [mine EXCEPT ![r] = table[o.asset]]
                /\ pc' = [pc EXCEPT ![r] = IF o.kind = "get" THEN "read" ELSE "write"]
                /\ UNCHANGED reply
    BY <1>8, ZenonT(40) DEF Load
  <2>2. op' \in [Requests -> Ops \cup {NoOp}]
    BY <2>1
  <2>3. /\ pc' \in [Requests -> Stages] /\ mine' \in [Requests -> Copies]
        /\ reply' \in [Requests -> Replies]
    <3>1. o.asset \in Ids
      BY DEF Ops
    <3>2. table[o.asset] \in Copies
      BY <3>1
    <3>3. CASE Answer(r, 404, NoRow)
      BY <1>1, <3>3
    <3>4. CASE Raise(r)
      BY <1>3, <3>4
    <3>5. CASE /\ mine' = [mine EXCEPT ![r] = table[o.asset]]
               /\ pc' = [pc EXCEPT ![r] = IF o.kind = "get" THEN "read" ELSE "write"]
               /\ UNCHANGED reply
      BY <3>2, <3>5
    <3> QED
      BY <2>1, <3>3, <3>4, <3>5, ZenonT(40)
  <2> QED
    BY <1>8, <2>2, <2>3, ZenonT(40) DEF Load
<1>9. ASSUME NEW r \in Requests, Write(r) PROVE TypeOK'
  <2>1. op[r] \in Ops /\ op[r].asset \in Ids
    BY <1>9 DEF Write, StageInv, Ops
  <2> DEFINE i == op[r].asset
  <2>2. /\ nextId' = nextId /\ accesses' = accesses /\ op' = op
        /\ \/ Goto(r, "refresh") /\ UNCHANGED <<table, wrote, overtaken>>
           \/ Raise(r) /\ UNCHANGED <<table, wrote, overtaken>>
           \/ Goto(r, "conflict") /\ UNCHANGED <<table, wrote, overtaken>>
           \/ /\ Present(i) /\ ~Refused(r, Flushed(r, i))
              /\ table' = [table EXCEPT ![i] = Flushed(r, i)]
              /\ wrote' = [wrote EXCEPT ![r] = TRUE]
              /\ Overtake(r, i)
              /\ Goto(r, "refresh")
    BY <1>9, ZenonT(40) DEF Write
  <2>3. CASE UNCHANGED <<table, wrote, overtaken>> /\ (Raise(r) \/ Goto(r, "refresh") \/ Goto(r, "conflict"))
    BY <1>2, <1>3, <2>2, <2>3
  <2>4. CASE /\ Present(i) /\ ~Refused(r, Flushed(r, i))
             /\ table' = [table EXCEPT ![i] = Flushed(r, i)]
             /\ wrote' = [wrote EXCEPT ![r] = TRUE]
             /\ Overtake(r, i)
             /\ Goto(r, "refresh")
    <3>1. table' \in [Ids -> Copies]
      BY <2>1, <2>4, FlushedIsRow
    <3> QED
      BY <1>2, <1>4, <1>5, <2>1, <2>2, <2>4, <3>1
  <2> QED
    BY <2>2, <2>3, <2>4, ZenonT(40)
<1>10. ASSUME NEW r \in Requests, Conflict(r) \/ Refresh(r) PROVE TypeOK'
  <2> DEFINE created == IF op[r].kind = "create" THEN 201 ELSE 200
  <2>1. op[r] \in Ops /\ op[r].asset \in Ids
    BY <1>10 DEF Conflict, Refresh, StageInv, Ops
  <2>2. table[op[r].asset] \in Copies
    BY <2>1
  <2>3. /\ UNCHANGED <<table, nextId, accesses, op, wrote, overtaken>>
        /\ Raise(r) \/ Answer(r, 409, table[op[r].asset]) \/ Answer(r, created, table[op[r].asset])
    BY <1>10, ZenonT(40) DEF Conflict, Refresh
  <2>4. /\ pc' \in [Requests -> Stages] /\ mine' \in [Requests -> Copies]
        /\ reply' \in [Requests -> Replies]
    <3>1. created \in {200, 201}
      OBVIOUS
    <3>2. ASSUME NEW s \in {200, 201, 409}, Answer(r, s, table[op[r].asset])
          PROVE  /\ pc' \in [Requests -> Stages] /\ mine' \in [Requests -> Copies]
                 /\ reply' \in [Requests -> Replies]
      BY <1>1, <2>2, <3>2
    <3> QED
      BY <1>3, <2>3, <3>1, <3>2
  <2> QED
    BY <2>3, <2>4, ZenonT(40)
<1>11. ASSUME NEW r \in Requests, Delete(r) PROVE TypeOK'
  <2>1. op[r] \in Ops /\ op[r].asset \in Ids
    BY <1>11 DEF Delete, StageInv, Ops
  <2>2. /\ table' \in [Ids -> Copies] /\ overtaken' \in [Requests -> BOOLEAN]
        /\ wrote' \in [Requests -> BOOLEAN]
    <3>1. Present(op[r].asset) \in BOOLEAN
      BY DEF Present
    <3>2. table' \in [Ids -> Copies]
      BY <1>11, <2>1 DEF Delete
    <3> QED
      BY <1>4, <1>5, <1>11, <2>1, <3>1, <3>2 DEF Delete
  <2>3. /\ pc' \in [Requests -> Stages] /\ mine' \in [Requests -> Copies]
        /\ reply' \in [Requests -> Replies]
    BY <1>1, <1>11 DEF Delete
  <2> QED
    BY <1>11, <2>2, <2>3, ZenonT(40) DEF Delete
<1>12. ASSUME NEW r \in Requests, Read(r) PROVE TypeOK'
  <2>1. accesses' \subseteq Requests
    BY <1>12 DEF Read
  <2>2. /\ pc' \in [Requests -> Stages] /\ mine' \in [Requests -> Copies]
        /\ reply' \in [Requests -> Replies]
    BY <1>1, <1>12 DEF Read
  <2> QED
    BY <1>12, <2>1, <2>2, ZenonT(40) DEF Read
<1>13. ASSUME NEW r \in Requests, DatabaseFails(r) PROVE TypeOK'
  BY <1>3, <1>13 DEF DatabaseFails
<1>14. CASE Crash
  BY <1>14 DEF Crash
<1>15. CASE UNCHANGED vars
  BY <1>15 DEF vars, requestVars
<1> QED
  BY <1>6, <1>7, <1>8, <1>9, <1>10, <1>11, <1>12, <1>13, <1>14, <1>15
     DEF Next, RequestStep

LEMMA StepTable == IInv /\ [Next]_vars => TableInv'
<1> SUFFICES ASSUME IInv, [Next]_vars PROVE TableInv'
  OBVIOUS
<1> USE AssetAssumption, RowNames DEF IInv, TypeOK, TableInv, Ids
<1>1. ASSUME NEW r \in Requests, Insert(r) PROVE TableInv'
  <2>1. op[r].body \in Rows
    BY <1>1 DEF Insert, StageInv
  <2>2. CASE UNCHANGED <<table, nextId>>
    BY <2>2
  <2>3. CASE ~Taken(op[r].body.name, nextId) /\ nextId \in Ids /\ nextId' = nextId + 1
             /\ table' = [table EXCEPT ![nextId] = op[r].body]
    BY <2>1, <2>3 DEF Taken
  <2> QED
    BY <1>1, <2>2, <2>3, ZenonT(40) DEF Insert
<1>2. ASSUME NEW r \in Requests, Write(r) PROVE TableInv'
  <2> DEFINE i == op[r].asset
  <2>1. op[r] \in Ops /\ i \in Ids /\ i < nextId
    BY <1>2 DEF Write, StageInv, Ops
  <2>2. CASE UNCHANGED table
    BY <1>2, <2>2 DEF Write
  <2>3. CASE /\ Present(i) /\ ~Refused(r, Flushed(r, i))
             /\ table' = [table EXCEPT ![i] = Flushed(r, i)]
    <3>1. Flushed(r, i) \in Rows
      BY <2>1, <2>3, FlushedIsRow
    <3>2. \A j \in Ids \ {i} : table[j].name # Flushed(r, i).name
      BY <2>3 DEF Refused, Taken
    <3>3. nextId' = nextId
      BY <1>2 DEF Write
    <3> QED
      BY <2>1, <2>3, <3>1, <3>2, <3>3
  <2> QED
    BY <1>2, <2>2, <2>3, ZenonT(40) DEF Write
<1>3. ASSUME NEW r \in Requests, Delete(r) PROVE TableInv'
  <2>1. op[r].asset \in Ids
    BY <1>3 DEF Delete, StageInv, Ops
  <2> QED
    BY <1>3, <2>1 DEF Delete
<1>4. ASSUME UNCHANGED <<table, nextId>> PROVE TableInv'
  BY <1>4
<1> QED
  BY <1>1, <1>2, <1>3, <1>4 DEF Next, RequestStep, vars, AskCreate, Load, Conflict, Refresh,
     Read, DatabaseFails, Crash

LEMMA StepStage == IInv /\ [Next]_vars => StageInv'
<1> SUFFICES ASSUME IInv, [Next]_vars PROVE StageInv'
  OBVIOUS
<1> USE AssetAssumption, RowNames DEF IInv, TypeOK, StageInv
<1>1. ASSUME NEW r \in Requests, AskCreate(r) PROVE StageInv'
  <2>1. PICK row \in Rows : op' = [op EXCEPT ![r] = [kind |-> "create", asset |-> nextId, body |-> row]]
    BY <1>1 DEF AskCreate
  <2>2. op'[r] \in Ops
    BY <1>1, <2>1 DEF AskCreate, Ops, Bodies, Rows
  <2> QED
    BY <1>1, <2>1, <2>2 DEF AskCreate, Goto
<1>2. ASSUME NEW r \in Requests, Insert(r) PROVE StageInv'
  <2>1. op[r] \in Ops /\ op[r].body \in Rows /\ nextId \in Ids
    BY <1>2 DEF Insert
  <2>2. op'[r] \in Ops /\ op'[r].kind = op[r].kind /\ op'[r].asset = nextId
    BY <1>2, <2>1 DEF Insert, Ops
  <2>3. \A q \in Requests \ {r} : op'[q] = op[q] /\ pc'[q] = pc[q] /\ reply'[q] = reply[q]
                                  /\ wrote'[q] = wrote[q]
    BY <1>2 DEF Insert, Answer, Goto
  <2>4. nextId' \in {nextId, nextId + 1} /\ accesses' = accesses
    BY <1>2 DEF Insert
  <2>5. \/ pc'[r] = "done"
        \/ pc'[r] = "refresh" /\ nextId' = nextId + 1 /\ reply'[r] = reply[r]
    BY <1>2 DEF Insert, Answer, Goto
  <2> QED
    BY <1>2, <2>1, <2>2, <2>3, <2>4, <2>5 DEF Insert, Ids, Ops
<1>3. ASSUME NEW r \in Requests, Load(r) PROVE StageInv'
  <2>1. PICK o \in Ops :
          /\ o.kind # "create" /\ o.asset < nextId
          /\ op' = [op EXCEPT ![r] = o]
          /\ \/ Answer(r, 404, NoRow)
             \/ Raise(r)
             \/ /\ pc' = [pc EXCEPT ![r] = IF o.kind = "get" THEN "read" ELSE "write"]
                /\ UNCHANGED reply
    BY <1>3, ZenonT(40) DEF Load
  <2>2. o.kind \in {"update", "get", "delete"}
    BY <2>1 DEF Ops
  <2> QED
    BY <1>3, <2>1, <2>2 DEF Load, Answer, Raise
<1>4. ASSUME NEW r \in Requests, Write(r) PROVE StageInv'
  <2>1. /\ nextId' = nextId /\ accesses' = accesses /\ op' = op
        /\ pc[r] = "write" /\ op[r].kind = "update"
        /\ \/ Goto(r, "refresh") \/ Raise(r)
           \/ (Goto(r, "conflict") /\ wrote' = wrote)
        /\ wrote' = wrote \/ wrote' = [wrote EXCEPT ![r] = TRUE]
    BY <1>4, ZenonT(40) DEF Write
  <2> QED
    BY <2>1 DEF Goto, Raise, Answer
<1>5. ASSUME NEW r \in Requests, Conflict(r) \/ Refresh(r) \/ Delete(r) \/ DatabaseFails(r)
      PROVE  StageInv'
  BY <1>5 DEF Conflict, Refresh, Delete, DatabaseFails, Raise, Answer
<1>6. ASSUME NEW r \in Requests, Read(r) PROVE StageInv'
  BY <1>6 DEF Read, Answer
<1>7. CASE Crash
  BY <1>7 DEF Crash
<1>8. CASE UNCHANGED vars
  BY <1>8 DEF vars, requestVars
<1> QED
  BY <1>1, <1>2, <1>3, <1>4, <1>5, <1>6, <1>7, <1>8 DEF Next, RequestStep

\* Whoever writes to a row marks the others that have loaded it.
LEMMA OvertakeMarks ==
  ASSUME TypeOK, NEW r \in Requests, NEW q \in Requests, NEW i, Overtake(r, i), ~overtaken'[q]
  PROVE  ~overtaken[q] /\ (q = r \/ op[q].asset # i \/ pc[q] = "new")
BY DEF Overtake, TypeOK

LEMMA StepSession == IInv /\ [Next]_vars => SessionInv'
<1> SUFFICES ASSUME IInv, [Next]_vars PROVE SessionInv'
  OBVIOUS
<1> USE AssetAssumption, RowNames, RowColumns DEF IInv, TypeOK, SessionInv
<1>1. ASSUME NEW r \in Requests, AskCreate(r) PROVE SessionInv'
  BY <1>1 DEF AskCreate, Goto
<1>2. ASSUME NEW r \in Requests, Insert(r) PROVE SessionInv'
  <2>1. op[r].body \in Rows /\ op[r] \in Ops /\ nextId \in Ids
    BY <1>2 DEF Insert, StageInv
  <2>2. /\ op'[r].asset = nextId /\ op'[r].body = op[r].body /\ op'[r].kind = "create"
        /\ \A q \in Requests \ {r} : op'[q] = op[q]
        /\ overtaken' = overtaken
    BY <1>2, <2>1 DEF Insert, Ops
  <2>3. CASE Answer(r, 409, op[r].body) /\ UNCHANGED table
    BY <2>2, <2>3 DEF Answer
  <2>4. CASE Goto(r, "refresh") /\ table' = [table EXCEPT ![nextId] = op[r].body]
    <3>1. table'[nextId] = op[r].body /\ \A i \in Ids \ {nextId} : table'[i] = table[i]
      BY <2>1, <2>4
    <3>2. ASSUME NEW q \in Requests, q # r PROVE
            /\ pc[q] = "write" /\ op[q].kind = "update" =>
                 op[q].asset \in Ids /\ op[q].asset # nextId
            /\ pc[q] = "refresh" => op[q].asset \in Ids /\ op[q].asset # nextId
      BY DEF StageInv, Ops, Ids
    <3> QED
      BY <1>2, <2>1, <2>2, <2>4, <3>1, <3>2 DEF Goto
  <2> QED
    BY <1>2, <2>3, <2>4, ZenonT(40) DEF Insert
<1>3. ASSUME NEW r \in Requests, Load(r) PROVE SessionInv'
  <2>1. PICK o \in Ops :
          /\ op' = [op EXCEPT ![r] = o]
          /\ \/ Answer(r, 404, NoRow)
             \/ Raise(r)
             \/ /\ mine' = [mine EXCEPT ![r] = table[o.asset]]
                /\ pc' = [pc EXCEPT ![r] = IF o.kind = "get" THEN "read" ELSE "write"]
    BY <1>3, ZenonT(40) DEF Load
  <2>2. table' = table /\ overtaken' = overtaken
    BY <1>3 DEF Load
  <2> QED
    BY <2>1, <2>2 DEF Answer, Raise
<1>4. ASSUME NEW r \in Requests, Write(r) PROVE SessionInv'
  <2> DEFINE i == op[r].asset
  <2>1. op' = op /\ pc[r] = "write" /\ op[r].kind = "update" /\ i \in Ids
    BY <1>4 DEF Write, StageInv, Ops
  <2>2. CASE Raise(r) /\ UNCHANGED <<table, overtaken>>
    BY <2>1, <2>2 DEF Raise, Answer
  <2>3. CASE Goto(r, "conflict") /\ UNCHANGED <<table, overtaken>>
    BY <2>1, <2>3 DEF Goto
  <2>4. CASE ~Dirty(r) /\ Goto(r, "refresh") /\ UNCHANGED <<table, overtaken>>
    BY <2>1, <2>4 DEF Goto, Dirty
  <2>5. CASE /\ table' = [table EXCEPT ![i] = Flushed(r, i)]
             /\ Overtake(r, i) /\ Goto(r, "refresh")
    <3>1. ASSUME NEW q \in Requests, ~overtaken'[q], q # r, pc[q] # "new"
          PROVE  ~overtaken[q] /\ table'[op[q].asset] = table[op[q].asset]
      BY <2>1, <2>5, <3>1, OvertakeMarks
    <3>2. ASSUME ~overtaken'[r]
          PROVE  \A c \in DOMAIN NoRow : op[r].body[c] \in {Unset, table'[i][c]}
      <4>1. table'[i] = Flushed(r, i) /\ mine[r] = table[i]
        BY <2>1, <2>5, <3>2, OvertakeMarks
      <4> QED
        BY <4>1 DEF Flushed
    <3> QED
      BY <2>1, <2>5, <3>1, <3>2 DEF Goto
  <2> QED
    BY <1>4, <2>2, <2>3, <2>4, <2>5, ZenonT(40) DEF Write
<1>5. ASSUME NEW r \in Requests, Delete(r) PROVE SessionInv'
  <2>1. op[r].asset \in Ids
    BY <1>5 DEF Delete, StageInv, Ops
  <2>2. ASSUME NEW q \in Requests, ~overtaken'[q], q # r, pc[q] # "new"
        PROVE  ~overtaken[q] /\ table'[op[q].asset] = table[op[q].asset]
    BY <1>5, <2>1, <2>2, OvertakeMarks DEF Delete
  <2> QED
    BY <1>5, <2>2 DEF Delete, Answer
<1>6. ASSUME NEW r \in Requests, Conflict(r) \/ Refresh(r) \/ Read(r) \/ DatabaseFails(r)
      PROVE  SessionInv'
  BY <1>6 DEF Conflict, Refresh, Read, DatabaseFails, Raise, Answer
<1>7. CASE Crash
  BY <1>7 DEF Crash
<1>8. CASE UNCHANGED vars
  BY <1>8 DEF vars, requestVars
<1> QED
  BY <1>1, <1>2, <1>3, <1>4, <1>5, <1>6, <1>7, <1>8 DEF Next, RequestStep

LEMMA StepReplies == IInv /\ [Next]_vars => (RepliesMatchWrites /\ CriticalReadsAnnounced)'
<1> SUFFICES ASSUME IInv, [Next]_vars PROVE (RepliesMatchWrites /\ CriticalReadsAnnounced)'
  OBVIOUS
<1> USE AssetAssumption, RowNames, RowColumns DEF IInv, TypeOK, RepliesMatchWrites, CriticalReadsAnnounced
\* A request that is not the acting one keeps its answer, what it was about and what it wrote.
<1>1. ASSUME NEW r \in Requests, RequestStep(r), NEW q \in Requests, q # r
      PROVE  /\ reply'[q] = reply[q] /\ op'[q] = op[q] /\ wrote'[q] = wrote[q]
             /\ q \in accesses' <=> q \in accesses
             /\ ~overtaken'[q] => ~overtaken[q]
  <2>1. CASE AskCreate(r)
    BY <1>1, <2>1 DEF AskCreate, Goto
  <2>2. CASE Insert(r)
    <3>1. reply'[q] = reply[q] /\ op'[q] = op[q] /\ wrote'[q] = wrote[q]
      BY <1>1, <2>2 DEF Insert, Goto, Answer
    <3> QED
      BY <2>2, <3>1 DEF Insert
  <2>3. CASE Load(r)
    BY <1>1, <2>3 DEF Load, Answer, Raise
  <2>4. CASE Write(r)
    <3>1. accesses' = accesses /\ op' = op
      BY <2>4 DEF Write
    <3>2. CASE UNCHANGED <<wrote, overtaken>> /\ (Goto(r, "refresh") \/ Raise(r) \/ Goto(r, "conflict"))
      BY <1>1, <3>1, <3>2 DEF Goto, Raise, Answer
    <3>3. CASE /\ wrote' = [wrote EXCEPT ![r] = TRUE]
               /\ Overtake(r, op[r].asset) /\ Goto(r, "refresh")
      BY <1>1, <3>1, <3>3, OvertakeMarks DEF Goto
    <3> QED
      BY <2>4, <3>2, <3>3, ZenonT(40) DEF Write
  <2>5. CASE Conflict(r)
    BY <1>1, <2>5 DEF Conflict, Answer, Raise
  <2>6. CASE Refresh(r)
    BY <1>1, <2>6 DEF Refresh, Answer, Raise
  <2>7. CASE Delete(r)
    BY <1>1, <2>7, OvertakeMarks DEF Delete, Answer
  <2>8. CASE Read(r)
    BY <1>1, <2>8 DEF Read, Answer
  <2>9. CASE DatabaseFails(r)
    BY <1>1, <2>9 DEF DatabaseFails, Answer, Raise
  <2> QED
    BY <1>1, <2>1, <2>2, <2>3, <2>4, <2>5, <2>6, <2>7, <2>8, <2>9 DEF RequestStep
<1> DEFINE Honest(r) ==
             /\ reply'[r].status \in {404, 409} => ~wrote'[r]
             /\ (reply'[r].status \in {200, 201} /\ op'[r].kind # "get" /\ ~overtaken'[r]) =>
                  \A c \in DOMAIN NoRow : op'[r].body[c] \in {Unset, reply'[r].row[c]}
             /\ reply'[r].status = 200 /\ op'[r].kind = "get" =>
                  (r \in accesses' <=> reply'[r].row.criticality = "CRITICAL")
<1>2. ASSUME NEW r \in Requests, RequestStep(r), Honest(r)
      PROVE  (RepliesMatchWrites /\ CriticalReadsAnnounced)'
  <2>1. ASSUME NEW q \in Requests PROVE Honest(q)
    BY <1>1, <1>2
  <2> QED
    BY <2>1
<1>3. ASSUME NEW r \in Requests, AskCreate(r) \/ Insert(r) PROVE Honest(r)
  BY <1>3 DEF AskCreate, Insert, Goto, Answer, StageInv
<1>4. ASSUME NEW r \in Requests, Load(r) PROVE Honest(r)
  BY <1>4 DEF Load, Raise, Answer, StageInv
<1>5. ASSUME NEW r \in Requests, Write(r) PROVE Honest(r)
  <2>1. /\ pc[r] = "write" /\ op' = op /\ op[r].kind = "update"
        /\ Goto(r, "refresh") \/ Raise(r) \/ Goto(r, "conflict")
    BY <1>5, ZenonT(40) DEF Write
  <2>2. reply'[r].status \in {0, 500}
    BY <2>1 DEF Goto, Raise, Answer, StageInv
  <2> QED
    BY <2>2
<1>6. ASSUME NEW r \in Requests, Conflict(r) PROVE Honest(r)
  BY <1>6 DEF Conflict, Raise, Answer, StageInv
<1>7. ASSUME NEW r \in Requests, Refresh(r) PROVE Honest(r)
  BY <1>7 DEF Refresh, Raise, Answer, StageInv, SessionInv
<1>8. ASSUME NEW r \in Requests, Read(r) PROVE Honest(r)
  BY <1>8 DEF Read, Answer, StageInv
<1>9. ASSUME NEW r \in Requests, Delete(r) \/ DatabaseFails(r) PROVE Honest(r)
  BY <1>9 DEF Delete, DatabaseFails, Raise, Answer
<1>10. CASE Crash
  BY <1>10 DEF Crash
<1>11. CASE UNCHANGED vars
  BY <1>11 DEF vars, requestVars
<1> QED
  <2>1. ASSUME NEW r \in Requests, RequestStep(r) PROVE Honest(r)
    BY <1>3, <1>4, <1>5, <1>6, <1>7, <1>8, <1>9, <2>1 DEF RequestStep
  <2> QED
    BY <1>2, <1>10, <1>11, <2>1 DEF Next

LEMMA InvariantHolds == Spec => []IInv
<1>1. IInv /\ [Next]_vars => IInv'
  BY StepType, StepTable, StepStage, StepSession, StepReplies DEF IInv
<1> QED
  BY InitIInv, <1>1, PTL DEF Spec
-----------------------------------------------------------------------------
(* The theorems.                                                           *)

\* Every variable keeps its type.
THEOREM TypeCorrect == Spec => []TypeOK
<1>1. IInv => TypeOK
  BY DEF IInv
<1> QED
  BY InvariantHolds, <1>1, PTL

\* A refused request left no trace, and an accepted one was told the row it
\* asked for unless another request wrote to it (AssetService.create, update).
THEOREM RepliesAreTruthful == Spec => []RepliesMatchWrites
<1>1. IInv => RepliesMatchWrites
  BY DEF IInv
<1> QED
  BY InvariantHolds, <1>1, PTL

\* ASSET_ACCESSED is written for exactly the requests that were shown a
\* critical asset (AssetService.get).
THEOREM CriticalReadsAreOnTheStream == Spec => []CriticalReadsAnnounced
<1>1. IInv => CriticalReadsAnnounced
  BY DEF IInv
<1> QED
  BY InvariantHolds, <1>1, PTL

\* The first asset is the only row and takes id 1.
LEMMA InitRegister == Init => Register!Init
<1> SUFFICES ASSUME Init PROVE Register!Init
  OBVIOUS
<1> USE AssetAssumption, RowNames DEF Init
<1>1. PICK row \in Rows : table = [i \in Ids |-> IF i = 1 THEN row ELSE NoRow]
  OBVIOUS
<1> DEFINE key == [i \in Ids |-> table[i].name]
<1>2. key \in [Ids -> Names \cup {Null}]
  BY <1>1
<1>3. \A i \in Ids : key[i] # Null <=> i = 1
  BY <1>1 DEF Ids
<1>4. 1..(nextId - 1) = {i \in Ids : key[i] # Null}
  BY <1>3 DEF Ids
<1> QED
  BY <1>2, <1>3, <1>4 DEF Register!Init

\* Two maps of ids that agree but on one id differ by one assignment.
LEMMA OneNameChanges ==
  ASSUME NEW f, NEW g, f = [j \in Ids |-> f[j]], g = [j \in Ids |-> g[j]],
         NEW i \in Ids, NEW v, g[i] = v, \A j \in Ids \ {i} : g[j] = f[j]
  PROVE  g = [f EXCEPT ![i] = v]
OBVIOUS

\* A committed INSERT, UPDATE or DELETE is one step of the register, and no
\* other statement of a request changes it.
LEMMA StepRegister == IInv /\ [Next]_vars => [Register!Next]_(Register!vars)
<1> SUFFICES ASSUME IInv, [Next]_vars PROVE [Register!Next]_(Register!vars)
  OBVIOUS
<1> USE AssetAssumption, RowNames DEF IInv, TypeOK, TableInv
<1> DEFINE key == [i \in Ids |-> table[i].name]
           spent == 1..(nextId - 1)
<1>1. ASSUME UNCHANGED <<table, nextId>> PROVE UNCHANGED Register!vars
  BY <1>1 DEF Register!vars
<1>2. ASSUME NEW r \in Requests, Insert(r) PROVE Register!Next \/ UNCHANGED <<table, nextId>>
  <2>1. op[r].body \in Rows /\ op[r].body.name \in Names /\ nextId \in Ids
    BY <1>2 DEF Insert, StageInv
  <2>2. CASE UNCHANGED <<table, nextId>>
    BY <2>2
  <2>3. CASE ~Taken(op[r].body.name, nextId) /\ nextId' = nextId + 1
             /\ table' = [table EXCEPT ![nextId] = op[r].body]
    <3>1. Register!Free(op[r].body.name)
      BY <2>1, <2>3 DEF Register!Free, Taken
    <3>2. key' = [key EXCEPT ![nextId] = op[r].body.name]
      BY <2>1, <2>3
    <3>3. nextId \notin spent /\ spent' = spent \cup {nextId}
      BY <2>1, <2>3 DEF Ids
    <3> QED
      BY <2>1, <3>1, <3>2, <3>3 DEF Register!Next, Register!Enter
  <2> QED
    BY <1>2, <2>2, <2>3, ZenonT(40) DEF Insert
<1>3. ASSUME NEW r \in Requests, Write(r) PROVE Register!Next \/ UNCHANGED Register!vars
  <2> DEFINE i == op[r].asset
             k == Flushed(r, i).name
  <2>1. op[r] \in Ops /\ i \in Ids /\ nextId' = nextId
    BY <1>3 DEF Write, StageInv, Ops
  <2>2. CASE UNCHANGED table
    BY <1>1, <2>1, <2>2
  <2>3. CASE /\ Present(i) /\ ~Refused(r, Flushed(r, i))
             /\ table' = [table EXCEPT ![i] = Flushed(r, i)]
    <3>1. Flushed(r, i) \in Rows /\ k \in Names
      BY <2>1, <2>3, FlushedIsRow
    <3>2. key' = [key EXCEPT ![i] = k] /\ spent' = spent
      <4>1. key'[i] = k /\ \A j \in Ids \ {i} : key'[j] = key[j]
        BY <2>1, <2>3
      <4>2. key' = [j \in Ids |-> key'[j]] /\ key = [j \in Ids |-> key[j]]
        OBVIOUS
      <4>3. key' = [key EXCEPT ![i] = k]
        <5>1. i \in Ids
          BY <2>1
        <5> HIDE DEF key, i, k
        <5> QED
          BY <4>1, <4>2, <5>1, OneNameChanges
      <4> QED
        BY <2>1, <4>3
    <3>3. CASE k = key[i]
      BY <2>1, <3>2, <3>3 DEF Register!vars
    <3>4. CASE k # key[i]
      <4>1. Register!Free(k)
        BY <2>1, <2>3, <3>4 DEF Register!Free, Refused, Taken
      <4>2. key[i] # Null
        BY <2>1, <2>3 DEF Present
      <4> QED
        BY <2>1, <3>1, <3>2, <4>1, <4>2 DEF Register!Next, Register!Rename
    <3> QED
      BY <3>3, <3>4
  <2> QED
    BY <1>3, <2>2, <2>3, ZenonT(40) DEF Write
<1>4. ASSUME NEW r \in Requests, Delete(r) PROVE Register!Next \/ UNCHANGED Register!vars
  <2> DEFINE i == op[r].asset
  <2>1. i \in Ids /\ nextId' = nextId /\ table' = [table EXCEPT ![i] = NoRow]
    BY <1>4 DEF Delete, StageInv, Ops
  <2>2. key' = [key EXCEPT ![i] = Null] /\ spent' = spent
    <3>1. \A j \in Ids : table'[j].name = IF j = i THEN Null ELSE table[j].name
      BY <2>1 DEF NoRow
    <3>2. /\ key'[i] = Null
          /\ \A j \in Ids \ {i} : key'[j] = key[j]
      BY <2>1, <3>1
    <3>3. key' = [j \in Ids |-> key'[j]] /\ key = [j \in Ids |-> key[j]]
      OBVIOUS
    <3>4. key' = [key EXCEPT ![i] = Null]
      <4>1. i \in Ids
        BY <2>1
      <4> HIDE DEF key, i
      <4> QED
        BY <3>2, <3>3, <4>1, OneNameChanges
    <3> QED
      BY <2>1, <3>4
  <2>3. CASE key[i] = Null
    BY <2>1, <2>2, <2>3 DEF Register!vars
  <2>4. CASE key[i] # Null
    BY <2>1, <2>2, <2>4 DEF Register!Next, Register!Leave
  <2> QED
    BY <2>3, <2>4
<1> QED
  BY <1>1, <1>2, <1>3, <1>4 DEF Next, RequestStep, vars, AskCreate, Load, Conflict, Refresh,
     Read, DatabaseFails, Crash

\* The asset register is a table with unique names (asset_repository.py: the
\* unique constraint is the authority).
THEOREM RegisterIsATable == Spec => ImplementsUniqueTable
<1>1. Init => Register!Init
  BY InitRegister
<1>2. IInv /\ [Next]_vars => [Register!Next]_(Register!vars)
  BY StepRegister
<1> QED
  BY <1>1, <1>2, InvariantHolds, PTL DEF Spec, ImplementsUniqueTable, Register!Spec
=============================================================================
