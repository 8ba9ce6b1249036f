--------------------------- MODULE AuthServiceProofs --------------------------
(***************************************************************************)
(* AuthService's safety for any set of workers, names and addresses, any   *)
(* token lifetime and any bound on the bcrypt calls.                       *)
(***************************************************************************)
EXTENDS AuthService, TLAPS

\* The rows beyond the sequence do not exist; names and addresses are unique.
TableInv ==
  /\ \A i \in Ids : i >= nextId <=> users[i] = NoUser
  /\ \A i, j \in Ids : i # j /\ users[i] # NoUser =>
       users[i].name # users[j].name /\ users[i].email # users[j].email

\* Whoever is an active admin is noted as one now, and nobody in the future.
NotedInv ==
  \A n \in Names :
    /\ IsAdmin(users, n) => lastAdmin[n] = clock
    /\ lastAdmin[n] <= clock

\* A login that goes on as an admin's began when its user was one, and the
\* bcrypt call it is in began no longer than HashTime ago.
LoginInv ==
  \A w \in Workers :
    pc[w] = "check" =>
      /\ mine[w].name \in Names
      /\ mine[w].role = "admin" => since[w] <= lastAdmin[mine[w].name]
      /\ clock <= since[w] + HashTime

\* An admin's token expires within a lifetime and a bcrypt call of the last
\* moment its owner was one.
TokenInv ==
  \A t \in tokens : t.role = "admin" => t.exp <= lastAdmin[t.sub] + HashTime + Lifetime

\* A creation knows what to create and on whose token.
CreationInv ==
  \A w \in Workers :
    pc[w] = "insert" => op[w] \in Creations /\ by[w] \in Names

IInv ==
  /\ TypeOK
  /\ TableInv
  /\ NotedInv
  /\ LoginInv
  /\ TokenInv
  /\ CreationInv
  /\ PrivilegeExpires
-----------------------------------------------------------------------------
(* What the steps do to the table.                                         *)

LEMMA UserRows ==
  /\ NoUser.name = Null /\ NoUser.email = Null /\ ~NoUser.active
  /\ NoUser \notin Users
  /\ \A u \in Users : u.name \in Names /\ u.email \in Emails /\ u.role \in Role
                      /\ u.active \in BOOLEAN /\ u.name # Null /\ u.email # Null
BY AuthAssumption DEF Users, NoUser

\* An INSERT that met no conflict.
LEMMA EnterKeeps ==
  ASSUME IInv, NEW name \in Names, NEW email \in Emails, NEW role \in Role,
         ~Taken(name, email), Enter(name, email, role), clock' = clock
  PROVE  /\ users' \in [Ids -> Users \cup {NoUser}]
         /\ nextId' \in 1..MaxRows + 1
         /\ lastAdmin' \in [Names -> Time \cup {Never}]
         /\ TableInv'
         /\ NotedInv'
         /\ \A n \in Names : lastAdmin[n] <= lastAdmin'[n]
<1> USE AuthAssumption, UserRows DEF IInv, TypeOK
<1> DEFINE row == [name |-> name, email |-> email, role |-> role, active |-> TRUE]
<1>1. /\ nextId \in Ids /\ nextId' = nextId + 1
      /\ users' = [users EXCEPT ![nextId] = row]
      /\ lastAdmin' = [n \in Names |-> IF IsAdmin(users', n) THEN clock ELSE lastAdmin[n]]
  BY DEF Enter, NoteAdmins
<1>2. row \in Users
  BY DEF Users
<1>3. users' \in [Ids -> Users \cup {NoUser}]
  BY <1>1, <1>2
<1>4. nextId' \in 1..MaxRows + 1
  BY <1>1 DEF Ids
<1>5. lastAdmin' \in [Names -> Time \cup {Never}]
  BY <1>1
<1>6. TableInv'
  <2>1. \A j \in Ids : users[j].name # name /\ users[j].email # email
    BY DEF Taken
  <2>2. users'[nextId] = row /\ \A j \in Ids \ {nextId} : users'[j] = users[j]
    BY <1>1
  <2>3. users[nextId] = NoUser /\ row # NoUser
    BY <1>1, <1>2 DEF TableInv, Ids
  <2>4. row.name = name /\ row.email = email
    OBVIOUS
  <2> HIDE DEF row
  <2> QED
    BY <1>1, <2>1, <2>2, <2>3, <2>4 DEF TableInv, Ids
<1>7. clock \in Nat /\ \A n \in Names : lastAdmin[n] \in Int
  BY DEF Time, Never
<1>8. \A n \in Names : lastAdmin[n] <= lastAdmin'[n] /\ lastAdmin'[n] <= clock
  BY <1>1, <1>7 DEF NotedInv
<1>9. NotedInv'
  BY <1>1, <1>8 DEF NotedInv
<1> QED
  BY <1>3, <1>4, <1>5, <1>6, <1>8, <1>9
-----------------------------------------------------------------------------
(* The initial states satisfy the invariant.                               *)

LEMMA InitIInv == Init => IInv
<1> SUFFICES ASSUME Init PROVE IInv
  OBVIOUS
<1> USE AuthAssumption, UserRows DEF Init
<1>1. TypeOK
  <2>1. /\ users \in [Ids -> Users \cup {NoUser}] /\ nextId \in 1..MaxRows + 1
        /\ clock \in Time /\ tokens \subseteq Tokens
        /\ process \in {"down", "schema", "bootstrap", "up"} /\ crashes \in 0..MaxCrashes
    BY DEF Time
  <2>2. prepared \in BOOLEAN /\ database \in BOOLEAN
    BY Zenon
  <2>3. /\ pc \in [Workers -> {"idle", "check", "insert", "refresh"}]
        /\ op \in [Workers -> Creations \cup {NoOp}]
        /\ by \in [Workers -> Names \cup {Null}]
    OBVIOUS
  <2>4. mine \in [Workers -> [name : Names \cup {Null}, role : Role]]
    BY DEF Nobody, Role
  <2>5. since \in [Workers -> Time] /\ lastAdmin \in [Names -> Time \cup {Never}]
    BY DEF Time
  <2> QED
    BY <2>1, <2>2, <2>3, <2>4, <2>5, Zenon DEF TypeOK
<1>2. TableInv
  BY DEF TableInv, Ids
<1>3. NotedInv
  BY DEF NotedInv, IsAdmin, Never
<1>4. LoginInv /\ TokenInv /\ CreationInv /\ PrivilegeExpires
  BY DEF LoginInv, TokenInv, CreationInv, PrivilegeExpires
<1> QED
  BY <1>1, <1>2, <1>3, <1>4 DEF IInv
-----------------------------------------------------------------------------
(* Every step preserves it.                                                *)

\* A worker that answers is idle, whatever it was doing.
LEMMA AnswerKeeps ==
  ASSUME TypeOK, NEW w \in Workers, Answer(w)
  PROVE  /\ pc' \in [Workers -> {"idle", "check", "insert", "refresh"}]
         /\ op' \in [Workers -> Creations \cup {NoOp}]
         /\ mine' \in [Workers -> [name : Names \cup {Null}, role : Role]]
         /\ since' \in [Workers -> Time]
         /\ by' \in [Workers -> Names \cup {Null}]
         /\ pc'[w] = "idle"
         /\ \A v \in Workers \ {w} : /\ pc'[v] = pc[v] /\ op'[v] = op[v] /\ mine'[v] = mine[v]
                                     /\ since'[v] = since[v] /\ by'[v] = by[v]
<1> USE AuthAssumption DEF TypeOK, Answer
<1>1. Nobody \in [name : Names \cup {Null}, role : Role] /\ 0 \in Time
  BY DEF Nobody, Role, Time
<1> QED
  BY <1>1

LEMMA StepType == IInv /\ [Next]_vars => TypeOK'
<1> SUFFICES ASSUME IInv, [Next]_vars PROVE TypeOK'
  OBVIOUS
<1> USE AuthAssumption, UserRows DEF IInv, TypeOK
<1>1. CASE Start \/ InitDatabase
  <2>1. prepared' \in BOOLEAN
    BY <1>1, Zenon DEF Start, InitDatabase
  <2> QED
    BY <1>1, <2>1 DEF Start, InitDatabase, workerVars
<1>2. CASE Bootstrap
  <2>1. /\ users' \in [Ids -> Users \cup {NoUser}] /\ nextId' \in 1..MaxRows + 1
        /\ lastAdmin' \in [Names -> Time \cup {Never}]
    BY <1>2, EnterKeeps DEF Bootstrap, Role
  <2> QED
    BY <1>2, <2>1 DEF Bootstrap, workerVars
<1>3. ASSUME NEW w \in Workers, Lookup(w) PROVE TypeOK'
  <2>1. CASE Answer(w)
    BY <1>3, <2>1, AnswerKeeps DEF Lookup
  <2>2. CASE \E i \in Ids :
               /\ users[i].active
               /\ mine' = [mine EXCEPT ![w] = [name |-> users[i].name, role |-> users[i].role]]
               /\ pc' = [pc EXCEPT ![w] = "check"]
               /\ since' = [since EXCEPT ![w] = clock]
               /\ UNCHANGED <<op, by>>
    BY <1>3, <2>2 DEF Lookup
  <2> QED
    BY <1>3, <2>1, <2>2 DEF Lookup
<1>4. ASSUME NEW w \in Workers, Authenticate(w) PROVE TypeOK'
  <2>1. TokenOf(mine[w]) \in Tokens
    <3>1. mine[w].name \in Names /\ mine[w].role \in Role
      BY <1>4 DEF Authenticate, LoginInv
    <3>2. clock + Lifetime \in 0..MaxTime + Lifetime
      BY DEF Time
    <3> QED
      BY <3>1, <3>2 DEF TokenOf, Tokens
  <2>2. tokens' \subseteq Tokens
    BY <1>4, <2>1 DEF Authenticate
  <2> QED
    BY <1>4, <2>2, AnswerKeeps DEF Authenticate
<1>5. ASSUME NEW w \in Workers, AskCreate(w) PROVE TypeOK'
  <2>1. CASE Answer(w)
    BY <1>5, <2>1, AnswerKeeps DEF AskCreate
  <2>2. ASSUME NEW t \in tokens \cup {NoToken}, Admitted(t),
               NEW o \in Creations, op' = [op EXCEPT ![w] = o],
               since' = [since EXCEPT ![w] = clock], by' = [by EXCEPT ![w] = t.sub],
               pc' = [pc EXCEPT ![w] = "insert"], UNCHANGED mine
        PROVE  TypeOK'
    <3>1. t.sub \in Names
      BY <2>2 DEF Admitted, Expired, Tokens
    <3> QED
      BY <1>5, <2>2, <3>1 DEF AskCreate
  <2> QED
    BY <1>5, <2>1, <2>2 DEF AskCreate
<1>6. ASSUME NEW w \in Workers, Insert(w) PROVE TypeOK'
  <2>1. CASE Answer(w) /\ UNCHANGED <<users, nextId, lastAdmin>>
    BY <1>6, <2>1, AnswerKeeps DEF Insert
  <2>2. CASE /\ ~Taken(op[w].name, op[w].email)
             /\ Enter(op[w].name, op[w].email, op[w].role)
             /\ pc' = [pc EXCEPT ![w] = "refresh"]
             /\ since' = [since EXCEPT ![w] = 0]
             /\ by' = [by EXCEPT ![w] = Null]
             /\ UNCHANGED <<op, mine>>
    <3>1. op[w].name \in Names /\ op[w].email \in Emails /\ op[w].role \in Role
      BY <1>6 DEF Insert, CreationInv, Creations
    <3>2. /\ users' \in [Ids -> Users \cup {NoUser}] /\ nextId' \in 1..MaxRows + 1
          /\ lastAdmin' \in [Names -> Time \cup {Never}]
      BY <1>6, <2>2, <3>1, EnterKeeps DEF Insert
    <3> QED
      BY <1>6, <2>2, <3>2 DEF Insert, Time
  <2> QED
    BY <1>6, <2>1, <2>2 DEF Insert
<1>7. ASSUME NEW w \in Workers, Refresh(w) PROVE TypeOK'
  BY <1>7, AnswerKeeps DEF Refresh
<1>8. CASE Crash
  BY <1>8 DEF Crash, Nobody, Role, Time
<1>9. CASE DatabaseFlips
  <2>1. database' \in BOOLEAN
    BY <1>9, Zenon DEF DatabaseFlips
  <2> QED
    BY <1>9, <2>1 DEF DatabaseFlips, workerVars
<1>10. CASE Revoke
  <2>1. PICK i \in Ids :
          /\ users[i] # NoUser
          /\ \/ users' = [users EXCEPT ![i].role = "analyst"]
             \/ users' = [users EXCEPT ![i].active = FALSE]
    BY <1>10 DEF Revoke
  <2>2. users[i] \in Users
    BY <2>1
  <2>3. [users[i] EXCEPT !.role = "analyst"] \in Users
    BY <2>2 DEF Users, Role
  <2>4. [users[i] EXCEPT !.active = FALSE] \in Users
    BY <2>2 DEF Users
  <2>5. users' \in [Ids -> Users \cup {NoUser}]
    BY <2>1, <2>3, <2>4
  <2> QED
    BY <1>10, <2>5 DEF Revoke, workerVars
<1>11. CASE Tick
  <2>1. clock' \in Time /\ lastAdmin' \in [Names -> Time \cup {Never}]
    BY <1>11 DEF Tick, Time, NoteAdmins
  <2> QED
    BY <1>11, <2>1 DEF Tick, workerVars
<1>12. CASE UNCHANGED vars
  BY <1>12 DEF vars, workerVars
<1> QED
  BY <1>1, <1>2, <1>3, <1>4, <1>5, <1>6, <1>7, <1>8, <1>9, <1>10, <1>11, <1>12 DEF Next, Request

\* The table stays a table, admins stay noted, and the notes only get younger.
LEMMA StepTable ==
  IInv /\ [Next]_vars => /\ TableInv' /\ NotedInv'
                        /\ \A n \in Names : lastAdmin[n] <= lastAdmin'[n]
<1> SUFFICES ASSUME IInv, [Next]_vars
             PROVE  /\ TableInv' /\ NotedInv'
                    /\ \A n \in Names : lastAdmin[n] <= lastAdmin'[n]
  OBVIOUS
<1> USE AuthAssumption, UserRows DEF IInv, TypeOK
<1> DEFINE Good == /\ TableInv' /\ NotedInv'
                   /\ \A n \in Names : lastAdmin[n] <= lastAdmin'[n]
<1>1. clock \in Nat /\ \A n \in Names : lastAdmin[n] \in Int
  BY DEF Time, Never
<1>2. ASSUME UNCHANGED <<users, nextId, clock, lastAdmin>> PROVE Good
  BY <1>1, <1>2 DEF TableInv, NotedInv, IsAdmin
<1>3. CASE Bootstrap
  <2>1. CASE UNCHANGED <<users, nextId, lastAdmin>>
    BY <1>2, <1>3, <2>1 DEF Bootstrap
  <2>2. CASE ~Taken(Admin, AdminEmail) /\ Enter(Admin, AdminEmail, "admin")
    BY <1>3, <2>2, EnterKeeps DEF Bootstrap, Role
  <2> QED
    BY <1>3, <2>1, <2>2 DEF Bootstrap
<1>4. ASSUME NEW w \in Workers, Insert(w) PROVE Good
  <2>1. CASE UNCHANGED <<users, nextId, lastAdmin>>
    BY <1>2, <1>4, <2>1 DEF Insert
  <2>2. CASE ~Taken(op[w].name, op[w].email) /\ Enter(op[w].name, op[w].email, op[w].role)
    <3>1. op[w].name \in Names /\ op[w].email \in Emails /\ op[w].role \in Role
      BY <1>4 DEF Insert, CreationInv, Creations
    <3> QED
      BY <1>4, <2>2, <3>1, EnterKeeps DEF Insert
  <2> QED
    BY <1>4, <2>1, <2>2 DEF Insert
<1>5. CASE Revoke
  <2>1. PICK i \in Ids :
          /\ users[i] # NoUser
          /\ \/ users' = [users EXCEPT ![i].role = "analyst"]
             \/ users' = [users EXCEPT ![i].active = FALSE]
    BY <1>5 DEF Revoke
  <2>2. UNCHANGED <<nextId, clock, lastAdmin>>
    BY <1>5 DEF Revoke
  <2>3. users[i] \in Users
    BY <2>1
  <2>4. /\ \A j \in Ids : users'[j].name = users[j].name /\ users'[j].email = users[j].email
        /\ \A j \in Ids \ {i} : users'[j] = users[j]
        /\ users'[i].role = "admin" /\ users'[i].active =>
             users[i].role = "admin" /\ users[i].active
    BY <2>1, <2>3 DEF Users
  <2>5. users'[i] # NoUser
    BY <2>3, <2>4
  <2>6. TableInv'
    BY <2>1, <2>2, <2>4, <2>5 DEF TableInv
  <2>7. \A n \in Names : IsAdmin(users', n) => IsAdmin(users, n)
    BY <2>4 DEF IsAdmin
  <2>8. NotedInv'
    BY <2>2, <2>7 DEF NotedInv
  <2> QED
    BY <1>1, <2>2, <2>6, <2>8
<1>6. CASE Tick
  <2>1. /\ clock' = clock + 1 /\ users' = users /\ nextId' = nextId
        /\ lastAdmin' = [n \in Names |-> IF IsAdmin(users, n) THEN clock + 1 ELSE lastAdmin[n]]
    BY <1>6 DEF Tick, NoteAdmins
  <2>2. TableInv'
    BY <2>1 DEF TableInv
  <2>3. NotedInv'
    BY <1>1, <2>1 DEF NotedInv
  <2>4. \A n \in Names : lastAdmin[n] <= lastAdmin'[n]
    BY <1>1, <2>1 DEF NotedInv
  <2> QED
    BY <2>2, <2>3, <2>4
<1> QED
  BY <1>2, <1>3, <1>4, <1>5, <1>6
     DEF Next, Request, vars, Start, InitDatabase, Lookup, Authenticate, AskCreate, Refresh,
         Crash, DatabaseFlips

\* A login stays younger than HashTime, and an admin's keeps its note.
LEMMA StepLogin == IInv /\ [Next]_vars => LoginInv'
<1> SUFFICES ASSUME IInv, [Next]_vars PROVE LoginInv'
  OBVIOUS
<1> USE AuthAssumption, UserRows DEF IInv, TypeOK, LoginInv
<1>1. /\ clock \in Nat /\ \A n \in Names : lastAdmin[n] \in Int
      /\ \A w \in Workers : since[w] \in Nat
  BY DEF Time, Never
<1>2. /\ \A n \in Names : lastAdmin[n] <= lastAdmin'[n]
      /\ \A n \in Names : lastAdmin'[n] \in Int
  BY StepTable, StepType DEF Time, Never
<1>3. ASSUME NEW w \in Workers, clock' = clock,
             pc'[w] # "check",
             \A v \in Workers \ {w} :
               pc'[v] = pc[v] /\ mine'[v] = mine[v] /\ since'[v] = since[v]
      PROVE  LoginInv'
  BY <1>1, <1>2, <1>3
<1>4. ASSUME clock' = clock, UNCHANGED <<pc, mine, since>> PROVE LoginInv'
  BY <1>1, <1>2, <1>4
<1>5. CASE Start \/ InitDatabase \/ Bootstrap \/ DatabaseFlips \/ Revoke \/ UNCHANGED vars
  BY <1>4, <1>5 DEF Start, InitDatabase, Bootstrap, DatabaseFlips, Revoke, vars, workerVars
<1>6. ASSUME NEW w \in Workers, Lookup(w) PROVE LoginInv'
  <2>1. CASE Answer(w)
    BY <1>3, <1>6, <2>1, AnswerKeeps DEF Lookup
  <2>2. ASSUME NEW i \in Ids, users[i].active,
               mine' = [mine EXCEPT ![w] = [name |-> users[i].name, role |-> users[i].role]],
               pc' = [pc EXCEPT ![w] = "check"],
               since' = [since EXCEPT ![w] = clock]
        PROVE  LoginInv'
    <3>1. users[i] \in Users /\ users[i].name \in Names
      BY <2>2
    <3>2. users[i].role = "admin" => clock <= lastAdmin[users[i].name]
      BY <1>1, <2>2, <3>1 DEF NotedInv, IsAdmin
    <3>3. clock' = clock /\ lastAdmin' = lastAdmin
      BY <1>6 DEF Lookup
    <3> QED
      BY <1>1, <2>2, <3>1, <3>2, <3>3
  <2> QED
    BY <1>6, <2>1, <2>2 DEF Lookup
<1>7. ASSUME NEW w \in Workers, Authenticate(w) \/ Refresh(w) PROVE LoginInv'
  BY <1>3, <1>7, AnswerKeeps DEF Authenticate, Refresh
<1>8. ASSUME NEW w \in Workers, AskCreate(w) PROVE LoginInv'
  <2>1. clock' = clock
    BY <1>8 DEF AskCreate
  <2>2. CASE Answer(w)
    BY <1>3, <2>1, <2>2, AnswerKeeps
  <2>3. CASE /\ since' = [since EXCEPT ![w] = clock]
             /\ pc' = [pc EXCEPT ![w] = "insert"]
             /\ UNCHANGED mine
    BY <1>3, <2>1, <2>3
  <2> QED
    BY <1>8, <2>2, <2>3 DEF AskCreate
<1>9. ASSUME NEW w \in Workers, Insert(w) PROVE LoginInv'
  <2>1. clock' = clock
    BY <1>9 DEF Insert
  <2>2. CASE Answer(w)
    BY <1>3, <2>1, <2>2, AnswerKeeps
  <2>3. CASE /\ pc' = [pc EXCEPT ![w] = "refresh"]
             /\ since' = [since EXCEPT ![w] = 0]
             /\ UNCHANGED mine
    BY <1>3, <2>1, <2>3
  <2> QED
    BY <1>9, <2>2, <2>3 DEF Insert
<1>10. CASE Crash
  BY <1>10 DEF Crash
<1>11. CASE Tick
  <2>1. /\ \A w \in Workers : pc[w] = "check" => clock < since[w] + HashTime
        /\ clock' = clock + 1 /\ UNCHANGED <<pc, mine, since>>
    BY <1>11 DEF Tick, workerVars
  <2> QED
    BY <1>1, <1>2, <2>1
<1> QED
  BY <1>5, <1>6, <1>7, <1>8, <1>9, <1>10, <1>11 DEF Next, Request

\* A token is issued within a bcrypt call of the lookup, and admits a creation
\* no later than it expires.
LEMMA StepTokens == IInv /\ [Next]_vars => (TokenInv /\ CreationInv /\ PrivilegeExpires)'
<1> SUFFICES ASSUME IInv, [Next]_vars PROVE (TokenInv /\ CreationInv /\ PrivilegeExpires)'
  OBVIOUS
<1> USE AuthAssumption, UserRows DEF IInv, TypeOK
<1>1. /\ clock \in Nat /\ \A n \in Names : lastAdmin[n] \in Int
      /\ \A w \in Workers : since[w] \in Nat
  BY DEF Time, Never
<1>2. /\ \A n \in Names : lastAdmin[n] <= lastAdmin'[n]
      /\ \A n \in Names : lastAdmin'[n] \in Int
  BY StepTable, StepType DEF Time, Never
<1>3. \A t \in tokens : t.sub \in Names /\ t.exp \in Nat
  BY DEF Tokens
<1>4. ASSUME tokens' = tokens PROVE TokenInv'
  BY <1>1, <1>2, <1>3, <1>4 DEF TokenInv
<1>5. TokenInv'
  <2>1. ASSUME NEW w \in Workers, Authenticate(w), tokens' = tokens \cup {TokenOf(mine[w])}
        PROVE  TokenInv'
    <3> DEFINE t == TokenOf(mine[w])
    <3>1. /\ t.sub = mine[w].name /\ t.role = mine[w].role /\ t.exp = clock + Lifetime
          /\ t.sub \in Names /\ lastAdmin' = lastAdmin
      BY <2>1 DEF TokenOf, Authenticate, LoginInv
    <3> HIDE DEF t
    <3>2. ASSUME t.role = "admin" PROVE t.exp <= lastAdmin[t.sub] + HashTime + Lifetime
      <4>1. clock <= since[w] + HashTime /\ since[w] <= lastAdmin[t.sub]
        BY <2>1, <3>1, <3>2 DEF Authenticate, LoginInv
      <4>2. clock \in Nat /\ since[w] \in Nat /\ lastAdmin[t.sub] \in Int
        BY <1>1, <3>1
      <4> QED
        BY <3>1, <4>1, <4>2
    <3>3. ASSUME NEW u \in tokens', u.role = "admin"
          PROVE  u.exp <= lastAdmin'[u.sub] + HashTime + Lifetime
      <4>1. u = t \/ u \in tokens
        BY <2>1 DEF t
      <4> QED
        BY <3>1, <3>2, <3>3, <4>1 DEF TokenInv
    <3> QED
      BY <3>3 DEF TokenInv
  <2>2. (\E w \in Workers : Authenticate(w) /\ tokens' = tokens \cup {TokenOf(mine[w])})
        \/ tokens' = tokens
    BY DEF Next, Request, vars, Start, InitDatabase, Bootstrap, Lookup, Authenticate, AskCreate,
       Insert, Refresh, Crash, DatabaseFlips, Revoke, Tick
  <2> QED
    BY <1>4, <2>1, <2>2
<1> DEFINE Admitting(v) ==
             pc'[v] = "insert" =>
               /\ op'[v] \in Creations /\ by'[v] \in Names
               /\ since'[v] <= lastAdmin'[by'[v]] + HashTime + Lifetime
<1>6. ASSUME NEW v \in Workers, pc'[v] = pc[v], op'[v] = op[v], by'[v] = by[v],
             since'[v] = since[v]
      PROVE  Admitting(v)
  <2>1. CASE pc[v] = "insert"
    <3>1. op[v] \in Creations /\ by[v] \in Names
      BY <2>1 DEF CreationInv
    <3>2. since[v] <= lastAdmin[by[v]] + HashTime + Lifetime
      BY <2>1 DEF PrivilegeExpires
    <3>3. since[v] <= lastAdmin'[by[v]] + HashTime + Lifetime
      <4>1. /\ lastAdmin[by[v]] <= lastAdmin'[by[v]]
            /\ lastAdmin[by[v]] \in Int /\ lastAdmin'[by[v]] \in Int /\ since[v] \in Nat
        BY <1>1, <1>2, <3>1
      <4> QED
        BY <3>2, <4>1
    <3> QED
      BY <1>6, <3>1, <3>3
  <2> QED
    BY <1>6, <2>1
<1>7. ASSUME NEW w \in Workers, Request(w), Admitting(w) PROVE \A v \in Workers : Admitting(v)
  <2>1. ASSUME NEW v \in Workers, v # w
        PROVE  pc'[v] = pc[v] /\ op'[v] = op[v] /\ by'[v] = by[v] /\ since'[v] = since[v]
    <3>1. CASE Lookup(w)
      BY <2>1, <3>1 DEF Lookup, Answer
    <3>2. CASE Authenticate(w) \/ Refresh(w)
      BY <2>1, <3>2 DEF Authenticate, Refresh, Answer
    <3>3. CASE AskCreate(w)
      BY <2>1, <3>3 DEF AskCreate, Answer
    <3>4. CASE Insert(w)
      BY <2>1, <3>4 DEF Insert, Answer
    <3> QED
      BY <1>7, <3>1, <3>2, <3>3, <3>4 DEF Request
  <2> QED
    BY <1>6, <1>7, <2>1
<1>8. ASSUME NEW w \in Workers, AskCreate(w) PROVE Admitting(w)
  <2>1. CASE Answer(w)
    BY <2>1, AnswerKeeps
  <2>2. ASSUME NEW t \in tokens \cup {NoToken}, Admitted(t),
               NEW o \in Creations, op' = [op EXCEPT ![w] = o],
               since' = [since EXCEPT ![w] = clock], by' = [by EXCEPT ![w] = t.sub]
        PROVE  Admitting(w)
    <3>1. t \in tokens /\ clock <= t.exp /\ t.role = "admin" /\ t.sub \in Names /\ t.exp \in Nat
      BY <1>1, <1>3, <2>2 DEF Admitted, Expired
    <3>2. clock <= lastAdmin[t.sub] + HashTime + Lifetime
      BY <1>1, <3>1 DEF TokenInv
    <3>3. lastAdmin' = lastAdmin
      BY <1>8 DEF AskCreate
    <3> QED
      BY <2>2, <3>1, <3>2, <3>3
  <2> QED
    BY <1>8, <2>1, <2>2 DEF AskCreate
<1>9. ASSUME NEW w \in Workers, Lookup(w) \/ Authenticate(w) \/ Insert(w) \/ Refresh(w)
      PROVE  Admitting(w)
  <2>1. pc'[w] # "insert"
    BY <1>9 DEF Lookup, Authenticate, Insert, Refresh, Answer
  <2> QED
    BY <2>1
<1>10. \A v \in Workers : Admitting(v)
  <2>1. CASE \E w \in Workers : Request(w)
    BY <1>7, <1>8, <1>9, <2>1 DEF Request
  <2>2. CASE Crash
    BY <2>2 DEF Crash
  <2>3. CASE Start \/ InitDatabase \/ Bootstrap \/ DatabaseFlips \/ Revoke \/ Tick \/ UNCHANGED vars
    BY <1>6, <2>3 DEF Start, InitDatabase, Bootstrap, DatabaseFlips, Revoke, Tick, vars, workerVars
  <2> QED
    BY <2>1, <2>2, <2>3 DEF Next
<1> QED
  BY <1>5, <1>10 DEF CreationInv, PrivilegeExpires

LEMMA InvariantHolds == Spec => []IInv
<1>1. IInv /\ [Next]_vars => IInv'
  BY StepType, StepTable, StepLogin, StepTokens DEF IInv
<1> QED
  BY InitIInv, <1>1, PTL DEF Spec
-----------------------------------------------------------------------------
(* The theorems.                                                           *)

\* Every variable keeps its type.
THEOREM TypeCorrect == Spec => []TypeOK
<1>1. IInv => TypeOK
  BY DEF IInv
<1> QED
  BY InvariantHolds, <1>1, PTL

\* A role taken back is worthless one token's life and two password checks
\* later, whatever logins and creations run (dependencies.py:require_admin).
THEOREM RevocationTakesEffect == Spec => []PrivilegeExpires
<1>1. IInv => PrivilegeExpires
  BY DEF IInv
<1> QED
  BY InvariantHolds, <1>1, PTL

\* The empty volume is the empty table, whichever column is looked at.
LEMMA InitTables == Init => UserNames!Init /\ UserEmails!Init
<1> SUFFICES ASSUME Init PROVE UserNames!Init /\ UserEmails!Init
  OBVIOUS
<1> USE AuthAssumption, UserRows DEF Init
<1>1. UserNames!Init
  BY DEF UserNames!Init
<1>2. UserEmails!Init
  BY DEF UserEmails!Init
<1> QED
  BY <1>1, <1>2

\* A committed account enters both tables at once, and nothing else changes a
\* name or an address.
LEMMA StepTables ==
  IInv /\ [Next]_vars => [UserNames!Next]_(UserNames!vars) /\ [UserEmails!Next]_(UserEmails!vars)
<1> SUFFICES ASSUME IInv, [Next]_vars
             PROVE  [UserNames!Next]_(UserNames!vars) /\ [UserEmails!Next]_(UserEmails!vars)
  OBVIOUS
<1> USE AuthAssumption, UserRows DEF IInv, TypeOK
<1> DEFINE names == [i \in Ids |-> users[i].name]
           emails == [i \in Ids |-> users[i].email]
           spent == 1..(nextId - 1)
<1>1. ASSUME UNCHANGED <<users, nextId>>
      PROVE  UNCHANGED UserNames!vars /\ UNCHANGED UserEmails!vars
  BY <1>1 DEF UserNames!vars, UserEmails!vars
<1>2. ASSUME NEW name \in Names, NEW email \in Emails, NEW role \in Role,
             ~Taken(name, email), Enter(name, email, role)
      PROVE  UserNames!Next /\ UserEmails!Next
  <2> DEFINE row == [name |-> name, email |-> email, role |-> role, active |-> TRUE]
  <2>1. /\ nextId \in Ids /\ nextId' = nextId + 1
        /\ users' = [users EXCEPT ![nextId] = row]
    BY <1>2 DEF Enter
  <2>2. \A i \in Ids : users[i].name # name /\ users[i].email # email
    BY <1>2 DEF Taken
  <2>3. nextId \notin spent /\ spent' = spent \cup {nextId}
    BY <2>1 DEF Ids
  <2>4. /\ names' = [names EXCEPT ![nextId] = name]
        /\ emails' = [emails EXCEPT ![nextId] = email]
    BY <2>1
  <2>5. UserNames!Next
    BY <2>1, <2>2, <2>3, <2>4 DEF UserNames!Next, UserNames!Enter, UserNames!Free
  <2>6. UserEmails!Next
    BY <2>1, <2>2, <2>3, <2>4 DEF UserEmails!Next, UserEmails!Enter, UserEmails!Free
  <2> QED
    BY <2>5, <2>6
<1>3. ASSUME NEW w \in Workers, Insert(w)
      PROVE  (UserNames!Next /\ UserEmails!Next) \/ UNCHANGED <<users, nextId>>
  <2>1. op[w].name \in Names /\ op[w].email \in Emails /\ op[w].role \in Role
    BY <1>3 DEF Insert, CreationInv, Creations
  <2> QED
    BY <1>2, <1>3, <2>1 DEF Insert
<1>4. CASE Bootstrap
  BY <1>1, <1>2, <1>4 DEF Bootstrap, Role
<1>5. CASE Revoke
  <2>1. /\ \A i \in Ids : users'[i].name = users[i].name /\ users'[i].email = users[i].email
        /\ nextId' = nextId
    BY <1>5 DEF Revoke, Users
  <2> QED
    BY <2>1 DEF UserNames!vars, UserEmails!vars
<1> QED
  BY <1>1, <1>3, <1>4, <1>5
     DEF Next, Request, vars, Start, InitDatabase, Lookup, Authenticate, AskCreate, Refresh,
         Crash, DatabaseFlips, Tick

\* The accounts are a table with unique names and, again, one with unique
\* addresses (user_repository.py:create, bootstrap.py).
THEOREM AccountsAreTables == Spec => ImplementsTables
<1>1. Init => UserNames!Init /\ UserEmails!Init
  BY InitTables
<1>2. IInv /\ [Next]_vars => [UserNames!Next]_(UserNames!vars) /\ [UserEmails!Next]_(UserEmails!vars)
  BY StepTables
<1> QED
  BY <1>1, <1>2, InvariantHolds, PTL DEF Spec, ImplementsTables, UserNames!Spec, UserEmails!Spec
=============================================================================
