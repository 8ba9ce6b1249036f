------------------------------ MODULE AuthService -----------------------------
(***************************************************************************)
(* services/auth-service: accounts, tokens, and the start that makes the   *)
(* first account.  The service is one process; its requests run on worker  *)
(* threads.  A login is cut in two at the slow bcrypt check, a creation at *)
(* the slow hash, at the commit and at the re-read: whatever the request   *)
(* learnt before the cut may be out of date after it.                      *)
(*                                                                         *)
(* A token is stateless: it is what the client kept, it says which role    *)
(* its owner had, and the service asks nobody whether that is still so.    *)
(* Nothing in the service takes a role or an account back; an operator     *)
(* does, in the database.  Time is counted in ticks, expiry in whole ticks *)
(* as the token's seconds are.  The reads list_users and verify change     *)
(* nothing and are left out.  PostgreSQL is external.                      *)
(***************************************************************************)
EXTENDS Integers, FiniteSets

CONSTANTS
  Workers,   \* threads serving requests
  Names, Emails,
  Admin, AdminEmail,  \* BOOTSTRAP_ADMIN_USERNAME, and the address made of it
  Null,      \* no row
  NewRoles,  \* the roles that creations ask for
  Lifetime,  \* JWT_EXPIRY_MINUTES
  HashTime,  \* no bcrypt call, with the thread's wait for it, takes longer
  MaxRows, MaxTime, MaxCrashes, MaxTokens  \* bounds on ids, clock, crashes, tokens

Role == {"admin", "analyst"}

ASSUME AuthAssumption ==
  /\ Admin \in Names /\ AdminEmail \in Emails
  /\ Null \notin Names \cup Emails
  /\ NewRoles \subseteq Role
  /\ Lifetime \in Nat /\ HashTime \in Nat
  /\ MaxRows \in Nat \ {0} /\ MaxTime \in Nat
  /\ MaxCrashes \in Nat /\ MaxTokens \in Nat

VARIABLES
  \* Durable.
  users,     \* auth_db: the row of each id
  nextId,
  prepared,  \* its tables exist
  \* The world.
  database,  \* it answers
  clock,
  tokens,    \* the access tokens clients hold
  \* The process.
  process, crashes,
  pc, op,    \* what each worker does, and the creation it was asked for
  mine,      \* what it looked up of the row that logs in
  since, by, \* when it passed its lookup or its guard, and on whose token
  lastAdmin  \* history: when each name last was an active admin's

workerVars == <<pc, op, mine, since, by>>
vars == <<users, nextId, prepared, database, clock, tokens, process, crashes,
          workerVars, lastAdmin>>

Ids == 1..MaxRows
Time == 0..MaxTime
Users == [name : Names, email : Emails, role : Role, active : BOOLEAN]
NoUser == [name |-> Null, email |-> Null, role |-> "analyst", active |-> FALSE]
Nobody == [name |-> Null, role |-> "analyst"]
Tokens == [sub : Names, role : Role, exp : 0..MaxTime + Lifetime]
NoToken == [sub |-> Null, role |-> "analyst", exp |-> -1]
Never == -(Lifetime + 2 * HashTime + 1)

Creations == [name : Names, email : Emails, role : NewRoles]
NoOp == [name |-> Null, email |-> Null, role |-> "analyst"]

TypeOK ==
  /\ users \in [Ids -> Users \cup {NoUser}]
  /\ nextId \in 1..MaxRows + 1
  /\ prepared \in BOOLEAN /\ database \in BOOLEAN
  /\ clock \in Time
  /\ tokens \subseteq Tokens
  /\ process \in {"down", "schema", "bootstrap", "up"}
  /\ crashes \in 0..MaxCrashes
  /\ pc \in [Workers -> {"idle", "check", "insert", "refresh"}]
  /\ op \in [Workers -> Creations \cup {NoOp}]
  /\ mine \in [Workers -> [name : Names \cup {Null}, role : Role]]
  /\ since \in [Workers -> Time]
  /\ by \in [Workers -> Names \cup {Null}]
  /\ lastAdmin \in [Names -> Time \cup {Never}]

\* An empty volume, before the first start.
Init ==
  /\ users = [i \in Ids |-> NoUser] /\ nextId = 1 /\ prepared = FALSE
  /\ database \in BOOLEAN /\ clock = 0 /\ tokens = {}
  /\ process = "down" /\ crashes = 0
  /\ pc = [w \in Workers |-> "idle"]
  /\ op = [w \in Workers |-> NoOp]
  /\ mine = [w \in Workers |-> Nobody]
  /\ since = [w \in Workers |-> 0]
  /\ by = [w \in Workers |-> Null]
  /\ lastAdmin = [n \in Names |-> Never]
-----------------------------------------------------------------------------
(* The database.                                                           *)

\* A statement succeeds.
Answers == database /\ prepared

\* Two mistakes: a column lacks its unique constraint.
TakenEmail(name, email) == \E i \in Ids : users[i].email = email
TakenName(name, email) == \E i \in Ids : users[i].name = name

\* The unique constraints.
Taken(name, email) == \E i \in Ids : users[i].name = name \/ users[i].email = email

IsAdmin(table, n) ==
  \E i \in Ids : table[i].name = n /\ table[i].role = "admin" /\ table[i].active

\* The names that are an admin's are so now.
NoteAdmins(table, now) ==
  lastAdmin' = [n \in Names |-> IF IsAdmin(table, n) THEN now ELSE lastAdmin[n]]

\* INSERT and commit.
Enter(name, email, role) ==
  /\ nextId \in Ids
  /\ users' = [users EXCEPT ![nextId] =
                 [name |-> name, email |-> email, role |-> role, active |-> TRUE]]
  /\ nextId' = nextId + 1
  /\ NoteAdmins(users', clock)
-----------------------------------------------------------------------------
(* The start.                                                              *)

Start ==
  /\ process = "down"
  /\ process' = "schema"
  /\ UNCHANGED <<users, nextId, prepared, database, clock, tokens, crashes,
                 workerVars, lastAdmin>>

\* init_database: create_all, or a warning.
InitDatabase ==
  /\ process = "schema"
  /\ prepared' = (prepared \/ database)
  /\ process' = "bootstrap"
  /\ UNCHANGED <<users, nextId, database, clock, tokens, crashes, workerVars,
                 lastAdmin>>

\* A mistake: the account is made only on the first start.
BootstrapOnce ==
  /\ process = "bootstrap"
  /\ process' = "up"
  /\ IF Answers /\ crashes = 0 /\ ~Taken(Admin, AdminEmail)
     THEN Enter(Admin, AdminEmail, "admin")
     ELSE UNCHANGED <<users, nextId, lastAdmin>>
  /\ UNCHANGED <<prepared, database, clock, tokens, crashes, workerVars>>

\* ensure_bootstrap_admin: create it, find it there, or a warning.
Bootstrap ==
  /\ process = "bootstrap"
  /\ process' = "up"
  /\ IF Answers /\ ~Taken(Admin, AdminEmail)
     THEN Enter(Admin, AdminEmail, "admin")
     ELSE UNCHANGED <<users, nextId, lastAdmin>>
  /\ UNCHANGED <<prepared, database, clock, tokens, crashes, workerVars>>
-----------------------------------------------------------------------------
(* The requests.                                                           *)

\* The answer leaves, whatever its status, the session is closed, and the
\* worker may take the next request.
Answer(w) ==
  /\ pc' = [pc EXCEPT ![w] = "idle"]
  /\ op' = [op EXCEPT ![w] = NoOp]
  /\ mine' = [mine EXCEPT ![w] = Nobody]
  /\ since' = [since EXCEPT ![w] = 0]
  /\ by' = [by EXCEPT ![w] = Null]

Serving(w) == process = "up" /\ pc[w] = "idle"

\* login, authenticate: look the user up; an unknown or disabled one is refused
\* (401) without a bcrypt call, and without the database nobody is looked up
\* (500).
Lookup(w) ==
  /\ Serving(w)
  /\ \/ Answer(w)
     \/ /\ Answers
        /\ \E i \in Ids :
             /\ users[i].active
             /\ mine' = [mine EXCEPT ![w] =
                           [name |-> users[i].name, role |-> users[i].role]]
        /\ pc' = [pc EXCEPT ![w] = "check"]
        /\ since' = [since EXCEPT ![w] = clock]
        /\ UNCHANGED <<op, by>>
  /\ UNCHANGED <<users, nextId, prepared, database, clock, tokens, process,
                 crashes, lastAdmin>>

\* A mistake: the token's life is counted twice.
TokenOfTwice(user) == [sub |-> user.name, role |-> user.role, exp |-> clock + 2 * Lifetime]

\* issue_token.
TokenOf(user) == [sub |-> user.name, role |-> user.role, exp |-> clock + Lifetime]

\* verify_password has said no (401), or yes and the token is issued.
Authenticate(w) ==
  /\ pc[w] = "check"
  /\ Answer(w)
  /\ \/ UNCHANGED tokens
     \/ /\ Cardinality(tokens) < MaxTokens
        /\ tokens' = tokens \cup {TokenOf(mine[w])}
  /\ UNCHANGED <<users, nextId, prepared, database, clock, process, crashes,
                 lastAdmin>>

\* A mistake: the signature is right, so the token is.
ExpiredNever(t) == t = NoToken

\* decode_token: no token, or one past its expiry.
Expired(t) == t = NoToken \/ t.exp < clock

\* require_admin, in front of the user routes; 401 or 403 for the others.
Admitted(t) == ~Expired(t) /\ t.role = "admin"

\* create_user, up to the password's hash.
AskCreate(w) ==
  /\ Serving(w)
  /\ \E t \in tokens \cup {NoToken} :
       IF ~Admitted(t)
       THEN Answer(w)
       ELSE /\ \E o \in Creations : op' = [op EXCEPT ![w] = o]
            /\ since' = [since EXCEPT ![w] = clock]
            /\ by' = [by EXCEPT ![w] = t.sub]
            /\ pc' = [pc EXCEPT ![w] = "insert"]
            /\ UNCHANGED mine
  /\ UNCHANGED <<users, nextId, prepared, database, clock, tokens, process,
                 crashes, lastAdmin>>

\* create_user: the password breaks a rule (422), the database fails (500), the
\* name or the address is taken (409), or the row is committed.
Insert(w) ==
  /\ pc[w] = "insert"
  /\ \/ Answer(w) /\ UNCHANGED <<users, nextId, lastAdmin>>
     \/ /\ Answers /\ ~Taken(op[w].name, op[w].email)
        /\ Enter(op[w].name, op[w].email, op[w].role)
        /\ pc' = [pc EXCEPT ![w] = "refresh"]
        /\ since' = [since EXCEPT ![w] = 0]
        /\ by' = [by EXCEPT ![w] = Null]
        /\ UNCHANGED <<op, mine>>
  /\ UNCHANGED <<prepared, database, clock, tokens, process, crashes>>

\* UserRepository.create: the committed row is read back, 201 or 500.
Refresh(w) ==
  /\ pc[w] = "refresh"
  /\ Answer(w)
  /\ UNCHANGED <<users, nextId, prepared, database, clock, tokens, process,
                 crashes, lastAdmin>>
-----------------------------------------------------------------------------
(* The world.                                                              *)

\* The process dies with its requests; rows and tokens stay.
Crash ==
  /\ process # "down" /\ crashes < MaxCrashes
  /\ process' = "down" /\ crashes' = crashes + 1
  /\ pc' = [w \in Workers |-> "idle"]
  /\ op' = [w \in Workers |-> NoOp]
  /\ mine' = [w \in Workers |-> Nobody]
  /\ since' = [w \in Workers |-> 0]
  /\ by' = [w \in Workers |-> Null]
  /\ UNCHANGED <<users, nextId, prepared, database, clock, tokens, lastAdmin>>

DatabaseFlips ==
  /\ database' = ~database
  /\ UNCHANGED <<users, nextId, prepared, clock, tokens, process, crashes,
                 workerVars, lastAdmin>>

\* An operator takes the role or the account back.
Revoke ==
  /\ \E i \in Ids :
       /\ users[i] # NoUser
       /\ \/ users' = [users EXCEPT ![i].role = "analyst"]
          \/ users' = [users EXCEPT ![i].active = FALSE]
  /\ UNCHANGED <<nextId, prepared, database, clock, tokens, process, crashes,
                 workerVars, lastAdmin>>

Tick ==
  /\ clock < MaxTime
  /\ \A w \in Workers : pc[w] \in {"check", "insert"} => clock < since[w] + HashTime
  /\ clock' = clock + 1
  /\ NoteAdmins(users, clock + 1)
  /\ UNCHANGED <<users, nextId, prepared, database, tokens, process, crashes,
                 workerVars>>

Request(w) ==
  \/ Lookup(w) \/ Authenticate(w) \/ AskCreate(w) \/ Insert(w) \/ Refresh(w)

Next ==
  \/ Start \/ InitDatabase \/ Bootstrap
  \/ \E w \in Workers : Request(w)
  \/ Crash \/ DatabaseFlips \/ Revoke \/ Tick

\* A start, once begun, waits for nobody.  Nothing begins one: the compose file
\* has no restart policy.
Spec == Init /\ [][Next]_vars /\ WF_vars(InitDatabase) /\ WF_vars(Bootstrap)
-----------------------------------------------------------------------------
(* What the service must do.                                               *)

\* The user names and, separately, the addresses are unique at every moment,
\* whichever of two creations, or of a creation and a restart, comes first.
UserNames ==
  INSTANCE UniqueTable WITH
    Ids <- Ids, Keys <- Names, None <- Null,
    key <- [i \in Ids |-> users[i].name], spent <- 1..(nextId - 1)
UserEmails ==
  INSTANCE UniqueTable WITH
    Ids <- Ids, Keys <- Emails, None <- Null,
    key <- [i \in Ids |-> users[i].email], spent <- 1..(nextId - 1)

ImplementsTables == UserNames!Spec /\ UserEmails!Spec

\* Who passes require_admin was an active admin no longer ago than a token
\* lives plus the password check that preceded it: a role taken back is gone
\* by then, although the token is never looked up.
PrivilegeExpires ==
  \A w \in Workers : pc[w] = "insert" =>
    since[w] <= lastAdmin[by[w]] + HashTime + Lifetime

\* A start that finds its database leaves an account to begin with, however
\* many starts before it did not, unless it is cut short ("guarantee one admin
\* account exists").
RestartRepairs ==
  (process = "schema" /\ []database) ~>
    ((\E i \in Ids : users[i].name = Admin) \/ process = "down")
=============================================================================
