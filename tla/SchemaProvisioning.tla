------------------------- MODULE SchemaProvisioning -------------------------
(***************************************************************************)
(* POST /projects with POSTGRES_PROVISIONING_MODEL=schema: each request    *)
(* runs createProject -> Provision -> provisionSchema in a goroutine of    *)
(* its own, as a sequence of psql processes against one PostgreSQL         *)
(* cluster, and rolls back with cleanupSchema when a call reports failure. *)
(*                                                                         *)
(* A name stands for the triple (project name, dbName, dbUser):            *)
(* createProject derives the schema and the role from the name alone, not  *)
(* from the owner, so two owners who choose the same name compete for the  *)
(* same schema and the same role.  The names are those that pass           *)
(* projectNameRegex and validateProvisionRequest; a request that fails     *)
(* either of them returns before it touches any state.                     *)
(*                                                                         *)
(* EnsureElectric is one step here, with the outcomes its caller can see.  *)
(***************************************************************************)
CONSTANTS
  Requests,         \* POST /projects requests; each carries a fresh project id
  Owners,           \* values of the token's sub claim
  Names,            \* project names
  NoRequest,        \* the null value of role, schema and lock
  ElectricEnabled,  \* ELECTRIC_AUTO_PROVISION
  Faults            \* the kinds of fault that may happen

\* refuse:  a call of provisionSchema fails and has no effect
\* lost:    a call takes effect in PostgreSQL but psql reports failure
\* rollback: a call of cleanupSchema fails and has no effect
\* ctx:     the request's context is cancelled or passes its 60 s deadline
\* die:     the goroutine disappears (the process exits, or the handler panics)
FaultKinds == {"refuse", "lost", "rollback", "ctx", "die"}

ASSUME NoRequestAssumption == NoRequest \notin Requests
ASSUME ElectricAssumption == ElectricEnabled \in BOOLEAN
ASSUME FaultsAssumption == Faults \subseteq FaultKinds

VARIABLES
  req,       \* what each request asks for: its owner and its name
  pc,        \* the next call of each request
  ctx,       \* "live" until the request's context is done
  made,      \* createdRole, createdSchema, createdMetadata of provisionSchema
  result,    \* the outcome provisionSchema returns
  lock,      \* pg_advisory_lock: the request whose psql session holds each key
  role,      \* pg_roles: whose CREATE ROLE (and password) each role is
  schema,    \* information_schema.schemata: whose CREATE SCHEMA each one is
  connect,   \* roles that were granted CONNECT on the shared database
  projects   \* public.projects: the requests whose row is there

catalog == <<role, schema, connect, projects>>
vars == <<req, pc, ctx, made, result, lock, role, schema, connect, projects>>

NameOf(r) == req[r].name
LockKey(r) == <<req[r].owner, req[r].name>>

Working == {"lock", "session", "conflict", "schemata", "createRole",
            "createSchema", "insert", "electric", "dropRow", "dropSchema",
            "dropRole", "unlock"}
Labels == Working \cup {"idle", "done", "dead"}
Results == {"none", "ok", "conflict", "error"}

TypeOK ==
  /\ req \in [Requests -> [owner : Owners, name : Names]]
  /\ pc \in [Requests -> Labels]
  /\ ctx \in [Requests -> {"live", "done"}]
  /\ made \in [Requests -> SUBSET {"role", "schema", "metadata"}]
  /\ result \in [Requests -> Results]
  /\ lock \in [Owners \X Names -> Requests \cup {NoRequest}]
  /\ role \in [Names -> Requests \cup {NoRequest}]
  /\ schema \in [Names -> Requests \cup {NoRequest}]
  /\ connect \in SUBSET Names
  /\ projects \in SUBSET Requests

Init ==
  /\ req \in [Requests -> [owner : Owners, name : Names]]
  /\ pc = [r \in Requests |-> "idle"]
  /\ ctx = [r \in Requests |-> "live"]
  /\ made = [r \in Requests |-> {}]
  /\ result = [r \in Requests |-> "none"]
  /\ lock = [k \in Owners \X Names |-> NoRequest]
  /\ role = [n \in Names |-> NoRequest]
  /\ schema = [n \in Names |-> NoRequest]
  /\ connect = {}
  /\ projects = {}

-----------------------------------------------------------------------------
(***************************************************************************)
(* The control flow shared by the calls.  psql runs with the request's     *)
(* context: exec.CommandContext does not start a process once it is done.  *)
(***************************************************************************)
Live(r) == ctx[r] = "live"
Refused(r) == ~Live(r) \/ "refuse" \in Faults

Goto(r, label) ==
  /\ pc' = [pc EXCEPT ![r] = label]
  /\ UNCHANGED result

\* A return of provisionSchema: the deferred unlock runs next.
Return(r, outcome) ==
  /\ pc' = [pc EXCEPT ![r] = "unlock"]
  /\ result' = [result EXCEPT ![r] = outcome]

\* A failure that calls cleanupSchema before it returns, and one that forgets to.
AbortWithoutCleanup(r, outcome) == Return(r, outcome)

Abort(r, outcome) ==
  /\ pc' = [pc EXCEPT ![r] = "dropRow"]
  /\ result' = [result EXCEPT ![r] = outcome]

Mark(r, what) == made' = [made EXCEPT ![r] = @ \cup {what}]

(***************************************************************************)
(* What PostgreSQL finds when a call reaches it.                           *)
(***************************************************************************)
\* A row of the same owner and name, or of the same schema, is a row of the
\* same name.
Taken(n) == (\E q \in projects : NameOf(q) = n) \/ role[n] # NoRequest

\* CREATE SCHEMA needs its role and a name that is free.
Creatable(n) == role[n] # NoRequest /\ schema[n] = NoRequest

\* The unique constraints of public.projects that a new row could violate
\* are on db_user, on (owner_sub, name) and on (db_name, db_schema).
Duplicate(r) == \E q \in projects : NameOf(q) = NameOf(r)

\* PostgreSQL refuses DROP ROLE while the role owns an object or holds a
\* privilege on one: its schema, or CONNECT on the shared database.
Referenced(n) == schema[n] # NoRequest \/ n \in connect

\* A call of cleanupSchema that has no effect.
Skipped(r) == ~Live(r) \/ "rollback" \in Faults

-----------------------------------------------------------------------------
(***************************************************************************)
(* Plausible mistakes: variants of the actions below, none of them a step  *)
(* of Next.  PROJECT.json names the property that tells each one from the  *)
(* action it stands for.                                                   *)
(***************************************************************************)

\* EndSession, were the lock taken on a pooled connection that stays open.
EndSessionOfPool(r) ==
  /\ pc[r] = "session"
  /\ Goto(r, "conflict")
  /\ UNCHANGED <<req, ctx, made, lock, catalog>>

\* CheckConflict, were a failed query read as a conflict.
CheckConflictGuessing(r) ==
  /\ pc[r] = "conflict"
  /\ \/ (Refused(r) \/ Taken(NameOf(r))) /\ Return(r, "conflict")
     \/ Live(r) /\ ~Taken(NameOf(r)) /\ Goto(r, "schemata")
  /\ UNCHANGED <<req, ctx, made, lock, catalog>>

\* CreateRole, were the password of an existing role replaced.
CreateOrAlterRole(r) ==
  /\ pc[r] = "createRole"
  /\ Live(r)
  /\ role' = [role EXCEPT ![NameOf(r)] = r]
  /\ Mark(r, "role") /\ Goto(r, "createSchema")
  /\ UNCHANGED <<req, ctx, lock, schema, connect, projects>>

\* CreateRole, were its failure followed by cleanupSchema with createdRole set.
CreateRoleCleaningUp(r) ==
  /\ pc[r] = "createRole"
  /\ Live(r)
  /\ Mark(r, "role")
  /\ \/ /\ role[NameOf(r)] = NoRequest
        /\ role' = [role EXCEPT ![NameOf(r)] = r]
        /\ Goto(r, "createSchema")
     \/ /\ role[NameOf(r)] # NoRequest
        /\ Abort(r, "error")
        /\ UNCHANGED role
  /\ UNCHANGED <<req, ctx, lock, schema, connect, projects>>

\* CreateSchema, were its grant recorded as a thing of its own.
CreateSchemaMarkingGrant(r) ==
  /\ pc[r] = "createSchema"
  /\ Live(r) /\ Creatable(NameOf(r))
  /\ schema' = [schema EXCEPT ![NameOf(r)] = r]
  /\ connect' = connect \cup {NameOf(r)}
  /\ made' = [made EXCEPT ![r] = @ \cup {"schema", "connect"}]
  /\ Goto(r, "insert")
  /\ UNCHANGED <<req, ctx, lock, role, projects>>

\* DropSchema, were CONNECT revoked with it.
DropSchemaAndConnect(r) ==
  /\ pc[r] = "dropSchema"
  /\ \/ /\ "schema" \in made[r] /\ Live(r)
        /\ schema' = [schema EXCEPT ![NameOf(r)] = NoRequest]
        /\ connect' = connect \ {NameOf(r)}
     \/ ("schema" \notin made[r] \/ Skipped(r)) /\ UNCHANGED <<schema, connect>>
  /\ Goto(r, "dropRole")
  /\ UNCHANGED <<req, ctx, made, lock, role, projects>>

\* DropRole, were DROP OWNED BY run before it.
DropOwnedRole(r) ==
  /\ pc[r] = "dropRole"
  /\ \/ /\ "role" \in made[r] /\ Live(r)
        /\ role' = [role EXCEPT ![NameOf(r)] = NoRequest]
     \/ ("role" \notin made[r] \/ Skipped(r)) /\ UNCHANGED role
  /\ Goto(r, "unlock")
  /\ UNCHANGED <<req, ctx, made, lock, schema, connect, projects>>

-----------------------------------------------------------------------------
(***************************************************************************)
(* The calls of provisionSchema.                                           *)
(***************************************************************************)

\* The handler is entered: token, body and name have been accepted.
Begin(r) ==
  /\ pc[r] = "idle"
  /\ Goto(r, "lock")
  /\ UNCHANGED <<req, ctx, made, lock, catalog>>

(***************************************************************************)
(* SELECT pg_advisory_lock(key) in a psql process: the session waits until *)
(* the key is free and then owns it, until the process exits.              *)
(***************************************************************************)
AcquireLock(r) ==
  /\ pc[r] = "lock"
  /\ \/ /\ Live(r)
        /\ lock[LockKey(r)] = NoRequest
        /\ lock' = [lock EXCEPT ![LockKey(r)] = r]
        /\ Goto(r, "session")
     \/ /\ Refused(r)
        /\ pc' = [pc EXCEPT ![r] = "done"]
        /\ result' = [result EXCEPT ![r] = "error"]
        /\ UNCHANGED lock
  /\ UNCHANGED <<req, ctx, made, catalog>>

\* The psql process that took the lock exits, PostgreSQL ends its session
\* and with it every advisory lock the session owns; p.psql returns.
EndSession(r) ==
  /\ pc[r] = "session"
  /\ lock' = [lock EXCEPT ![LockKey(r)] = NoRequest]
  /\ Goto(r, "conflict")
  /\ UNCHANGED <<req, ctx, made, catalog>>

\* conflict: the query against public.projects and pg_roles.
CheckConflict(r) ==
  /\ pc[r] = "conflict"
  /\ \/ Live(r) /\ Taken(NameOf(r)) /\ Return(r, "conflict")
     \/ Live(r) /\ ~Taken(NameOf(r)) /\ Goto(r, "schemata")
     \/ Refused(r) /\ Return(r, "error")
  /\ UNCHANGED <<req, ctx, made, lock, catalog>>

\* conflict: the second query, against information_schema.schemata.
CheckSchemata(r) ==
  /\ pc[r] = "schemata"
  /\ \/ Live(r) /\ schema[NameOf(r)] # NoRequest /\ Return(r, "conflict")
     \/ Live(r) /\ schema[NameOf(r)] = NoRequest /\ Goto(r, "createRole")
     \/ Refused(r) /\ Return(r, "error")
  /\ UNCHANGED <<req, ctx, made, lock, catalog>>

\* CREATE ROLE.  A failure returns without a rollback.
CreateRole(r) ==
  /\ pc[r] = "createRole"
  /\ \/ /\ Live(r)
        /\ role[NameOf(r)] = NoRequest
        /\ role' = [role EXCEPT ![NameOf(r)] = r]
        /\ \/ Mark(r, "role") /\ Goto(r, "createSchema")
           \/ "lost" \in Faults /\ Return(r, "error") /\ UNCHANGED made
     \/ /\ Refused(r) \/ role[NameOf(r)] # NoRequest
        /\ Return(r, "error")
        /\ UNCHANGED <<role, made>>
  /\ UNCHANGED <<req, ctx, lock, schema, connect, projects>>

\* The BEGIN ... COMMIT script: the schema and its grants, or nothing.
CreateSchema(r) ==
  /\ pc[r] = "createSchema"
  /\ \/ /\ Live(r)
        /\ Creatable(NameOf(r))
        /\ schema' = [schema EXCEPT ![NameOf(r)] = r]
        /\ connect' = connect \cup {NameOf(r)}
        /\ \/ Mark(r, "schema") /\ Goto(r, "insert")
           \/ "lost" \in Faults /\ Abort(r, "error") /\ UNCHANGED made
     \/ /\ Refused(r) \/ ~Creatable(NameOf(r))
        /\ Abort(r, "error")
        /\ UNCHANGED <<schema, connect, made>>
  /\ UNCHANGED <<req, ctx, lock, role, projects>>

\* INSERT INTO public.projects, and the return when Electric is disabled.
InsertProject(r) ==
  /\ pc[r] = "insert"
  /\ \/ /\ Live(r)
        /\ ~Duplicate(r)
        /\ projects' = projects \cup {r}
        /\ \/ /\ Mark(r, "metadata")
              /\ IF ElectricEnabled THEN Goto(r, "electric")
                                    ELSE Return(r, "ok")
           \/ "lost" \in Faults /\ Abort(r, "error") /\ UNCHANGED made
     \/ /\ Refused(r) \/ Duplicate(r)
        /\ Abort(r, IF Duplicate(r) THEN "conflict" ELSE "error")
        /\ UNCHANGED <<projects, made>>
  /\ UNCHANGED <<req, ctx, lock, role, schema, connect>>

\* EnsureElectric, as its caller sees it.
EnsureElectric(r) ==
  /\ pc[r] = "electric"
  /\ \/ Live(r) /\ Return(r, "ok")
     \/ Refused(r) /\ Abort(r, "error")
  /\ UNCHANGED <<req, ctx, made, lock, catalog>>

-----------------------------------------------------------------------------
(***************************************************************************)
(* cleanupSchema: three calls in a fixed order, each only for what this    *)
(* request recorded as created.  Their errors are ignored, and they run    *)
(* with a context derived from the request's, so none of them has an       *)
(* effect once that context is done.                                       *)
(***************************************************************************)
DropRow(r) ==
  /\ pc[r] = "dropRow"
  /\ \/ "metadata" \in made[r] /\ Live(r) /\ projects' = projects \ {r}
     \/ ("metadata" \notin made[r] \/ Skipped(r)) /\ UNCHANGED projects
  /\ Goto(r, "dropSchema")
  /\ UNCHANGED <<req, ctx, made, lock, role, schema, connect>>

\* DROP SCHEMA ... CASCADE takes the grants on the schema with it, but not
\* the CONNECT privilege on the database.
DropSchema(r) ==
  /\ pc[r] = "dropSchema"
  /\ \/ /\ "schema" \in made[r] /\ Live(r)
        /\ schema' = [schema EXCEPT ![NameOf(r)] = NoRequest]
     \/ ("schema" \notin made[r] \/ Skipped(r)) /\ UNCHANGED schema
  /\ Goto(r, "dropRole")
  /\ UNCHANGED <<req, ctx, made, lock, role, connect, projects>>

DropRole(r) ==
  /\ pc[r] = "dropRole"
  /\ \/ /\ "role" \in made[r] /\ Live(r) /\ ~Referenced(NameOf(r))
        /\ role' = [role EXCEPT ![NameOf(r)] = NoRequest]
     \/ /\ \/ "role" \notin made[r]
           \/ Skipped(r)
           \/ Referenced(NameOf(r))
        /\ UNCHANGED role
  /\ Goto(r, "unlock")
  /\ UNCHANGED <<req, ctx, made, lock, schema, connect, projects>>

\* The deferred pg_advisory_unlock runs in a session of its own, which owns
\* no lock: PostgreSQL only warns.  Then the handler answers.
Unlock(r) ==
  /\ pc[r] = "unlock"
  /\ Goto(r, "done")
  /\ UNCHANGED <<req, ctx, made, lock, catalog>>

-----------------------------------------------------------------------------
\* The client disconnects or 60 s have passed.
CtxDone(r) ==
  /\ "ctx" \in Faults
  /\ pc[r] \in Working
  /\ Live(r)
  /\ ctx' = [ctx EXCEPT ![r] = "done"]
  /\ UNCHANGED <<req, pc, made, result, lock, catalog>>

\* The goroutine is gone, between any two of its calls; a psql process it
\* left behind ends by itself.
Die(r) ==
  /\ "die" \in Faults
  /\ pc[r] \in Working
  /\ pc' = [pc EXCEPT ![r] = "dead"]
  /\ lock' = [k \in DOMAIN lock |-> IF lock[k] = r THEN NoRequest ELSE lock[k]]
  /\ UNCHANGED <<req, ctx, made, result, catalog>>

\* What the goroutine of r does by itself.
Run(r) ==
  \/ AcquireLock(r) \/ EndSession(r)
  \/ CheckConflict(r) \/ CheckSchemata(r)
  \/ CreateRole(r) \/ CreateSchema(r) \/ InsertProject(r) \/ EnsureElectric(r)
  \/ DropRow(r) \/ DropSchema(r) \/ DropRole(r)
  \/ Unlock(r)

Next == \E r \in Requests : Begin(r) \/ Run(r) \/ CtxDone(r) \/ Die(r)

Spec == Init /\ [][Next]_vars

\* Goroutines are scheduled and every psql process ends: PostgreSQL answers,
\* or the context's deadline stops it.
Fairness == \A r \in Requests : WF_vars(Run(r))

FairSpec == Spec /\ Fairness

-----------------------------------------------------------------------------
(***************************************************************************)
(* Properties.                                                             *)
(***************************************************************************)

\* A request answered 201 holds a working project from then on: the role has
\* the password of its databaseUrl, the schema is its own, the row is there.
\* No other request, whatever it is doing and wherever it fails, takes any of
\* the four away, although nothing but the role's name keeps them apart.
SuccessIsUsable ==
  \A r \in Requests : result[r] = "ok" =>
    /\ role[NameOf(r)] = r
    /\ schema[NameOf(r)] = r
    /\ NameOf(r) \in connect
    /\ r \in projects

\* Every row of public.projects names a role that still has the password of
\* the row's database_url and may connect, even when a rollback failed in the
\* middle: FindProjectForOwner never hands out credentials of someone else.
RowCanConnect ==
  \A r \in projects : role[NameOf(r)] = r /\ NameOf(r) \in connect

\* A request about to insert its row owns the role and the schema and meets no
\* other row of its name: the unique violation InsertProject handles
\* cannot happen, so no request is told 409 after it has created something.
InsertIsUnique ==
  \A r \in Requests : pc[r] = "insert" =>
    /\ role[NameOf(r)] = r
    /\ schema[NameOf(r)] = r
    /\ ~Duplicate(r)

\* A 409 is never the request's own doing: another request asked for the name.
ConflictIsReal ==
  \A r \in Requests : result[r] = "conflict" =>
    \E q \in Requests \ {r} : NameOf(q) = NameOf(r) /\ pc[q] # "idle"

\* What a request made is removed by its own rollback only: cleanupSchema
\* drops the role and the schema by name, and must never meet the role or the
\* schema of a request of another owner who chose the same name.
OnlyMakerRemoves ==
  [][\A r \in Requests :
       /\ role[NameOf(r)] = r /\ role'[NameOf(r)] # r => pc[r] = "dropRole"
       /\ schema[NameOf(r)] = r /\ schema'[NameOf(r)] # r => pc[r] = "dropSchema"
       /\ r \in projects /\ r \notin projects' => pc[r] = "dropRow"]_vars

\* A name whose schema transaction once committed is never free again: the
\* rollback cannot drop the role, because CONNECT on the shared database is
\* not revoked, so every retry under that name is answered 409.
NameIsSpent ==
  [][\A n \in connect : role[n] # NoRequest /\ role'[n] = role[n]]_vars

\* GET /projects/{project}/sync and /tunnel read a row and go on with what it says, the
\* schema that scopes a table name and the credentials, for seconds or hours.  Whoever
\* has once found a project's row never meets another project in its place, although a
\* rollback may remove row and schema meanwhile and others ask for the name again.
FoundIsOwn ==
  \A r \in Requests :
    [](r \in projects =>
         [](role[NameOf(r)] = r /\ schema[NameOf(r)] \in {r, NoRequest}))

\* When the only faults are calls of provisionSchema that fail cleanly, a
\* request that is not answered 201 leaves neither a row nor a schema, and
\* leaves its role only if its schema transaction had committed.
CleanRollback ==
  \A r \in Requests :
    pc[r] \in {"unlock", "done"} /\ result[r] \in {"conflict", "error"} =>
      /\ r \notin projects
      /\ schema[NameOf(r)] # r
      /\ role[NameOf(r)] = r => "schema" \in made[r]

\* The labels at which a request has created its role and has not yet dropped
\* it, and those a request can only be at once its row was inserted.
Holding == {"createSchema", "insert", "electric",
            "dropRow", "dropSchema", "dropRole"}
AfterInsert == {"electric", "dropRow", "dropSchema", "dropRole",
                "unlock", "done", "dead"}

\* A request that created its role and has not yet dropped it has it still.
RoleHeld == \A r \in Requests : pc[r] \in Holding => role[NameOf(r)] = r

\* A role has the name its maker asked for.
RoleOfName == \A n \in Names : role[n] # NoRequest => NameOf(role[n]) = n

\* A schema belongs to the maker of the role, which may connect.
SchemaUnderRole ==
  \A n \in Names : schema[n] # NoRequest => schema[n] = role[n] /\ n \in connect

\* Only an existing role is granted CONNECT.
ConnectUnderRole == \A n \in connect : role[n] # NoRequest

\* A row belongs to a request that has inserted it and has its role.
RowUnderRole ==
  \A r \in projects : /\ role[NameOf(r)] = r
                      /\ NameOf(r) \in connect
                      /\ pc[r] \in AfterInsert

\* A request past its schema transaction, and past its INSERT, has both.
SchemaHeld ==
  \A r \in Requests : pc[r] \in {"insert", "electric"} => schema[NameOf(r)] = r
RowHeld == \A r \in Requests : pc[r] = "electric" => r \in projects

\* A request answered with success keeps both, and has no more calls to make.
OkHeld ==
  \A r \in Requests : result[r] = "ok" => /\ pc[r] \in {"unlock", "done", "dead"}
                                          /\ schema[NameOf(r)] = r
                                          /\ r \in projects

\* Why the properties above hold: CREATE ROLE, not the advisory lock, is the
\* mutual exclusion.  Between its CREATE ROLE and its DROP ROLE a request holds
\* the role of its name; schemas, grants and rows only exist under a role, and
\* belong to the request that holds it.
RoleIsTheLock ==
  /\ RoleHeld /\ RoleOfName
  /\ SchemaUnderRole /\ ConnectUnderRole /\ RowUnderRole
  /\ SchemaHeld /\ RowHeld /\ OkHeld

\* The advisory lock excludes: two requests for the same owner and name are
\* never both between the acquisition of their lock and its release.
LockExcludes ==
  LET inside(r) == pc[r] \in Working \ {"lock", "session"}
  IN  \A q, r \in Requests :
        q # r /\ LockKey(q) = LockKey(r) => ~(inside(q) /\ inside(r))

\* Every request whose handler is entered ends and leaves no advisory lock behind
\* that a later request for the same project would wait for, however it ends and
\* although no session ever unlocks what it has locked.
EveryRequestEnds ==
  []<>(\A r \in Requests : pc[r] \notin Working /\ lock[LockKey(r)] # r)

\* The role is the claim: provisioning implements NameClaim.
Claims == INSTANCE NameClaim WITH
  want <- [r \in Requests |-> NameOf(r)],
  claim <- role,
  granted <- {r \in Requests : result[r] = "ok"}

ImplementsNameClaim == Claims!Spec

=============================================================================
