------------------------ MODULE DatabaseProvisioning ------------------------
(***************************************************************************)
(* POSTGRES_PROVISIONING_MODEL=database: every project has a database, a   *)
(* role, a row of public.projects and an Electric container of its own.    *)
(* provisionDatabase creates them (POST /projects) and cleanup rolls them  *)
(* back; EnsureElectric starts or restarts the container of a project      *)
(* whose row it finds (GET /projects/{project}/sync).  Both choose a port  *)
(* with nextElectricPort and start the container with startElectric.       *)
(*                                                                         *)
(* The advisory locks are left out: the session that takes one ends with   *)
(* the call that takes it (SchemaProvisioning, EndSession), so that taking *)
(* it neither excludes nor changes anything here.                          *)
(***************************************************************************)
EXTENDS Naturals, FiniteSets

CONSTANTS
  Projects,         \* project ids: one POST /projects each, or a row from before
  Legacy,           \* the projects whose row has no Electric metadata yet
  Syncs,            \* GET /projects/{project}/sync calls
  Owners,           \* values of the token's sub claim
  Names,            \* project names: each determines dbName, dbUser, container
  Ports,            \* electricPortBase .. electricPortBase + 9999
  None,             \* no project, no secret
  ElectricEnabled,  \* ELECTRIC_AUTO_PROVISION
  Faults            \* the kinds of fault that may happen

\* refuse:   a call of provisionDatabase or EnsureElectric fails, no effect
\* lost:     a call takes effect but reports failure
\* rollback: a call of cleanup fails, no effect
\* stop:     the context of a POST ends, or the process: no later call of it,
\*           cleanup's included, has an effect
FaultKinds == {"refuse", "lost", "rollback", "stop"}

ASSUME LegacyAssumption == Legacy \subseteq Projects
ASSUME PortsAssumption == Ports \subseteq Nat \ {0}
ASSUME NoneAssumption == None \notin Projects \cup Syncs
ASSUME ProcessAssumption == Projects \cap Syncs = {}
ASSUME ElectricAssumption == ElectricEnabled \in BOOLEAN
ASSUME FaultsAssumption == Faults \subseteq FaultKinds

VARIABLES
  req,        \* owner and name of each project
  target,     \* the project each sync asks for
  pc,         \* the next call of each POST and each sync
  plan,       \* electricPort and electricSecret in the hands of each of them
  made,       \* createdRole, createdDB, createdMetadata of each POST
  result,     \* what each POST and each sync is answered
  role,       \* pg_roles: the project whose CREATE ROLE each one is
  db,         \* pg_database: the project whose CREATE DATABASE each one is
  row,        \* public.projects: its Electric columns, or NoRow
  container   \* docker: the container electric-<dbName> of each name

Processes == Projects \cup Syncs
pg == <<role, db, row>>
vars == <<req, target, pc, plan, made, result, role, db, row, container>>

NameOf(p) == req[p].name
ProjectOf(x) == IF x \in Syncs THEN target[x] ELSE x
ContainerOf(x) == NameOf(ProjectOf(x))

\* port 0 and secret None are NULL columns; a secret is told from another by
\* the process whose randomHex drew it.
Plan == [port : Ports \cup {0}, secret : Processes \cup {None}]
NoPlan == [port |-> 0, secret |-> None]
Statuses == {"not_provisioned", "provisioning", "running", "error"}
Rows == [port : Ports \cup {0}, secret : Processes \cup {None}, status : Statuses]
NoRow == [port |-> 0, secret |-> None, status |-> "no row"]
HasRow(p) == row[p] # NoRow

\* A container that could not bind its port stays behind, created; one that is
\* starting holds its port but does not answer yet.
Containers == [state : {"absent", "created", "starting", "ready"},
               port : Ports \cup {0}, secret : Processes \cup {None}]
Absent == [state |-> "absent", port |-> 0, secret |-> None]
Up(n) == container[n].state \in {"starting", "ready"}
Bound(port) == \E n \in Names : Up(n) /\ container[n].port = port

\* electricHealthy: something answers on the port, whoever it is.
Healthy(port) ==
  \E n \in Names : container[n].state = "ready" /\ container[n].port = port

PostLabels == {"conflict", "port", "createRole", "createDB", "grant", "insert",
               "rm", "run", "wait", "running",
               "cleanRm", "cleanRow", "cleanDB", "cleanRole"}
SyncLabels == {"find", "probe", "fresh", "reprobe", "choose", "update",
               "rm", "run", "wait", "running", "errored", "proxy"}
Ended == {"done", "stopped"}
Labels == PostLabels \cup SyncLabels \cup Ended \cup {"idle"}

TypeOK ==
  /\ req \in [Projects -> [owner : Owners, name : Names]]
  /\ target \in [Syncs -> Projects]
  /\ pc \in [Processes -> Labels]
  /\ plan \in [Processes -> Plan]
  /\ made \in [Projects -> SUBSET {"role", "db", "metadata"}]
  /\ result \in [Processes -> {"none", "ok", "conflict", "error"}]
  /\ role \in [Names -> Projects \cup {None}]
  /\ db \in [Names -> Projects \cup {None}]
  /\ row \in [Projects -> Rows \cup {NoRow}]
  /\ container \in [Names -> Containers]

\* Legacy projects have distinct names, as db_user is UNIQUE.
Init ==
  /\ req \in [Projects -> [owner : Owners, name : Names]]
  /\ \A p, q \in Legacy : p # q => NameOf(p) # NameOf(q)
  /\ target \in [Syncs -> Projects]
  /\ pc = [x \in Processes |-> IF x \in Legacy THEN "done" ELSE "idle"]
  /\ plan = [x \in Processes |-> NoPlan]
  /\ made = [p \in Projects |-> {}]
  /\ result = [x \in Processes |-> "none"]
  /\ LET maker(n) == {p \in Legacy : NameOf(p) = n}
         of(n) == IF maker(n) = {} THEN None ELSE CHOOSE p \in maker(n) : TRUE
     IN  /\ role = [n \in Names |-> of(n)]
         /\ db = [n \in Names |-> of(n)]
  /\ row = [p \in Projects |->
              IF p \in Legacy
              THEN [port |-> 0, secret |-> None, status |-> "not_provisioned"]
              ELSE NoRow]
  /\ container = [n \in Names |-> Absent]

-----------------------------------------------------------------------------
(***************************************************************************)
(* Control flow.                                                           *)
(***************************************************************************)
Refused == "refuse" \in Faults
Skipped == "rollback" \in Faults
Lost == "lost" \in Faults

Goto(x, label) ==
  /\ pc' = [pc EXCEPT ![x] = label]
  /\ UNCHANGED result

Return(x, outcome) ==
  /\ pc' = [pc EXCEPT ![x] = "done"]
  /\ result' = [result EXCEPT ![x] = outcome]

\* randomHex: nobody else draws the secret that x draws.  Were there one secret for
\* all projects, it would be the same for all x.
SharedSecret(x) == CHOOSE p \in Projects : p \in Legacy
Secret(x) == x

\* provisionDatabase fails and calls cleanup.
Abort(p, outcome) ==
  /\ pc' = [pc EXCEPT ![p] = "cleanRm"]
  /\ result' = [result EXCEPT ![p] = outcome]

\* startElectric fails: provisionDatabase calls cleanup, EnsureElectric
\* records electric_status = 'error'.  Or, were Electric optional, only a sync fails.
FailSyncOnly(x) == IF x \in Syncs THEN Goto(x, "errored") ELSE Goto(x, "running")

Fail(x) == IF x \in Syncs THEN Goto(x, "errored") ELSE Abort(x, "error")

Mark(p, what) == made' = [made EXCEPT ![p] = @ \cup {what}]

\* nextElectricPort: the lowest port no row has.
FreePorts == {port \in Ports : \A p \in Projects : row[p].port # port}
Lowest(ports) == CHOOSE port \in ports : \A other \in ports : port <= other

-----------------------------------------------------------------------------
(***************************************************************************)
(* Plausible mistakes: variants of the actions below, none of them a step  *)
(* of Next.  PROJECT.json names the property that tells each one from the  *)
(* action it stands for.                                                   *)
(***************************************************************************)

\* CreateRole, were the password of an existing role replaced.
CreateOrAlterRole(p) ==
  /\ pc[p] = "createRole"
  /\ role' = [role EXCEPT ![NameOf(p)] = p]
  /\ Mark(p, "role") /\ Goto(p, "createDB")
  /\ UNCHANGED <<req, target, plan, db, row, container>>

\* WaitReady, were there no deadline.
WaitForever(x) ==
  /\ pc[x] = "wait"
  /\ Healthy(plan[x].port)
  /\ Goto(x, "running")
  /\ UNCHANGED <<req, target, plan, made, pg, container>>

\* SetRunning, were the status misspelt.
SetReady(x) ==
  /\ pc[x] = "running"
  /\ row' = [row EXCEPT ![ProjectOf(x)].status = "ready"]
  /\ IF x \in Syncs THEN Goto(x, "proxy") ELSE Return(x, "ok")
  /\ UNCHANGED <<req, target, plan, made, role, db, container>>

\* CleanContainer, were the container forgotten, or the row.
KeepContainer(p) ==
  /\ pc[p] = "cleanRm"
  /\ Goto(p, "cleanRow")
  /\ UNCHANGED <<req, target, plan, made, pg, container>>

KeepRow(p) ==
  /\ pc[p] = "cleanRm"
  /\ container' = [container EXCEPT ![NameOf(p)] = Absent]
  /\ Goto(p, "cleanDB")
  /\ UNCHANGED <<req, target, plan, made, pg>>

-----------------------------------------------------------------------------
(***************************************************************************)
(* provisionDatabase.                                                      *)
(***************************************************************************)
Begin(p) ==
  /\ pc[p] = "idle"
  /\ Goto(p, "conflict")
  /\ UNCHANGED <<req, target, plan, made, pg, container>>

\* A row of the same owner and name, the database or the role.
Taken(p) ==
  \/ \E q \in Projects : HasRow(q) /\ req[q] = req[p]
  \/ db[NameOf(p)] # None
  \/ role[NameOf(p)] # None

CheckConflict(p) ==
  /\ pc[p] = "conflict"
  /\ \/ Taken(p) /\ Return(p, "conflict")
     \/ ~Taken(p) /\ Goto(p, "port")
     \/ Refused /\ Return(p, "error")
  /\ UNCHANGED <<req, target, plan, made, pg, container>>

\* nextElectricPort and randomHex: what is read here is written by InsertRow.
PlanElectric(p) ==
  /\ pc[p] = "port"
  /\ \/ /\ FreePorts # {}
        /\ plan' = [plan EXCEPT ![p] = [port |-> Lowest(FreePorts), secret |-> Secret(p)]]
        /\ Goto(p, "createRole")
     \/ /\ FreePorts = {} \/ Refused
        /\ Return(p, "error")
        /\ UNCHANGED plan
  /\ UNCHANGED <<req, target, made, pg, container>>

CreateRole(p) ==
  /\ pc[p] = "createRole"
  /\ \/ /\ role[NameOf(p)] = None
        /\ role' = [role EXCEPT ![NameOf(p)] = p]
        /\ \/ Mark(p, "role") /\ Goto(p, "createDB")
           \/ Lost /\ Return(p, "error") /\ UNCHANGED made
     \/ /\ role[NameOf(p)] # None \/ Refused
        /\ Return(p, "error")
        /\ UNCHANGED <<role, made>>
  /\ UNCHANGED <<req, target, plan, db, row, container>>

CreateDatabase(p) ==
  /\ pc[p] = "createDB"
  /\ \/ /\ db[NameOf(p)] = None
        /\ role[NameOf(p)] # None
        /\ db' = [db EXCEPT ![NameOf(p)] = p]
        /\ \/ Mark(p, "db") /\ Goto(p, "grant")
           \/ Lost /\ Abort(p, "error") /\ UNCHANGED made
     \/ /\ db[NameOf(p)] # None \/ role[NameOf(p)] = None \/ Refused
        /\ Abort(p, "error")
        /\ UNCHANGED <<db, made>>
  /\ UNCHANGED <<req, target, plan, role, row, container>>

\* The grants live and die with the database.
Grant(p) ==
  /\ pc[p] = "grant"
  /\ \/ Goto(p, "insert")
     \/ Refused /\ Abort(p, "error")
  /\ UNCHANGED <<req, target, plan, made, pg, container>>

\* db_user, (owner_sub, name) and (db_name, db_schema) are unique; the unique
\* constraint on electric_port was dropped by ensureMetadataTable.
Duplicate(p) == \E q \in Projects : HasRow(q) /\ NameOf(q) = NameOf(p)

InsertRow(p) ==
  /\ pc[p] = "insert"
  /\ \/ /\ ~Duplicate(p)
        /\ row' = [row EXCEPT ![p] = [port |-> plan[p].port,
                                      secret |-> plan[p].secret,
                                      status |-> "provisioning"]]
        /\ \/ /\ Mark(p, "metadata")
              /\ IF ElectricEnabled THEN Goto(p, "rm") ELSE Return(p, "ok")
           \/ Lost /\ Abort(p, "error") /\ UNCHANGED made
     \/ /\ Duplicate(p) \/ Refused
        /\ Abort(p, IF Duplicate(p) THEN "conflict" ELSE "error")
        /\ UNCHANGED <<row, made>>
  /\ UNCHANGED <<req, target, plan, role, db, container>>

-----------------------------------------------------------------------------
(***************************************************************************)
(* startElectric, for a POST and for a sync alike.                         *)
(***************************************************************************)
\* sudo install -d, and docker rm -f, whose failure is ignored.
RemoveContainer(x) ==
  /\ pc[x] = "rm"
  /\ \/ /\ container' = [container EXCEPT ![ContainerOf(x)] = Absent]
        /\ Goto(x, "run")
     \/ /\ Refused
        /\ Goto(x, "run") \/ Fail(x)
        /\ UNCHANGED container
  /\ UNCHANGED <<req, target, plan, made, pg>>

\* docker run -d: the name must be free, and so must the port, which docker
\* binds after it has created the container.
RunContainer(x) ==
  /\ pc[x] = "run"
  /\ LET n == ContainerOf(x)
         started(state) == [state |-> state, port |-> plan[x].port,
                            secret |-> plan[x].secret]
     IN  \/ /\ container[n] = Absent
            /\ ~Bound(plan[x].port)
            /\ container' = [container EXCEPT ![n] = started("starting")]
            /\ Goto(x, "wait") \/ (Lost /\ Fail(x))
         \/ /\ container[n] = Absent
            /\ Bound(plan[x].port)
            /\ container' = [container EXCEPT ![n] = started("created")]
            /\ Fail(x)
         \/ /\ container[n] # Absent \/ Refused
            /\ Fail(x)
            /\ UNCHANGED container
  /\ UNCHANGED <<req, target, plan, made, pg>>

\* waitElectricReady polls the port, not the container.
WaitReady(x) ==
  /\ pc[x] = "wait"
  /\ \/ Healthy(plan[x].port) /\ Goto(x, "running")
     \/ (~Bound(plan[x].port) \/ Refused) /\ Fail(x)
  /\ UNCHANGED <<req, target, plan, made, pg, container>>

\* An UPDATE of public.projects by id finds the row or changes nothing.
Update(p, columns) ==
  row' = IF HasRow(p) THEN [row EXCEPT ![p] = columns] ELSE row

WithStatus(p, status) ==
  [port |-> row[p].port, secret |-> row[p].secret, status |-> status]

\* SET electric_status = 'running'.  When it fails the error is returned, and
\* provisionDatabase does not call cleanup.
SetRunning(x) ==
  /\ pc[x] = "running"
  /\ LET p == ProjectOf(x)
     IN  \/ /\ Update(p, WithStatus(p, "running"))
            /\ \/ IF x \in Syncs THEN Goto(x, "proxy") ELSE Return(x, "ok")
               \/ Lost /\ Return(x, "error")
         \/ /\ Refused
            /\ Return(x, "error")
            /\ UNCHANGED row
  /\ UNCHANGED <<req, target, plan, made, role, db, container>>

-----------------------------------------------------------------------------
(***************************************************************************)
(* cleanup: four calls in a fixed order, whose errors are ignored.         *)
(***************************************************************************)
CleanContainer(p) ==
  /\ pc[p] = "cleanRm"
  /\ \/ container' = [container EXCEPT ![NameOf(p)] = Absent]
     \/ Skipped /\ UNCHANGED container
  /\ Goto(p, "cleanRow")
  /\ UNCHANGED <<req, target, plan, made, pg>>

CleanRow(p) ==
  /\ pc[p] = "cleanRow"
  /\ \/ "metadata" \in made[p] /\ row' = [row EXCEPT ![p] = NoRow]
     \/ ("metadata" \notin made[p] \/ Skipped) /\ UNCHANGED row
  /\ Goto(p, "cleanDB")
  /\ UNCHANGED <<req, target, plan, made, role, db, container>>

\* DROP DATABASE ... WITH (FORCE) fails while a replication slot of the
\* database is active, as it may be as long as its container runs.
CleanDatabase(p) ==
  /\ pc[p] = "cleanDB"
  /\ \/ "db" \in made[p] /\ db' = [db EXCEPT ![NameOf(p)] = None]
     \/ ("db" \notin made[p] \/ Skipped \/ Up(NameOf(p))) /\ UNCHANGED db
  /\ Goto(p, "cleanRole")
  /\ UNCHANGED <<req, target, plan, made, role, row, container>>

\* DROP ROLE fails while the role owns its database.
CleanRole(p) ==
  /\ pc[p] = "cleanRole"
  /\ \/ /\ "role" \in made[p] /\ db[NameOf(p)] = None
        /\ role' = [role EXCEPT ![NameOf(p)] = None]
     \/ /\ "role" \notin made[p] \/ Skipped \/ db[NameOf(p)] # None
        /\ UNCHANGED role
  /\ pc' = [pc EXCEPT ![p] = "done"]
  /\ UNCHANGED <<req, target, plan, made, result, db, row, container>>

\* The context ends between two calls, or the process does.
Stop(p) ==
  /\ "stop" \in Faults
  /\ pc[p] \in PostLabels
  /\ pc' = [pc EXCEPT ![p] = "stopped"]
  /\ result' = [result EXCEPT ![p] = IF @ = "none" THEN "error" ELSE @]
  /\ UNCHANGED <<req, target, plan, made, pg, container>>

-----------------------------------------------------------------------------
(***************************************************************************)
(* GET /projects/{project}/sync: FindProjectForOwner, EnsureElectric,      *)
(* which refuses at once when Electric is disabled, and the proxied        *)
(* request.                                                                *)
(***************************************************************************)
Electric(p) == [port |-> row[p].port, secret |-> row[p].secret]

FindProject(s) ==
  /\ pc[s] = "idle"
  /\ \/ /\ HasRow(target[s]) /\ ElectricEnabled
        /\ plan' = [plan EXCEPT ![s] = Electric(target[s])]
        /\ Goto(s, "probe")
     \/ /\ ~HasRow(target[s]) \/ ~ElectricEnabled \/ Refused
        /\ Return(s, "error")
        /\ UNCHANGED plan
  /\ UNCHANGED <<req, target, made, pg, container>>

\* The check before and after the lock: is Electric healthy already?
Provisioned(s) == plan[s].port > 0 /\ plan[s].secret # None /\ Healthy(plan[s].port)

Probe(s) ==
  /\ pc[s] \in {"probe", "reprobe"}
  /\ \/ Provisioned(s) /\ Goto(s, "proxy")
     \/ /\ ~Provisioned(s) \/ Refused
        /\ Goto(s, IF pc[s] = "probe" THEN "fresh" ELSE "choose")
  /\ UNCHANGED <<req, target, plan, made, pg, container>>

\* findProjectByID.
FindFresh(s) ==
  /\ pc[s] = "fresh"
  /\ \/ /\ HasRow(target[s])
        /\ plan' = [plan EXCEPT ![s] = Electric(target[s])]
        /\ Goto(s, "reprobe")
     \/ /\ ~HasRow(target[s]) \/ Refused
        /\ Return(s, "error")
        /\ UNCHANGED plan
  /\ UNCHANGED <<req, target, made, pg, container>>

\* nextElectricPort and randomHex, for the columns that are missing.
ChooseElectric(s) ==
  /\ pc[s] = "choose"
  /\ \/ /\ plan[s].port # 0 \/ FreePorts # {}
        /\ plan' = [plan EXCEPT ![s] =
             [port |-> IF plan[s].port = 0 THEN Lowest(FreePorts) ELSE plan[s].port,
              secret |-> IF plan[s].secret = None THEN Secret(s) ELSE plan[s].secret]]
        /\ Goto(s, "update")
     \/ /\ plan[s].port = 0
        /\ FreePorts = {} \/ Refused
        /\ Return(s, "error")
        /\ UNCHANGED plan
  /\ UNCHANGED <<req, target, made, pg, container>>

UpdateElectric(s) ==
  /\ pc[s] = "update"
  /\ \/ /\ Update(target[s], [port |-> plan[s].port, secret |-> plan[s].secret,
                              status |-> "provisioning"])
        /\ Goto(s, "rm") \/ (Lost /\ Return(s, "error"))
     \/ Refused /\ Return(s, "error") /\ UNCHANGED row
  /\ UNCHANGED <<req, target, plan, made, role, db, container>>

\* SET electric_status = 'error', with a context of its own.
SetError(s) ==
  /\ pc[s] = "errored"
  /\ \/ Update(target[s], WithStatus(target[s], "error"))
     \/ Refused /\ UNCHANGED row
  /\ Return(s, "error")
  /\ UNCHANGED <<req, target, plan, made, role, db, container>>

\* The container that answers on the port compares the secret.
Proxy(s) ==
  /\ pc[s] = "proxy"
  /\ \/ \E n \in Names : /\ container[n].state = "ready"
                         /\ container[n].port = plan[s].port
                         /\ container[n].secret = plan[s].secret
                         /\ Return(s, "ok")
     \/ /\ \A n \in Names : \/ container[n].state # "ready"
                            \/ container[n].port # plan[s].port
                            \/ container[n].secret # plan[s].secret
        /\ Return(s, "error")
  /\ UNCHANGED <<req, target, plan, made, pg, container>>

\* Electric in a container that was started begins to answer.
BecomeReady(n) ==
  /\ container[n].state = "starting"
  /\ container' = [container EXCEPT ![n] =
       [state |-> "ready", port |-> container[n].port, secret |-> container[n].secret]]
  /\ UNCHANGED <<req, target, pc, plan, made, result, pg>>

Post(p) ==
  \/ CheckConflict(p) \/ PlanElectric(p) \/ CreateRole(p)
  \/ CreateDatabase(p) \/ Grant(p) \/ InsertRow(p)
  \/ CleanContainer(p) \/ CleanRow(p) \/ CleanDatabase(p) \/ CleanRole(p)

Sync(s) ==
  \/ FindProject(s) \/ Probe(s) \/ FindFresh(s) \/ ChooseElectric(s)
  \/ UpdateElectric(s) \/ SetError(s) \/ Proxy(s)

Start(x) == RemoveContainer(x) \/ RunContainer(x) \/ WaitReady(x) \/ SetRunning(x)

Next ==
  \/ \E p \in Projects : Begin(p) \/ Post(p) \/ Stop(p)
  \/ \E s \in Syncs : Sync(s)
  \/ \E x \in Processes : Start(x)
  \/ \E n \in Names : BecomeReady(n)

Spec == Init /\ [][Next]_vars

\* Goroutines are scheduled, and every call ends, with an error if need be.
Fairness ==
  /\ \A p \in Projects : WF_vars(Post(p))
  /\ \A s \in Syncs : WF_vars(Sync(s))
  /\ \A x \in Processes : WF_vars(Start(x))

FairSpec == Spec /\ Fairness

-----------------------------------------------------------------------------
(***************************************************************************)
(* Properties.                                                             *)
(***************************************************************************)

\* A project answered 201 has its role, its database and its row from then on,
\* whatever fails elsewhere.
SuccessIsUsable ==
  \A p \in Projects : result[p] = "ok" =>
    role[NameOf(p)] = p /\ db[NameOf(p)] = p /\ HasRow(p)

\* As long as only POSTs run, a project answered 201 is served by the container
\* it started: nextElectricPort may give two of them the same port, but the one
\* whose docker run cannot bind it rolls itself back.
SuccessIsServed ==
  \A p \in Projects : result[p] = "ok" /\ ElectricEnabled =>
    /\ Up(NameOf(p))
    /\ container[NameOf(p)].port = row[p].port
    /\ container[NameOf(p)].secret = row[p].secret

\* A row of public.projects stands on a role and a database of the same project:
\* cleanup deletes the row before it drops what the row describes, so that no
\* interruption between its calls leaves a row whose database_url is dead.
RowIsBacked ==
  \A p \in Projects : HasRow(p) => role[NameOf(p)] = p /\ db[NameOf(p)] = p

\* When the calls of provisionDatabase fail cleanly, what a request leaves that ran
\* to its end is all or nothing: role, database, row and container, or none of the
\* four.  The only failure that keeps them is the last UPDATE's, after which cleanup
\* is not called.  It is said of names no sync asks for: a sync may start or remove the
\* container of the name at any time.
AllOrNothing ==
  \A p \in Projects \ Legacy :
    /\ pc[p] = "done" /\ ElectricEnabled
    /\ \A s \in Syncs : NameOf(target[s]) # NameOf(p)
    =>
    \/ /\ role[NameOf(p)] = p /\ db[NameOf(p)] = p /\ HasRow(p)
       /\ Up(NameOf(p)) /\ container[NameOf(p)].secret = p
       /\ result[p] = "ok" \/ row[p].status = "provisioning"
    \/ /\ role[NameOf(p)] # p /\ db[NameOf(p)] # p /\ ~HasRow(p)
       /\ container[NameOf(p)].secret # p
       /\ result[p] # "ok"

\* Whatever ports collide, and although a name may pass from a project that was
\* rolled back to another one, a sync whose project still has its row is answered
\* with shapes of its own database only: the container that answers on the port
\* of another project does not accept the secret.
AnswerIsOwn ==
  \A s \in Syncs, n \in Names :
    /\ pc[s] = "proxy" /\ HasRow(target[s])
    /\ container[n].state = "ready" /\ container[n].port = plan[s].port
    /\ container[n].secret = plan[s].secret
    => db[n] = target[s]

\* Every POST that has begun and every sync ends, although each may remove the
\* container another one is waiting for.
Quiet == \A x \in Processes : pc[x] \in Ended \cup {"idle"}
EveryCallEnds == []<>Quiet

\* A project whose Electric is missing is noticed: once nothing runs, if what the
\* next sync probes answers, it is the project's own container with the secret of
\* the row.  Otherwise that sync, and every later one, takes the port of another
\* project's Electric, or a secret Electric does not know, for a healthy Electric.
MissingIsNoticed ==
  Quiet =>
    \A p \in Projects :
      HasRow(p) /\ row[p].port > 0 /\ Healthy(row[p].port) =>
        /\ container[NameOf(p)].state = "ready"
        /\ container[NameOf(p)].port = row[p].port
        /\ container[NameOf(p)].secret = row[p].secret

\* The role is the claim: whichever of its calls fail, take effect unnoticed or are cut
\* off, a name has one project at a time, a 201 is answered to the one that has it, and
\* a project that was answered 201, or that is from before, never loses its name to a
\* rollback.
Claims == INSTANCE NameClaim WITH
  Requests <- Projects,
  NoRequest <- None,
  want <- [p \in Projects |-> NameOf(p)],
  claim <- role,
  granted <- Legacy \cup {p \in Projects : result[p] = "ok"}

ImplementsNameClaim == Claims!Spec

=============================================================================
