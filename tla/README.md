# A TLA+ model of einar-exe-postresql

The repository is a small control plane for PostgreSQL: an HTTP API that gives
every project a role and a schema (or a database) in one PostgreSQL cluster, keeps
an ElectricSQL container in front of it, and tunnels TCP connections to it through
WebSockets; and the command-line programs at the other end of the tunnel. It has no
tests. What makes it hard is not any single call but that every request is a long
sequence of external processes (`sudo psql`, `docker`), each of which may fail, take
effect and report failure, or never run, while other requests do the same.

## Inventory

| Part | State it keeps | Operations | Interacts with |
|---|---|---|---|
| Schema provisioning, `provisionSchema`, `cleanupSchema` (`provisioner.go`) | `pg_roles`, schemas and grants of the shared database, `public.projects`, session-level advisory locks, three flags per request | one psql process per step; rollback by name | other POSTs through the cluster; shared Electric |
| Database provisioning, `provisionDatabase`, `cleanup` | as above with one database per project, an Electric port, secret and container | as above, then `startElectric` | other POSTs and syncs through the cluster and docker |
| Per-project Electric, `EnsureElectric` | the Electric columns of a row, the container `electric-<dbName>` | probe, re-read, choose port and secret, UPDATE, remove and run the container, wait | POSTs and other syncs of the same row, container and port |
| Shared Electric, `ensureSharedElectric` | `Provisioner.electricGlobalSecret` (process memory, unsynchronised), one container, the secret in every row | probe, pick a secret, restart the container, spread the secret | all POSTs and syncs of the schema model |
| Metadata table, `ensureMetadataTable` | columns and constraints of `public.projects` | one migration script at start-up | all of the above |
| Lookup, `FindProjectForOwner`, `findProjectByID` | none | one SELECT | sync, tunnel |
| `createProject` | the request's context (60 s) | validate, derive `dbName` and `dbUser` from the name alone | provisioning |
| Sync gateway, `handleElectricShape` | none | look up, ensure Electric, scope the table name, proxy with the secret | Electric |
| Tunnel, `handleTunnel`, `proxyWebSocketToTCP` (API); `Serve`, `proxyTCPToWebSocket` (`internal/tunnel`, copied in `cmd/pgtunnel`) | two sockets and two goroutines per side | read, write, close both | each other through the WebSocket; the application; PostgreSQL |
| `einar` CLI | `.einar/config.json` | read-modify-write of the document, token search, local URL | the tunnel; other tools that keep keys in the same file |
| JWT middleware, JWKS | the key set (library) | accept or refuse a token | every handler |
| Server lifecycle, `server.New`, `startServer`, `cmd/api` | the listener | start in dependency order, panic on an error of `Run`, shut down in 10 s | everything above: the process may end between any two of their steps |
| Hello handler, OpenAPI document, workspace files, git hook | none | | |

Behaviours that are hard, and what correctness means there:

* **Provisioning** is a distributed transaction by hand. The advisory lock that looks
  like its mutual exclusion is released by the exit of the psql process that took it.
  Correct means: who is answered 201 keeps a working project; a rollback touches only
  what its own request made; a row never hands out dead or foreign credentials.
* **Port and secret allocation** reads and writes in separate calls, on columns whose
  UNIQUE constraints were dropped. Correct means: a sync is served by the Electric of
  its own database, and a missing Electric is noticed.
* **The tunnel** is four goroutines over three sockets. Correct means: bytes arrive in
  order and without gaps, one end closes all of it, and no direction waits for the
  other one.
* **Shutdown** ends all of it anywhere.
* **The CLI's document** is shared by uncoordinated processes.

`PROJECT.json` lists the hazards one by one with their lines.

## Plan

1. `NameClaim`, `SchemaProvisioning`, `SchemaProvisioningProofs`: the default model
   of provisioning, the abstract promise it implements, and their proofs. *Done.*
2. `DatabaseProvisioning`, `DatabaseProvisioningProofs`: the other model, with
   per-project Electric and syncs. *Done.*
3. `Tunnel`, `Connection`, `TunnelProofs`: the bytes of one connection, both sides, and
   what they promise the programs at its ends. *Done.*
4. `SharedElectric`, `SharedElectricProofs`: `ensureSharedElectric`,
   `sharedElectricSecret` and the unsynchronised `electricGlobalSecret`, with restarts of
   the API. *Done.*
5. `CliConfig`: overlapping `persist-project-response` and a `connect` over one
   document, with half-written files. *Done.*
6. `DbConnect`, `DbConnectProofs`: one `einar db connect` from the document to
   PostgreSQL: `CliConfig`, the listener, the handshake, the API's checks, SIGINT and
   SIGTERM. *Done.*
7. Left: the scoping of table names (`tenantScopedElectricTable`) as an operator over
   structured names; the start-up order of the container that builds the API; the lookup
   by id or name when both match; a property for the Electric that a sync starts after the
   rollback of its project. The promise of a graceful shutdown (`cmd/api/main.go:26`)
   deserves a run of its own that violates it.

## Modules

### NameClaim
The promise: a name is claimed by at most one request, only the holder is answered with
success, and a claim that was answered with success is never given up. Claims may be there
from before the first step, as those of projects from an earlier process are. Both
provisioning modules implement it, with the PostgreSQL role as the claim.

### SchemaProvisioning
A request is a goroutine; `pc` is its next psql call, and each action is one call
with every outcome it can have. A name stands for the project name, the schema and the
role, since `createProject` derives the other two from it and not from the owner.

| Variable | In the code |
|---|---|
| `req`, `pc`, `ctx`, `made`, `result` | the `ProvisionRequest`, the position in `provisionSchema` or `cleanupSchema`, the request's context, `createdRole`/`createdSchema`/`createdMetadata`, the return value |
| `lock` | session-level advisory locks, per owner and name |
| `role`, `schema` | `pg_roles` and `information_schema.schemata`, with whose CREATE each entry is |
| `connect` | roles that hold CONNECT on the shared database |
| `projects` | rows of `public.projects` |

Actions follow the calls: `AcquireLock`, `EndSession` (the psql process exits, and
PostgreSQL releases its locks), `CheckConflict`, `CheckSchemata`, `CreateRole`,
`CreateSchema` (one transaction), `InsertProject`, `EnsureElectric` (one step, seen from
its caller), `DropRow`, `DropSchema`, `DropRole`, `Unlock`; and `CtxDone`, `Die` for the
world. The faults are a constant, so that each run and each proof says which it allows:
`refuse` (a call fails without effect), `lost` (it has its effect and reports failure),
`rollback` (a call of the rollback fails), `ctx`, `die`. A concurrent GRANT on the same
catalog tuple ("tuple concurrently updated") is a `refuse`. `DropRole` knows that
PostgreSQL refuses to drop a role that owns a schema or holds CONNECT on the database.

### DatabaseProvisioning
The same for `provisionDatabase`, and for `GET /projects/{project}/sync`. A project id is
its POST; `Legacy` projects are rows from before the Electric columns existed. `plan` is
the port and secret a goroutine has in hand between reading and writing them, `row` the
Electric columns, `container` the docker container of each name with the port and
secret it was started with. A secret is told from another by the process that drew it.
`startElectric` (`RemoveContainer`, `RunContainer`, `WaitReady`, `SetRunning`) is shared
by both, as in the code; docker refuses a name in use, and a port in use only after it
has created the container. `Healthy` asks the port, not the container. The advisory
locks are left out: taking one neither excludes nor changes anything, which is what
`SchemaLock` shows. `stop` is the end of a POST's context or of the process: none of its
later calls has an effect. Syncs keep a project id as their target, not its name.

### Tunnel
`pc[side][loop]` is where each of the four goroutines is; `tcpIn` and `frames` are the
bytes in flight before and between the sides, at most `Window` chunks each; `held` is the
chunk a loop has read and not yet written. An endpoint may shut its writing half, close,
or stop reading (`stalled`). `End` is `closeBoth`. `Break` (`drop`) is a call that fails (a reset, or
the eight-hour deadline of the API's TCP socket), `Kill` (`kill`) ends a process.
Both copies of the client loop (`internal/tunnel`, `cmd/pgtunnel`) are the "cli" side.

### Connection
The promise of the tunnel, without sockets and goroutines: two ends, each of which may
write, shut its writing half, close or stop reading; what is delivered is the next chunk
of the other end, and a writer is at most `Capacity` chunks ahead of a reader. `Tunnel`
implements it (`Ends`) with a capacity of `2 * Window + 2`: two sockets on the way and the
chunks its two loops hold. `End`, `Break`, `Kill` and the reads of the loops are stutters.

### SharedElectric
The shared secret is in four places, and each is a variable: `cache` is
`electricGlobalSecret`, `row` the Electric columns of each project (`shared` says whether
`electric_container` names the shared container), `container` the container with the
secret it was started with, and `hand` what a goroutine has read from one of these and
not yet written to another. A secret is told from another by the process that drew it;
`InUse` is the one of a deployment from before. A POST is `PickSecret`, `QuerySecret`,
`StoreSecret` for `provisionSchema`, `InsertRow`, and then the same three again with
`Probe`, `Adopt`, `Reprobe`, `RemoveContainer`, `RunContainer`, `WaitReady`, `Spread`,
`SetError` for `ensureSharedElectric`, as in the code, which chooses the secret twice; a
sync is `FindProject`, `ensureSharedElectric` and `Proxy`. What a POST does to roles and
schemas is `SchemaProvisioning`'s, where `EnsureElectric` is the one step this module
takes apart. Reads and writes of `electricGlobalSecret` are separate steps: the outcomes
of a torn read are those of reading earlier, reading later, and a handler that panics.
The context of a request is a variable of its own (`ctx`), because its end (`CtxDone`: the
client disconnects, or the 60 s are over) does not end the goroutine: its calls fail, the one
under way possibly with its effect, the status `error` is still written with
`context.Background()`, and a goroutine whose query for the secret failed goes on, draws a
secret and stores it in `electricGlobalSecret`, which outlives the request. `blind` is a
history variable: the requests whose query has met an error.
Faults: `refuse`, `query` (the query of `sharedElectricSecret` fails, which the code takes
for an answer without rows), `ctx`, `panic` (a handler ends at once), `restart` (the API
forgets the secret, its requests end), `crash` (Electric exits and docker restarts it).
`Restart` needs a request in flight.

### CliConfig
`file` is `.einar/config.json`: absent, empty (truncated), torn (invalid JSON) or a
document with a project and a database object, the keys of the old form, and keys of other
tools. A persist reads (`ReadDocument`), truncates (`TruncateFile`) and writes
(`WriteDocument`), which is `os.WriteFile`; two that overlap write at the start of one file,
so that the end of the longer document may stay behind the shorter one. The connect reads
the document twice: `LoadProject`, then `ResolveToken`. `full` is a file that cannot be
created or written, `kill` the end of a persist between two calls.

### DbConnect
It extends `CliConfig` by what a connect does with the project (`ref`) and the token:
`listener` and `interrupted` are `Serve`'s; `app`, `cli` and `srv` are, for each
application, its local connection, the goroutine of `handleConn` and the one of
`handleTunnel`; `sub` the subject the middleware found; `api` the API process. `Dial`
sends the handshake, `Authorize`, `LookUp`, `Upgrade`, `DialPostgres` are the API's steps,
the last one after the handshake has been answered; `CloseCli`, `CloseSrv`, `Drop` the ends
of the two proxies. The API's loop from PostgreSQL is in `pgConn.Read` (`open`) or in
`ws.WriteMessage` (`write`; `Reply`, `Sent`), because the eight hours of `tunnelMaxLifetime`
are a deadline of the PostgreSQL socket alone: `Deadline` is that loop in its Read, `LateWrite`
the other loop in a Write to PostgreSQL, and nobody else notices. `Interrupt`,
`CloseListener`, `Return` are Ctrl+C; `Terminate`, `Exit` are SIGTERM, and `Exit` may come
before the requests are answered, since `startServer` panics on the `ErrServerClosed` that
`Shutdown` provokes. Faults: `refuse` (a call of the API fails), `slow` (a handshake
outlasts its timeout), `vanish` (the client's host is gone), `drop` (a connection is
closed by PostgreSQL or the network). `pgtunnel` is the same from its listener on, with
project and token from flags.

### Composition
`DbConnect` contains `CliConfig` and follows only the ends of its tunnels; `Tunnel` is what
happens inside one of them between `Through` and the first end. `SharedElectric` takes
apart the `EnsureElectric` step of `SchemaProvisioning`. `NameClaim` is implemented by
`SchemaProvisioning` and by `DatabaseProvisioning`, `Connection` by `Tunnel`.

Each module that models code has a section of *plausible mistakes*: variants of actions which
are no step of `Next`. `PROJECT.json` pairs every checked property with one of them
that breaks it.

## Runs

| Run | Instance | What it shows |
|---|---|---|
| `SchemaSafety` | 3 requests, 2 owners, 1 name, all faults | type correctness; a 201 stays usable; rows can connect; the unique violation of the INSERT cannot happen; a 409 is never self-made; rollbacks remove only their own; a name whose schema transaction committed is spent; `NameClaim` is implemented; the inductive invariant |
| `SchemaRollback` | 3 requests, 2 owners, 1 name, `refuse`, `die` | nothing is left behind but roles whose schema transaction had committed; as long as a row can be found, the role and schema of its name are its own; every request ends |
| `SchemaLock` | 2 requests, no fault | **violated**: the advisory lock does not exclude (finding) |
| `DatabaseSafety` | 3 projects, 2 names, 2 ports, `refuse`, `lost`, `rollback` | a 201 keeps role, database and row, and is served by its own container although ports collide; `NameClaim` is implemented |
| `SyncSafety` | 1 legacy project, 2 POSTs, 1 sync, 3 names, 2 ports, `refuse`, `stop` | no sync is answered from another project's database; all four artefacts or none, under names no sync asks for; no row without its role and database, wherever a POST stops; every POST and sync ends |
| `SyncEnsure` | 2 legacy projects, 2 syncs, no fault | **violated**: a missing Electric goes unnoticed (finding) |
| `Tunnel` | a query of 2 chunks, a reply of 3, window 1, `drop`, `kill` | order, no gap, no repetition; no loss before a close; one loop's end is the end of both sides; no direction blocks the other; `Connection` is implemented |
| `SharedSafety` | 3 projects of which 1 established and 1 legacy, 1 sync, `refuse`, `query`, `ctx`, `panic`, `restart`, `crash` | an established deployment gets a second secret only from a request that asked for the first one and met an error; every call ends |
| `SharedRecovery` | 3 projects of which 1 legacy, 1 sync, no fault | concurrent restarts of the container leave it running, and not all requests fail |
| `SharedSecret` | 2 projects, no fault | **violated**: the first two POSTs leave an Electric that does not know the API's secret (finding) |
| `DbConnect` | 2 persists, 1 connect, 1 application, `full`, `kill`, `refuse`, `slow`, `vanish`, `drop` | project, URL and token belong together; no application is left waiting, and always somebody serves one that waits; a connection to PostgreSQL is held for ever only for a live client whose application has stopped reading; Ctrl+C ends the connect |
| `DocMerge` | 2 persists, no fault | **violated**: the keys of other tools are gone although both report success (finding) |

**Bounds.** Interference in provisioning is between requests that use one name: two
already race for the role, and a third one sees what the rollback of the first left while
the second is under way. Two owners separate the lock keys, two names and two ports are
the fewest that let a port be shared by two projects and a name pass from one to another;
in the database model rows, roles and databases of different names never meet except in
the ports. `DatabaseSafety` has no legacy projects: they are in `SyncSafety`, which also
checks the types of this module, and in the theorem about `NameClaim`. `AllOrNothing` and
`RowIsBacked` are checked there with two POSTs beside a sync that may take a port from them,
and proved for any number of POSTs. In the tunnel a window
of one chunk fills at once; two chunks each way are what it takes for both out-loops to be blocked by full WebSockets at
the same time, and three what it takes for a reader that has stopped to block the writer's
side: one chunk is held by the loop before the reader, one is in the WebSocket, and the third
one is held by the loop that cannot write it. The bound `MaxChunks` ends the endpoints' writing, nothing else.
In `SharedSafety` the established project has the secret, the legacy one has none, and a new
one and a sync of any of the three race to find it while a restart makes the API forget it and
either of them may meet an error; with a third request and all six faults TLC does not end
within minutes, and `OneSecretHolds` speaks of any number of them; in `SharedRecovery` three
requests are what it takes for one to remove the container a second one has started while
a third one waits. In `DbConnect` two persists are the fewest that overlap; one connection
is enough as connections share nothing but the ends of the two processes. A document is
under a page, so that one `write(2)` has all of its effect or none; a torn file comes from
two writers. `alice` owns all projects, her token is in the directory's document and
`bob`'s in the one of `$HOME`, so that a connect that falls back on it would be another
user. A start of Electric that outlasts the 30 s of `waitElectricReady` is a `refuse`.
The runs without liveness properties use TLC's symmetry reduction, as the processes, names
and owners are only compared with each other; `SyncSafety` only fixes the name of its legacy
project (`CanonicalSpec`), which loses nothing for the same reason. Deadlock checking is off everywhere because the modelled requests are finitely many
and end.

**Fairness.** `SchemaProvisioning`: weak fairness of each request's own steps. Goroutines
are scheduled, and every psql call ends since it runs with a context that has a deadline;
nothing is assumed of clients. `AcquireLock` waits in PostgreSQL and is only weakly fair:
the result does not rest on the lock being handed out in turn. `DatabaseProvisioning`: the same for POSTs and syncs;
nothing is assumed of Electric, which may never become ready. `Tunnel`: weak fairness of
each loop, without `Break`: no fault has to help a loop that waits. Nothing is assumed of the
endpoints, which may stop writing, reading or both. `SharedElectric`: as for provisioning, and
that Electric, once started, begins to answer (`BecomeReady`); nothing makes it crash or
stay up. `DbConnect`: weak fairness of the goroutines of a connection (`Client`, `Request`),
each of whose calls has a timeout, of the API's loops when the client has closed or the kernel
gives up on a host that is gone (`CloseSrv`), and of a process that has begun to end (`Stop`,
`Exit`); strong fairness of `Deadline`, since a deadline that has passed makes every later Read
of that socket fail at once: a loop that comes back to it again and again meets it, one
that stays in `ws.WriteMessage` does not. Nothing is assumed of applications, signals or
faults: `Hangup`, `Interrupt`, `Terminate` and `Vanish` need never happen, and a write to the
WebSocket (`Sent`) need never end.

## Proofs

`SchemaProvisioningProofs` proves, for any sets of requests, owners and names, any faults
and either value of `ElectricEnabled`:

* `TypeCorrect`: `Spec => []TypeOK`;
* `RoleIsTheLockHolds`: the inductive invariant, with `TypeOK`;
* `SuccessIsUsableHolds`, `RowCanConnectHolds`, `InsertIsUniqueHolds` from it;
* `OnlyMakerRemovesHolds`, `NameIsSpentHolds`: action properties, from it;
* `NameClaimImplemented`: the refinement, with `role` as the claim;
* `LockIsShortHolds`: an advisory lock is held only by a request in the call that took it.
  It is inductive with `TypeOK`, and is the safety half of `EveryRequestEnds` (whoever waits
  for a lock waits for a call that ends by itself) as well as the reason why `LockExcludes`
  fails.

The assumptions are those of the module: `NoRequest` is no request, `ElectricEnabled` is
Boolean, `Faults` are known kinds. None of the properties is inductive by itself: that a
request answered 201 keeps its role says nothing of why a concurrent rollback cannot drop
it. `RoleIsTheLock` says why. A request between its CREATE ROLE and its DROP ROLE holds
the role of its name (`RoleHeld`); hence at most one request per name is past its CREATE
ROLE, every `made` flag that leads to a drop by name is that request's, and schemas, grants
and rows exist only under the role of their maker (`SchemaUnderRole`, `ConnectUnderRole`,
`RowUnderRole`). The conflict checks and the advisory lock play no part in it. The proof
takes one lemma per action that changes the catalog and one for all that do not.

The invariant needs CREATE ROLE to be atomic and exclusive, which PostgreSQL's unique
index on role names provides, and DROP ROLE to be refused while the role holds CONNECT.

Three more follow from it. `FoundIsOwnHolds`: the row of a name stands under the role of
its maker. `ConflictIsRealHolds` goes through `Before`: a request that has not yet created its role owns
nothing its own conflict check could meet. `CleanRollbackHolds` assumes
that calls fail cleanly (`Faults \subseteq {"refuse", "die"}`) and goes through `Tidy`: the
flags of a request say exactly what it has made.

`DatabaseProvisioningProofs` proves, for any projects, syncs, names and ports:

* `TypeCorrect`, with `LowestPort`: `nextElectricPort` has a least free port whenever there
  is one, by the well-foundedness of `<`;
* `SuccessIsUsableHolds`, under any faults, from `Owned`: a POST past its CREATE ROLE owns the
  role of its name, and a database has the owner its role has;
* `RowIsBackedHolds`, `AnswerIsOwnHolds` where a call that reports failure had no effect
  (`refuse`, `stop`): the first from `Backed`, which says that cleanup has deleted the row
  before it drops what the row describes; the second from `SecretsStay`: rows, hands and
  containers pass a secret on to the project of the process that drew it and to no other
  one, so that whoever answers to it stands in front of that project's database;
* `SuccessIsServedHolds` where only POSTs run (`Syncs = {}`), under any faults, from
  `Serving`: only the owner of a name touches its container, and `docker run` is refused
  when the port is taken, so that of two POSTs with one port one rolls itself back;
* `AllOrNothingHolds` for POSTs alone and calls that fail cleanly, from `Whole`: what a POST
  has made at each of its labels, and that its flags and its cleanup miss none of it;
* `NameClaimImplemented` under any faults, with syncs and legacy projects, from `Owned` and
  `LegacyDone` (the POST of a legacy project is over). One lemma each says that an answer
  leaves the role alone, that an answer stays, and which two actions move the role; all other
  steps are stutters;
* `OnlyMakerRemoves` under any faults, from `Owned`: `cleanup` drops by name, and still no
  role, database or row disappears but through the cleanup of its own project.

`TunnelProofs` proves, for any numbers of chunks, any window and any faults, `TypeCorrect`,
`InOrderHolds` and `NothingLostHolds` from `PipelinesHold`. Each direction is five places in a
row: the socket of the writer, the chunk its loop holds, the WebSocket, the chunk the other
loop holds, and what has been delivered. Until something closes, they hold consecutive
numbers without gaps; afterwards what has been delivered stays a prefix.

`ConnectionImplemented` is the refinement, step by step. A write of an endpoint must find
room in `Connection`, which is where the length of the five places is counted: `Windows`
bounds the two queues, and `OnTheWay` adds the two held chunks, since by `PipelinesHold` the
five places are all there is. A delivery appends the next number for the same reason.

`NeverStuckHolds` is the safety half of `TunnelCloses` and `Delivered`: if all four loops
have ended or wait, then either nobody has closed and every reader that reads has got
everything, or both sides are gone but for one whose reader has stopped. It needs
`Sockets`: the two sockets of a side are closed together (`closeBoth`), and an ended loop
has closed them; and `EmptyIsCaughtUp`: with nothing in any place, everything is delivered. That a loop which can go on does so is weak fairness, and stays with TLC.

`SharedElectricProofs` proves `TypeCorrect`; `OneSecretHolds`, for deployments whose secret a
row knows (`Established`) and under any faults, from `SecretKept`: the genuine secrets are the
one in use and those that blind requests (whose query met an error) have drawn; the row of a
project from before is never deleted and keeps a genuine one, so that a query that is answered
finds one, and whoever comes to `StoreSecret` with nothing in hand is blind himself.
`SecretIsKnownHolds`: in such a deployment, and as long as nobody is blind, the property that
`SharedSecret` refutes for new ones holds. `ElectricStandsHolds`, without faults, from `StandsOrReturns`: when the container is absent,
somebody is about to start it or nobody has succeeded yet; and `SomebodySucceedsHolds`,
without faults. The obvious argument for the last one (the request whose container stays
is answered) needs the whole history of removals; its invariant does not: whatever the
container is doing, somebody is at the place from which he can only go on to an answer
(`OnTheWay`: at `docker run` when it is absent, in `waitElectricReady` while it starts, past
a health check when it answers), and until the first `docker rm` nobody can have failed
(`NobodyFailed`). A request that loses its place does so by taking the container from
under the others, and is then itself at `docker run`.

`DbConnectProofs` proves `TypeCorrect` and, for any persists, connections and faults,
`OnePairHolds` from `Paired` (the two objects of every document and of every hand name one
project), and `PrintedIsServedHolds` from `LetIn`: the API
looks up the project for the subject of the token, so that a token of another user ends the
connection. `WaitIsServedHolds` is the safety half of `AppIsTold`: while an application waits
to get through, the listener that will accept it is open, or its goroutine is dialling, or
the API has its handshake, or the API is about to dial PostgreSQL or to end. It follows from
`AllBegun`, which relates the three state machines of a connection to each other and to the
listener, with `LetIn`.

The assumptions are those the modules name. Theorems whose statement has an ASSUME on
`Faults` or `Syncs` need it: with `lost`, for instance, a row may be left dangling (see
Limits), and a sync may remove the container of a POST that was answered 201.

## What is only model-checked

Liveness is out of the prover's reach and stays with TLC: `EveryRequestEnds`,
`EveryCallEnds` (twice), `TunnelCloses`, `Delivered`, `AppIsTold`, `TunnelsEnd`, `ServeStops`.
Of four of them the
part that is about safety is proved: `LockIsShort` of `EveryRequestEnds`, `NeverStuck` of
`TunnelCloses` and `Delivered`, `WaitIsServed` of `AppIsTold` say that whoever waits waits for
somebody who can move; that those who can move do is fairness. Every invariant, action
property and refinement that a passing run checks is stated by a theorem. The four refuted
properties have a counterexample each.

## Limits

* `AnswerIsOwn` speaks of syncs whose project still has its row. A sync that goes on after its
  project was rolled back may start Electric, with a stale secret, in front of the database
  of a project that has taken over the name; the model reaches these states, and the hazard is
  recorded without a property.
* `RowIsBacked` is checked without `lost` and `rollback`: an INSERT that took effect and
  reported failure, or a DELETE that failed, does leave a dangling row.
* `TunnelCloses` excepts a side whose endpoint has stopped reading, and `Delivered` a
  direction nobody reads from.
* `DROP DATABASE ... WITH (FORCE)` is taken to be refused only while the project's
  container runs (its replication slot is active); a slot that outlives its container for
  a moment is a `rollback` fault.
* Names are those that pass both validations; the ones that pass only the first are
  answered 500 before any state is touched.
* `OneSecret` is about deployments whose secret a row knows, and does not say that they keep it:
  one failed query of `sharedElectricSecret`, or after a restart of the API one client that
  disconnects, is enough for a second secret, and the model reaches these states. No doc says
  what an error of that query should do, so there is no property that forbids it.
* A client that is alive and whose application neither reads nor closes keeps its connection
  to PostgreSQL for ever: nobody touches the socket that has the deadline. `TunnelsEnd` says so,
  and that there is no other such case; no doc promises that `tunnelMaxLifetime` is kept.
* The keys of other tools inside the `project` and `database` objects, which persist replaces as
  a whole, are not told apart; `MergeKeeps` is about the ones beside them. A torn document stays
  until somebody deletes it; no doc speaks of that.
* `Listen` fails when the port is taken, where the same plan (`:120`) offers the next free
  one; and the order in which tokens are looked for is the code's, not the plan's (`:104`).
  `einar login` is not in this repository.
* A graceful shutdown (`// Execute graceful shutdown`, `cmd/api/main.go:26`) is not stated as
  a property: `Exit` may come before its requests are answered, as in the code.

**Not modelled.** The scoping of table names, the start-up order of the ioc container, the
migration of `ensureMetadataTable` as an action, and a reference that is the id of one
project and the name of another (see the plan); the hello handler, the generated OpenAPI
document, workspace and git-hook files (no state); the JWT and JWKS library (third-party:
its verdict on a token is an outcome of `Authorize`).
