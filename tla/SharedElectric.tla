--------------------------- MODULE SharedElectric ---------------------------
(***************************************************************************)
(* POSTGRES_PROVISIONING_MODEL=schema: all projects share one Electric     *)
(* container and its secret.  The secret is in four places: the memory of  *)
(* the API process (electricGlobalSecret), the rows of public.projects,    *)
(* the container, and the hands of the goroutines that have read it from   *)
(* one of these and not yet written it to another.  Nothing protects any   *)
(* of them: provisionSchema and ensureSharedElectric run for a POST, the   *)
(* latter also for every GET /projects/{project}/sync.                     *)
(*                                                                         *)
(* What a POST does to roles and schemas is SchemaProvisioning's; here it  *)
(* draws a secret, inserts its row, and deletes it when Electric fails.    *)
(* The advisory lock of ensureSharedElectric is a call that may fail and   *)
(* excludes nobody (SchemaProvisioning, EndSession).                       *)
(***************************************************************************)
EXTENDS Naturals

CONSTANTS
  Projects,     \* project ids: one POST /projects each, or a row from before
  Existing,     \* the projects that have a row already
  Legacy,       \* those whose row has no Electric metadata yet
  Syncs,        \* GET /projects/{project}/sync calls
  None,         \* no secret
  InUse,        \* the secret of the rows, and of the container, from before
  EnvSecret,    \* ELECTRIC_GLOBAL_SECRET, or None
  Faults        \* the kinds of fault that may happen

\* refuse:  a call fails, no effect; sharedElectricSecret's is the next kind
\* query:   sharedElectricSecret's query fails, and the secret counts as unknown
\* ctx:     the context of a request ends: its calls fail, the one under way possibly
\*          with its effect, and its goroutine goes on
\* panic:   the goroutine of a request ends at once
\* restart: the API process ends, with its requests and electricGlobalSecret
\* crash:   Electric exits, and docker starts it again
FaultKinds == {"refuse", "query", "ctx", "panic", "restart", "crash"}

Processes == Projects \cup Syncs
Secrets == Processes \cup {InUse, EnvSecret, None}

ASSUME ExistingAssumption == Legacy \subseteq Existing /\ Existing \subseteq Projects
ASSUME ProcessAssumption == Projects \cap Syncs = {}
ASSUME NoneAssumption == None \notin Processes \cup {InUse}
ASSUME FaultsAssumption == Faults \subseteq FaultKinds

VARIABLES
  target,     \* the project each sync asks for
  ctx,        \* the context of each request
  pc,         \* the next call of each POST and each sync
  hand,       \* the secret in the hands of each of them
  result,     \* what each of them is answered
  cache,      \* Provisioner.electricGlobalSecret
  blind,      \* history: those whose sharedElectricSecret has met an error
  row,        \* public.projects: its Electric columns, or NoRow
  container   \* docker: electricGlobalContainer

vars == <<target, ctx, blind, pc, hand, result, cache, row, container>>

ProjectOf(x) == IF x \in Syncs THEN target[x] ELSE x

\* A secret is told from another by the process whose randomHex drew it; shared
\* is whether electric_container names the shared container.
Rows == [secret : Secrets, shared : BOOLEAN,
         status : {"not_provisioned", "shared", "running", "error"}]
NoRow == [secret |-> None, shared |-> FALSE, status |-> "no row"]
HasRow(p) == row[p] # NoRow

Containers == [state : {"absent", "starting", "ready"}, secret : Secrets]
Absent == [state |-> "absent", secret |-> None]

\* electricHealthy: any answer below 500, whatever secret it would take.
Healthy == container.state = "ready"

Calls == {"pick", "query", "store", "insert", "probe", "adopt", "reprobe",
          "rm", "run", "wait", "spread", "errored", "delete", "proxy"}
Ended == {"done", "stopped"}
Results == {"none", "ok", "error", "rejected"}

TypeOK ==
  /\ target \in [Syncs -> Projects]
  /\ ctx \in [Processes -> {"live", "done"}]
  /\ blind \subseteq Processes
  /\ pc \in [Processes -> Calls \cup Ended \cup {"idle"}]
  /\ hand \in [Processes -> Secrets]
  /\ result \in [Processes -> Results]
  /\ cache \in Secrets
  /\ row \in [Projects -> Rows \cup {NoRow}]
  /\ container \in Containers

FirstRow(p) ==
  IF p \in Legacy THEN [secret |-> None, shared |-> FALSE, status |-> "not_provisioned"]
  ELSE IF p \in Existing THEN [secret |-> InUse, shared |-> TRUE, status |-> "running"]
  ELSE NoRow

Init ==
  /\ target \in [Syncs -> Projects]
  /\ ctx = [x \in Processes |-> "live"]
  /\ blind = {}
  /\ pc = [x \in Processes |-> IF x \in Existing THEN "done" ELSE "idle"]
  /\ hand = [x \in Processes |-> None]
  /\ result = [x \in Processes |-> "none"]
  /\ cache = EnvSecret
  /\ row = [p \in Projects |-> FirstRow(p)]
  /\ \/ container = Absent
     \/ /\ Existing \ Legacy # {}
        /\ container \in [state : {"starting", "ready"}, secret : {InUse}]

-----------------------------------------------------------------------------
(***************************************************************************)
(* Control flow.                                                           *)
(***************************************************************************)
Refused == "refuse" \in Faults

\* A call with the request's context may fail without effect (Cut); one whose context
\* ends meanwhile, with it.
Live(x) == ctx[x] = "live"
Cut(x) == Refused \/ ~Live(x)

Goto(x, label) ==
  /\ pc' = [pc EXCEPT ![x] = label]
  /\ UNCHANGED result

Return(x, outcome) ==
  /\ pc' = [pc EXCEPT ![x] = "done"]
  /\ result' = [result EXCEPT ![x] = outcome]

Take(x, secret) == hand' = [hand EXCEPT ![x] = secret]

\* ensureSharedElectric returns: a sync is proxied, or answered 502; a POST is
\* answered 201, or calls cleanupSchema.
Succeed(x) == IF x \in Syncs THEN Goto(x, "proxy") ELSE Return(x, "ok")
Fail(x) == IF x \in Syncs THEN Return(x, "error") ELSE Goto(x, "delete")

\* A secret is chosen: provisionSchema goes on to its row, ensureSharedElectric to
\* the health check.
Chosen(x) == Goto(x, IF x \in Syncs \/ HasRow(x) THEN "probe" ELSE "insert")

-----------------------------------------------------------------------------
(***************************************************************************)
(* Plausible mistakes: variants of definitions below, none of them a step  *)
(* of Next.  PROJECT.json names the property that tells each one from the  *)
(* definition it stands for.                                               *)
(***************************************************************************)

\* PickSecret, were a secret drawn before the project's own is looked at.
PickOrDraw(x) ==
  /\ pc[x] = "pick"
  /\ LET secret == IF cache # None THEN cache ELSE x
     IN  Take(x, secret) /\ cache' = secret
  /\ Chosen(x)
  /\ UNCHANGED <<target, ctx, blind, row, container>>

\* RunContainer, were the container removed when docker run fails.
RunOrRemove(x) ==
  /\ pc[x] = "run"
  /\ \/ /\ Live(x) /\ container = Absent
        /\ container' = [state |-> "starting", secret |-> hand[x]]
        /\ Goto(x, "wait")
     \/ /\ container # Absent \/ Cut(x)
        /\ container' = Absent
        /\ Goto(x, "errored")
  /\ UNCHANGED <<target, ctx, blind, hand, cache, row>>

\* WaitReady, were Electric asked once, or for ever.
WaitOnce(x) ==
  /\ pc[x] = "wait"
  /\ IF Healthy THEN Goto(x, "spread") ELSE Goto(x, "errored")
  /\ UNCHANGED <<target, ctx, blind, hand, cache, row, container>>

WaitForever(x) ==
  /\ pc[x] = "wait"
  /\ Healthy
  /\ Goto(x, "spread")
  /\ UNCHANGED <<target, ctx, blind, hand, cache, row, container>>

\* Write, were the status one that nothing else knows.
WriteReady(secret, rows) ==
  row' = [p \in Projects |->
            IF HasRow(p) /\ p \in rows
            THEN [secret |-> secret, shared |-> TRUE, status |-> "ready"]
            ELSE row[p]]

-----------------------------------------------------------------------------
(***************************************************************************)
(* The secret: electricGlobalSecret, the project's, another row's, or a    *)
(* new one.                                                                *)
(***************************************************************************)
Begin(p) ==
  /\ pc[p] = "idle"
  /\ Goto(p, "pick")
  /\ UNCHANGED <<target, ctx, blind, hand, cache, row, container>>

\* FindProjectForOwner.
FindProject(s) ==
  /\ pc[s] = "idle"
  /\ \/ /\ HasRow(target[s])
        /\ Take(s, row[target[s]].secret)
        /\ Goto(s, "pick")
     \/ /\ ~HasRow(target[s]) \/ Refused
        /\ Return(s, "error")
        /\ UNCHANGED hand
  /\ UNCHANGED <<target, ctx, blind, cache, row, container>>

\* electricGlobalSecret is read without synchronisation.  A torn read has the
\* length of one value and the pointer of the other: it yields "", a secret, or a
\* panic of the handler, and these are the outcomes of reading earlier, of reading
\* later, and of "panic".
PickSecret(x) ==
  /\ pc[x] = "pick"
  /\ LET secret == IF cache # None THEN cache ELSE hand[x]
     IN  /\ Take(x, secret)
         /\ IF secret = None THEN Goto(x, "query") ELSE Chosen(x)
  /\ UNCHANGED <<target, ctx, blind, cache, row, container>>

\* sharedElectricSecret: the oldest row with a secret; which one that is, is left
\* open.  An error of the query, that of a request whose context has ended included, is
\* taken for an answer without rows, and the goroutine goes on to draw a secret.
Known == {row[p].secret : p \in {q \in Projects : row[q].shared}} \ {None}

QuerySecret(x) ==
  /\ pc[x] = "query"
  /\ \/ Live(x) /\ (\E secret \in Known : Take(x, secret)) /\ UNCHANGED blind
     \/ Live(x) /\ Known = {} /\ Take(x, None) /\ UNCHANGED blind
     \/ /\ ~Live(x) \/ "query" \in Faults
        /\ Take(x, None)
        /\ blind' = blind \cup {x}
  /\ Goto(x, "store")
  /\ UNCHANGED <<target, ctx, cache, row, container>>

\* What was found, or else what randomHex draws now, becomes electricGlobalSecret.
StoreSecret(x) ==
  /\ pc[x] = "store"
  /\ LET secret == IF hand[x] = None THEN x ELSE hand[x]
     IN  Take(x, secret) /\ cache' = secret
  /\ Chosen(x)
  /\ UNCHANGED <<target, ctx, blind, row, container>>

\* The role, the schema and the INSERT.
InsertRow(p) ==
  /\ pc[p] = "insert"
  /\ \/ /\ row' = [row EXCEPT ![p] = [secret |-> hand[p], shared |-> TRUE,
                                      status |-> "shared"]]
        /\ IF Live(p) THEN Goto(p, "pick") ELSE Return(p, "error")
     \/ Cut(p) /\ Return(p, "error") /\ UNCHANGED row
  /\ UNCHANGED <<target, ctx, blind, hand, cache, container>>

-----------------------------------------------------------------------------
(***************************************************************************)
(* ensureSharedElectric, with its secret in hand.                          *)
(***************************************************************************)
Probe(x) ==
  /\ pc[x] = "probe"
  /\ \/ Live(x) /\ Healthy /\ Goto(x, "adopt")
     \/ (~Healthy \/ Cut(x)) /\ Goto(x, "reprobe")
  /\ UNCHANGED <<target, ctx, blind, hand, cache, row, container>>

\* An UPDATE of public.projects finds its rows or changes nothing.
Write(secret, rows) ==
  row' = [p \in Projects |->
            IF HasRow(p) /\ p \in rows
            THEN [secret |-> secret, shared |-> TRUE, status |-> "running"]
            ELSE row[p]]

\* The project's own row is told the secret; an error is ignored.
Adopt(x) ==
  /\ pc[x] = "adopt"
  /\ \/ Write(hand[x], {ProjectOf(x)})
     \/ Cut(x) /\ UNCHANGED row
  /\ Succeed(x)
  /\ UNCHANGED <<target, ctx, blind, hand, cache, container>>

\* pg_advisory_lock, and the check after it.
Reprobe(x) ==
  /\ pc[x] = "reprobe"
  /\ \/ Live(x) /\ Healthy /\ Succeed(x)
     \/ (~Healthy \/ Cut(x)) /\ Goto(x, "rm")
     \/ Cut(x) /\ Fail(x)
  /\ UNCHANGED <<target, ctx, blind, hand, cache, row, container>>

\* startElectric: sudo install -d, and docker rm -f, whose failure is ignored.
RemoveContainer(x) ==
  /\ pc[x] = "rm"
  /\ \/ container' = Absent /\ Goto(x, "run")
     \/ Cut(x) /\ Goto(x, "run") /\ UNCHANGED container
     \/ Cut(x) /\ Goto(x, "errored") /\ UNCHANGED container
  /\ UNCHANGED <<target, ctx, blind, hand, cache, row>>

\* docker run -d refuses a name in use.
RunContainer(x) ==
  /\ pc[x] = "run"
  /\ \/ /\ container = Absent
        /\ container' = [state |-> "starting", secret |-> hand[x]]
        /\ IF Live(x) THEN Goto(x, "wait") ELSE Goto(x, "errored")
     \/ /\ container # Absent \/ Cut(x)
        /\ Goto(x, "errored")
        /\ UNCHANGED container
  /\ UNCHANGED <<target, ctx, blind, hand, cache, row>>

\* waitElectricReady.
WaitReady(x) ==
  /\ pc[x] = "wait"
  /\ \/ Live(x) /\ Healthy /\ Goto(x, "spread")
     \/ (container = Absent \/ Cut(x)) /\ Goto(x, "errored")
  /\ UNCHANGED <<target, ctx, blind, hand, cache, row, container>>

\* Every row of the shared container, and the project's own, is told the secret.
Spread(x) ==
  /\ pc[x] = "spread"
  /\ \/ /\ Write(hand[x], {p \in Projects : row[p].shared} \cup {ProjectOf(x)})
        /\ IF Live(x) THEN Succeed(x) ELSE Fail(x)
     \/ Cut(x) /\ Fail(x) /\ UNCHANGED row
  /\ UNCHANGED <<target, ctx, blind, hand, cache, container>>

\* SET electric_status = 'error', with context.Background(): it has its effect for a
\* request whose own context has ended, too.
SetError(x) ==
  /\ pc[x] = "errored"
  /\ LET p == ProjectOf(x)
         failed == [secret |-> row[p].secret, shared |-> row[p].shared, status |-> "error"]
     IN  \/ row' = IF HasRow(p) THEN [row EXCEPT ![p] = failed] ELSE row
         \/ Refused /\ UNCHANGED row
  /\ Fail(x)
  /\ UNCHANGED <<target, ctx, blind, hand, cache, container>>

\* cleanupSchema, with a context derived from the request's.
DeleteRow(p) ==
  /\ pc[p] = "delete"
  /\ \/ row' = [row EXCEPT ![p] = NoRow]
     \/ Cut(p) /\ UNCHANGED row
  /\ Return(p, "error")
  /\ UNCHANGED <<target, ctx, blind, hand, cache, container>>

\* The proxied request: the container, if it answers, compares the secret.  It has the
\* client's context, which may go on when the 60 s of EnsureElectric are over.
Proxy(s) ==
  /\ pc[s] = "proxy"
  /\ \/ Return(s, IF ~Healthy THEN "error"
                  ELSE IF container.secret = hand[s] THEN "ok" ELSE "rejected")
     \/ ~Live(s) /\ Return(s, "error")
  /\ UNCHANGED <<target, ctx, blind, hand, cache, row, container>>

-----------------------------------------------------------------------------
(***************************************************************************)
(* The world.                                                              *)
(***************************************************************************)
BecomeReady ==
  /\ container.state = "starting"
  /\ container' = [state |-> "ready", secret |-> container.secret]
  /\ UNCHANGED <<target, ctx, blind, pc, hand, result, cache, row>>

Crash ==
  /\ "crash" \in Faults
  /\ Healthy
  /\ container' = [state |-> "starting", secret |-> container.secret]
  /\ UNCHANGED <<target, ctx, blind, pc, hand, result, cache, row>>

StopAll(xs) ==
  LET stopped == {x \in xs : pc[x] \in Calls}
  IN  /\ stopped # {}
      /\ pc' = [x \in Processes |-> IF x \in stopped THEN "stopped" ELSE pc[x]]
      /\ result' = [x \in Processes |-> IF x \in stopped THEN "error" ELSE result[x]]
      /\ UNCHANGED <<target, ctx, blind, hand, row, container>>

\* A panic of its handler, which net/http recovers.
Panic(x) == "panic" \in Faults /\ StopAll({x}) /\ UNCHANGED cache

\* The client disconnects, or the 60 s of the handler are over.
CtxDone(x) ==
  /\ "ctx" \in Faults
  /\ pc[x] \in Calls \ {"pick", "store", "errored"} /\ Live(x)
  /\ ctx' = [ctx EXCEPT ![x] = "done"]
  /\ UNCHANGED <<target, blind, pc, hand, result, cache, row, container>>

\* Bound: one restart per generation of requests in flight.
Restart ==
  /\ "restart" \in Faults
  /\ StopAll(Processes)
  /\ cache' = EnvSecret

Post(p) == InsertRow(p) \/ DeleteRow(p)
Sync(s) == FindProject(s) \/ Proxy(s)
Ensure(x) ==
  \/ PickSecret(x) \/ QuerySecret(x) \/ StoreSecret(x)
  \/ Probe(x) \/ Adopt(x) \/ Reprobe(x)
  \/ RemoveContainer(x) \/ RunContainer(x) \/ WaitReady(x) \/ Spread(x) \/ SetError(x)

Next ==
  \/ \E p \in Projects : Begin(p) \/ Post(p)
  \/ \E s \in Syncs : Sync(s)
  \/ \E x \in Processes : Ensure(x) \/ CtxDone(x) \/ Panic(x)
  \/ BecomeReady \/ Crash \/ Restart

Spec == Init /\ [][Next]_vars

\* Goroutines are scheduled, every call ends, and Electric begins to answer.
Fairness ==
  /\ \A p \in Projects : WF_vars(Post(p))
  /\ \A s \in Syncs : WF_vars(Sync(s))
  /\ \A x \in Processes : WF_vars(Ensure(x))
  /\ WF_vars(BecomeReady)

FairSpec == Spec /\ Fairness

-----------------------------------------------------------------------------
(***************************************************************************)
(* Properties.                                                             *)
(***************************************************************************)
\* The deployment was in use before: a row knows the secret, the environment does
\* not contradict it.
Established == Existing \ Legacy # {} /\ EnvSecret \in {None, InUse}

\* In such a deployment a second secret has one source, a request that asked for the
\* first one and met an error: until that happens, and however POSTs, syncs, rollbacks,
\* restarts of the API and restarts of Electric interleave, what the process remembers,
\* what a row or the container has, and what a goroutine carries from one to another is
\* the secret in use, and Electric accepts every sync.  Afterwards there is nothing
\* else than that secret and those such requests have drawn.
OneSecret ==
  LET genuine == {InUse} \cup blind IN
  Established =>
    /\ \A s \in Syncs : result[s] = "rejected" => blind # {}
    /\ cache \in genuine \cup {None}
    /\ \A x \in Processes : hand[x] \in genuine \cup {None}
    /\ \A p \in Projects : row[p].secret \in genuine \cup {None}
    /\ \A p \in Projects : row[p].shared => row[p].secret \in genuine
    /\ container # Absent => container.secret \in genuine

\* What the next sync of a project will send.
NextSecret(p) == IF cache # None THEN cache ELSE row[p].secret

\* Once nothing runs, a healthy Electric takes the secret that the next sync of a
\* project sends.  Otherwise that sync is rejected, and so is every later one, as
\* long as Electric stays healthy: the health check does not notice.
Quiet == \A x \in Processes : pc[x] \in Ended \cup {"idle"}
SecretIsKnown ==
  Quiet /\ Healthy =>
    \A p \in Projects : HasRow(p) /\ NextSecret(p) # None => NextSecret(p) = container.secret

\* Requests that remove and start the one container at the same time never leave
\* all of them without it: when nothing fails and some request has ended, Electric
\* is up as soon as nobody is between docker rm and docker run.
ElectricStands ==
  Faults = {} /\ (\E x \in Processes : pc[x] = "done" /\ result[x] \in {"ok", "rejected"})
    /\ (\A x \in Processes : pc[x] # "run")
  => container # Absent

\* Nor do they all fail: of requests that have ended, when nothing has failed, one
\* whose project had a row was answered.
SomebodySucceeds ==
  Faults = {} /\ Quiet /\ (\E x \in Processes : x \notin Syncs /\ result[x] # "none")
  => \E x \in Processes : result[x] \in {"ok", "rejected"}

\* Every POST and every sync ends, although each may remove the container another
\* one is waiting for.
EveryCallEnds == []<>Quiet

=============================================================================
