------------------------ MODULE SharedElectricProofs ------------------------
(***************************************************************************)
(* For any number of projects and syncs: a deployment whose secret is      *)
(* known to a row keeps that one secret until a request asks for it and    *)
(* meets an error, and requests that restart the one container at the same *)
(* time do not leave all of them without it.                               *)
(***************************************************************************)
EXTENDS SharedElectric, TLAPS

\* A row, and no row, have a secret.
LEMMA RowType ==
  ASSUME TypeOK, NEW p \in Projects
  PROVE  row[p].secret \in Secrets /\ row[p].shared \in BOOLEAN
<1>1. row[p] \in Rows \cup {NoRow}
  BY DEF TypeOK
<1>2. CASE row[p] \in Rows
  BY <1>2 DEF Rows
<1>3. CASE row[p] = NoRow
  <2>1. NoRow.secret = None /\ NoRow.shared = FALSE
    BY DEF NoRow
  <2>2. None \in Secrets
    BY DEF Secrets
  <2>3. QED
    BY <1>3, <2>1, <2>2
<1>4. QED
  BY <1>1, <1>2, <1>3

\* Every variable keeps its type; in particular every secret anywhere is one that
\* was configured, was in use, or was drawn by one of the processes.
THEOREM TypeCorrect == Spec => []TypeOK
<1>1. ASSUME Init PROVE TypeOK
  <2>1. \A p \in Projects : FirstRow(p) \in Rows \cup {NoRow}
    BY DEF FirstRow, Rows, Secrets
  <2>2. row \in [Projects -> Rows \cup {NoRow}]
    BY <1>1, <2>1 DEF Init
  <2>3. container \in Containers
    BY <1>1 DEF Init, Containers, Absent, Secrets
  <2>4. /\ pc \in [Processes -> Calls \cup Ended \cup {"idle"}]
        /\ result \in [Processes -> Results]
    BY <1>1 DEF Init, Ended, Results
  <2>5. hand \in [Processes -> Secrets] /\ cache \in Secrets
    BY <1>1 DEF Init, Secrets
  <2>6. QED
    BY <1>1, <2>2, <2>3, <2>4, <2>5 DEF Init, TypeOK, Processes
<1>2. TypeOK /\ [Next]_vars => TypeOK'
  <2> SUFFICES ASSUME TypeOK, [Next]_vars PROVE TypeOK'
    OBVIOUS
  <2> USE DEF TypeOK, Calls, Ended, Results, Processes, Goto, Return, Take,
              Succeed, Fail, Chosen
  <2>1. CASE UNCHANGED vars
    BY <2>1 DEF vars
  <2>2. ASSUME NEW p \in Projects, Begin(p) \/ Post(p)
        PROVE  TypeOK'
    <3>1. CASE Begin(p)
      BY <3>1 DEF Begin
    <3>2. CASE InsertRow(p)
      <4>1. hand[p] \in Secrets
        OBVIOUS
      <4>2. [secret |-> hand[p], shared |-> TRUE, status |-> "shared"] \in Rows
        BY <4>1 DEF Rows
      <4>3. row' \in [Projects -> Rows \cup {NoRow}]
        BY <3>2, <4>2 DEF InsertRow
      <4>4. QED
        BY <3>2, <4>3 DEF InsertRow
    <3>3. CASE DeleteRow(p)
      BY <3>3 DEF DeleteRow
    <3>4. QED
      BY <2>2, <3>1, <3>2, <3>3 DEF Post
  <2>3. ASSUME NEW s \in Syncs, Sync(s)
        PROVE  TypeOK'
    <3>1. CASE FindProject(s)
      <4>1. row[target[s]].secret \in Secrets
        BY RowType
      <4>2. QED
        BY <3>1, <4>1 DEF FindProject
    <3>2. CASE Proxy(s)
      BY <3>2 DEF Proxy
    <3>3. QED
      BY <2>3, <3>1, <3>2 DEF Sync
  <2>4. ASSUME NEW x \in Processes, Ensure(x)
        PROVE  TypeOK'
    <3>0. ProjectOf(x) \in Projects /\ x \in Secrets /\ None \in Secrets
      BY DEF ProjectOf, Secrets
    <3>1. CASE PickSecret(x)
      BY <3>1 DEF PickSecret
    <3>2. CASE QuerySecret(x)
      <4>1. Known \subseteq Secrets
        BY RowType DEF Known
      <4>2. QED
        BY <3>0, <3>2, <4>1 DEF QuerySecret
    <3>3. CASE StoreSecret(x)
      BY <3>0, <3>3 DEF StoreSecret
    <3>4. CASE Probe(x)
      BY <3>4 DEF Probe
    <3>5. ASSUME NEW rows, Write(hand[x], rows)
          PROVE  row' \in [Projects -> Rows \cup {NoRow}]
      BY <3>5 DEF Write, Rows
    <3>6. CASE Adopt(x)
      <4>1. row' \in [Projects -> Rows \cup {NoRow}]
        BY <3>5, <3>6 DEF Adopt
      <4>2. QED
        BY <3>6, <4>1 DEF Adopt
    <3>7. CASE Reprobe(x)
      BY <3>7 DEF Reprobe
    <3>8. CASE RemoveContainer(x)
      BY <3>0, <3>8 DEF RemoveContainer, Absent, Containers
    <3>9. CASE RunContainer(x)
      BY <3>9 DEF RunContainer, Containers
    <3>10. CASE WaitReady(x)
      BY <3>10 DEF WaitReady
    <3>11. CASE Spread(x)
      <4>1. row' \in [Projects -> Rows \cup {NoRow}]
        BY <3>5, <3>11 DEF Spread
      <4>2. QED
        BY <3>11, <4>1 DEF Spread
    <3>12. CASE SetError(x)
      <4>1. row' \in [Projects -> Rows \cup {NoRow}]
        BY <3>0, <3>12 DEF SetError, HasRow, Rows
      <4>2. QED
        BY <3>12, <4>1 DEF SetError
    <3>13. QED
      BY <2>4, <3>1, <3>2, <3>3, <3>4, <3>6, <3>7, <3>8, <3>9, <3>10, <3>11, <3>12
      DEF Ensure
  <2>5. ASSUME NEW xs, StopAll(xs), cache' \in {cache, EnvSecret}
        PROVE  TypeOK'
    BY <2>5 DEF StopAll, Secrets
  <2>6. CASE BecomeReady \/ Crash
    BY <2>6 DEF BecomeReady, Crash, Containers
  <2>7. ASSUME NEW x \in Processes, CtxDone(x)
        PROVE  TypeOK'
    BY <2>7 DEF CtxDone
  <2>8. QED
    BY <2>1, <2>2, <2>3, <2>4, <2>5, <2>6, <2>7 DEF Next, Panic, Restart
<1>3. QED
  BY <1>1, <1>2, PTL DEF Spec

-----------------------------------------------------------------------------
(***************************************************************************)
(* One secret.  OneSecret is not inductive: a query that finds no row      *)
(* makes its caller draw another secret.  It finds one because the rows    *)
(* that were there stay, each with a genuine secret; so whoever has asked  *)
(* has an answer, or has met an error and is blind.  The genuine secrets   *)
(* only grow, and only with those that blind requests draw.                *)
(***************************************************************************)
Genuine == {InUse} \cup blind

Carrying == {"insert", "probe", "adopt", "reprobe", "rm", "run", "wait", "spread",
             "errored", "delete", "proxy"}

HandsKeep ==
  \A x \in Processes :
    /\ hand[x] \in Genuine \cup {None}
    /\ pc[x] \in Carrying => hand[x] \in Genuine
    /\ pc[x] = "store" => hand[x] \in Genuine \/ x \in blind

RowsKeep ==
  \A p \in Projects :
    row[p].secret \in Genuine \cup {None} /\ (row[p].shared => row[p].secret \in Genuine)

FirstRowsStay ==
  /\ \A p \in Existing : pc[p] = "done"
  /\ \A p \in Existing \ Legacy : row[p].shared

SecretKept ==
  /\ cache \in Genuine \cup {None}
  /\ HandsKeep
  /\ RowsKeep
  /\ FirstRowsStay
  /\ container # Absent => container.secret \in Genuine
  /\ \A s \in Syncs : result[s] = "rejected" => blind # {}

\* None is no secret.
LEMMA NoneIsNotGenuine == TypeOK => None \notin Genuine
  BY NoneAssumption DEF TypeOK, Genuine

\* The deployment starts with the secret in use.
LEMMA SecretKeptInit == Established /\ Init => SecretKept
<1> SUFFICES ASSUME Established, Init PROVE SecretKept
  OBVIOUS
<1> USE DEF Genuine
<1>1. \A p \in Projects :
        /\ FirstRow(p).secret \in {None, InUse}
        /\ FirstRow(p).shared => FirstRow(p).secret = InUse
        /\ p \in Existing \ Legacy => FirstRow(p).shared
  BY DEF FirstRow, NoRow
<1>2. RowsKeep
  BY <1>1 DEF Init, RowsKeep
<1>3. FirstRowsStay
  BY <1>1, ExistingAssumption DEF Init, FirstRowsStay, Processes
<1>4. HandsKeep
  BY DEF Init, HandsKeep, Carrying, Processes
<1>5. container # Absent => container.secret = InUse
  BY DEF Init
<1>6. cache \in {None, InUse} /\ \A s \in Syncs : result[s] # "rejected"
  BY DEF Init, Established, Processes
<1>7. QED
  BY <1>2, <1>3, <1>4, <1>5, <1>6 DEF SecretKept

\* The steps that give a goroutine its secret.
LEMMA SecretKeptByPick ==
  ASSUME TypeOK, SecretKept, Established, NEW x \in Processes,
         PickSecret(x) \/ QuerySecret(x) \/ StoreSecret(x)
  PROVE  SecretKept'
<1> USE NoneIsNotGenuine DEF TypeOK
<1>0. Genuine \subseteq Genuine'
  BY DEF Genuine, PickSecret, QuerySecret, StoreSecret
<1>1. ASSUME NEW secret, Take(x, secret), secret \in Genuine' \cup {None},
             NEW label, pc' = [pc EXCEPT ![x] = label],
             label \in Carrying => secret \in Genuine',
             label = "store" => secret \in Genuine' \/ x \in blind',
             blind \subseteq blind',
             pc[x] # "done"
      PROVE  HandsKeep' /\ \A p \in Existing : pc'[p] = "done"
  <2>1. \A y \in Processes : y # x => pc'[y] = pc[y] /\ hand'[y] = hand[y]
    BY <1>1 DEF Take
  <2>2. pc'[x] = label /\ hand'[x] = secret
    BY <1>1 DEF Take
  <2>3. HandsKeep'
    BY <1>0, <1>1, <2>1, <2>2 DEF SecretKept, HandsKeep
  <2>4. \A p \in Existing : p \in Processes /\ p # x
    BY <1>1, ExistingAssumption DEF SecretKept, FirstRowsStay, Processes
  <2>5. QED
    BY <2>1, <2>3, <2>4 DEF SecretKept, FirstRowsStay
<1>2. Known # {} /\ Known \subseteq Genuine
  BY ExistingAssumption DEF Known, SecretKept, RowsKeep, FirstRowsStay, Established
<1>3. CASE PickSecret(x)
  <2> DEFINE secret == IF cache # None THEN cache ELSE hand[x]
  <2>1. secret \in Genuine \cup {None}
    BY DEF SecretKept, HandsKeep
  <2>2. PICK label : /\ pc' = [pc EXCEPT ![x] = label]
                     /\ label \in Carrying => secret \in Genuine
                     /\ label # "store"
    BY <1>3, <2>1 DEF PickSecret, Goto, Chosen, Carrying
  <2>3. HandsKeep' /\ \A p \in Existing : pc'[p] = "done"
    BY <1>0, <1>1, <1>3, <2>1, <2>2 DEF PickSecret
  <2>4. UNCHANGED <<cache, blind, row, container, result>>
    BY <1>3 DEF PickSecret, Goto, Chosen
  <2>5. QED
    BY <2>3, <2>4 DEF SecretKept, RowsKeep, FirstRowsStay, Genuine
<1>4. CASE QuerySecret(x)
  <2>1. PICK secret : /\ Take(x, secret)
                      /\ secret \in Genuine \/ (secret = None /\ x \in blind')
    BY <1>2, <1>4 DEF QuerySecret
  <2>2. pc' = [pc EXCEPT ![x] = "store"] /\ pc[x] = "query" /\ blind \subseteq blind'
    BY <1>4 DEF QuerySecret, Goto
  <2>3. secret \in Genuine' \cup {None} /\ (secret \in Genuine' \/ x \in blind')
    BY <1>0, <2>1
  <2>4. "store" \notin Carrying /\ pc[x] # "done"
    BY <2>2 DEF Carrying
  <2>5. HandsKeep' /\ \A p \in Existing : pc'[p] = "done"
    BY <1>1, <2>1, <2>2, <2>3, <2>4
  <2>6. UNCHANGED <<cache, row, container, result>>
    BY <1>4 DEF QuerySecret, Goto
  <2>7. \A s \in Syncs : result'[s] = "rejected" => blind' # {}
    BY <2>2, <2>6 DEF SecretKept
  <2>8. QED
    BY <1>0, <2>6, <2>7, <2>5 DEF SecretKept, RowsKeep, FirstRowsStay
<1>5. CASE StoreSecret(x)
  <2>1. hand[x] \in Genuine \/ (hand[x] = None /\ x \in Genuine)
    BY <1>5 DEF StoreSecret, SecretKept, HandsKeep, Genuine
  <2>2. PICK secret \in Genuine : Take(x, secret) /\ cache' = secret
    BY <1>5, <2>1 DEF StoreSecret
  <2>3. PICK label : pc' = [pc EXCEPT ![x] = label]
    BY <1>5 DEF StoreSecret, Chosen, Goto
  <2>4. UNCHANGED <<row, container, result, blind>>
    BY <1>5 DEF StoreSecret, Goto, Chosen
  <2>5. HandsKeep' /\ \A p \in Existing : pc'[p] = "done"
    BY <1>0, <1>1, <1>5, <2>2, <2>3, <2>4 DEF StoreSecret
  <2>6. cache' \in Genuine'
    BY <1>0, <2>2
  <2>7. QED
    BY <2>4, <2>5, <2>6 DEF SecretKept, RowsKeep, FirstRowsStay, Genuine
<1>6. QED
  BY <1>3, <1>4, <1>5

\* The other steps of ensureSharedElectric write the secret they carry.
LEMMA SecretKeptByEnsure ==
  ASSUME TypeOK, SecretKept, NEW x \in Processes,
         \/ Probe(x) \/ Adopt(x) \/ Reprobe(x) \/ RemoveContainer(x)
         \/ RunContainer(x) \/ WaitReady(x) \/ Spread(x) \/ SetError(x)
  PROVE  SecretKept'
<1> USE DEF TypeOK
<1>1. hand[x] \in Genuine /\ pc[x] # "done"
  BY DEF Probe, Adopt, Reprobe, RemoveContainer, RunContainer, WaitReady, Spread,
         SetError, SecretKept, HandsKeep, Carrying
<1>2. /\ UNCHANGED <<hand, cache, blind>>
      /\ \E label : pc' = [pc EXCEPT ![x] = label] /\ label # "store"
      /\ result' = result \/ \E outcome \in {"ok", "error"} :
                               result' = [result EXCEPT ![x] = outcome]
  BY DEF Probe, Adopt, Reprobe, RemoveContainer, RunContainer, WaitReady, Spread,
         SetError, Goto, Return, Succeed, Fail
<1>3. Genuine' = Genuine
  BY <1>2 DEF Genuine
<1>4. HandsKeep' /\ \A p \in Existing : pc'[p] = "done"
  BY <1>1, <1>2, <1>3, ExistingAssumption
  DEF SecretKept, HandsKeep, FirstRowsStay, Processes
<1>5. \A s \in Syncs : result'[s] = "rejected" => blind' # {}
  BY <1>2 DEF SecretKept, Processes
<1>6. container' # Absent => container'.secret \in Genuine
  BY <1>1 DEF Probe, Adopt, Reprobe, RemoveContainer, RunContainer, WaitReady, Spread,
              SetError, SecretKept
<1>7. /\ RowsKeep'
      /\ \A p \in Existing \ Legacy : row'[p].shared
  <2>1. CASE UNCHANGED row
    BY <1>3, <2>1 DEF SecretKept, RowsKeep, FirstRowsStay
  <2>2. ASSUME NEW rows, Write(hand[x], rows)
        PROVE  RowsKeep' /\ \A p \in Existing \ Legacy : row'[p].shared
    BY <1>1, <1>3, <2>2, ExistingAssumption DEF Write, SecretKept, RowsKeep, FirstRowsStay
  <2>3. CASE SetError(x)
    BY <1>3, <2>3, ExistingAssumption DEF SetError, SecretKept, RowsKeep, FirstRowsStay
  <2>4. QED
    BY <2>1, <2>2, <2>3 DEF Probe, Adopt, Reprobe, RemoveContainer, RunContainer,
                            WaitReady, Spread
<1>8. QED
  BY <1>2, <1>3, <1>4, <1>5, <1>6, <1>7 DEF SecretKept, FirstRowsStay

\* The steps that only POSTs or only syncs take.
LEMMA SecretKeptByRequest ==
  ASSUME TypeOK, SecretKept,
         \/ \E p \in Projects : Begin(p) \/ Post(p)
         \/ \E s \in Syncs : Sync(s)
  PROVE  SecretKept'
<1> USE DEF TypeOK
<1>0. UNCHANGED blind /\ Genuine' = Genuine
  BY DEF Begin, Post, InsertRow, DeleteRow, Sync, FindProject, Proxy, Genuine
<1>1. ASSUME NEW p \in Projects, Begin(p) \/ Post(p)
      PROVE  SecretKept'
  <2>1. p \notin Existing
    BY <1>1 DEF Begin, Post, InsertRow, DeleteRow, SecretKept, FirstRowsStay
  <2>2. p \in Processes /\ (pc[p] = "insert" => hand[p] \in Genuine)
    BY DEF SecretKept, HandsKeep, Carrying, Processes
  <2>3. /\ UNCHANGED <<hand, cache, container>>
        /\ \E label \in {"pick", "done"} : pc' = [pc EXCEPT ![p] = label]
        /\ result' = result \/ result' = [result EXCEPT ![p] = "error"]
    BY <1>1 DEF Begin, Post, InsertRow, DeleteRow, Goto, Return
  <2>4. HandsKeep' /\ \A q \in Existing : pc'[q] = "done"
    BY <1>0, <2>1, <2>2, <2>3, ExistingAssumption
    DEF SecretKept, HandsKeep, FirstRowsStay, Processes, Carrying
  <2>5. RowsKeep' /\ \A q \in Existing \ Legacy : row'[q].shared
    <3>1. CASE UNCHANGED row
      BY <1>0, <3>1 DEF SecretKept, RowsKeep, FirstRowsStay
    <3>2. CASE InsertRow(p)
      BY <1>0, <2>1, <2>2, <3>2, ExistingAssumption
      DEF InsertRow, SecretKept, RowsKeep, FirstRowsStay
    <3>3. CASE DeleteRow(p)
      <4>1. NoRow.secret = None /\ ~NoRow.shared
        BY DEF NoRow
      <4>2. \A q \in Projects : row'[q] = row[q] \/ (row'[q] = NoRow /\ q = p)
        BY <3>3 DEF DeleteRow
      <4>3. QED
        BY <1>0, <2>1, <4>1, <4>2, ExistingAssumption
        DEF SecretKept, RowsKeep, FirstRowsStay
    <3>4. QED
      BY <1>1, <3>1, <3>2, <3>3 DEF Begin, Post
  <2>6. \A s \in Syncs : result'[s] = "rejected" => blind # {}
    BY <2>2, <2>3 DEF SecretKept, Processes
  <2>7. QED
    BY <1>0, <2>3, <2>4, <2>5, <2>6 DEF SecretKept, FirstRowsStay
<1>2. ASSUME NEW s \in Syncs, Sync(s)
      PROVE  SecretKept'
  <2>1. s \in Processes /\ s \notin Projects /\ target[s] \in Projects
    BY ProcessAssumption DEF Processes
  <2>2. UNCHANGED <<cache, row, container>>
    BY <1>2 DEF Sync, FindProject, Proxy
  <2>3. \A q \in Existing : pc'[q] = "done"
    BY <1>2, <2>1, ExistingAssumption
    DEF Sync, FindProject, Proxy, Goto, Return, SecretKept, FirstRowsStay, Processes
  <2>4. CASE FindProject(s)
    <3>1. HandsKeep'
      BY <1>0, <2>1, <2>4
      DEF FindProject, Take, Goto, Return, SecretKept, HandsKeep, RowsKeep, Carrying
    <3>2. \A t \in Syncs : result'[t] = "rejected" => blind # {}
      BY <2>1, <2>4 DEF FindProject, Goto, Return, SecretKept, Processes
    <3>3. QED
      BY <1>0, <2>2, <2>3, <3>1, <3>2 DEF SecretKept, RowsKeep, FirstRowsStay
  <2>5. CASE Proxy(s)
    <3> DEFINE answer == IF ~Healthy THEN "error"
                         ELSE IF container.secret = hand[s] THEN "ok" ELSE "rejected"
    <3>1. HandsKeep'
      BY <1>0, <2>1, <2>5 DEF Proxy, Return, SecretKept, HandsKeep, Carrying
    <3>2. Healthy /\ blind = {} => container.secret = hand[s]
      BY <2>1, <2>5 DEF Proxy, Healthy, Absent, SecretKept, HandsKeep, Carrying, Genuine
    <3>3. /\ blind = {} => answer # "rejected"
          /\ \/ result' = [result EXCEPT ![s] = answer]
             \/ result' = [result EXCEPT ![s] = "error"]
      BY <2>5, <3>2 DEF Proxy, Return
    <3>4. \A t \in Syncs : result'[t] = "rejected" => blind # {}
      BY <2>1, <3>3 DEF SecretKept, Processes
    <3>5. QED
      BY <1>0, <2>2, <2>3, <3>1, <3>4 DEF SecretKept, RowsKeep, FirstRowsStay
  <2>6. QED
    BY <1>2, <2>4, <2>5 DEF Sync
<1>3. QED
  BY <1>1, <1>2

\* In every deployment that was in use, the secret in use and those drawn by requests
\* that asked for it and met an error are all the secrets there are; and while there
\* is no such request, no sync is rejected.
THEOREM OneSecretHolds == Spec => []OneSecret
<1>1. TypeOK /\ Established /\ SecretKept /\ [Next]_vars => SecretKept'
  <2> SUFFICES ASSUME TypeOK, Established, SecretKept, [Next]_vars PROVE SecretKept'
    OBVIOUS
  <2> USE DEF SecretKept, HandsKeep, RowsKeep, FirstRowsStay, Genuine
  <2>1. CASE UNCHANGED vars
    BY <2>1 DEF vars
  <2>2. ASSUME NEW xs, StopAll(xs), cache' \in {cache, EnvSecret}
        PROVE  SecretKept'
    <3>1. \A x \in Processes : pc'[x] \in {pc[x], "stopped"}
      BY <2>2 DEF StopAll
    <3>2. \A p \in Existing : pc'[p] = "done"
      BY <2>2, ExistingAssumption DEF StopAll, Calls, Processes
    <3>3. \A s \in Syncs : result'[s] = "rejected" => blind # {}
      BY <2>2 DEF StopAll, Processes
    <3>4. HandsKeep'
      BY <2>2, <3>1 DEF StopAll, Carrying
    <3>5. QED
      BY <2>2, <3>2, <3>3, <3>4 DEF StopAll, Established
  <2>3. CASE BecomeReady \/ Crash
    BY <2>3 DEF BecomeReady, Crash, Healthy, Absent
  <2>4. ASSUME NEW x \in Processes, CtxDone(x)
        PROVE  SecretKept'
    BY <2>4 DEF CtxDone
  <2>5. QED
    BY <2>1, <2>2, <2>3, <2>4, SecretKeptByPick, SecretKeptByEnsure, SecretKeptByRequest
    DEF Next, Ensure, Panic, Restart
<1>2. SecretKept => OneSecret
  BY DEF SecretKept, HandsKeep, RowsKeep, OneSecret, Genuine
<1>3. ~Established => OneSecret
  BY DEF OneSecret
<1>4. CASE Established
  <2>1. Init => SecretKept
    BY <1>4, SecretKeptInit
  <2>2. TypeOK /\ SecretKept /\ [Next]_vars => SecretKept'
    BY <1>1, <1>4
  <2>3. QED
    BY <2>1, <2>2, <1>2, TypeCorrect, PTL DEF Spec
<1>5. CASE ~Established
  BY <1>3, <1>5, PTL DEF Spec
<1>6. QED
  BY <1>4, <1>5

\* In such a deployment, and until a request asks for the secret and meets an error,
\* the health check is as good as a check of the secret: what the next sync sends is
\* what a healthy Electric takes.
THEOREM SecretIsKnownHolds == Spec => [](Established /\ blind = {} => SecretIsKnown)
<1>1. OneSecret => (Established /\ blind = {} => SecretIsKnown)
  <2> SUFFICES ASSUME OneSecret, Established, blind = {}, Healthy,
                      NEW p \in Projects, HasRow(p), NextSecret(p) # None
               PROVE  NextSecret(p) = container.secret
    BY DEF SecretIsKnown
  <2>1. container.secret = InUse
    BY DEF OneSecret, Healthy, Absent
  <2>2. CASE cache # None
    BY <2>1, <2>2 DEF OneSecret, NextSecret
  <2>3. CASE cache = None
    <3>1. row[p].secret \in {None, InUse}
      BY DEF OneSecret
    <3>2. QED
      BY <2>1, <2>3, <3>1 DEF NextSecret
  <2>4. QED
    BY <2>2, <2>3
<1>2. QED
  BY <1>1, OneSecretHolds, PTL

-----------------------------------------------------------------------------
(***************************************************************************)
(* Restarts of the one container.  Whoever has seen it healthy has seen it *)
(* up, and it goes only with a docker rm whose docker run is still due.    *)
(***************************************************************************)
AllLive == Faults = {} => \A x \in Processes : Live(x)

\* A context ends only as a fault.
LEMMA AllLiveHolds == Spec => []AllLive
<1>1. Init => AllLive
  BY DEF Init, AllLive, Live
<1>2. TypeOK /\ AllLive /\ [Next]_vars => AllLive'
  <2> SUFFICES ASSUME AllLive, [Next]_vars, Faults = {} PROVE ctx' = ctx
    BY DEF AllLive, Live
  <2>1. ASSUME NEW x \in Processes, Ensure(x)
        PROVE  ctx' = ctx
    BY <2>1 DEF Ensure, PickSecret, QuerySecret, StoreSecret, Probe, Adopt, Reprobe,
                RemoveContainer, RunContainer, WaitReady, Spread, SetError
  <2>2. QED
    BY <2>1 DEF Next, vars, Begin, Post, InsertRow, DeleteRow, Sync, FindProject, Proxy,
                CtxDone, Panic, BecomeReady, Crash, Restart
<1>3. QED
  BY <1>1, <1>2, TypeCorrect, PTL DEF Spec

HasSeenIt(x) == pc[x] \in {"adopt", "spread", "proxy"} \/ result[x] \in {"ok", "rejected"}

StandsOrReturns ==
  (\E x \in Processes : HasSeenIt(x)) =>
    container # Absent \/ \E x \in Processes : pc[x] = "run"

\* One step of one request.
LEMMA StandsStep ==
  ASSUME TypeOK, Faults = {}, AllLive, StandsOrReturns, NEW x \in Processes,
         \/ x \in Projects /\ (Begin(x) \/ Post(x))
         \/ x \in Syncs /\ Sync(x)
         \/ Ensure(x)
  PROVE  StandsOrReturns'
<1>0. Live(x) /\ ~Cut(x)
  BY DEF AllLive, Cut, Refused
<1> USE <1>0 DEF TypeOK, Refused
<1>1. CASE RemoveContainer(x)
  BY <1>1 DEF RemoveContainer, Goto, StandsOrReturns
<1>2. CASE RunContainer(x)
  BY <1>2 DEF RunContainer, Absent, StandsOrReturns
<1>3. CASE (Probe(x) \/ Reprobe(x) \/ WaitReady(x)) /\ Healthy
  BY <1>3 DEF Probe, Reprobe, WaitReady, Healthy, Absent, StandsOrReturns
<1>4. CASE ~RemoveContainer(x) /\ ~RunContainer(x)
             /\ ~((Probe(x) \/ Reprobe(x) \/ WaitReady(x)) /\ Healthy)
  <2>1. UNCHANGED container /\ pc[x] # "run"
    BY <1>4 DEF Begin, Post, Sync, Ensure, InsertRow, DeleteRow, FindProject, Proxy,
                PickSecret, QuerySecret, StoreSecret, Probe, Adopt, Reprobe, WaitReady,
                Spread, SetError, RunContainer
  <2>2. PICK label, outcome :
          /\ pc' = [pc EXCEPT ![x] = label]
          /\ result' = result \/ result' = [result EXCEPT ![x] = outcome]
          /\ HasSeenIt(x) \/ (label \notin {"adopt", "spread", "proxy"}
                               /\ outcome \notin {"ok", "rejected"})
    <3>1. CASE (x \in Projects /\ (Begin(x) \/ Post(x))) \/ (x \in Syncs /\ Sync(x))
      BY <3>1 DEF Begin, Post, Sync, InsertRow, DeleteRow, FindProject, Proxy, Goto, Return,
                  HasSeenIt
    <3>2. CASE PickSecret(x) \/ QuerySecret(x) \/ StoreSecret(x)
      BY <3>2 DEF PickSecret, QuerySecret, StoreSecret, Goto, Chosen
    <3>3. CASE Adopt(x) \/ Spread(x)
      BY <3>3 DEF Adopt, Spread, Goto, Return, Succeed, Fail, HasSeenIt
    <3>4. CASE (Probe(x) \/ Reprobe(x) \/ WaitReady(x) \/ SetError(x))
                 /\ ~((Probe(x) \/ Reprobe(x) \/ WaitReady(x)) /\ Healthy)
      BY <3>4 DEF Probe, Reprobe, WaitReady, SetError, Goto, Return, Fail
    <3>5. QED
      BY <1>4, <3>1, <3>2, <3>3, <3>4 DEF Ensure
  <2>3. \A y \in Processes : HasSeenIt(y)' => HasSeenIt(y)
    BY <2>2 DEF HasSeenIt
  <2>4. \A y \in Processes : pc[y] = "run" => pc'[y] = "run"
    BY <2>1, <2>2
  <2>5. QED
    BY <2>1, <2>3, <2>4 DEF StandsOrReturns
<1>5. QED
  BY <1>1, <1>2, <1>3, <1>4

\* Electric stands, however many requests restart it at the same time.
THEOREM ElectricStandsHolds == Spec => []ElectricStands
<1>1. Init => StandsOrReturns
  BY DEF Init, StandsOrReturns, HasSeenIt, Processes
<1>2. TypeOK /\ Faults = {} /\ AllLive /\ StandsOrReturns /\ [Next]_vars => StandsOrReturns'
  <2> SUFFICES ASSUME TypeOK, Faults = {}, AllLive, StandsOrReturns, [Next]_vars
               PROVE  StandsOrReturns'
    OBVIOUS
  <2>1. CASE UNCHANGED vars
    BY <2>1 DEF vars, StandsOrReturns, HasSeenIt
  <2>2. CASE BecomeReady
    BY <2>2 DEF BecomeReady, StandsOrReturns, Absent
  <2>3. QED
    BY <2>1, <2>2, StandsStep DEF Next, CtxDone, Panic, Restart, Crash, Processes
<1>3. StandsOrReturns => ElectricStands
  BY DEF StandsOrReturns, HasSeenIt, ElectricStands
<1>4. CASE Faults = {}
  <2>1. TypeOK /\ AllLive /\ StandsOrReturns /\ [Next]_vars => StandsOrReturns'
    BY <1>2, <1>4
  <2>2. QED
    BY <2>1, <1>1, <1>3, TypeCorrect, AllLiveHolds, PTL DEF Spec
<1>5. Faults # {} => ElectricStands
  BY DEF ElectricStands
<1>6. CASE Faults # {}
  BY <1>5, <1>6, PTL DEF Spec
<1>7. QED
  BY <1>4, <1>6

-----------------------------------------------------------------------------
(***************************************************************************)
(* Who will be answered.  Whatever the container is doing, somebody is at  *)
(* the place from which he can only go on to an answer: at docker run when *)
(* it is absent, waiting for it while it starts, past a health check when  *)
(* it answers.  Until the first docker rm nobody can have failed.          *)
(***************************************************************************)
Answered == \E x \in Processes : result[x] \in {"ok", "rejected"}

NobodyFailed ==
  /\ \A x \in Processes : pc[x] \notin {"run", "wait", "errored", "delete"}
  /\ \A p \in Projects : result[p] # "error"

OnTheWay(x) ==
  \/ container = Absent /\ pc[x] = "run"
  \/ container.state = "starting" /\ pc[x] = "wait"
  \/ Healthy /\ pc[x] \in {"wait", "adopt", "spread", "proxy"}

SomebodyWill ==
  /\ container.state = "absent" => container = Absent
  /\ \A x \in Processes : result[x] \in {"ok", "rejected"} => pc[x] = "done"
  /\ Answered \/ NobodyFailed \/ \E x \in Processes : OnTheWay(x)

\* One step of one request: it is on the way afterwards, or has its answer, or was
\* not the one who was on the way.
LEMMA WillStep ==
  ASSUME TypeOK, Faults = {}, AllLive, SomebodyWill, NEW x \in Processes,
         \/ x \in Projects /\ (Begin(x) \/ Post(x))
         \/ x \in Syncs /\ Sync(x)
         \/ Ensure(x)
  PROVE  SomebodyWill'
<1>0. Live(x) /\ ~Cut(x)
  BY DEF AllLive, Cut, Refused
<1> USE <1>0 DEF Refused
<1>1. PICK label, outcome :
        /\ pc' = [pc EXCEPT ![x] = label]
        /\ \/ result' = result /\ outcome = result[x]
           \/ result' = [result EXCEPT ![x] = outcome] /\ label = "done"
  BY DEF Begin, Post, Sync, Ensure, InsertRow, DeleteRow, FindProject, Proxy,
         PickSecret, QuerySecret, StoreSecret, Probe, Adopt, Reprobe, RemoveContainer,
         RunContainer, WaitReady, Spread, SetError, Goto, Return, Chosen, Succeed, Fail
<1>2. /\ pc'[x] = label /\ result'[x] = outcome
      /\ \A y \in Processes : y # x => pc'[y] = pc[y] /\ result'[y] = result[y]
  BY <1>1 DEF TypeOK
<1>3. pc[x] # "done"
  BY DEF Begin, Post, Sync, Ensure, InsertRow, DeleteRow, FindProject, Proxy,
         PickSecret, QuerySecret, StoreSecret, Probe, Adopt, Reprobe, RemoveContainer,
         RunContainer, WaitReady, Spread, SetError
<1>4. result[x] \notin {"ok", "rejected"}
  BY <1>3 DEF SomebodyWill
<1>5. \A y \in Processes : result'[y] \in {"ok", "rejected"} => pc'[y] = "done"
  BY <1>1, <1>2, <1>4 DEF SomebodyWill
<1>6. container'.state = "absent" => container' = Absent
  BY DEF SomebodyWill, Begin, Post, Sync, Ensure, InsertRow, DeleteRow, FindProject, Proxy,
         PickSecret, QuerySecret, StoreSecret, Probe, Adopt, Reprobe, RemoveContainer,
         RunContainer, WaitReady, Spread, SetError
<1>7. ASSUME OnTheWay(x)' \/ outcome \in {"ok", "rejected"}
      PROVE  SomebodyWill'
  BY <1>2, <1>5, <1>6, <1>7 DEF SomebodyWill, Answered
<1>8. ASSUME UNCHANGED container, ~OnTheWay(x),
             NobodyFailed => label \notin {"run", "wait", "errored", "delete"}
                             /\ (x \in Projects => outcome # "error")
      PROVE  SomebodyWill'
  <2>1. Answered => Answered'
    BY <1>2, <1>4 DEF Answered
  <2>2. NobodyFailed => NobodyFailed'
    BY <1>2, <1>8 DEF NobodyFailed, Processes
  <2>3. \A y \in Processes : OnTheWay(y) => OnTheWay(y)'
    BY <1>2, <1>8 DEF OnTheWay, Healthy
  <2>4. QED
    BY <1>5, <1>6, <2>1, <2>2, <2>3 DEF SomebodyWill
<1>9. CASE RemoveContainer(x)
  <2>1. container' = Absent /\ pc' = [pc EXCEPT ![x] = "run"]
    BY <1>9 DEF RemoveContainer, Goto
  <2>2. OnTheWay(x)'
    BY <2>1 DEF OnTheWay, TypeOK
  <2>3. QED
    BY <1>7, <2>2
<1>10. CASE RunContainer(x)
  <2>1. CASE container = Absent
    BY <1>1, <1>2, <1>7, <1>10, <2>1 DEF RunContainer, Goto, OnTheWay, TypeOK
  <2>2. CASE container # Absent
    BY <1>8, <1>10, <2>2 DEF RunContainer, OnTheWay, NobodyFailed
  <2>3. QED
    BY <2>1, <2>2
<1>11. CASE WaitReady(x)
  <2>1. CASE Healthy
    BY <1>7, <1>11, <2>1 DEF WaitReady, OnTheWay, Healthy, TypeOK, Goto, Absent
  <2>2. CASE ~Healthy
    BY <1>8, <1>11, <2>2 DEF WaitReady, OnTheWay, NobodyFailed, Absent
  <2>3. QED
    BY <2>1, <2>2
<1>12. CASE Probe(x)
  <2>1. CASE Healthy
    BY <1>7, <1>12, <2>1 DEF Probe, OnTheWay, Healthy, TypeOK, Goto
  <2>2. CASE ~Healthy
    BY <1>2, <1>4, <1>8, <1>12, <2>2 DEF Probe, OnTheWay, NobodyFailed, TypeOK, Goto
  <2>3. QED
    BY <2>1, <2>2
<1>13. CASE Succeed(x) /\ (Adopt(x) \/ Spread(x) \/ (Reprobe(x) /\ Healthy))
  <2>1. UNCHANGED container
    BY <1>13 DEF Adopt, Spread, Reprobe
  <2>2. CASE x \in Syncs
    <3>1. pc'[x] = "proxy" /\ result' = result
      BY <1>13, <2>2 DEF Succeed, Goto, TypeOK
    <3>2. CASE Healthy
      BY <1>7, <2>1, <3>1, <3>2 DEF OnTheWay, Healthy
    <3>3. CASE ~Healthy
      BY <1>2, <1>8, <1>13, <2>1, <2>2, <3>1, <3>3, ProcessAssumption
      DEF OnTheWay, Adopt, Spread, Reprobe
    <3>4. QED
      BY <3>2, <3>3
  <2>3. CASE x \notin Syncs
    BY <1>2, <1>7, <1>13, <2>3 DEF Succeed, Return, TypeOK
  <2>4. QED
    BY <2>2, <2>3
<1>14. CASE Reprobe(x) /\ ~Healthy
  BY <1>2, <1>4, <1>8, <1>14 DEF Reprobe, OnTheWay, NobodyFailed, TypeOK, Goto
<1>15. CASE x \in Syncs /\ Proxy(x)
  <2>1. CASE Healthy
    BY <1>2, <1>7, <1>15, <2>1 DEF Proxy, Return, TypeOK
  <2>2. CASE ~Healthy
    BY <1>2, <1>8, <1>15, <2>2, ProcessAssumption
    DEF Proxy, Return, OnTheWay, TypeOK
  <2>3. QED
    BY <2>1, <2>2
<1>16. CASE SetError(x) \/ (x \in Projects /\ DeleteRow(x))
  BY <1>8, <1>16 DEF SetError, DeleteRow, OnTheWay, NobodyFailed
<1>17. CASE \/ x \in Projects /\ (Begin(x) \/ InsertRow(x))
            \/ x \in Syncs /\ FindProject(x)
            \/ PickSecret(x) \/ QuerySecret(x) \/ StoreSecret(x)
  <2>1. UNCHANGED container /\ pc[x] \in {"idle", "insert", "pick", "query", "store"}
    BY <1>17 DEF Begin, InsertRow, FindProject, PickSecret, QuerySecret, StoreSecret
  <2>2. /\ label \in {"pick", "query", "store", "probe", "insert", "done"}
        /\ x \in Syncs \/ UNCHANGED result
    BY <1>2, <1>17 DEF Begin, InsertRow, FindProject, PickSecret, QuerySecret, StoreSecret,
                       Goto, Return, Chosen, TypeOK
  <2>3. QED
    BY <1>2, <1>8, <2>1, <2>2, ProcessAssumption DEF OnTheWay, NobodyFailed
<1>18. QED
  BY <1>9, <1>10, <1>11, <1>12, <1>13, <1>14, <1>15, <1>16, <1>17
  DEF Post, Sync, Ensure, Adopt, Spread, Reprobe

\* Requests that remove the container each of them needs do not all fail.
THEOREM SomebodySucceedsHolds == Spec => []SomebodySucceeds
<1>1. Init => SomebodyWill
  BY DEF Init, SomebodyWill, NobodyFailed, Absent, Processes
<1>2. TypeOK /\ Faults = {} /\ AllLive /\ SomebodyWill /\ [Next]_vars => SomebodyWill'
  <2> SUFFICES ASSUME TypeOK, Faults = {}, AllLive, SomebodyWill, [Next]_vars
               PROVE  SomebodyWill'
    OBVIOUS
  <2>1. CASE UNCHANGED vars
    BY <2>1 DEF vars, SomebodyWill, Answered, NobodyFailed, OnTheWay, Healthy
  <2>2. CASE BecomeReady
    BY <2>2 DEF BecomeReady, SomebodyWill, Answered, NobodyFailed, OnTheWay, Healthy, Absent
  <2>3. QED
    BY <2>1, <2>2, WillStep DEF Next, CtxDone, Panic, Restart, Crash, Processes
<1>3. TypeOK /\ SomebodyWill => SomebodySucceeds
  BY ProcessAssumption DEF SomebodyWill, SomebodySucceeds, Answered, NobodyFailed, OnTheWay,
     Quiet, Ended, Processes, TypeOK, Results
<1>4. CASE Faults = {}
  <2>1. TypeOK /\ AllLive /\ SomebodyWill /\ [Next]_vars => SomebodyWill'
    BY <1>2, <1>4
  <2>2. QED
    BY <2>1, <1>1, <1>3, TypeCorrect, AllLiveHolds, PTL DEF Spec
<1>5. Faults # {} => SomebodySucceeds
  BY DEF SomebodySucceeds
<1>6. CASE Faults # {}
  BY <1>5, <1>6, PTL DEF Spec
<1>7. QED
  BY <1>4, <1>6

=============================================================================
