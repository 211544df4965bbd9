--------------------- MODULE DatabaseProvisioningProofs ---------------------
(***************************************************************************)
(* For any number of POSTs and syncs, any names and ports: a project that  *)
(* was answered 201 keeps what it was given and is served by its own       *)
(* container, a row never outlives its role or its database, a POST leaves *)
(* all it makes or nothing, and no sync is answered from the database of   *)
(* another project.  Each theorem states the faults it allows.             *)
(***************************************************************************)
EXTENDS DatabaseProvisioning, WellFoundedInduction, TLAPS

\* Lowest is the lowest one: every set of ports has it.
LEMMA LowestPort ==
  ASSUME NEW ports \in SUBSET Ports, ports # {}
  PROVE  Lowest(ports) \in ports
<1>1. ports \subseteq Nat
  BY PortsAssumption
<1> DEFINE Less == {ss \in Nat \X Nat : ss[1] < ss[2]}
<1>2. IsWellFoundedOn(Less, Nat)
  BY NatLessThanWellFounded DEF OpToRel
<1> HIDE DEF Less
<1>3. PICK x \in ports : \A y \in ports : ~(<<y, x>> \in Less)
  BY <1>1, <1>2, WFMin
<1>4. ASSUME NEW y \in ports PROVE x <= y
  <2>1. x \in Nat /\ y \in Nat /\ <<y, x>> \notin Less
    BY <1>1, <1>3
  <2>2. ~(y < x)
    BY <2>1 DEF Less
  <2>3. QED
    BY <2>1, <2>2
<1>5. QED
  BY <1>4 DEF Lowest

\* What a row, the hands of a process and a container hold.
LEMMA RowType ==
  ASSUME TypeOK, NEW p \in Projects
  PROVE  row[p].port \in Ports \cup {0} /\ row[p].secret \in Processes \cup {None}
<1>1. row[p] \in Rows \cup {NoRow}
  BY DEF TypeOK
<1>2. CASE row[p] \in Rows
  BY <1>2 DEF Rows
<1>3. CASE row[p] = NoRow
  <2>1. NoRow.port = 0 /\ NoRow.secret = None
    BY DEF NoRow
  <2>2. QED
    BY <1>3, <2>1
<1>4. QED
  BY <1>1, <1>2, <1>3

LEMMA PlanType ==
  ASSUME TypeOK, NEW x \in Processes
  PROVE  plan[x].port \in Ports \cup {0} /\ plan[x].secret \in Processes \cup {None}
<1>1. plan[x] \in Plan
  BY DEF TypeOK
<1>2. QED
  BY <1>1 DEF Plan

LEMMA FreePort ==
  ASSUME FreePorts # {}
  PROVE  Lowest(FreePorts) \in Ports
BY LowestPort DEF FreePorts

LEMMA Targets ==
  ASSUME TypeOK
  PROVE  /\ \A s \in Syncs : target[s] \in Projects /\ s \in Processes
         /\ \A p \in Projects : NameOf(p) \in Names /\ p \in Processes /\ p \notin Syncs
         /\ \A x \in Processes : ProjectOf(x) \in Projects /\ ContainerOf(x) \in Names
<1>1. \A s \in Syncs : target[s] \in Projects
  BY DEF TypeOK
<1>2. \A p \in Projects : NameOf(p) \in Names /\ p \notin Syncs
  BY ProcessAssumption DEF TypeOK, NameOf
<1>3. \A x \in Processes : ProjectOf(x) \in Projects
  BY <1>1 DEF ProjectOf, Processes
<1>4. QED
  BY <1>1, <1>2, <1>3 DEF ContainerOf, Processes

\* What an assignment to one project or process does to the type.
LEMMA UpdateType ==
  ASSUME TypeOK, NEW p \in Projects, NEW columns \in Rows, Update(p, columns)
  PROVE  row' \in [Projects -> Rows \cup {NoRow}]
BY DEF TypeOK, Update

LEMMA StatusType ==
  ASSUME TypeOK, NEW p \in Projects, NEW status \in Statuses, HasRow(p)
  PROVE  WithStatus(p, status) \in Rows
BY RowType DEF WithStatus, Rows

Outcomes == {"none", "ok", "conflict", "error"}

\* Control: what every step does to pc and result.
LEMMA ControlType ==
  ASSUME TypeOK, NEW x \in Processes, NEW label \in Labels, NEW outcome \in Outcomes,
         \/ Goto(x, label) \/ Return(x, outcome) \/ Abort(x, outcome) \/ Fail(x)
  PROVE  pc' \in [Processes -> Labels] /\ result' \in [Processes -> Outcomes]
<1> USE DEF TypeOK, Labels, PostLabels, SyncLabels, Ended, Outcomes
<1>1. CASE Goto(x, label)
  BY <1>1 DEF Goto
<1>2. CASE Return(x, outcome)
  BY <1>2 DEF Return
<1>3. CASE Abort(x, outcome)
  BY <1>3 DEF Abort
<1>4. CASE Fail(x)
  BY <1>4 DEF Fail, Goto, Abort
<1>5. QED
  BY <1>1, <1>2, <1>3, <1>4

\* Every variable keeps its type, the ports and secrets in rows, containers and hands
\* included.
LEMMA TypeInit == Init => TypeOK
<1> SUFFICES ASSUME Init PROVE TypeOK
  OBVIOUS
<1> DEFINE maker(n) == {p \in Legacy : NameOf(p) = n}
           of(n) == IF maker(n) = {} THEN None ELSE CHOOSE p \in maker(n) : TRUE
<1>1. \A n \in Names : of(n) \in Projects \cup {None}
  BY LegacyAssumption
<1>2. role = [n \in Names |-> of(n)] /\ db = [n \in Names |-> of(n)]
  BY DEF Init
<1> HIDE DEF of
<1>3. role \in [Names -> Projects \cup {None}] /\ db \in [Names -> Projects \cup {None}]
  BY <1>1, <1>2
<1>4. [port |-> 0, secret |-> None, status |-> "not_provisioned"] \in Rows
  BY DEF Rows, Statuses
<1>5. row \in [Projects -> Rows \cup {NoRow}]
  BY <1>4 DEF Init
<1>6. container \in [Names -> Containers]
  BY DEF Init, Containers, Absent
<1>7. plan \in [Processes -> Plan]
  BY DEF Init, Plan, NoPlan
<1>8. pc \in [Processes -> Labels] /\ made \in [Projects -> SUBSET {"role", "db", "metadata"}]
      /\ result \in [Processes -> {"none", "ok", "conflict", "error"}]
  BY DEF Init, Labels, Ended
<1>9. QED
  BY <1>3, <1>5, <1>6, <1>7, <1>8 DEF Init, TypeOK

LEMMA PostType ==
  ASSUME TypeOK, NEW p \in Projects, Begin(p) \/ Post(p) \/ Stop(p)
  PROVE  TypeOK'
<1>0. p \in Processes /\ NameOf(p) \in Names
  BY Targets
<1>1. {"conflict", "port", "createRole", "createDB", "grant", "insert", "rm",
       "cleanRm", "cleanRow", "cleanDB", "cleanRole", "done"} \subseteq Labels
  BY DEF Labels, PostLabels, Ended
<1> USE DEF pg, Outcomes
<1>2. CASE Begin(p)
  BY <1>0, <1>1, <1>2, ControlType DEF Begin, TypeOK
<1>3. CASE CheckConflict(p)
  BY <1>0, <1>1, <1>3, ControlType DEF CheckConflict, TypeOK
<1>4. CASE PlanElectric(p)
  <2>1. pc' \in [Processes -> Labels] /\ result' \in [Processes -> Outcomes]
    BY <1>0, <1>1, <1>4, ControlType DEF PlanElectric
  <2>2. FreePorts # {} => [port |-> Lowest(FreePorts), secret |-> Secret(p)] \in Plan
    BY <1>0, FreePort DEF Plan, Secret
  <2>3. plan' \in [Processes -> Plan]
    BY <1>4, <2>2 DEF PlanElectric, TypeOK
  <2>4. QED
    BY <1>4, <2>1, <2>3 DEF PlanElectric, TypeOK
<1>5. CASE CreateRole(p)
  <2>1. pc' \in [Processes -> Labels] /\ result' \in [Processes -> Outcomes]
    BY <1>0, <1>1, <1>5, ControlType DEF CreateRole
  <2>2. QED
    BY <1>5, <2>1 DEF CreateRole, TypeOK, Mark
<1>6. CASE CreateDatabase(p)
  <2>1. pc' \in [Processes -> Labels] /\ result' \in [Processes -> Outcomes]
    BY <1>0, <1>1, <1>6, ControlType DEF CreateDatabase
  <2>2. db' \in [Names -> Projects \cup {None}]
    BY <1>0, <1>6 DEF CreateDatabase, TypeOK
  <2>3. made' \in [Projects -> SUBSET {"role", "db", "metadata"}]
    BY <1>6 DEF CreateDatabase, TypeOK, Mark
  <2>4. QED
    BY <1>6, <2>1, <2>2, <2>3 DEF CreateDatabase, TypeOK
<1>7. CASE Grant(p)
  BY <1>0, <1>1, <1>7, ControlType DEF Grant, TypeOK
<1>8. CASE InsertRow(p)
  <2>1. pc' \in [Processes -> Labels] /\ result' \in [Processes -> Outcomes]
    BY <1>0, <1>1, <1>8, ControlType DEF InsertRow
  <2>2. [port |-> plan[p].port, secret |-> plan[p].secret, status |-> "provisioning"] \in Rows
    BY <1>0, PlanType DEF Rows, Statuses
  <2>3. row' \in [Projects -> Rows \cup {NoRow}]
    BY <1>8, <2>2 DEF InsertRow, TypeOK
  <2>4. made' \in [Projects -> SUBSET {"role", "db", "metadata"}]
    BY <1>8 DEF InsertRow, TypeOK, Mark
  <2>5. QED
    BY <1>8, <2>1, <2>3, <2>4 DEF InsertRow, TypeOK
<1>9. CASE CleanContainer(p)
  <2>1. pc' \in [Processes -> Labels] /\ result' \in [Processes -> Outcomes]
    BY <1>0, <1>1, <1>9, ControlType DEF CleanContainer
  <2>2. Absent \in Containers
    BY DEF Absent, Containers
  <2>3. QED
    BY <1>9, <2>1, <2>2 DEF CleanContainer, TypeOK
<1>10. CASE CleanRow(p)
  <2>1. pc' \in [Processes -> Labels] /\ result' \in [Processes -> Outcomes]
    BY <1>0, <1>1, <1>10, ControlType DEF CleanRow
  <2>2. QED
    BY <1>10, <2>1 DEF CleanRow, TypeOK
<1>11. CASE CleanDatabase(p)
  <2>1. pc' \in [Processes -> Labels] /\ result' \in [Processes -> Outcomes]
    BY <1>0, <1>1, <1>11, ControlType DEF CleanDatabase
  <2>2. QED
    BY <1>11, <2>1 DEF CleanDatabase, TypeOK
<1>12. CASE CleanRole(p)
  BY <1>1, <1>12 DEF CleanRole, TypeOK
<1>13. CASE Stop(p)
  BY <1>13 DEF Stop, TypeOK, Labels, Ended
<1>14. QED
  BY <1>2, <1>3, <1>4, <1>5, <1>6, <1>7, <1>8, <1>9, <1>10, <1>11, <1>12, <1>13 DEF Post

LEMMA StartType ==
  ASSUME TypeOK, NEW x \in Processes, Start(x)
  PROVE  TypeOK'
<1>0. ContainerOf(x) \in Names /\ ProjectOf(x) \in Projects
  BY Targets
<1>1. {"run", "wait", "running", "proxy"} \subseteq Labels
  BY DEF Labels, PostLabels, SyncLabels
<1> USE DEF pg, Outcomes
<1>2. CASE RemoveContainer(x)
  <2>1. pc' \in [Processes -> Labels] /\ result' \in [Processes -> Outcomes]
    BY <1>1, <1>2, ControlType DEF RemoveContainer
  <2>2. Absent \in Containers
    BY DEF Absent, Containers
  <2>3. QED
    BY <1>0, <1>2, <2>1, <2>2 DEF RemoveContainer, TypeOK
<1>3. CASE RunContainer(x)
  <2>1. pc' \in [Processes -> Labels] /\ result' \in [Processes -> Outcomes]
    BY <1>1, <1>3, ControlType DEF RunContainer
  <2>2. \A state \in {"starting", "created"} :
          [state |-> state, port |-> plan[x].port, secret |-> plan[x].secret] \in Containers
    BY PlanType DEF Containers
  <2>3. container' \in [Names -> Containers]
    BY <1>0, <1>3, <2>2 DEF RunContainer, TypeOK
  <2>4. QED
    BY <1>3, <2>1, <2>3 DEF RunContainer, TypeOK
<1>4. CASE WaitReady(x)
  BY <1>1, <1>4, ControlType DEF WaitReady, TypeOK
<1>5. CASE SetRunning(x)
  <2>1. pc' \in [Processes -> Labels] /\ result' \in [Processes -> Outcomes]
    BY <1>1, <1>5, ControlType DEF SetRunning
  <2>2. ASSUME Update(ProjectOf(x), WithStatus(ProjectOf(x), "running"))
        PROVE  row' \in [Projects -> Rows \cup {NoRow}]
    <3>1. CASE HasRow(ProjectOf(x))
      BY <1>0, <2>2, <3>1, StatusType, UpdateType DEF Statuses
    <3>2. CASE ~HasRow(ProjectOf(x))
      BY <2>2, <3>2 DEF Update, TypeOK
    <3>3. QED
      BY <3>1, <3>2
  <2>3. row' \in [Projects -> Rows \cup {NoRow}]
    BY <1>5, <2>2 DEF SetRunning, TypeOK
  <2>4. QED
    BY <1>5, <2>1, <2>3 DEF SetRunning, TypeOK
<1>6. QED
  BY <1>2, <1>3, <1>4, <1>5 DEF Start

LEMMA SyncType ==
  ASSUME TypeOK, NEW s \in Syncs, Sync(s)
  PROVE  TypeOK'
<1>0. s \in Processes /\ target[s] \in Projects
  BY Targets
<1>1. {"probe", "fresh", "reprobe", "choose", "update", "rm", "proxy"} \subseteq Labels
  BY DEF Labels, PostLabels, SyncLabels
<1> USE DEF pg, Outcomes
<1>2. Electric(target[s]) \in Plan
  BY <1>0, RowType DEF Electric, Plan
<1>3. CASE FindProject(s)
  <2>1. pc' \in [Processes -> Labels] /\ result' \in [Processes -> Outcomes]
    BY <1>0, <1>1, <1>3, ControlType DEF FindProject
  <2>2. QED
    BY <1>2, <1>3, <2>1 DEF FindProject, TypeOK
<1>4. CASE Probe(s)
  BY <1>0, <1>1, <1>4, ControlType DEF Probe, TypeOK
<1>5. CASE FindFresh(s)
  <2>1. pc' \in [Processes -> Labels] /\ result' \in [Processes -> Outcomes]
    BY <1>0, <1>1, <1>5, ControlType DEF FindFresh
  <2>2. QED
    BY <1>2, <1>5, <2>1 DEF FindFresh, TypeOK
<1>6. CASE ChooseElectric(s)
  <2>1. pc' \in [Processes -> Labels] /\ result' \in [Processes -> Outcomes]
    BY <1>0, <1>1, <1>6, ControlType DEF ChooseElectric
  <2> DEFINE port == IF plan[s].port = 0 THEN Lowest(FreePorts) ELSE plan[s].port
             secret == IF plan[s].secret = None THEN Secret(s) ELSE plan[s].secret
  <2>2. ASSUME plan[s].port # 0 \/ FreePorts # {}
        PROVE  [port |-> port, secret |-> secret] \in Plan
    <3>1. port \in Ports \cup {0}
      BY <1>0, <2>2, PlanType, FreePort
    <3>2. secret \in Processes \cup {None}
      BY <1>0, PlanType DEF Secret
    <3>3. QED
      BY <3>1, <3>2 DEF Plan
  <2>3. \/ /\ plan[s].port # 0 \/ FreePorts # {}
           /\ plan' = [plan EXCEPT ![s] = [port |-> port, secret |-> secret]]
        \/ UNCHANGED plan
    BY <1>6 DEF ChooseElectric
  <2> HIDE DEF port, secret
  <2>4. plan' \in [Processes -> Plan]
    BY <2>2, <2>3 DEF TypeOK
  <2>5. QED
    BY <1>6, <2>1, <2>4 DEF ChooseElectric, TypeOK
<1>7. CASE UpdateElectric(s)
  <2>1. pc' \in [Processes -> Labels] /\ result' \in [Processes -> Outcomes]
    BY <1>0, <1>1, <1>7, ControlType DEF UpdateElectric
  <2>2. [port |-> plan[s].port, secret |-> plan[s].secret, status |-> "provisioning"] \in Rows
    BY <1>0, PlanType DEF Rows, Statuses
  <2>3. row' \in [Projects -> Rows \cup {NoRow}]
    BY <1>0, <1>7, <2>2, UpdateType DEF UpdateElectric, TypeOK
  <2>4. QED
    BY <1>7, <2>1, <2>3 DEF UpdateElectric, TypeOK
<1>8. CASE SetError(s)
  <2>1. pc' \in [Processes -> Labels] /\ result' \in [Processes -> Outcomes]
    BY <1>0, <1>1, <1>8, ControlType DEF SetError
  <2>2. ASSUME Update(target[s], WithStatus(target[s], "error"))
        PROVE  row' \in [Projects -> Rows \cup {NoRow}]
    <3>1. CASE HasRow(target[s])
      BY <1>0, <2>2, <3>1, StatusType, UpdateType DEF Statuses
    <3>2. CASE ~HasRow(target[s])
      BY <2>2, <3>2 DEF Update, TypeOK
    <3>3. QED
      BY <3>1, <3>2
  <2>3. row' \in [Projects -> Rows \cup {NoRow}]
    BY <1>8, <2>2 DEF SetError, TypeOK
  <2>4. QED
    BY <1>8, <2>1, <2>3 DEF SetError, TypeOK
<1>9. CASE Proxy(s)
  BY <1>0, <1>1, <1>9, ControlType DEF Proxy, TypeOK
<1>10. QED
  BY <1>3, <1>4, <1>5, <1>6, <1>7, <1>8, <1>9 DEF Sync

THEOREM TypeCorrect == Spec => []TypeOK
<1>1. TypeOK /\ [Next]_vars => TypeOK'
  <2> SUFFICES ASSUME TypeOK, [Next]_vars PROVE TypeOK'
    OBVIOUS
  <2>1. CASE UNCHANGED vars
    BY <2>1 DEF vars, TypeOK
  <2>2. ASSUME NEW n \in Names, BecomeReady(n)
        PROVE  TypeOK'
    <3>1. container[n] \in Containers
      BY DEF TypeOK
    <3>2. [state |-> "ready", port |-> container[n].port,
           secret |-> container[n].secret] \in Containers
      BY <3>1 DEF Containers
    <3>3. QED
      BY <2>2, <3>2 DEF BecomeReady, TypeOK, pg
  <2>3. QED
    BY <2>1, <2>2, PostType, StartType, SyncType DEF Next
<1>2. QED
  BY <1>1, TypeInit, PTL DEF Spec

-----------------------------------------------------------------------------
(***************************************************************************)
(* SuccessIsUsable.  A role or a database belongs to one project, and only *)
(* that project drops it: a POST past CREATE ROLE owns the role of its     *)
(* name, and a database has the owner its role has.                        *)
(***************************************************************************)
OwnsRole == {"createDB", "grant", "insert", "rm", "run", "wait", "running",
             "cleanRm", "cleanRow", "cleanDB", "cleanRole"}
OwnsDatabase == {"grant", "insert", "rm", "run", "wait", "running"}
OwnsRow == {"rm", "run", "wait", "running"}

Owned ==
  /\ \A n \in Names : db[n] # None => db[n] = role[n]
  /\ \A p \in Projects :
       /\ pc[p] \in OwnsRole => role[NameOf(p)] = p
       /\ pc[p] \in OwnsDatabase => db[NameOf(p)] = p
       /\ pc[p] \in OwnsRow => HasRow(p)
       /\ result[p] = "ok" => pc[p] = "done"
  /\ SuccessIsUsable

\* An UPDATE leaves no row out and inserts none.
LEMMA RowsStay ==
  ASSUME TypeOK, NEW x \in Processes, Start(x) \/ (x \in Syncs /\ Sync(x))
  PROVE  /\ \A p \in Projects : HasRow(p) <=> HasRow(p)'
         /\ UNCHANGED <<role, db, req>>
<1>1. \A p \in Projects, status \in Statuses : WithStatus(p, status) # NoRow
  BY DEF WithStatus, NoRow, Statuses
<1>2. \A y \in Processes :
        [port |-> plan[y].port, secret |-> plan[y].secret, status |-> "provisioning"] # NoRow
  BY DEF NoRow
<1>3. ASSUME NEW q \in Projects, NEW columns, columns # NoRow, Update(q, columns)
      PROVE  \A p \in Projects : HasRow(p) <=> HasRow(p)'
  BY <1>3 DEF Update, HasRow, TypeOK
<1>4. CASE UNCHANGED row
  <2>1. \A p \in Projects : HasRow(p) <=> HasRow(p)'
    BY <1>4 DEF HasRow
  <2>2. UNCHANGED <<role, db, req>>
    BY DEF Start, Sync, RemoveContainer, RunContainer, WaitReady, SetRunning,
       FindProject, Probe, FindFresh, ChooseElectric, UpdateElectric, SetError, Proxy, pg
  <2>3. QED
    BY <2>1, <2>2
<1>5. CASE SetRunning(x)
  <2>1. ProjectOf(x) \in Projects
    BY Targets
  <2>2. QED
    BY <1>1, <1>3, <1>4, <1>5, <2>1 DEF SetRunning, Statuses
<1>6. CASE x \in Syncs /\ UpdateElectric(x)
  BY <1>2, <1>3, <1>4, <1>6, Targets DEF UpdateElectric
<1>7. CASE x \in Syncs /\ SetError(x)
  BY <1>1, <1>3, <1>4, <1>7, Targets DEF SetError, Statuses
<1>8. \/ RemoveContainer(x) \/ RunContainer(x) \/ WaitReady(x) \/ FindProject(x)
      \/ Probe(x) \/ FindFresh(x) \/ ChooseElectric(x) \/ Proxy(x)
      => UNCHANGED row
  BY DEF RemoveContainer, RunContainer, WaitReady, FindProject, Probe, FindFresh,
     ChooseElectric, Proxy, pg
<1>9. QED
  BY <1>4, <1>5, <1>6, <1>7, <1>8 DEF Start, Sync

\* A sync leaves the control of every POST alone, and startElectric moves that of
\* its own POST only.
LEMMA StartMoves ==
  ASSUME TypeOK, NEW x \in Processes, Start(x)
  PROVE  /\ \A p \in Projects : p # x => pc'[p] = pc[p] /\ result'[p] = result[p]
         /\ x \in Projects =>
              /\ pc[x] \in OwnsRow
              /\ pc'[x] \in OwnsRow \cup {"cleanRm", "done"}
              /\ result'[x] = "ok" => pc'[x] = "done" \/ result[x] = "ok"
<1>0. x \in Projects => x \notin Syncs
  BY ProcessAssumption
<1>1. x \in Projects => pc[x] \in OwnsRow
  BY DEF Start, RemoveContainer, RunContainer, WaitReady, SetRunning, OwnsRow
<1>2. \/ \E label \in {"run", "wait", "running"} : Goto(x, label)
      \/ Fail(x)
      \/ \E outcome \in {"ok", "error"} : Return(x, outcome)
      \/ x \in Syncs /\ Goto(x, "proxy")
  BY DEF Start, RemoveContainer, RunContainer, WaitReady, SetRunning
<1>3. ASSUME NEW label \in {"run", "wait", "running"}, Goto(x, label)
      PROVE  /\ \A p \in Projects : p # x => pc'[p] = pc[p]
             /\ pc'[x] \in OwnsRow /\ UNCHANGED result
  BY <1>3 DEF Goto, TypeOK, OwnsRow
<1>4. ASSUME Fail(x)
      PROVE  /\ \A p \in Projects : p # x => pc'[p] = pc[p] /\ result'[p] = result[p]
             /\ x \in Projects => pc'[x] = "cleanRm" /\ result'[x] = "error"
  <2>1. CASE x \in Syncs
    BY <1>0, <1>4, <2>1 DEF Fail, Goto, TypeOK, Processes
  <2>2. CASE x \notin Syncs
    BY <1>4, <2>2 DEF Fail, Abort, TypeOK, Processes
  <2>3. QED
    BY <2>1, <2>2
<1>5. ASSUME NEW outcome \in {"ok", "error"}, Return(x, outcome)
      PROVE  /\ \A p \in Projects : p # x => pc'[p] = pc[p] /\ result'[p] = result[p]
             /\ pc'[x] = "done"
  BY <1>5 DEF Return, TypeOK
<1>6. ASSUME Goto(x, "proxy")
      PROVE  \A p \in Projects : p # x => pc'[p] = pc[p] /\ result'[p] = result[p]
  BY <1>6 DEF Goto, TypeOK
<1>7. QED
  BY <1>0, <1>1, <1>2, <1>3, <1>4, <1>5, <1>6

LEMMA SyncMoves ==
  ASSUME TypeOK, NEW s \in Syncs, Sync(s)
  PROVE  \A p \in Projects : pc'[p] = pc[p] /\ result'[p] = result[p]
<1>1. s \in Processes /\ s \notin Projects
  BY ProcessAssumption DEF Processes
<1>2. (\E label \in Labels : Goto(s, label)) \/ (\E outcome \in Outcomes : Return(s, outcome))
  BY DEF Sync, FindProject, Probe, FindFresh, ChooseElectric, UpdateElectric, SetError,
     Proxy, Labels, SyncLabels, Outcomes
<1>3. ASSUME NEW label, Goto(s, label)
      PROVE  \A p \in Projects : pc'[p] = pc[p] /\ result'[p] = result[p]
  BY <1>1, <1>3 DEF Goto, TypeOK, Processes
<1>4. ASSUME NEW outcome, Return(s, outcome)
      PROVE  \A p \in Projects : pc'[p] = pc[p] /\ result'[p] = result[p]
  BY <1>1, <1>4 DEF Return, TypeOK, Processes
<1>5. QED
  BY <1>2, <1>3, <1>4

LEMMA StartOwned ==
  ASSUME TypeOK, Owned, NEW x \in Processes, Start(x)
  PROVE  Owned'
<1>1. /\ \A p \in Projects : HasRow(p) <=> HasRow(p)'
      /\ UNCHANGED <<role, db, req>>
  BY RowsStay
<1>2. \A p \in Projects : p # x => pc'[p] = pc[p] /\ result'[p] = result[p]
  BY StartMoves
<1>3. x \in Projects => /\ pc[x] \in OwnsRow
                        /\ pc'[x] \in OwnsRow \cup {"cleanRm", "done"}
                        /\ result'[x] = "ok" => pc'[x] = "done" \/ result[x] = "ok"
  BY StartMoves
<1>4. \A p \in Projects : NameOf(p)' = NameOf(p)
  BY <1>1 DEF NameOf
<1>5. x \in Projects => role[NameOf(x)] = x /\ db[NameOf(x)] = x /\ HasRow(x)
                        /\ result[x] # "ok"
  BY <1>3 DEF Owned, OwnsRow, OwnsDatabase, OwnsRole
<1>6. (\A n \in Names : db[n] # None => db[n] = role[n])'
  BY <1>1 DEF Owned
<1>7. ASSUME NEW p \in Projects
      PROVE  /\ pc'[p] \in OwnsRole => role'[NameOf(p)'] = p
             /\ pc'[p] \in OwnsDatabase => db'[NameOf(p)'] = p
             /\ pc'[p] \in OwnsRow => HasRow(p)'
             /\ result'[p] = "ok" =>
                  /\ pc'[p] = "done"
                  /\ role'[NameOf(p)'] = p /\ db'[NameOf(p)'] = p /\ HasRow(p)'
  <2>1. CASE p = x
    BY <1>1, <1>3, <1>4, <1>5, <2>1
  <2>2. CASE p # x
    BY <1>1, <1>2, <1>4, <2>2 DEF Owned, SuccessIsUsable
  <2>3. QED
    BY <2>1, <2>2
<1>8. QED
  BY <1>6, <1>7 DEF Owned, SuccessIsUsable

LEMMA SyncOwned ==
  ASSUME TypeOK, Owned, NEW s \in Syncs, Sync(s)
  PROVE  Owned'
<1>0. s \in Processes
  BY DEF Processes
<1>1. /\ \A p \in Projects : HasRow(p) <=> HasRow(p)'
      /\ UNCHANGED <<role, db, req>>
  BY <1>0, RowsStay
<1>2. \A p \in Projects : pc'[p] = pc[p] /\ result'[p] = result[p]
  BY SyncMoves
<1>3. \A p \in Projects : NameOf(p)' = NameOf(p)
  BY <1>1 DEF NameOf
<1>4. QED
  BY <1>1, <1>2, <1>3 DEF Owned, SuccessIsUsable

\* A POST moves its own control, touches the role and the database of its own name
\* only, and leaves what another project owns under that name.
LEMMA PostMoves ==
  ASSUME TypeOK, Owned, NEW p \in Projects, Begin(p) \/ Post(p) \/ Stop(p),
         NEW n, n = NameOf(p)
  PROVE  /\ \A q \in Projects : NameOf(q)' = NameOf(q)
         /\ \A q \in Projects : q # p => pc'[q] = pc[q] /\ result'[q] = result[q]
         /\ \A m \in Names \ {n} : role'[m] = role[m] /\ db'[m] = db[m]
         /\ \/ UNCHANGED <<role, db>>
            \/ /\ pc[p] = "createRole" /\ role[n] = None /\ UNCHANGED db
               /\ role'[n] = p
            \/ /\ pc[p] = "createDB" /\ UNCHANGED role /\ db'[n] = p
            \/ /\ pc[p] = "cleanDB" /\ UNCHANGED role /\ db'[n] = None
            \/ /\ pc[p] = "cleanRole" /\ UNCHANGED db /\ db[n] = None /\ role'[n] = None
         /\ \A q \in Projects : q # p => (HasRow(q) <=> HasRow(q)')
         /\ HasRow(p) /\ pc[p] # "cleanRow" => HasRow(p)'
         /\ \A q \in Projects : q # p /\ role[NameOf(q)] = q =>
              role'[NameOf(q)] = q /\ db'[NameOf(q)] = db[NameOf(q)]
<1>0. p \in Processes /\ n \in Names /\ p # None
  BY Targets, NoneAssumption DEF Processes
<1>1. \A q \in Projects : NameOf(q)' = NameOf(q)
  BY DEF NameOf, Begin, Post, Stop, CheckConflict, PlanElectric, CreateRole,
     CreateDatabase, Grant, InsertRow, CleanContainer, CleanRow, CleanDatabase, CleanRole
<1>2. /\ pc[p] \in OwnsRole => role[n] = p
      /\ pc[p] \in OwnsDatabase => db[n] = p
      /\ pc[p] \in OwnsRow => HasRow(p)
      /\ pc[p] # "done" => result[p] # "ok"
  BY DEF Owned
<1>3. \A q \in Projects : q # p => pc'[q] = pc[q] /\ result'[q] = result[q]
  <2>1. (\E label \in Labels : Goto(p, label)) \/ (\E outcome \in Outcomes : Return(p, outcome))
        \/ (\E outcome \in Outcomes : Abort(p, outcome))
        \/ Stop(p) \/ CleanRole(p)
    BY DEF Begin, Post, CheckConflict, PlanElectric, CreateRole, CreateDatabase, Grant,
       InsertRow, CleanContainer, CleanRow, CleanDatabase, Labels, PostLabels, Outcomes
  <2>2. ASSUME NEW label, Goto(p, label)
        PROVE  \A q \in Projects : q # p => pc'[q] = pc[q] /\ result'[q] = result[q]
    BY <2>2 DEF Goto, TypeOK, Processes
  <2>3. ASSUME NEW outcome, Return(p, outcome) \/ Abort(p, outcome)
        PROVE  \A q \in Projects : q # p => pc'[q] = pc[q] /\ result'[q] = result[q]
    BY <2>3 DEF Return, Abort, TypeOK, Processes
  <2>4. ASSUME Stop(p) \/ CleanRole(p)
        PROVE  \A q \in Projects : q # p => pc'[q] = pc[q] /\ result'[q] = result[q]
    BY <2>4 DEF Stop, CleanRole, TypeOK, Processes
  <2>5. QED
    BY <2>1, <2>2, <2>3, <2>4
\* What a POST does to the role and the database of its name.
<1>4. /\ \A m \in Names \ {n} : role'[m] = role[m] /\ db'[m] = db[m]
      /\ \/ UNCHANGED <<role, db>>
         \/ /\ pc[p] = "createRole" /\ role[n] = None /\ UNCHANGED db
            /\ role'[n] = p
         \/ /\ pc[p] = "createDB" /\ UNCHANGED role /\ db'[n] = p
         \/ /\ pc[p] = "cleanDB" /\ UNCHANGED role /\ db'[n] = None
         \/ /\ pc[p] = "cleanRole" /\ UNCHANGED db /\ db[n] = None /\ role'[n] = None
  <2>1. CASE CreateRole(p) \/ CleanRole(p)
    BY <1>0, <2>1 DEF CreateRole, CleanRole, TypeOK
  <2>2. CASE CreateDatabase(p) \/ CleanDatabase(p)
    BY <1>0, <2>2 DEF CreateDatabase, CleanDatabase, TypeOK
  <2>3. CASE UNCHANGED <<role, db>>
    BY <2>3
  <2>4. QED
    BY <2>1, <2>2, <2>3 DEF Begin, Post, Stop, CheckConflict, PlanElectric, Grant,
       InsertRow, CleanContainer, CleanRow, pg
<1>5. /\ \A q \in Projects : q # p => (HasRow(q) <=> HasRow(q)')
      /\ HasRow(p) /\ pc[p] # "cleanRow" => HasRow(p)'
  <2>1. CASE UNCHANGED row
    BY <2>1 DEF HasRow
  <2>2. CASE InsertRow(p)
    <3>1. [port |-> plan[p].port, secret |-> plan[p].secret, status |-> "provisioning"] # NoRow
      BY DEF NoRow
    <3>2. QED
      BY <2>1, <2>2, <3>1 DEF InsertRow, HasRow, TypeOK
  <2>3. CASE CleanRow(p)
    BY <2>1, <2>3 DEF CleanRow, HasRow, TypeOK
  <2>4. QED
    BY <2>1, <2>2, <2>3 DEF Begin, Post, Stop, CheckConflict, PlanElectric, CreateRole,
       CreateDatabase, Grant, CleanContainer, CleanDatabase, CleanRole, pg
\* Whose role it is, it stays; and so does the database.
<1>6. ASSUME NEW q \in Projects, q # p, role[NameOf(q)] = q
      PROVE  role'[NameOf(q)] = q /\ db'[NameOf(q)] = db[NameOf(q)]
  <2>1. NameOf(q) \in Names /\ q # None
    BY Targets, NoneAssumption
  <2>2. CASE NameOf(q) = n
    <3>1. pc[p] \notin OwnsRole /\ role[n] # None
      BY <1>2, <1>6, <2>1, <2>2
    <3>2. QED
      BY <1>4, <1>6, <2>2, <3>1 DEF OwnsRole
  <2>3. QED
    BY <1>4, <1>6, <2>1, <2>2
<1>7. QED
  BY <1>1, <1>3, <1>4, <1>5, <1>6

LEMMA PostOwned ==
  ASSUME TypeOK, Owned, NEW p \in Projects, Begin(p) \/ Post(p) \/ Stop(p)
  PROVE  Owned'
<1> DEFINE n == NameOf(p)
<1>0. p \in Processes /\ n \in Names /\ p # None
  BY Targets, NoneAssumption DEF Processes
<1>2. /\ pc[p] \in OwnsRole => role[n] = p
      /\ pc[p] \in OwnsDatabase => db[n] = p
      /\ pc[p] \in OwnsRow => HasRow(p)
      /\ pc[p] # "done" => result[p] # "ok"
  BY DEF Owned
<1>1. \A q \in Projects : NameOf(q)' = NameOf(q)
  BY PostMoves
<1>3. \A q \in Projects : q # p => pc'[q] = pc[q] /\ result'[q] = result[q]
  BY PostMoves
<1>4. /\ \A m \in Names \ {n} : role'[m] = role[m] /\ db'[m] = db[m]
      /\ \/ UNCHANGED <<role, db>>
         \/ /\ pc[p] = "createRole" /\ role[n] = None /\ UNCHANGED db
            /\ role'[n] = p
         \/ /\ pc[p] = "createDB" /\ UNCHANGED role /\ db'[n] = p
         \/ /\ pc[p] = "cleanDB" /\ UNCHANGED role /\ db'[n] = None
         \/ /\ pc[p] = "cleanRole" /\ UNCHANGED db /\ db[n] = None /\ role'[n] = None
  BY PostMoves
<1>5. /\ \A q \in Projects : q # p => (HasRow(q) <=> HasRow(q)')
      /\ HasRow(p) /\ pc[p] # "cleanRow" => HasRow(p)'
  BY PostMoves
<1>6. \A q \in Projects : q # p /\ role[NameOf(q)] = q =>
        role'[NameOf(q)] = q /\ db'[NameOf(q)] = db[NameOf(q)]
  BY PostMoves
<1> HIDE DEF n
<1>7. (\A m \in Names : db[m] # None => db[m] = role[m])'
  <2>1. \A m \in Names : db[m] # None => db[m] = role[m]
    BY DEF Owned
  <2>2. pc[p] \in {"createDB", "cleanDB", "cleanRole"} => role[n] = p
    BY <1>2 DEF OwnsRole
  <2>3. QED
    BY <1>0, <1>4, <2>1, <2>2
\* Where p comes from when it owns something after the step.
<1>8. /\ pc'[p] \in OwnsRole =>
           \/ pc[p] = "createRole" /\ role'[n] = p
           \/ pc[p] \in OwnsRole \ {"cleanRole"}
      /\ pc'[p] \in OwnsDatabase =>
           \/ pc[p] = "createDB" /\ db'[n] = p
           \/ pc[p] \in OwnsDatabase
      /\ pc'[p] \in OwnsRow => HasRow(p)'
      /\ result'[p] = "ok" => pc'[p] = "done" /\ pc[p] = "insert" /\ HasRow(p)'
  <2> USE <1>0 DEF OwnsRole, OwnsDatabase, OwnsRow, TypeOK
  <2>0. pc[p] # "done" /\ result[p] # "ok"
    BY <1>2 DEF Begin, Post, Stop, CheckConflict, PlanElectric, CreateRole, CreateDatabase,
       Grant, InsertRow, CleanContainer, CleanRow, CleanDatabase, CleanRole, PostLabels
  <2>1. CASE Begin(p) \/ CheckConflict(p) \/ PlanElectric(p)
    BY <2>0, <2>1 DEF Begin, CheckConflict, PlanElectric, Goto, Return
  <2>2. CASE CreateRole(p)
    BY <2>0, <2>2 DEF CreateRole, Goto, Return, n
  <2>3. CASE CreateDatabase(p)
    BY <2>0, <2>3 DEF CreateDatabase, Goto, Abort, n
  <2>4. CASE Grant(p)
    BY <2>0, <2>4 DEF Grant, Goto, Abort
  <2>5. CASE InsertRow(p)
    <3>1. [port |-> plan[p].port, secret |-> plan[p].secret, status |-> "provisioning"] # NoRow
      BY DEF NoRow
    <3>2. \/ HasRow(p)' /\ (Goto(p, "rm") \/ Return(p, "ok"))
          \/ \E outcome \in {"conflict", "error"} : Abort(p, outcome)
      BY <2>5, <3>1 DEF InsertRow, HasRow
    <3>3. pc[p] = "insert"
      BY <2>5 DEF InsertRow
    <3>4. QED
      BY <2>0, <3>2, <3>3 DEF Goto, Return, Abort
  <2>6. CASE CleanContainer(p) \/ CleanRow(p) \/ CleanDatabase(p)
    BY <2>0, <2>6 DEF CleanContainer, CleanRow, CleanDatabase, Goto
  <2>7. CASE CleanRole(p) \/ Stop(p)
    BY <2>0, <2>7 DEF CleanRole, Stop
  <2>8. QED
    BY <2>1, <2>2, <2>3, <2>4, <2>5, <2>6, <2>7 DEF Post
<1>9. /\ pc'[p] \in OwnsRole => role'[n] = p
      /\ pc'[p] \in OwnsDatabase => db'[n] = p
      /\ pc'[p] \in OwnsRow => HasRow(p)'
      /\ result'[p] = "ok" =>
           pc'[p] = "done" /\ role'[n] = p /\ db'[n] = p /\ HasRow(p)'
  BY <1>0, <1>2, <1>4, <1>8 DEF OwnsRole, OwnsDatabase
<1>10. ASSUME NEW q \in Projects, q # p
       PROVE  /\ pc'[q] \in OwnsRole => role'[NameOf(q)] = q
              /\ pc'[q] \in OwnsDatabase => db'[NameOf(q)] = q
              /\ pc'[q] \in OwnsRow => HasRow(q)'
              /\ result'[q] = "ok" =>
                   pc'[q] = "done" /\ role'[NameOf(q)] = q /\ db'[NameOf(q)] = q /\ HasRow(q)'
  <2>1. /\ pc[q] \in OwnsRole => role[NameOf(q)] = q
        /\ pc[q] \in OwnsDatabase => db[NameOf(q)] = q /\ pc[q] \in OwnsRole
        /\ pc[q] \in OwnsRow => HasRow(q)
        /\ result[q] = "ok" =>
             pc[q] = "done" /\ role[NameOf(q)] = q /\ db[NameOf(q)] = q /\ HasRow(q)
    BY DEF Owned, SuccessIsUsable, OwnsDatabase, OwnsRole
  <2>2. QED
    BY <1>3, <1>5, <1>6, <1>10, <2>1
<1>11. \A q \in Projects :
         /\ pc'[q] \in OwnsRole => role'[NameOf(q)] = q
         /\ pc'[q] \in OwnsDatabase => db'[NameOf(q)] = q
         /\ pc'[q] \in OwnsRow => HasRow(q)'
         /\ result'[q] = "ok" =>
              pc'[q] = "done" /\ role'[NameOf(q)] = q /\ db'[NameOf(q)] = q /\ HasRow(q)'
  BY <1>9, <1>10 DEF n
<1>12. QED
  BY <1>1, <1>7, <1>11 DEF Owned, SuccessIsUsable

LEMMA OwnedInit == Init => Owned
<1> SUFFICES ASSUME Init PROVE Owned
  OBVIOUS
<1>1. \A n \in Names : db[n] = role[n]
  BY DEF Init
<1>2. \A p \in Projects : pc[p] \in {"done", "idle"} /\ result[p] = "none"
  BY DEF Init, Processes
<1>3. QED
  BY <1>1, <1>2 DEF Owned, SuccessIsUsable, OwnsRole, OwnsDatabase, OwnsRow

LEMMA OwnedStep == TypeOK /\ Owned /\ [Next]_vars => Owned'
<1> SUFFICES ASSUME TypeOK, Owned, [Next]_vars PROVE Owned'
  OBVIOUS
<1>1. CASE UNCHANGED vars
  BY <1>1 DEF vars, Owned, SuccessIsUsable, NameOf, HasRow
<1>2. ASSUME NEW m \in Names, BecomeReady(m)
      PROVE  Owned'
  BY <1>2 DEF BecomeReady, pg, Owned, SuccessIsUsable, NameOf, HasRow
<1>3. QED
  BY <1>1, <1>2, PostOwned, StartOwned, SyncOwned DEF Next

\* A project answered 201 has its role, its database and its row from then on:
\* no other POST drops or alters what it owns, whatever fails elsewhere, a
\* cleanup that stops half-way included.
THEOREM SuccessIsUsableHolds == Spec => []SuccessIsUsable
<1>1. TypeOK /\ Owned /\ [Next]_vars => Owned'
  BY OwnedStep
<1>2. Owned => SuccessIsUsable
  BY DEF Owned
<1>3. QED
  BY <1>1, <1>2, OwnedInit, TypeCorrect, PTL DEF Spec

-----------------------------------------------------------------------------
(***************************************************************************)
(* RowIsBacked, where calls fail without an effect and a POST may be cut   *)
(* off anywhere: cleanup has deleted the row when it drops the database.   *)
(***************************************************************************)
Backed ==
  /\ RowIsBacked
  /\ \A p \in Projects : pc[p] \in {"cleanDB", "cleanRole"} => ~HasRow(p)
  /\ \A p \in Projects \ Legacy : HasRow(p) => "metadata" \in made[p]
  /\ \A p \in Legacy : pc[p] = "done"

LEMMA PostBacked ==
  ASSUME Faults \subseteq {"refuse", "stop"},
         TypeOK, Owned, Backed, NEW p \in Projects, Begin(p) \/ Post(p) \/ Stop(p)
  PROVE  Backed'
<1> DEFINE n == NameOf(p)
<1>0. p \in Processes /\ n \in Names /\ p # None
  BY Targets, NoneAssumption DEF Processes
<1>1. ~Lost /\ ~Skipped
  BY DEF Lost, Skipped
<1>2. p \notin Legacy
  BY DEF Backed, Begin, Post, Stop, CheckConflict, PlanElectric, CreateRole, CreateDatabase,
     Grant, InsertRow, CleanContainer, CleanRow, CleanDatabase, CleanRole, PostLabels
<1>3. /\ \A q \in Projects : NameOf(q)' = NameOf(q)
      /\ \A q \in Projects : q # p => pc'[q] = pc[q]
      /\ \A q \in Projects : q # p => (HasRow(q) <=> HasRow(q)')
      /\ \A q \in Projects : q # p /\ role[NameOf(q)] = q =>
           role'[NameOf(q)] = q /\ db'[NameOf(q)] = db[NameOf(q)]
  BY PostMoves
<1>4. \A q \in Projects : q # p => made'[q] = made[q]
  BY DEF TypeOK, Mark, Begin, Post, Stop, CheckConflict, PlanElectric, CreateRole,
     CreateDatabase, Grant, InsertRow, CleanContainer, CleanRow, CleanDatabase, CleanRole
<1>5. /\ HasRow(p) => role[n] = p /\ db[n] = p /\ "metadata" \in made[p]
      /\ pc[p] \in {"cleanDB", "cleanRole"} => ~HasRow(p)
      /\ pc[p] \in OwnsRole => role[n] = p
      /\ pc[p] \in OwnsDatabase => db[n] = p
  BY <1>2 DEF Backed, RowIsBacked, Owned
<1> HIDE DEF n
<1>6. "metadata" \in made[p] => "metadata" \in made'[p]
  BY DEF TypeOK, Mark, Begin, Post, Stop, CheckConflict, PlanElectric, CreateRole,
     CreateDatabase, Grant, InsertRow, CleanContainer, CleanRow, CleanDatabase, CleanRole
<1>7. /\ HasRow(p)' => role'[n] = p /\ db'[n] = p /\ "metadata" \in made'[p]
      /\ pc'[p] \in {"cleanDB", "cleanRole"} => ~HasRow(p)'
  <2>1. CASE UNCHANGED <<role, db, row>> /\ pc'[p] \notin {"cleanDB", "cleanRole"}
    <3>1. HasRow(p)' <=> HasRow(p)
      BY <2>1 DEF HasRow
    <3>2. QED
      BY <1>5, <1>6, <2>1, <3>1
  <2>2. CASE CreateRole(p)
    <3>1. HasRow(p)' <=> HasRow(p)
      BY <2>2 DEF CreateRole, HasRow
    <3>2. pc'[p] \notin {"cleanDB", "cleanRole"}
      BY <1>0, <2>2 DEF CreateRole, Goto, Return, TypeOK
    <3>3. UNCHANGED <<role, db>> \/ (role'[n] = p /\ UNCHANGED db)
      BY <1>0, <2>2 DEF CreateRole, TypeOK, n
    <3>4. QED
      BY <1>5, <1>6, <3>1, <3>2, <3>3
  <2>3. CASE CreateDatabase(p)
    <3>1. HasRow(p)' <=> HasRow(p)
      BY <2>3 DEF CreateDatabase, HasRow
    <3>2. pc'[p] \notin {"cleanDB", "cleanRole"}
      BY <1>0, <2>3 DEF CreateDatabase, Goto, Abort, TypeOK
    <3>3. UNCHANGED <<role, db>> \/ (db'[n] = p /\ UNCHANGED role)
      BY <1>0, <2>3 DEF CreateDatabase, TypeOK, n
    <3>4. QED
      BY <1>5, <1>6, <3>1, <3>2, <3>3
  <2>4. CASE InsertRow(p)
    <3>1. pc'[p] \notin {"cleanDB", "cleanRole"}
      BY <1>0, <2>4 DEF InsertRow, Goto, Return, Abort, TypeOK
    <3>2. UNCHANGED <<role, db>> /\ role[n] = p /\ db[n] = p
      BY <1>5, <2>4 DEF InsertRow, OwnsRole, OwnsDatabase
    <3>3. UNCHANGED row \/ "metadata" \in made'[p]
      BY <1>1, <2>4 DEF InsertRow, Mark, TypeOK
    <3>4. UNCHANGED row => (HasRow(p)' <=> HasRow(p))
      BY DEF HasRow
    <3>5. QED
      BY <1>5, <1>6, <3>1, <3>2, <3>3, <3>4
  <2>5. CASE CleanRow(p)
    <3>1. UNCHANGED <<role, db>>
      BY <2>5 DEF CleanRow
    <3>2. "metadata" \in made[p] => row'[p] = NoRow
      BY <1>1, <2>5 DEF CleanRow, TypeOK
    <3>3. "metadata" \notin made[p] => row' = row
      BY <2>5 DEF CleanRow
    <3>4. ~HasRow(p)'
      BY <1>5, <3>2, <3>3 DEF HasRow
    <3>5. QED
      BY <3>4
  <2>6. CASE CleanDatabase(p) \/ CleanRole(p)
    <3>1. ~HasRow(p)
      BY <1>5, <2>6 DEF CleanDatabase, CleanRole
    <3>2. ~HasRow(p)'
      BY <2>6, <3>1 DEF CleanDatabase, CleanRole, HasRow
    <3>3. QED
      BY <3>2
  <2>7. CASE Begin(p) \/ CheckConflict(p) \/ PlanElectric(p) \/ Grant(p)
             \/ CleanContainer(p) \/ Stop(p)
    <3>1. UNCHANGED <<role, db, row>>
      BY <2>7 DEF Begin, CheckConflict, PlanElectric, Grant, CleanContainer, Stop, pg
    <3>2. pc'[p] \notin {"cleanDB", "cleanRole"}
      BY <1>0, <2>7 DEF Begin, CheckConflict, PlanElectric, Grant, CleanContainer, Stop,
         Goto, Return, Abort, TypeOK
    <3>3. QED
      BY <2>1, <3>1, <3>2
  <2>8. QED
    BY <2>2, <2>3, <2>4, <2>5, <2>6, <2>7 DEF Post
<1>8. ASSUME NEW q \in Projects, q # p
      PROVE  /\ HasRow(q)' => role'[NameOf(q)] = q /\ db'[NameOf(q)] = q
             /\ pc'[q] \in {"cleanDB", "cleanRole"} => ~HasRow(q)'
             /\ q \notin Legacy /\ HasRow(q)' => "metadata" \in made'[q]
             /\ q \in Legacy => pc'[q] = "done"
  BY <1>3, <1>4, <1>8 DEF Backed, RowIsBacked
<1>9. \A q \in Projects :
        /\ HasRow(q)' => role'[NameOf(q)] = q /\ db'[NameOf(q)] = q
        /\ pc'[q] \in {"cleanDB", "cleanRole"} => ~HasRow(q)'
        /\ q \notin Legacy /\ HasRow(q)' => "metadata" \in made'[q]
        /\ q \in Legacy => pc'[q] = "done"
  BY <1>2, <1>7, <1>8 DEF n
<1>10. QED
  BY <1>3, <1>9, LegacyAssumption DEF Backed, RowIsBacked

LEMMA StartBacked ==
  ASSUME TypeOK, Owned, Backed, NEW x \in Processes, Start(x) \/ (x \in Syncs /\ Sync(x))
  PROVE  Backed'
<1>1. /\ \A p \in Projects : HasRow(p) <=> HasRow(p)'
      /\ UNCHANGED <<role, db, req>>
  BY RowsStay
<1>2. \A p \in Projects : \/ pc'[p] = pc[p]
                          \/ pc[p] # "done" /\ pc'[p] \notin {"cleanDB", "cleanRole"}
  <2>1. CASE Start(x)
    BY <2>1, StartMoves DEF OwnsRow
  <2>2. CASE x \in Syncs /\ Sync(x)
    BY <2>2, SyncMoves
  <2>3. QED
    BY <2>1, <2>2
<1>3. UNCHANGED made
  BY DEF Start, Sync, RemoveContainer, RunContainer, WaitReady, SetRunning,
     FindProject, Probe, FindFresh, ChooseElectric, UpdateElectric, SetError, Proxy
<1>4. \A p \in Projects : NameOf(p)' = NameOf(p)
  BY <1>1 DEF NameOf
<1>5. QED
  BY <1>1, <1>2, <1>3, <1>4, LegacyAssumption DEF Backed, RowIsBacked

LEMMA BackedInit == Init => Backed
<1> SUFFICES ASSUME Init PROVE Backed
  OBVIOUS
<1>1. TypeOK
  BY TypeInit
<1> DEFINE maker(n) == {p \in Legacy : NameOf(p) = n}
           of(n) == IF maker(n) = {} THEN None ELSE CHOOSE p \in maker(n) : TRUE
<1>2. role = [n \in Names |-> of(n)] /\ db = [n \in Names |-> of(n)]
  BY DEF Init
<1>3. ASSUME NEW p \in Legacy
      PROVE  of(NameOf(p)) = p
  <2>1. maker(NameOf(p)) = {p}
    BY LegacyAssumption DEF Init
  <2>2. QED
    BY <2>1
<1> HIDE DEF of
<1>4. \A p \in Legacy : role[NameOf(p)] = p /\ db[NameOf(p)] = p
  BY <1>1, <1>2, <1>3, Targets, LegacyAssumption
<1>5. \A p \in Projects \ Legacy : ~HasRow(p)
  BY DEF Init, HasRow
<1>6. \A p \in Projects : pc[p] \in {"done", "idle"} /\ (p \in Legacy => pc[p] = "done")
  BY DEF Init, Processes
<1>7. QED
  BY <1>4, <1>5, <1>6, LegacyAssumption DEF Backed, RowIsBacked

LEMMA BackedStep ==
  ASSUME Faults \subseteq {"refuse", "stop"}
  PROVE  TypeOK /\ Owned /\ Backed /\ [Next]_vars => Backed'
<1> SUFFICES ASSUME TypeOK, Owned, Backed, [Next]_vars PROVE Backed'
  OBVIOUS
<1>1. CASE UNCHANGED vars
  BY <1>1 DEF vars, Backed, RowIsBacked, NameOf, HasRow
<1>2. ASSUME NEW m \in Names, BecomeReady(m)
      PROVE  Backed'
  BY <1>2 DEF BecomeReady, pg, Backed, RowIsBacked, NameOf, HasRow
<1>3. ASSUME NEW s \in Syncs, Sync(s)
      PROVE  Backed'
  BY <1>3, StartBacked DEF Processes
<1>4. QED
  BY <1>1, <1>2, <1>3, PostBacked, StartBacked DEF Next

\* A row of public.projects stands on a role and a database of the same project,
\* for any number of POSTs and syncs, as long as a call that reports failure had no
\* effect; a POST may be cut off between any two of its calls, cleanup's included.
THEOREM RowIsBackedHolds ==
  ASSUME Faults \subseteq {"refuse", "stop"}
  PROVE  Spec => []RowIsBacked
<1>1. TypeOK /\ Owned /\ [Next]_vars => Owned'
  BY OwnedStep
<1>2. TypeOK /\ Owned /\ Backed /\ [Next]_vars => Backed'
  BY BackedStep
<1>3. Backed => RowIsBacked
  BY DEF Backed
<1>4. QED
  BY <1>1, <1>2, <1>3, OwnedInit, BackedInit, TypeCorrect, PTL DEF Spec

-----------------------------------------------------------------------------
(***************************************************************************)
(* AnswerIsOwn.  A secret is told from another by the process that drew    *)
(* it, and it never leaves that process's project: rows, hands and         *)
(* containers pass it on to the same project only.                         *)
(***************************************************************************)
Armed == {"update", "rm", "run", "wait", "running", "proxy"}

SecretsStay ==
  /\ \A p \in Projects : row[p].secret # None => ProjectOf(row[p].secret) = p
  /\ \A x \in Processes : plan[x].secret # None => ProjectOf(plan[x].secret) = ProjectOf(x)
  /\ \A n \in Names : container[n].secret # None => ContainerOf(container[n].secret) = n
  /\ \A s \in Syncs : pc[s] \in Armed => plan[s].secret # None

\* Where the secret of a row comes from in a step: nowhere new, or somebody's hands.
LEMMA RowSecrets ==
  ASSUME TypeOK, Next, NEW q \in Projects
  PROVE  \/ row'[q].secret \in {None, row[q].secret}
         \/ \E x \in Processes : ProjectOf(x) = q /\ row'[q].secret = plan[x].secret
<1>0. NoRow.secret = None
  BY DEF NoRow
<1>1. CASE UNCHANGED row
  BY <1>1
<1>2. ASSUME NEW p \in Projects, InsertRow(p)
      PROVE  \/ row'[q].secret = row[q].secret
             \/ p \in Processes /\ ProjectOf(p) = q /\ row'[q].secret = plan[p].secret
  BY <1>2, ProcessAssumption DEF InsertRow, TypeOK, ProjectOf, Processes
<1>3. ASSUME NEW p \in Projects, CleanRow(p)
      PROVE  row'[q].secret \in {None, row[q].secret}
  BY <1>0, <1>3 DEF CleanRow, TypeOK
<1>4. ASSUME NEW p \in Projects, NEW status, Update(p, WithStatus(p, status))
      PROVE  row'[q].secret = row[q].secret
  BY <1>4 DEF Update, WithStatus, TypeOK
<1>5. ASSUME NEW s \in Syncs, UpdateElectric(s)
      PROVE  \/ row'[q].secret = row[q].secret
             \/ s \in Processes /\ ProjectOf(s) = q /\ row'[q].secret = plan[s].secret
  BY <1>5 DEF UpdateElectric, Update, TypeOK, ProjectOf, Processes
<1>6. ASSUME NEW x \in Processes, SetRunning(x)
      PROVE  row'[q].secret = row[q].secret
  BY <1>4, <1>6, Targets DEF SetRunning
<1>7. ASSUME NEW s \in Syncs, SetError(s)
      PROVE  row'[q].secret = row[q].secret
  BY <1>4, <1>7, Targets DEF SetError
<1>8. ASSUME NEW p \in Projects, Begin(p) \/ Post(p) \/ Stop(p)
      PROVE  UNCHANGED row \/ InsertRow(p) \/ CleanRow(p)
  BY <1>8 DEF Begin, Post, Stop, CheckConflict, PlanElectric, CreateRole,
     CreateDatabase, Grant, CleanContainer, CleanDatabase, CleanRole, pg
<1>9. ASSUME NEW s \in Syncs, Sync(s)
      PROVE  UNCHANGED row \/ UpdateElectric(s) \/ SetError(s)
  BY <1>9 DEF Sync, FindProject, Probe, FindFresh, ChooseElectric, Proxy, pg
<1>10. ASSUME NEW x \in Processes, Start(x)
       PROVE  UNCHANGED row \/ SetRunning(x)
  BY <1>10 DEF Start, RemoveContainer, RunContainer, WaitReady, pg
<1>11. ASSUME NEW n \in Names, BecomeReady(n)
       PROVE  UNCHANGED row
  BY <1>11 DEF BecomeReady, pg
<1>12. QED
  BY <1>1, <1>2, <1>3, <1>5, <1>6, <1>7, <1>8, <1>9, <1>10, <1>11 DEF Next

\* Where the secret in somebody's hands comes from: the row, or a draw.
LEMMA PlanSecrets ==
  ASSUME TypeOK, Next, NEW y \in Processes
  PROVE  plan'[y].secret \in {plan[y].secret, row[ProjectOf(y)].secret, y}
<1>1. CASE UNCHANGED plan
  BY <1>1
<1>2. ASSUME NEW p \in Projects, PlanElectric(p)
      PROVE  plan'[y].secret \in {plan[y].secret, y}
  BY <1>2 DEF PlanElectric, Secret, TypeOK
<1>3. ASSUME NEW s \in Syncs, FindProject(s) \/ FindFresh(s)
      PROVE  plan'[y].secret \in {plan[y].secret, row[ProjectOf(y)].secret}
  BY <1>3 DEF FindProject, FindFresh, Electric, ProjectOf, TypeOK
<1>4. ASSUME NEW s \in Syncs, ChooseElectric(s)
      PROVE  plan'[y].secret \in {plan[y].secret, y}
  <2> DEFINE port == IF plan[s].port = 0 THEN Lowest(FreePorts) ELSE plan[s].port
             secret == IF plan[s].secret = None THEN Secret(s) ELSE plan[s].secret
  <2>1. \/ plan' = [plan EXCEPT ![s] = [port |-> port, secret |-> secret]]
        \/ UNCHANGED plan
    BY <1>4 DEF ChooseElectric
  <2>2. secret \in {plan[s].secret, s}
    BY DEF Secret
  <2> HIDE DEF port, secret
  <2>3. QED
    BY <2>1, <2>2 DEF TypeOK
<1>5. ASSUME NEW p \in Projects, Begin(p) \/ Post(p) \/ Stop(p)
      PROVE  UNCHANGED plan \/ PlanElectric(p)
  BY <1>5 DEF Begin, Post, Stop, CheckConflict, CreateRole, CreateDatabase, Grant,
     InsertRow, CleanContainer, CleanRow, CleanDatabase, CleanRole
<1>6. ASSUME NEW s \in Syncs, Sync(s)
      PROVE  UNCHANGED plan \/ FindProject(s) \/ FindFresh(s) \/ ChooseElectric(s)
  BY <1>6 DEF Sync, Probe, UpdateElectric, SetError, Proxy
<1>7. ASSUME NEW x \in Processes, Start(x)
      PROVE  UNCHANGED plan
  BY <1>7 DEF Start, RemoveContainer, RunContainer, WaitReady, SetRunning
<1>8. ASSUME NEW n \in Names, BecomeReady(n)
      PROVE  UNCHANGED plan
  BY <1>8 DEF BecomeReady
<1>9. QED
  BY <1>1, <1>2, <1>3, <1>4, <1>5, <1>6, <1>7, <1>8 DEF Next

\* Where the secret of a container comes from: who runs it has it in hand.
LEMMA ContainerSecrets ==
  ASSUME TypeOK, Next, NEW n \in Names
  PROVE  \/ container'[n].secret \in {None, container[n].secret}
         \/ \E x \in Processes : ContainerOf(x) = n /\ container'[n].secret = plan[x].secret
<1>0. Absent.secret = None
  BY DEF Absent
<1>1. CASE UNCHANGED container
  BY <1>1
<1>2. ASSUME NEW p \in Projects, CleanContainer(p)
      PROVE  container'[n].secret \in {None, container[n].secret}
  BY <1>0, <1>2 DEF CleanContainer, TypeOK
<1>3. ASSUME NEW x \in Processes, RemoveContainer(x)
      PROVE  container'[n].secret \in {None, container[n].secret}
  BY <1>0, <1>3 DEF RemoveContainer, TypeOK
<1>4. ASSUME NEW x \in Processes, RunContainer(x)
      PROVE  \/ container'[n].secret = container[n].secret
             \/ ContainerOf(x) = n /\ container'[n].secret = plan[x].secret
  BY <1>4 DEF RunContainer, TypeOK
<1>5. ASSUME NEW m \in Names, BecomeReady(m)
      PROVE  container'[n].secret = container[n].secret
  BY <1>5 DEF BecomeReady, TypeOK
<1>6. ASSUME NEW p \in Projects, Begin(p) \/ Post(p) \/ Stop(p)
      PROVE  UNCHANGED container \/ CleanContainer(p)
  BY <1>6 DEF Begin, Post, Stop, CheckConflict, PlanElectric, CreateRole, CreateDatabase,
     Grant, InsertRow, CleanRow, CleanDatabase, CleanRole
<1>7. ASSUME NEW s \in Syncs, Sync(s)
      PROVE  UNCHANGED container
  BY <1>7 DEF Sync, FindProject, Probe, FindFresh, ChooseElectric, UpdateElectric,
     SetError, Proxy
<1>8. ASSUME NEW x \in Processes, Start(x)
      PROVE  UNCHANGED container \/ RemoveContainer(x) \/ RunContainer(x)
  BY <1>8 DEF Start, WaitReady, SetRunning
<1>9. QED
  BY <1>1, <1>2, <1>3, <1>4, <1>5, <1>6, <1>7, <1>8 DEF Next

\* Nobody changes what a process asks for or stands for.
LEMMA Fixed ==
  ASSUME Next
  PROVE  /\ UNCHANGED <<req, target>>
         /\ \A x : ProjectOf(x)' = ProjectOf(x) /\ ContainerOf(x)' = ContainerOf(x)
<1>1. UNCHANGED <<req, target>>
  <2>1. ASSUME NEW p \in Projects, Begin(p) \/ Post(p) \/ Stop(p)
        PROVE  UNCHANGED <<req, target>>
    BY <2>1 DEF Begin, Post, Stop, CheckConflict, PlanElectric, CreateRole, CreateDatabase,
       Grant, InsertRow, CleanContainer, CleanRow, CleanDatabase, CleanRole
  <2>2. ASSUME NEW s \in Syncs, Sync(s)
        PROVE  UNCHANGED <<req, target>>
    BY <2>2 DEF Sync, FindProject, Probe, FindFresh, ChooseElectric, UpdateElectric,
       SetError, Proxy
  <2>3. ASSUME NEW x \in Processes, Start(x)
        PROVE  UNCHANGED <<req, target>>
    BY <2>3 DEF Start, RemoveContainer, RunContainer, WaitReady, SetRunning
  <2>4. ASSUME NEW n \in Names, BecomeReady(n)
        PROVE  UNCHANGED <<req, target>>
    BY <2>4 DEF BecomeReady
  <2>5. QED
    BY <2>1, <2>2, <2>3, <2>4 DEF Next
<1>2. QED
  BY <1>1 DEF ProjectOf, ContainerOf, NameOf

\* A sync that may write a secret, run a container or send the secret has one.
LEMMA ArmedStep ==
  ASSUME TypeOK, SecretsStay, Next, NEW s \in Syncs, pc'[s] \in Armed
  PROVE  plan'[s].secret # None
<1>0. s \in Processes /\ s \notin Projects /\ s # None
  BY ProcessAssumption, NoneAssumption DEF Processes
<1>1. CASE pc'[s] = pc[s] /\ plan'[s] = plan[s]
  BY <1>1 DEF SecretsStay
<1>2. CASE pc[s] \in Armed /\ UNCHANGED plan
  BY <1>2 DEF SecretsStay
<1>3. CASE Sync(s)
  <2>1. CASE FindProject(s) \/ FindFresh(s) \/ SetError(s)
    BY <1>0, <2>1 DEF FindProject, FindFresh, SetError, Goto, Return, Armed, TypeOK
  <2>2. CASE Probe(s)
    <3>1. UNCHANGED plan /\ (Provisioned(s) \/ pc'[s] \in {"fresh", "choose"})
      BY <1>0, <2>2 DEF Probe, Goto, TypeOK
    <3>2. QED
      BY <3>1 DEF Provisioned, Armed
  <2>3. CASE ChooseElectric(s)
    <3> DEFINE port == IF plan[s].port = 0 THEN Lowest(FreePorts) ELSE plan[s].port
               secret == IF plan[s].secret = None THEN Secret(s) ELSE plan[s].secret
    <3>1. \/ plan' = [plan EXCEPT ![s] = [port |-> port, secret |-> secret]]
          \/ Return(s, "error")
      BY <2>3 DEF ChooseElectric
    <3>2. secret # None
      BY <1>0 DEF Secret
    <3> HIDE DEF port, secret
    <3>3. ~Return(s, "error")
      BY <1>0 DEF Return, Armed, TypeOK
    <3>4. QED
      BY <1>0, <3>1, <3>2, <3>3 DEF TypeOK
  <2>4. CASE UpdateElectric(s) \/ Proxy(s)
    BY <1>2, <2>4 DEF UpdateElectric, Proxy, Armed
  <2>5. QED
    BY <1>3, <2>1, <2>2, <2>3, <2>4 DEF Sync
<1>4. CASE Start(s)
  <2>1. pc[s] \in Armed /\ UNCHANGED plan
    BY <1>4 DEF Start, RemoveContainer, RunContainer, WaitReady, SetRunning, Armed
  <2>2. QED
    BY <1>2, <2>1
<1>5. ASSUME NEW t \in Syncs, t # s, Sync(t)
      PROVE  pc'[s] = pc[s] /\ plan'[s] = plan[s]
  <2>1. (\E label \in Labels : Goto(t, label)) \/ (\E outcome \in Outcomes : Return(t, outcome))
    BY <1>5 DEF Sync, FindProject, Probe, FindFresh, ChooseElectric, UpdateElectric, SetError,
       Proxy, Labels, SyncLabels, Outcomes
  <2>2. pc'[s] = pc[s]
    BY <1>0, <1>5, <2>1 DEF Goto, Return, TypeOK
  <2>3. plan'[s] = plan[s]
    <3>1. CASE FindProject(t) \/ FindFresh(t)
      BY <1>0, <1>5, <3>1 DEF FindProject, FindFresh, TypeOK
    <3>2. CASE ChooseElectric(t)
      BY <1>0, <1>5, <3>2 DEF ChooseElectric, TypeOK
    <3>3. QED
      BY <1>5, <3>1, <3>2 DEF Sync, Probe, UpdateElectric, SetError, Proxy
  <2>4. QED
    BY <2>2, <2>3
<1>6. ASSUME NEW x \in Processes, x # s, Start(x)
      PROVE  pc'[s] = pc[s] /\ plan'[s] = plan[s]
  <2>1. \/ \E label \in Labels : Goto(x, label)
        \/ \E outcome \in Outcomes : Return(x, outcome) \/ Abort(x, outcome)
    BY <1>6 DEF Start, RemoveContainer, RunContainer, WaitReady, SetRunning, Fail,
       Labels, PostLabels, SyncLabels, Outcomes
  <2>2. pc'[s] = pc[s]
    BY <1>0, <1>6, <2>1 DEF Goto, Return, Abort, TypeOK
  <2>3. UNCHANGED plan
    BY <1>6 DEF Start, RemoveContainer, RunContainer, WaitReady, SetRunning
  <2>4. QED
    BY <2>2, <2>3
<1>7. ASSUME NEW p \in Projects, Begin(p) \/ Post(p) \/ Stop(p)
      PROVE  pc'[s] = pc[s] /\ plan'[s] = plan[s]
  <2>1. \/ \E label \in Labels : Goto(p, label)
        \/ \E outcome \in Outcomes : Return(p, outcome) \/ Abort(p, outcome)
        \/ Stop(p) \/ CleanRole(p)
    BY <1>7 DEF Begin, Post, CheckConflict, PlanElectric, CreateRole, CreateDatabase, Grant,
       InsertRow, CleanContainer, CleanRow, CleanDatabase, Labels, PostLabels, Outcomes
  <2>2. pc'[s] = pc[s]
    BY <1>0, <2>1 DEF Goto, Return, Abort, Stop, CleanRole, TypeOK
  <2>3. plan'[s] = plan[s]
    <3>1. CASE PlanElectric(p)
      BY <1>0, <3>1 DEF PlanElectric, TypeOK
    <3>2. QED
      BY <1>7, <3>1 DEF Begin, Post, Stop, CheckConflict, CreateRole, CreateDatabase, Grant,
         InsertRow, CleanContainer, CleanRow, CleanDatabase, CleanRole
  <2>4. QED
    BY <2>2, <2>3
<1>8. ASSUME NEW n \in Names, BecomeReady(n)
      PROVE  pc'[s] = pc[s] /\ plan'[s] = plan[s]
  BY <1>8 DEF BecomeReady
<1>9. QED
  BY <1>1, <1>3, <1>4, <1>5, <1>6, <1>7, <1>8 DEF Next

LEMMA SecretsStep == TypeOK /\ SecretsStay /\ [Next]_vars => SecretsStay'
<1> SUFFICES ASSUME TypeOK, SecretsStay, [Next]_vars PROVE SecretsStay'
  OBVIOUS
<1>1. CASE UNCHANGED vars
  BY <1>1 DEF vars, SecretsStay, ProjectOf, ContainerOf, NameOf
<1>2. CASE Next
  <2>1. \A x : ProjectOf(x)' = ProjectOf(x) /\ ContainerOf(x)' = ContainerOf(x)
    BY <1>2, Fixed
  <2>2. ASSUME NEW q \in Projects, row'[q].secret # None
        PROVE  ProjectOf(row'[q].secret) = q
    BY <1>2, <2>2, RowSecrets DEF SecretsStay
  <2>3. ASSUME NEW x \in Processes, plan'[x].secret # None
        PROVE  ProjectOf(plan'[x].secret) = ProjectOf(x)
    BY <1>2, <2>3, PlanSecrets, Targets DEF SecretsStay
  <2>4. ASSUME NEW n \in Names, container'[n].secret # None
        PROVE  ContainerOf(container'[n].secret) = n
    BY <1>2, <2>4, ContainerSecrets DEF SecretsStay, ContainerOf
  <2>5. \A s \in Syncs : pc'[s] \in Armed => plan'[s].secret # None
    BY <1>2, ArmedStep
  <2>6. QED
    BY <2>1, <2>2, <2>3, <2>4, <2>5 DEF SecretsStay
<1>3. QED
  BY <1>1, <1>2

LEMMA SecretsInit == Init => SecretsStay
<1> SUFFICES ASSUME Init PROVE SecretsStay
  OBVIOUS
<1>1. NoRow.secret = None /\ NoPlan.secret = None /\ Absent.secret = None
  BY DEF NoRow, NoPlan, Absent
<1>2. \A p \in Projects : row[p].secret = None
  BY <1>1 DEF Init
<1>3. \A x \in Processes : plan[x].secret = None
  BY <1>1 DEF Init
<1>4. \A n \in Names : container[n].secret = None
  BY <1>1 DEF Init
<1>5. \A s \in Syncs : pc[s] \notin Armed
  BY DEF Init, Armed, Processes
<1>6. QED
  BY <1>2, <1>3, <1>4, <1>5 DEF SecretsStay

\* A sync whose project still has its row is answered with shapes of its own
\* database only, whatever ports collide and however many syncs and POSTs there are,
\* as long as a call that reports failure had no effect.
THEOREM AnswerIsOwnHolds ==
  ASSUME Faults \subseteq {"refuse", "stop"}
  PROVE  Spec => []AnswerIsOwn
<1>1. TypeOK /\ RowIsBacked /\ SecretsStay => AnswerIsOwn
  <2> SUFFICES ASSUME TypeOK, RowIsBacked, SecretsStay, NEW s \in Syncs, NEW n \in Names,
                      pc[s] = "proxy", HasRow(target[s]),
                      container[n].secret = plan[s].secret
               PROVE  db[n] = target[s]
    BY DEF AnswerIsOwn
  <2>1. plan[s].secret # None
    BY DEF SecretsStay, Armed
  <2>2. ProjectOf(plan[s].secret) = target[s]
    BY <2>1, Targets DEF SecretsStay, ProjectOf
  <2>3. NameOf(ProjectOf(plan[s].secret)) = n
    BY <2>1 DEF SecretsStay, ContainerOf
  <2>4. NameOf(target[s]) = n /\ target[s] \in Projects
    BY <2>2, <2>3, Targets
  <2>5. QED
    BY <2>4 DEF RowIsBacked
<1>2. Spec => []RowIsBacked
  BY RowIsBackedHolds
<1>3. QED
  BY <1>1, <1>2, SecretsInit, SecretsStep, TypeCorrect, PTL DEF Spec

-----------------------------------------------------------------------------
(***************************************************************************)
(* SuccessIsServed and AllOrNothing, which speak of POSTs alone.  Nobody   *)
(* but the project that owns the role of a name starts or removes the      *)
(* container of that name.                                                 *)
(***************************************************************************)
Moves(x) == Begin(x) \/ Post(x) \/ Stop(x) \/ Start(x)

LEMMA OthersStay ==
  ASSUME Syncs = {}, TypeOK, Owned, NEW x \in Projects, Moves(x), NEW p \in Projects, p # x
  PROVE  /\ pc'[p] = pc[p] /\ result'[p] = result[p] /\ row'[p] = row[p]
         /\ plan'[p] = plan[p] /\ made'[p] = made[p]
         /\ role[NameOf(p)] = p => container'[NameOf(p)] = container[NameOf(p)]
<1>0. x \in Processes /\ p \in Processes /\ ProjectOf(x) = x /\ ContainerOf(x) = NameOf(x)
  BY DEF Processes, ProjectOf, ContainerOf
<1>1. pc'[p] = pc[p] /\ result'[p] = result[p]
  <2>1. CASE Start(x)
    BY <1>0, <2>1, StartMoves
  <2>2. CASE Begin(x) \/ Post(x) \/ Stop(x)
    BY <2>2, PostMoves
  <2>3. QED
    BY <2>1, <2>2 DEF Moves
<1>2. row'[p] = row[p]
  <2>1. CASE InsertRow(x) \/ CleanRow(x)
    BY <2>1 DEF InsertRow, CleanRow, TypeOK
  <2>2. CASE SetRunning(x)
    BY <1>0, <2>2 DEF SetRunning, Update, TypeOK
  <2>3. CASE UNCHANGED row
    BY <2>3
  <2>4. QED
    BY <2>1, <2>2, <2>3 DEF Moves, Begin, Post, Stop, Start, CheckConflict, PlanElectric,
       CreateRole, CreateDatabase, Grant, CleanContainer, CleanDatabase, CleanRole,
       RemoveContainer, RunContainer, WaitReady, pg
<1>3. plan'[p] = plan[p]
  <2>1. CASE PlanElectric(x)
    BY <1>0, <2>1 DEF PlanElectric, TypeOK
  <2>2. QED
    BY <2>1 DEF Moves, Begin, Post, Stop, Start, CheckConflict, CreateRole, CreateDatabase,
       Grant, InsertRow, CleanContainer, CleanRow, CleanDatabase, CleanRole,
       RemoveContainer, RunContainer, WaitReady, SetRunning
<1>4. made'[p] = made[p]
  BY DEF TypeOK, Mark, Moves, Begin, Post, Stop, Start, CheckConflict, PlanElectric,
     CreateRole, CreateDatabase, Grant, InsertRow, CleanContainer, CleanRow, CleanDatabase,
     CleanRole, RemoveContainer, RunContainer, WaitReady, SetRunning
<1>5. ASSUME role[NameOf(p)] = p
      PROVE  container'[NameOf(p)] = container[NameOf(p)]
  <2>1. CASE UNCHANGED container
    BY <2>1
  <2>2. CASE CleanContainer(x) \/ RemoveContainer(x) \/ RunContainer(x)
    <3>1. pc[x] \in OwnsRole
      BY <2>2 DEF CleanContainer, RemoveContainer, RunContainer, OwnsRole
    <3>2. NameOf(x) # NameOf(p)
      BY <1>5, <3>1 DEF Owned
    <3>3. NameOf(p) \in Names /\ NameOf(x) \in Names
      BY Targets
    <3>4. UNCHANGED container \/ \E c : container' = [container EXCEPT ![NameOf(x)] = c]
      BY <1>0, <2>2 DEF CleanContainer, RemoveContainer, RunContainer
    <3>5. QED
      BY <3>2, <3>3, <3>4 DEF TypeOK
  <2>3. QED
    BY <2>1, <2>2 DEF Moves, Begin, Post, Stop, Start, CheckConflict, PlanElectric,
       CreateRole, CreateDatabase, Grant, InsertRow, CleanRow, CleanDatabase, CleanRole,
       WaitReady, SetRunning
<1>6. QED
  BY <1>1, <1>2, <1>3, <1>4, <1>5

\* Electric in a container that becomes ready is the one that was started.
LEMMA ReadyKeeps ==
  ASSUME TypeOK, NEW m \in Names, BecomeReady(m), NEW n \in Names
  PROVE  /\ Up(n)' <=> Up(n)
         /\ container'[n].port = container[n].port
         /\ container'[n].secret = container[n].secret
BY DEF BecomeReady, TypeOK, Up

Serves(p) ==
  /\ Up(NameOf(p))
  /\ container[NameOf(p)].port = plan[p].port
  /\ container[NameOf(p)].secret = plan[p].secret

RowIsPlan(p) == row[p].port = plan[p].port /\ row[p].secret = plan[p].secret

Serving(p) ==
  /\ pc[p] \in {"rm", "run", "wait", "running"} => RowIsPlan(p)
  /\ pc[p] \in {"wait", "running"} => Serves(p)
  /\ result[p] = "ok" /\ ElectricEnabled => RowIsPlan(p) /\ Serves(p)

LEMMA ServingSelf ==
  ASSUME Syncs = {}, TypeOK, Owned, NEW p \in Projects, Serving(p), Moves(p)
  PROVE  Serving(p)'
<1>0. /\ p \in Processes /\ NameOf(p) \in Names /\ p \notin Syncs
      /\ ProjectOf(p) = p /\ ContainerOf(p) = NameOf(p)
  BY Targets DEF Processes, ProjectOf, ContainerOf
<1>1. NameOf(p)' = NameOf(p)
  BY DEF NameOf, Moves, Begin, Post, Stop, Start, CheckConflict, PlanElectric, CreateRole,
     CreateDatabase, Grant, InsertRow, CleanContainer, CleanRow, CleanDatabase, CleanRole,
     RemoveContainer, RunContainer, WaitReady, SetRunning
<1>2. pc[p] # "done" /\ result[p] # "ok"
  BY DEF Owned, Moves, Begin, Post, Stop, Start, CheckConflict, PlanElectric, CreateRole,
     CreateDatabase, Grant, InsertRow, CleanContainer, CleanRow, CleanDatabase, CleanRole,
     RemoveContainer, RunContainer, WaitReady, SetRunning, PostLabels
<1> DEFINE Quiescent == pc'[p] \notin {"rm", "run", "wait", "running"} /\ result'[p] # "ok"
<1>3. Quiescent => Serving(p)'
  BY DEF Serving
<1> HIDE DEF Quiescent
<1>4. CASE Begin(p) \/ CheckConflict(p) \/ PlanElectric(p) \/ CreateRole(p)
           \/ CreateDatabase(p) \/ Grant(p)
  <2>1. pc'[p] \notin {"rm", "run", "wait", "running"} /\ result'[p] # "ok"
    BY <1>0, <1>2, <1>4 DEF Begin, CheckConflict, PlanElectric, CreateRole, CreateDatabase,
       Grant, Goto, Return, Abort, TypeOK
  <2>2. QED
    BY <1>3, <2>1 DEF Quiescent
<1>5. CASE CleanContainer(p) \/ CleanRow(p) \/ CleanDatabase(p) \/ CleanRole(p) \/ Stop(p)
  <2>1. pc'[p] \notin {"rm", "run", "wait", "running"} /\ result'[p] # "ok"
    BY <1>0, <1>2, <1>5 DEF CleanContainer, CleanRow, CleanDatabase, CleanRole, Stop,
       Goto, TypeOK
  <2>2. QED
    BY <1>3, <2>1 DEF Quiescent
<1>6. CASE InsertRow(p)
  <2>1. CASE pc'[p] = "rm"
    <3>1. ~(\E outcome : Abort(p, outcome)) /\ ~(\E outcome : Return(p, outcome))
      BY <1>0, <2>1 DEF Abort, Return, TypeOK
    <3>2. /\ row'[p] = [port |-> plan[p].port, secret |-> plan[p].secret,
                        status |-> "provisioning"]
          /\ UNCHANGED <<plan, result>>
      BY <1>6, <3>1 DEF InsertRow, Goto, TypeOK
    <3>3. RowIsPlan(p)'
      BY <3>2 DEF RowIsPlan
    <3>4. QED
      BY <1>2, <2>1, <3>2, <3>3 DEF Serving
  <2>2. CASE pc'[p] # "rm"
    <3>1. /\ pc'[p] \notin {"rm", "run", "wait", "running"}
          /\ result'[p] # "ok" \/ ~ElectricEnabled
      BY <1>0, <1>2, <1>6, <2>2 DEF InsertRow, Goto, Return, Abort, TypeOK
    <3>2. QED
      BY <3>1, ElectricAssumption DEF Serving
  <2>3. QED
    BY <2>1, <2>2
<1>7. CASE RemoveContainer(p)
  <2>1. /\ pc[p] = "rm" /\ UNCHANGED <<row, plan>>
        /\ pc'[p] \in {"run", "cleanRm"} /\ result'[p] # "ok"
    BY <1>0, <1>2, <1>7 DEF RemoveContainer, Fail, Goto, Abort, pg, TypeOK
  <2>2. RowIsPlan(p)'
    BY <2>1 DEF Serving, RowIsPlan
  <2>3. QED
    BY <2>1, <2>2 DEF Serving
<1>8. CASE RunContainer(p)
  <2>1. /\ pc[p] = "run" /\ UNCHANGED <<row, plan>> /\ result'[p] # "ok"
        /\ \/ pc'[p] = "cleanRm"
           \/ /\ pc'[p] = "wait"
              /\ container'[NameOf(p)] = [state |-> "starting", port |-> plan[p].port,
                                          secret |-> plan[p].secret]
    BY <1>0, <1>2, <1>8 DEF RunContainer, Fail, Goto, Abort, pg, TypeOK
  <2>2. RowIsPlan(p)'
    BY <2>1 DEF Serving, RowIsPlan
  <2>3. pc'[p] = "wait" => Serves(p)'
    BY <1>1, <2>1 DEF Serves, Up
  <2>4. QED
    BY <2>1, <2>2, <2>3 DEF Serving
<1>9. CASE WaitReady(p)
  <2>1. /\ pc[p] = "wait" /\ UNCHANGED <<row, plan, container>> /\ result'[p] # "ok"
        /\ pc'[p] \in {"running", "cleanRm"}
    BY <1>0, <1>2, <1>9 DEF WaitReady, Fail, Goto, Abort, pg, TypeOK
  <2>2. RowIsPlan(p)' /\ Serves(p)'
    BY <1>1, <2>1 DEF Serving, RowIsPlan, Serves, Up
  <2>3. QED
    BY <2>1, <2>2 DEF Serving
<1>10. CASE SetRunning(p)
  <2>1. /\ pc[p] = "running" /\ UNCHANGED <<plan, container>> /\ pc'[p] = "done"
        /\ row'[p].port = row[p].port /\ row'[p].secret = row[p].secret
    BY <1>0, <1>10 DEF SetRunning, Update, WithStatus, Return, TypeOK
  <2>2. RowIsPlan(p)' /\ Serves(p)'
    BY <1>1, <2>1 DEF Serving, RowIsPlan, Serves, Up
  <2>3. QED
    BY <2>1, <2>2 DEF Serving
<1>11. QED
  BY <1>4, <1>5, <1>6, <1>7, <1>8, <1>9, <1>10 DEF Moves, Post, Start

LEMMA ServingOthers ==
  ASSUME Syncs = {}, TypeOK, Owned, NEW p \in Projects, Serving(p),
         \/ \E x \in Projects : x # p /\ Moves(x)
         \/ \E m \in Names : BecomeReady(m)
  PROVE  Serving(p)'
<1>0. NameOf(p) \in Names
  BY Targets
<1>1. ASSUME NEW x \in Projects, x # p, Moves(x)
      PROVE  Serving(p)'
  <2>1. /\ pc'[p] = pc[p] /\ result'[p] = result[p] /\ row'[p] = row[p]
        /\ plan'[p] = plan[p]
        /\ role[NameOf(p)] = p => container'[NameOf(p)] = container[NameOf(p)]
    BY <1>1, OthersStay
  <2>2. NameOf(p)' = NameOf(p)
    BY <1>1 DEF NameOf, Moves, Begin, Post, Stop, Start, CheckConflict, PlanElectric,
       CreateRole, CreateDatabase, Grant, InsertRow, CleanContainer, CleanRow, CleanDatabase,
       CleanRole, RemoveContainer, RunContainer, WaitReady, SetRunning
  <2>3. pc[p] \in {"wait", "running"} \/ result[p] = "ok" => role[NameOf(p)] = p
    BY DEF Owned, SuccessIsUsable, OwnsRole
  <2>4. RowIsPlan(p)' <=> RowIsPlan(p)
    BY <2>1 DEF RowIsPlan
  <2>5. role[NameOf(p)] = p => (Serves(p)' <=> Serves(p))
    BY <2>1, <2>2 DEF Serves, Up
  <2>6. QED
    BY <2>1, <2>3, <2>4, <2>5 DEF Serving
<1>2. ASSUME NEW m \in Names, BecomeReady(m)
      PROVE  Serving(p)'
  <2>1. UNCHANGED <<req, pc, result, plan, row>>
    BY <1>2 DEF BecomeReady, pg
  <2>2. RowIsPlan(p)' <=> RowIsPlan(p)
    BY <2>1 DEF RowIsPlan
  <2>3. Serves(p)' <=> Serves(p)
    BY <1>0, <1>2, <2>1, ReadyKeeps DEF Serves, NameOf
  <2>4. QED
    BY <2>1, <2>2, <2>3 DEF Serving
<1>3. QED
  BY <1>1, <1>2

LEMMA ServingInit == Init => \A p \in Projects : Serving(p)
BY DEF Init, Serving, Processes

LEMMA ServingStep ==
  ASSUME Syncs = {}
  PROVE  TypeOK /\ Owned /\ (\A p \in Projects : Serving(p)) /\ [Next]_vars
         => (\A p \in Projects : Serving(p))'
<1> SUFFICES ASSUME TypeOK, Owned, \A p \in Projects : Serving(p), [Next]_vars,
                    NEW p \in Projects
             PROVE  Serving(p)'
  OBVIOUS
<1>1. CASE UNCHANGED vars
  BY <1>1 DEF vars, Serving, Serves, RowIsPlan, Up, NameOf
<1>2. CASE Next
  <2>1. (\E x \in Projects : Moves(x)) \/ (\E m \in Names : BecomeReady(m))
    BY <1>2 DEF Next, Moves, Processes
  <2>2. QED
    BY <2>1, ServingSelf, ServingOthers
<1>3. QED
  BY <1>1, <1>2

\* As long as only POSTs run, a project answered 201 is served by the container it
\* started, for any number of them, whatever ports they are given and whatever fails.
THEOREM SuccessIsServedHolds ==
  ASSUME Syncs = {}
  PROVE  Spec => []SuccessIsServed
<1> DEFINE AllServing == \A p \in Projects : Serving(p)
<1>1. Init => AllServing
  BY ServingInit
<1>2. TypeOK /\ Owned /\ AllServing /\ [Next]_vars => AllServing'
  BY ServingStep
<1>3. AllServing => SuccessIsServed
  BY DEF Serving, SuccessIsServed, Serves, RowIsPlan
<1> HIDE DEF AllServing
<1>4. QED
  BY <1>1, <1>2, <1>3, OwnedInit, OwnedStep, TypeCorrect, PTL DEF Spec

-----------------------------------------------------------------------------
(***************************************************************************)
(* AllOrNothing: what a POST has made at each of its labels, and that its  *)
(* flags and its cleanup miss none of it.                                  *)
(***************************************************************************)
NoRoleYet == {"idle", "conflict", "port", "createRole"}
NoDatabaseYet == NoRoleYet \cup {"createDB"}
NoRowYet == NoDatabaseYet \cup {"grant", "insert"}
NoContainerYet == NoRowYet \cup {"rm", "run"}

Settled(p) ==
  \/ /\ role[NameOf(p)] = p /\ db[NameOf(p)] = p /\ HasRow(p)
     /\ Up(NameOf(p)) /\ container[NameOf(p)].secret = p
     /\ result[p] = "ok" \/ row[p].status = "provisioning"
  \/ /\ role[NameOf(p)] # p /\ db[NameOf(p)] # p /\ ~HasRow(p)
     /\ container[NameOf(p)].secret # p
     /\ result[p] # "ok"

Whole(p) ==
  /\ pc[p] \in NoRoleYet => role[NameOf(p)] # p
  /\ pc[p] \in NoDatabaseYet \cup {"cleanRole"} => db[NameOf(p)] # p
  /\ pc[p] \in NoRowYet => ~HasRow(p)
  /\ pc[p] \in NoContainerYet => container[NameOf(p)].secret # p
  /\ role[NameOf(p)] = p => "role" \in made[p]
  /\ db[NameOf(p)] = p => "db" \in made[p]
  /\ pc[p] \in OwnsRow => row[p].status = "provisioning"
  /\ pc[p] \in {"createRole", "createDB", "grant", "insert"} \cup OwnsRow => plan[p].secret = p
  /\ pc[p] \in {"cleanRow", "cleanDB", "cleanRole"} => container[NameOf(p)] = Absent
  /\ pc[p] = "done" => Settled(p)

\* What is not p's does not become p's by a step of another POST, and what is p's stays.
LEMMA OthersNever ==
  ASSUME Syncs = {}, TypeOK, Owned, SecretsStay, NEW x \in Projects, Moves(x),
         NEW p \in Projects, p # x, NEW n, n = NameOf(p)
  PROVE  /\ role'[n] = p => role[n] = p
         /\ db'[n] = p => db[n] = p
         /\ container'[n].secret = p => container[n].secret = p
         /\ role[n] = p => role'[n] = p /\ db'[n] = db[n]
<1>0. /\ n \in Names /\ NameOf(x) \in Names /\ x \in Processes /\ p # None
      /\ ProjectOf(x) = x /\ ContainerOf(x) = NameOf(x) /\ ProjectOf(p) = p
  BY Targets, NoneAssumption DEF Processes, ProjectOf, ContainerOf
<1>1. CASE Start(x)
  <2>1. UNCHANGED <<role, db>>
    BY <1>0, <1>1, RowsStay
  <2>2. container'[n].secret = p => container[n].secret = p
    <3>1. CASE RemoveContainer(x)
      <4>1. Absent.secret # p
        BY <1>0 DEF Absent
      <4>2. QED
        BY <1>0, <3>1, <4>1 DEF RemoveContainer, TypeOK
    <3>2. CASE RunContainer(x)
      <4>1. plan[x].secret # p
        BY <1>0 DEF SecretsStay
      <4>2. container'[n].secret \in {container[n].secret, plan[x].secret}
        BY <1>0, <3>2 DEF RunContainer, TypeOK
      <4>3. QED
        BY <4>1, <4>2
    <3>3. QED
      BY <1>1, <3>1, <3>2 DEF Start, WaitReady, SetRunning
  <2>3. QED
    BY <2>1, <2>2
<1>2. CASE Begin(x) \/ Post(x) \/ Stop(x)
  <2>1. /\ \A m \in Names \ {NameOf(x)} : role'[m] = role[m] /\ db'[m] = db[m]
        /\ \/ UNCHANGED <<role, db>>
           \/ UNCHANGED db /\ role'[NameOf(x)] \in {x, None}
           \/ UNCHANGED role /\ db'[NameOf(x)] \in {x, None}
        /\ role[n] = p => role'[n] = p /\ db'[n] = db[n]
    BY <1>2, PostMoves
  <2>2. container'[n].secret = p => container[n].secret = p
    <3>1. Absent.secret # p
      BY <1>0 DEF Absent
    <3>2. UNCHANGED container \/ container' = [container EXCEPT ![NameOf(x)] = Absent]
      BY <1>2 DEF Begin, Post, Stop, CheckConflict, PlanElectric, CreateRole, CreateDatabase,
         Grant, InsertRow, CleanContainer, CleanRow, CleanDatabase, CleanRole
    <3>3. QED
      BY <1>0, <3>1, <3>2 DEF TypeOK
  <2>3. QED
    BY <1>0, <2>1, <2>2
<1>3. QED
  BY <1>1, <1>2 DEF Moves

LEMMA WholeOthers ==
  ASSUME Syncs = {}, TypeOK, Owned, SecretsStay, NEW p \in Projects, Whole(p),
         \/ \E x \in Projects : x # p /\ Moves(x)
         \/ \E m \in Names : BecomeReady(m)
  PROVE  Whole(p)'
<1>0. NameOf(p) \in Names /\ p # None
  BY Targets, NoneAssumption
<1>1. ASSUME NEW x \in Projects, x # p, Moves(x)
      PROVE  Whole(p)'
  <2> DEFINE n == NameOf(p)
  <2>1. /\ pc'[p] = pc[p] /\ result'[p] = result[p] /\ row'[p] = row[p]
        /\ plan'[p] = plan[p] /\ made'[p] = made[p]
        /\ role[n] = p => container'[n] = container[n]
    BY <1>1, OthersStay
  <2>2. /\ role'[n] = p => role[n] = p
        /\ db'[n] = p => db[n] = p
        /\ container'[n].secret = p => container[n].secret = p
        /\ role[n] = p => role'[n] = p /\ db'[n] = db[n]
    BY <1>1, OthersNever
  <2>3. n' = n
    BY <1>1 DEF NameOf, Moves, Begin, Post, Stop, Start, CheckConflict, PlanElectric,
       CreateRole, CreateDatabase, Grant, InsertRow, CleanContainer, CleanRow, CleanDatabase,
       CleanRole, RemoveContainer, RunContainer, WaitReady, SetRunning
  <2>4. pc[p] \in {"cleanRow", "cleanDB", "cleanRole"} => role[n] = p
    BY DEF Owned, OwnsRole
  <2>5. HasRow(p)' <=> HasRow(p)
    BY <2>1 DEF HasRow
  <2>6. role[n] = p => (Up(n)' <=> Up(n))
    BY <2>1, <2>3 DEF Up
  <2> HIDE DEF n
  <2>7. Settled(p) => Settled(p)'
    BY <2>1, <2>2, <2>3, <2>5, <2>6 DEF Settled, n
  <2>8. QED
    BY <2>1, <2>2, <2>3, <2>4, <2>5, <2>7 DEF Whole, n
<1>2. ASSUME NEW m \in Names, BecomeReady(m)
      PROVE  Whole(p)'
  <2>1. UNCHANGED <<req, pc, result, plan, row, made, role, db>>
    BY <1>2 DEF BecomeReady, pg
  <2>2. /\ Up(NameOf(p))' <=> Up(NameOf(p))
        /\ container'[NameOf(p)].secret = container[NameOf(p)].secret
    BY <1>0, <1>2, <2>1, ReadyKeeps DEF NameOf
  <2>3. container[NameOf(p)] = Absent => container'[NameOf(p)] = Absent
    BY <1>0, <1>2 DEF BecomeReady, Absent, TypeOK
  <2>4. Settled(p) => Settled(p)'
    BY <2>1, <2>2 DEF Settled, NameOf, HasRow
  <2>5. QED
    BY <2>1, <2>2, <2>3, <2>4 DEF Whole, NameOf, HasRow
<1>3. QED
  BY <1>1, <1>2

LEMMA WholeSelf ==
  ASSUME Syncs = {}, Faults \subseteq {"refuse", "stop"}, ElectricEnabled,
         TypeOK, Owned, Backed, NEW p \in Projects, Serving(p), Whole(p), Moves(p)
  PROVE  Whole(p)'
<1> DEFINE n == NameOf(p)
<1>0. /\ p \in Processes /\ n \in Names /\ p \notin Syncs /\ p # None
      /\ ProjectOf(p) = p /\ ContainerOf(p) = n
  BY Targets, NoneAssumption DEF Processes, ProjectOf, ContainerOf
<1>1. n' = n
  BY DEF NameOf, Moves, Begin, Post, Stop, Start, CheckConflict, PlanElectric, CreateRole,
     CreateDatabase, Grant, InsertRow, CleanContainer, CleanRow, CleanDatabase, CleanRole,
     RemoveContainer, RunContainer, WaitReady, SetRunning
<1>2. ~Lost /\ ~Skipped
  BY DEF Lost, Skipped
<1>3. result[p] # "ok"
  BY DEF Owned, Moves, Begin, Post, Stop, Start, CheckConflict, PlanElectric, CreateRole,
     CreateDatabase, Grant, InsertRow, CleanContainer, CleanRow, CleanDatabase, CleanRole,
     RemoveContainer, RunContainer, WaitReady, SetRunning, PostLabels
<1>4. /\ pc[p] \in OwnsRole => role[n] = p
      /\ pc[p] \in OwnsDatabase => db[n] = p
      /\ pc[p] \in OwnsRow => HasRow(p)
      /\ db[n] # None => db[n] = role[n]
  BY <1>0 DEF Owned
<1>5. Absent.secret # p
  BY <1>0 DEF Absent
<1> HIDE DEF n
<1> USE <1>0, <1>1, <1>2, <1>3
       DEF NoRoleYet, NoDatabaseYet, NoRowYet, NoContainerYet, OwnsRow
\* The calls before CREATE ROLE: p has nothing, and returns with nothing.
<1>6. CASE Begin(p) \/ CheckConflict(p) \/ PlanElectric(p)
  <2>1. UNCHANGED <<role, db, row, container, made>>
    BY <1>6 DEF Begin, CheckConflict, PlanElectric, pg
  <2>2. /\ pc[p] \in {"idle", "conflict", "port"}
        /\ pc'[p] \in {"conflict", "port", "createRole", "done"} /\ result'[p] # "ok"
        /\ pc'[p] = "createRole" => plan'[p].secret = p
    <3>1. CASE Begin(p) \/ CheckConflict(p)
      BY <3>1 DEF Begin, CheckConflict, Goto, Return, TypeOK
    <3>2. CASE PlanElectric(p)
      BY <3>2 DEF PlanElectric, Secret, Goto, Return, TypeOK
    <3>3. QED
      BY <1>6, <3>1, <3>2
  <2>3. HasRow(p)' <=> HasRow(p)
    BY <2>1 DEF HasRow
  <2>4. /\ role[n] # p /\ db[n] # p /\ ~HasRow(p) /\ container[n].secret # p
    BY <2>2 DEF Whole, n
  <2>5. QED
    BY <2>1, <2>2, <2>3, <2>4 DEF Whole, Settled, n
<1>7. CASE CreateRole(p)
  <2>1. /\ pc[p] = "createRole" /\ UNCHANGED <<db, row, container, plan>> /\ result'[p] # "ok"
        /\ \/ pc'[p] = "createDB" /\ role'[n] = p /\ "role" \in made'[p]
           \/ pc'[p] = "done" /\ UNCHANGED <<role, made>>
    BY <1>7 DEF CreateRole, Mark, Goto, Return, TypeOK, n
  <2>2. HasRow(p)' <=> HasRow(p)
    BY <2>1 DEF HasRow
  <2>3. QED
    BY <2>1, <2>2 DEF Whole, Settled, n
<1>8. CASE CreateDatabase(p)
  <2>1. /\ pc[p] = "createDB" /\ UNCHANGED <<role, row, container, plan>> /\ result'[p] # "ok"
        /\ \/ pc'[p] = "grant" /\ db'[n] = p /\ made'[p] = made[p] \cup {"db"}
           \/ pc'[p] = "cleanRm" /\ UNCHANGED <<db, made>>
    BY <1>8 DEF CreateDatabase, Mark, Goto, Abort, TypeOK, n
  <2>2. HasRow(p)' <=> HasRow(p)
    BY <2>1 DEF HasRow
  <2>3. QED
    BY <2>1, <2>2 DEF Whole, n
<1>9. CASE Grant(p)
  <2>1. /\ pc[p] = "grant" /\ UNCHANGED <<role, db, row, container, plan, made>>
        /\ pc'[p] \in {"insert", "cleanRm"}
    BY <1>9 DEF Grant, pg, Goto, Abort, TypeOK
  <2>2. HasRow(p)' <=> HasRow(p)
    BY <2>1 DEF HasRow
  <2>3. QED
    BY <2>1, <2>2 DEF Whole, n
<1>10. CASE InsertRow(p)
  <2>1. /\ pc[p] = "insert" /\ UNCHANGED <<role, db, container, plan>>
        /\ made'[p] \in {made[p], made[p] \cup {"metadata"}}
        /\ \/ pc'[p] = "rm" /\ row'[p].status = "provisioning"
           \/ pc'[p] = "cleanRm"
    BY <1>10 DEF InsertRow, Mark, Goto, Abort, TypeOK
  <2>2. QED
    BY <2>1 DEF Whole, n
\* The calls of startElectric: p has a row with its plan, and then a container.
<1>11. CASE RemoveContainer(p)
  <2>1. /\ pc[p] = "rm" /\ UNCHANGED <<role, db, row, plan, made>>
        /\ pc'[p] \in {"run", "cleanRm"} /\ container'[n].secret \in {container[n].secret, None}
    <3>1. Absent.secret = None
      BY DEF Absent
    <3>2. QED
      BY <1>11, <3>1 DEF RemoveContainer, Fail, Goto, Abort, pg, TypeOK
  <2>2. QED
    BY <2>1 DEF Whole, n
<1>12. CASE RunContainer(p)
  <2>1. /\ pc[p] = "run" /\ UNCHANGED <<role, db, row, plan, made>>
        /\ pc'[p] \in {"wait", "cleanRm"}
    BY <1>12 DEF RunContainer, Fail, Goto, Abort, pg, TypeOK
  <2>2. QED
    BY <2>1 DEF Whole, n
<1>13. CASE WaitReady(p)
  <2>1. /\ pc[p] = "wait" /\ UNCHANGED <<role, db, row, plan, made, container>>
        /\ pc'[p] \in {"running", "cleanRm"}
    BY <1>13 DEF WaitReady, Fail, Goto, Abort, pg, TypeOK
  <2>2. QED
    BY <2>1 DEF Whole, n
<1>14. CASE SetRunning(p)
  <2>1. /\ pc[p] = "running" /\ UNCHANGED <<role, db, plan, made, container>>
        /\ pc'[p] = "done"
    BY <1>14 DEF SetRunning, Return, TypeOK
  <2>2. result'[p] = "ok" \/ row'[p].status = row[p].status
    BY <1>14 DEF SetRunning, Return, TypeOK
  <2>3. HasRow(p)'
    BY <1>4, <1>14, <2>1, RowsStay DEF Start
  <2>4. role'[n] = p /\ db'[n] = p
    BY <1>4, <2>1 DEF OwnsRole, OwnsDatabase
  <2>5. Up(n)' /\ container'[n].secret = p
    <3>1. Up(n) /\ container[n].secret = plan[p].secret /\ plan[p].secret = p
      BY <2>1 DEF Serving, Serves, Whole, n
    <3>2. QED
      BY <2>1, <3>1 DEF Up
  <2>6. row[p].status = "provisioning"
    BY <2>1 DEF Whole
  <2>7. Settled(p)'
    BY <2>2, <2>3, <2>4, <2>5, <2>6 DEF Settled, n
  <2>8. QED
    BY <2>1, <2>7 DEF Whole, n
\* cleanup, which misses nothing: the flags say what there is, and the container
\* is gone when the database is dropped.
<1>15. CASE CleanContainer(p)
  <2>1. /\ pc[p] = "cleanRm" /\ UNCHANGED <<role, db, row, plan, made>>
        /\ pc'[p] = "cleanRow" /\ container'[n] = Absent
    BY <1>15 DEF CleanContainer, Goto, pg, TypeOK, n
  <2>2. QED
    BY <2>1 DEF Whole, n
<1>16. CASE CleanRow(p)
  <2>1. /\ pc[p] = "cleanRow" /\ UNCHANGED <<role, db, plan, made, container>>
        /\ pc'[p] = "cleanDB"
    BY <1>16 DEF CleanRow, Goto, TypeOK
  <2>2. QED
    BY <2>1 DEF Whole, n
<1>17. CASE CleanDatabase(p)
  <2>1. /\ pc[p] = "cleanDB" /\ UNCHANGED <<role, row, plan, made, container>>
        /\ pc'[p] = "cleanRole"
    BY <1>17 DEF CleanDatabase, Goto, TypeOK
  <2>2. container[n] = Absent
    BY <2>1 DEF Whole, n
  <2>3. ~Up(n)
    BY <2>2 DEF Up, Absent
  <2>4. db'[n] = None \/ (db' = db /\ "db" \notin made[p])
    BY <1>17, <2>3 DEF CleanDatabase, TypeOK, n
  <2>5. db'[n] # p
    BY <2>4 DEF Whole, n
  <2>6. QED
    BY <2>1, <2>2, <2>5 DEF Whole, n
<1>18. CASE CleanRole(p)
  <2>1. /\ pc[p] = "cleanRole" /\ UNCHANGED <<db, row, plan, made, container, result>>
        /\ pc'[p] = "done"
    BY <1>18 DEF CleanRole, TypeOK
  <2>2. role[n] = p /\ db[n] # p /\ container[n] = Absent /\ "role" \in made[p]
    BY <1>4, <2>1 DEF Whole, OwnsRole, n
  <2>3. db[n] = None
    BY <1>4, <2>2
  <2>4. role'[n] = None
    BY <1>18, <2>2, <2>3 DEF CleanRole, TypeOK, n
  <2>5. ~HasRow(p)'
    BY <2>1 DEF Backed, HasRow
  <2>6. Settled(p)'
    BY <1>5, <2>1, <2>2, <2>4, <2>5 DEF Settled, n
  <2>7. QED
    BY <2>1, <2>2, <2>4, <2>6 DEF Whole, n
<1>19. CASE Stop(p)
  <2>1. /\ UNCHANGED <<role, db, row, plan, made, container>> /\ pc'[p] = "stopped"
    BY <1>19 DEF Stop, pg, TypeOK
  <2>2. QED
    BY <2>1 DEF Whole, n
<1>20. QED
  BY <1>6, <1>7, <1>8, <1>9, <1>10, <1>11, <1>12, <1>13, <1>14, <1>15, <1>16, <1>17,
     <1>18, <1>19 DEF Moves, Post, Start

\* When the calls of provisionDatabase fail cleanly, a POST that has ended has left
\* its role, database, row and container, or none of the four, for any number of
\* POSTs, names and ports.
THEOREM AllOrNothingHolds ==
  ASSUME Syncs = {}, Faults \subseteq {"refuse", "stop"}
  PROVE  Spec => []AllOrNothing
<1> DEFINE AllServing == \A p \in Projects : Serving(p)
           AllWhole == \A p \in Projects \ Legacy : ElectricEnabled => Whole(p)
<1>1. Init => AllWhole
  <2> SUFFICES ASSUME Init, NEW p \in Projects \ Legacy
               PROVE  Whole(p)
    OBVIOUS
  <2>1. pc[p] = "idle" /\ ~HasRow(p) /\ p # None
    BY NoneAssumption DEF Init, HasRow, Processes
  <2>2. NameOf(p) \in Names
    BY TypeInit, Targets
  <2>3. \A n \in Names : role[n] # p /\ db[n] # p
    <3> DEFINE maker(n) == {q \in Legacy : NameOf(q) = n}
               of(n) == IF maker(n) = {} THEN None ELSE CHOOSE q \in maker(n) : TRUE
    <3>1. \A n \in Names : of(n) # p
      BY <2>1
    <3>2. role = [n \in Names |-> of(n)] /\ db = [n \in Names |-> of(n)]
      BY DEF Init
    <3> HIDE DEF of
    <3>3. QED
      BY <3>1, <3>2
  <2>4. container[NameOf(p)].secret # p
    BY <2>1, <2>2 DEF Init, Absent
  <2>5. QED
    BY <2>1, <2>2, <2>3, <2>4 DEF Whole, OwnsRow
<1>2. TypeOK /\ Owned /\ Backed /\ SecretsStay /\ AllServing /\ AllWhole /\ [Next]_vars
      => AllWhole'
  <2> SUFFICES ASSUME TypeOK, Owned, Backed, SecretsStay, AllServing, AllWhole, [Next]_vars,
                      NEW p \in Projects \ Legacy, ElectricEnabled
               PROVE  Whole(p)'
    OBVIOUS
  <2>1. CASE UNCHANGED vars
    BY <2>1 DEF vars, Whole, Settled, Up, NameOf, HasRow
  <2>2. CASE Next
    <3>1. (\E x \in Projects : Moves(x)) \/ (\E m \in Names : BecomeReady(m))
      BY <2>2 DEF Next, Moves, Processes
    <3>2. QED
      BY <3>1, WholeSelf, WholeOthers
  <2>3. QED
    BY <2>1, <2>2
<1>3. AllWhole => AllOrNothing
  BY DEF Whole, Settled, AllOrNothing
<1>4. Init => AllServing
  BY ServingInit
<1>5. TypeOK /\ Owned /\ AllServing /\ [Next]_vars => AllServing'
  BY ServingStep
<1>6. TypeOK /\ Owned /\ Backed /\ [Next]_vars => Backed'
  BY BackedStep
<1> HIDE DEF AllServing, AllWhole
<1>7. QED
  BY <1>1, <1>2, <1>3, <1>4, <1>5, <1>6, OwnedInit, OwnedStep, BackedInit, SecretsInit,
     SecretsStep, TypeCorrect, PTL DEF Spec

-----------------------------------------------------------------------------
(***************************************************************************)
(* ImplementsNameClaim: the role is the claim.                             *)
(***************************************************************************)

\* The POST of a project from before is over.
LegacyDone == \A p \in Legacy : pc[p] = "done"

\* A POST that is over never moves again.
LEMMA DoneStays ==
  ASSUME TypeOK, [Next]_vars, NEW p \in Projects, pc[p] = "done"
  PROVE  pc'[p] = "done"
<1>1. CASE UNCHANGED vars
  BY <1>1 DEF vars
<1>2. ASSUME NEW q \in Projects, Begin(q) \/ Post(q) \/ Stop(q)
      PROVE  pc'[p] = "done"
  <2>1. pc[q] # "done"
    BY <1>2 DEF Begin, Post, Stop, CheckConflict, PlanElectric, CreateRole, CreateDatabase,
       Grant, InsertRow, CleanContainer, CleanRow, CleanDatabase, CleanRole, PostLabels
  <2>2. \/ \E label \in Labels : Goto(q, label)
        \/ \E outcome \in Outcomes : Return(q, outcome) \/ Abort(q, outcome)
        \/ CleanRole(q) \/ Stop(q)
    BY <1>2 DEF Begin, Post, CheckConflict, PlanElectric, CreateRole, CreateDatabase,
       Grant, InsertRow, CleanContainer, CleanRow, CleanDatabase, Labels, PostLabels, Outcomes
  <2>3. p # q
    BY <2>1
  <2>4. QED
    BY <2>2, <2>3 DEF Goto, Return, Abort, CleanRole, Stop, TypeOK, Processes
<1>3. ASSUME NEW x \in Processes, Start(x)
      PROVE  pc'[p] = "done"
  BY <1>3, StartMoves DEF OwnsRow
<1>4. ASSUME NEW s \in Syncs, Sync(s)
      PROVE  pc'[p] = "done"
  BY <1>4, SyncMoves
<1>5. ASSUME NEW n \in Names, BecomeReady(n)
      PROVE  pc'[p] = "done"
  BY <1>5 DEF BecomeReady
<1>6. QED
  BY <1>1, <1>2, <1>3, <1>4, <1>5 DEF Next

LEMMA LegacyDoneHolds == Spec => []LegacyDone
<1>1. Init => LegacyDone
  BY LegacyAssumption DEF Init, LegacyDone, Processes
<1>2. TypeOK /\ LegacyDone /\ [Next]_vars => LegacyDone'
  BY DoneStays, LegacyAssumption DEF LegacyDone
<1>3. QED
  BY <1>1, <1>2, TypeCorrect, PTL DEF Spec

\* A step of a POST that is answered 201 in it changes no role, and the POST has its own.
LEMMA AnswerKeepsRole ==
  ASSUME TypeOK, Owned, NEW p \in Projects,
         Begin(p) \/ Post(p) \/ Stop(p) \/ Start(p), result'[p] = "ok", result[p] # "ok"
  PROVE  UNCHANGED role /\ role[NameOf(p)] = p
<1>0. p \in Processes
  BY DEF Processes
<1>1. CASE Start(p)
  <2>1. pc[p] \in OwnsRow
    BY <1>0, <1>1, StartMoves
  <2>2. UNCHANGED role
    BY <1>0, <1>1, RowsStay
  <2>3. QED
    BY <2>1, <2>2 DEF Owned, OwnsRow, OwnsRole
<1>2. CASE InsertRow(p)
  BY <1>2 DEF InsertRow, Owned, OwnsRole
<1>3. CASE Begin(p) \/ CheckConflict(p) \/ PlanElectric(p) \/ CreateRole(p)
           \/ CreateDatabase(p) \/ Grant(p)
  BY <1>0, <1>3 DEF Begin, CheckConflict, PlanElectric, CreateRole, CreateDatabase, Grant,
     Goto, Return, Abort, TypeOK
<1>4. CASE CleanContainer(p) \/ CleanRow(p) \/ CleanDatabase(p) \/ CleanRole(p) \/ Stop(p)
  BY <1>0, <1>4 DEF CleanContainer, CleanRow, CleanDatabase, CleanRole, Stop, Goto, TypeOK
<1>5. QED
  BY <1>1, <1>2, <1>3, <1>4 DEF Post

\* An answer 201 is never taken back.
LEMMA AnswerStays ==
  ASSUME TypeOK, Owned, NEW p \in Projects, result[p] = "ok",
         Begin(p) \/ Post(p) \/ Stop(p) \/ Start(p)
  PROVE  FALSE
<1>1. pc[p] = "done"
  BY DEF Owned
<1>2. pc[p] # "done"
  BY DEF Begin, Post, Stop, Start, CheckConflict, PlanElectric, CreateRole, CreateDatabase,
     Grant, InsertRow, CleanContainer, CleanRow, CleanDatabase, CleanRole, PostLabels,
     RemoveContainer, RunContainer, WaitReady, SetRunning
<1>3. QED
  BY <1>1, <1>2

\* What a step of one POST does to its own role: it makes it where there is none, it drops
\* its own, or it leaves all of them alone.
LEMMA RoleSteps ==
  ASSUME TypeOK, Owned, LegacyDone, NEW p \in Projects, Begin(p) \/ Post(p) \/ Stop(p),
         role' # role
  PROVE  /\ p \notin Legacy /\ result[p] # "ok"
         /\ \/ role[NameOf(p)] = None /\ role' = [role EXCEPT ![NameOf(p)] = p]
            \/ role[NameOf(p)] = p /\ role' = [role EXCEPT ![NameOf(p)] = None]
<1>1. CreateRole(p) \/ CleanRole(p)
  BY DEF Begin, Post, Stop, CheckConflict, PlanElectric, CreateDatabase, Grant,
     InsertRow, CleanContainer, CleanRow, CleanDatabase, pg
<1>2. pc[p] \in {"createRole", "cleanRole"}
  BY <1>1 DEF CreateRole, CleanRole
<1>3. p \notin Legacy /\ result[p] # "ok"
  BY <1>2 DEF LegacyDone, Owned
<1>4. pc[p] = "cleanRole" => role[NameOf(p)] = p
  BY DEF Owned, OwnsRole
<1>5. QED
  BY <1>1, <1>3, <1>4 DEF CreateRole, CleanRole

\* Provisioning in the database model implements NameClaim too, for any projects from
\* before, syncs, ports and faults: CREATE ROLE claims the name, an answer 201 grants it,
\* the last call of cleanup releases it, and every other step, those of startElectric and
\* of every sync included, is a stutter.
THEOREM NameClaimImplemented == Spec => ImplementsNameClaim
<1>1. Init => Claims!Init
  <2> SUFFICES ASSUME Init PROVE Claims!Init
    OBVIOUS
  <2> DEFINE maker(n) == {p \in Legacy : NameOf(p) = n}
             of(n) == IF maker(n) = {} THEN None ELSE CHOOSE p \in maker(n) : TRUE
             want == [p \in Projects |-> NameOf(p)]
  <2>1. role = [n \in Names |-> of(n)]
    BY DEF Init
  <2>2. \A p \in Projects : NameOf(p) \in Names /\ p # None
    BY NoneAssumption DEF Init, NameOf
  <2>3. ASSUME NEW n \in Names
        PROVE  /\ of(n) \in Legacy \cup {None}
               /\ of(n) # None => NameOf(of(n)) = n
    BY LegacyAssumption
  <2>4. ASSUME NEW p \in Legacy
        PROVE  of(NameOf(p)) = p
    <3>1. maker(NameOf(p)) = {p}
      BY <2>4, LegacyAssumption DEF Init
    <3>2. QED
      BY <3>1
  <2> HIDE DEF of
  <2>5. \A n \in Names : role[n] = of(n)
    BY <2>1
  <2>6. role \in [Names -> Projects \cup {None}]
    BY <2>1, <2>3, LegacyAssumption
  <2>7. \A n \in Names : role[n] # None => want[role[n]] = n
    BY <2>3, <2>5, LegacyAssumption
  <2>8. {p \in Projects : result[p] = "ok"} = {}
    BY DEF Init, Processes
  <2>9. \A p \in Projects : role[want[p]] = p <=> p \in Legacy
    BY <2>2, <2>3, <2>4, <2>5
  <2>10. Legacy \cup {p \in Projects : result[p] = "ok"}
           = {p \in Projects : role[want[p]] = p}
    BY <2>8, <2>9, LegacyAssumption
  <2>11. want \in [Projects -> Names]
    BY <2>2
  <2>12. QED
    BY <2>6, <2>7, <2>10, <2>11 DEF Claims!Init
<1>2. TypeOK /\ Owned /\ LegacyDone /\ [Next]_vars => [Claims!Next]_(Claims!vars)
  <2> DEFINE want == [p \in Projects |-> NameOf(p)]
             granted == Legacy \cup {p \in Projects : result[p] = "ok"}
  <2> SUFFICES ASSUME TypeOK, Owned, LegacyDone, [Next]_vars
               PROVE  Claims!Next \/ UNCHANGED <<want, role, granted>>
    BY DEF Claims!vars
  <2>1. CASE UNCHANGED vars
    BY <2>1 DEF vars, NameOf
  <2>2. ASSUME NEW p \in Projects, Begin(p) \/ Post(p) \/ Stop(p) \/ Start(p)
        PROVE  Claims!Next \/ UNCHANGED <<want, role, granted>>
    <3>0. p \in Processes
      BY DEF Processes
    <3>1. UNCHANGED want /\ want[p] = NameOf(p)
      <4>1. UNCHANGED req
        BY <2>2 DEF Begin, Post, Stop, Start, CheckConflict, PlanElectric, CreateRole,
           CreateDatabase, Grant, InsertRow, CleanContainer, CleanRow, CleanDatabase,
           CleanRole, RemoveContainer, RunContainer, WaitReady, SetRunning
      <4>2. QED
        BY <4>1 DEF NameOf
    <3>2. \A q \in Projects : q # p => result'[q] = result[q]
      BY <2>2, <3>0, PostMoves, StartMoves
    <3>3. result[p] # "ok"
      BY <2>2, AnswerStays
    <3>4. CASE result'[p] = "ok"
      <4>1. UNCHANGED role /\ role[NameOf(p)] = p
        BY <2>2, <3>3, <3>4, AnswerKeepsRole
      <4>2. granted' = granted \cup {p}
        BY <3>2, <3>4
      <4>3. Claims!Grant(p)
        BY <3>1, <4>1, <4>2 DEF Claims!Grant
      <4>4. QED
        BY <4>3 DEF Claims!Next
    <3>5. CASE result'[p] # "ok"
      <4>1. UNCHANGED granted
        BY <3>2, <3>3, <3>5
      <4>2. CASE UNCHANGED role
        BY <3>1, <4>1, <4>2
      <4>3. CASE role' # role
        <5>1. Begin(p) \/ Post(p) \/ Stop(p)
          BY <2>2, <3>0, <4>3, RowsStay
        <5>2. /\ p \notin granted
              /\ \/ role[NameOf(p)] = None /\ role' = [role EXCEPT ![NameOf(p)] = p]
                 \/ role[NameOf(p)] = p /\ role' = [role EXCEPT ![NameOf(p)] = None]
          BY <4>3, <5>1, RoleSteps
        <5>3. Claims!Claim(p) \/ Claims!Release(p)
          BY <3>1, <4>1, <5>2 DEF Claims!Claim, Claims!Release
        <5>4. QED
          BY <5>3 DEF Claims!Next
      <4>4. QED
        BY <4>2, <4>3
    <3>6. QED
      BY <3>4, <3>5
  <2>3. ASSUME NEW s \in Syncs, Sync(s) \/ Start(s)
        PROVE  UNCHANGED <<want, role, granted>>
    <3>1. s \in Processes /\ s \notin Projects
      BY ProcessAssumption DEF Processes
    <3>2. UNCHANGED <<role, req>>
      BY <2>3, <3>1, RowsStay
    <3>3. \A q \in Projects : result'[q] = result[q]
      BY <2>3, <3>1, StartMoves, SyncMoves
    <3>4. UNCHANGED want /\ UNCHANGED granted
      BY <3>2, <3>3 DEF NameOf
    <3>5. QED
      BY <3>2, <3>4
  <2>4. ASSUME NEW n \in Names, BecomeReady(n)
        PROVE  UNCHANGED <<want, role, granted>>
    BY <2>4 DEF BecomeReady, pg, NameOf
  <2>5. QED
    BY <2>1, <2>2, <2>3, <2>4 DEF Next, Processes
<1>3. Spec => []Owned
  BY OwnedInit, OwnedStep, TypeCorrect, PTL DEF Spec
<1>4. QED
  BY <1>1, <1>2, <1>3, TypeCorrect, LegacyDoneHolds, PTL
  DEF Spec, ImplementsNameClaim, Claims!Spec

-----------------------------------------------------------------------------
(***************************************************************************)
(* Who removes what.                                                       *)
(***************************************************************************)
Removal ==
  \A p \in Projects :
    /\ role[NameOf(p)] = p /\ role'[NameOf(p)] # p => pc[p] = "cleanRole"
    /\ db[NameOf(p)] = p /\ db'[NameOf(p)] # p => pc[p] = "cleanDB"
    /\ HasRow(p) /\ ~HasRow(p)' => pc[p] = "cleanRow"

\* A role, a database or a row is removed by the cleanup of its own project only, although
\* cleanup drops by name: no other POST, no sync, no fault and no interrupted rollback
\* takes them away, and those of a project from before stay.
THEOREM OnlyMakerRemoves == Spec => [][Removal]_vars
<1>1. TypeOK /\ Owned /\ [Next]_vars => [Removal]_vars
  <2> SUFFICES ASSUME TypeOK, Owned, [Next]_vars, ~UNCHANGED vars
               PROVE  Removal
    OBVIOUS
  <2>1. ASSUME NEW p \in Projects, Begin(p) \/ Post(p) \/ Stop(p)
        PROVE  Removal
    <3> DEFINE n == NameOf(p)
    <3>1. n \in Names /\ p # None
      BY Targets, NoneAssumption DEF Processes
    <3>2. ASSUME NEW q \in Projects, q # p
          PROVE  /\ role[NameOf(q)] = q => role'[NameOf(q)] = q
                 /\ db[NameOf(q)] = q => db'[NameOf(q)] = q
                 /\ HasRow(q) => HasRow(q)'
      <4>1. NameOf(q) \in Names /\ q # None
        BY Targets, NoneAssumption
      <4>2. db[NameOf(q)] = q => role[NameOf(q)] = q
        BY <4>1 DEF Owned
      <4>3. QED
        BY <2>1, <3>2, <4>2, PostMoves
    <3>3. /\ role[n] = p /\ role'[n] # p => pc[p] = "cleanRole"
          /\ db[n] = p /\ db'[n] # p => pc[p] = "cleanDB"
          /\ HasRow(p) /\ ~HasRow(p)' => pc[p] = "cleanRow"
      <4>1. \/ UNCHANGED <<role, db>>
            \/ /\ pc[p] = "createRole" /\ UNCHANGED db /\ role'[n] = p
            \/ /\ pc[p] = "createDB" /\ UNCHANGED role /\ db'[n] = p
            \/ /\ pc[p] = "cleanDB" /\ UNCHANGED role
            \/ /\ pc[p] = "cleanRole" /\ UNCHANGED db
        BY <2>1, PostMoves
      <4>2. HasRow(p) /\ pc[p] # "cleanRow" => HasRow(p)'
        BY <2>1, PostMoves
      <4>3. QED
        BY <4>1, <4>2
    <3>4. QED
      BY <3>2, <3>3 DEF Removal
  <2>2. ASSUME NEW x \in Processes, Start(x) \/ (x \in Syncs /\ Sync(x))
        PROVE  Removal
    BY <2>2, RowsStay DEF Removal
  <2>3. ASSUME NEW m \in Names, BecomeReady(m)
        PROVE  Removal
    BY <2>3 DEF BecomeReady, pg, Removal, HasRow
  <2>4. QED
    BY <2>1, <2>2, <2>3 DEF Next, Processes
<1>2. QED
  BY <1>1, OwnedInit, OwnedStep, TypeCorrect, PTL DEF Spec

=============================================================================
