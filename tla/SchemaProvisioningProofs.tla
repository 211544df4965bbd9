---------------------- MODULE SchemaProvisioningProofs ----------------------
(***************************************************************************)
(* For any number of requests, owners and names, and any set of faults:    *)
(* provisioning in the schema model is safe, because the role of a name is *)
(* its claim.  RoleIsTheLock is the inductive invariant; the properties of *)
(* SchemaProvisioning follow from it.                                      *)
(***************************************************************************)
EXTENDS SchemaProvisioning, TLAPS

\* Recording what was created keeps the type of made.
LEMMA MarkType ==
  ASSUME TypeOK, NEW r \in Requests, NEW what \in {"role", "schema", "metadata"},
         Mark(r, what)
  PROVE  made' \in [Requests -> SUBSET {"role", "schema", "metadata"}]
<1>1. made[r] \cup {what} \in SUBSET {"role", "schema", "metadata"}
  BY DEF TypeOK
<1>2. QED
  BY <1>1 DEF TypeOK, Mark

\* Every variable keeps its type: in particular no step leaves the labels of
\* the control flow of provisionSchema and cleanupSchema.
THEOREM TypeCorrect == Spec => []TypeOK
<1>1. Init => TypeOK
  BY NoRequestAssumption DEF Init, TypeOK, Labels, Working, Results
<1>2. TypeOK /\ [Next]_vars => TypeOK'
  <2> SUFFICES ASSUME TypeOK, [Next]_vars PROVE TypeOK'
    OBVIOUS
  <2> USE DEF TypeOK, Labels, Working, Results, Goto, Return, Abort, Mark,
              NameOf, LockKey, catalog
  <2>1. CASE UNCHANGED vars
    BY <2>1 DEF vars
  <2>2. ASSUME NEW r \in Requests, Begin(r) \/ CtxDone(r) \/ Die(r)
        PROVE  TypeOK'
    <3>1. CASE Begin(r)
      BY <3>1 DEF Begin
    <3>2. CASE CtxDone(r)
      BY <3>2 DEF CtxDone
    <3>3. CASE Die(r)
      <4>1. DOMAIN lock = Owners \X Names
        OBVIOUS
      <4>2. lock' \in [Owners \X Names -> Requests \cup {NoRequest}]
        BY <3>3, <4>1 DEF Die
      <4>3. QED
        BY <3>3, <4>2 DEF Die
    <3>4. QED
      BY <2>2, <3>1, <3>2, <3>3
  <2>3. ASSUME NEW r \in Requests, Run(r)
        PROVE  TypeOK'
    <3>0. NameOf(r) \in Names /\ LockKey(r) \in Owners \X Names
      OBVIOUS
    <3>1. CASE AcquireLock(r)
      <4>1. lock' \in [Owners \X Names -> Requests \cup {NoRequest}]
        BY <3>0, <3>1 DEF AcquireLock
      <4>2. QED
        BY <3>1, <4>1 DEF AcquireLock
    <3>2. CASE EndSession(r)
      <4>1. lock' \in [Owners \X Names -> Requests \cup {NoRequest}]
        BY <3>0, <3>2 DEF EndSession
      <4>2. QED
        BY <3>2, <4>1 DEF EndSession
    <3>3. CASE CheckConflict(r)
      BY <3>3 DEF CheckConflict
    <3>4. CASE CheckSchemata(r)
      BY <3>4 DEF CheckSchemata
    <3>5. CASE CreateRole(r)
      <4>1. made' \in [Requests -> SUBSET {"role", "schema", "metadata"}]
        <5>1. CASE Mark(r, "role")
          BY <5>1, MarkType
        <5>2. CASE made' = made
          BY <5>2
        <5>3. QED
          BY <3>5, <5>1, <5>2 DEF CreateRole
      <4>2. role' \in [Names -> Requests \cup {NoRequest}]
        BY <3>0, <3>5 DEF CreateRole
      <4>3. pc' \in [Requests -> Labels] /\ result' \in [Requests -> Results]
        BY <3>5 DEF CreateRole
      <4>4. QED
        BY <3>5, <4>1, <4>2, <4>3 DEF CreateRole
    <3>6. CASE CreateSchema(r)
      <4>1. made' \in [Requests -> SUBSET {"role", "schema", "metadata"}]
        <5>1. CASE Mark(r, "schema")
          BY <5>1, MarkType
        <5>2. CASE made' = made
          BY <5>2
        <5>3. QED
          BY <3>6, <5>1, <5>2 DEF CreateSchema
      <4>2. /\ schema' \in [Names -> Requests \cup {NoRequest}]
            /\ connect' \in SUBSET Names
        BY <3>0, <3>6 DEF CreateSchema
      <4>3. pc' \in [Requests -> Labels] /\ result' \in [Requests -> Results]
        BY <3>6 DEF CreateSchema
      <4>4. QED
        BY <3>6, <4>1, <4>2, <4>3 DEF CreateSchema
    <3>7. CASE InsertProject(r)
      <4>1. made' \in [Requests -> SUBSET {"role", "schema", "metadata"}]
        <5>1. CASE Mark(r, "metadata")
          BY <5>1, MarkType
        <5>2. CASE made' = made
          BY <5>2
        <5>3. QED
          BY <3>7, <5>1, <5>2 DEF InsertProject
      <4>2. QED
        BY <3>7, <4>1 DEF InsertProject
    <3>8. CASE EnsureElectric(r)
      BY <3>8 DEF EnsureElectric
    <3>9. CASE DropRow(r)
      BY <3>9 DEF DropRow
    <3>10. CASE DropSchema(r)
      BY <3>10 DEF DropSchema
    <3>11. CASE DropRole(r)
      BY <3>11 DEF DropRole
    <3>12. CASE Unlock(r)
      BY <3>12 DEF Unlock
    <3>13. QED
      BY <2>3, <3>1, <3>2, <3>3, <3>4, <3>5, <3>6, <3>7, <3>8, <3>9, <3>10,
         <3>11, <3>12 DEF Run
  <2>4. QED
    BY <2>1, <2>2, <2>3 DEF Next
<1>3. QED
  BY <1>1, <1>2, PTL DEF Spec

\* A step of r that leaves the catalog alone and moves r to a label that claims
\* nothing new keeps RoleIsTheLock.
LEMMA GotoKept ==
  ASSUME TypeOK, RoleIsTheLock, UNCHANGED <<req, catalog>>,
         NEW r \in Requests, NEW label \in Labels, Goto(r, label),
         label \in Holding => pc[r] \in Holding,
         label \notin {"insert", "electric"},
         pc[r] \in AfterInsert => label \in AfterInsert,
         pc[r] \in {"unlock", "done", "dead"} => label \in {"done", "dead"}
  PROVE  RoleIsTheLock'
<1> USE DEF TypeOK, RoleIsTheLock, NameOf, catalog, Labels, Working, Results,
            Holding, AfterInsert
<1>1. RoleHeld'
  BY DEF RoleHeld, Goto
<1>2. RoleOfName'
  BY DEF RoleOfName
<1>3. SchemaUnderRole' /\ ConnectUnderRole'
  BY DEF SchemaUnderRole, ConnectUnderRole
<1>4. RowUnderRole'
  BY DEF RowUnderRole, Goto
<1>5. SchemaHeld' /\ RowHeld'
  BY DEF SchemaHeld, RowHeld, Goto
<1>6. OkHeld'
  BY DEF OkHeld, SchemaHeld, RowHeld, Goto
<1>7. QED
  BY <1>1, <1>2, <1>3, <1>4, <1>5, <1>6

\* So does a return, with success after EnsureElectric only.
LEMMA ReturnKept ==
  ASSUME TypeOK, RoleIsTheLock, UNCHANGED <<req, catalog>>,
         NEW r \in Requests, NEW outcome \in Results, Return(r, outcome),
         pc[r] \in Working \ {"unlock"},
         outcome = "ok" => pc[r] = "electric"
  PROVE  RoleIsTheLock'
<1> USE DEF TypeOK, RoleIsTheLock, NameOf, catalog, Labels, Working, Results,
            Holding, AfterInsert
<1>1. RoleHeld'
  BY DEF RoleHeld, Return
<1>2. RoleOfName'
  BY DEF RoleOfName
<1>3. SchemaUnderRole' /\ ConnectUnderRole'
  BY DEF SchemaUnderRole, ConnectUnderRole
<1>4. RowUnderRole'
  BY DEF RowUnderRole, Return
<1>5. SchemaHeld' /\ RowHeld'
  BY DEF SchemaHeld, RowHeld, Return
<1>6. OkHeld'
  BY DEF OkHeld, SchemaHeld, RowHeld, Return
<1>7. QED
  BY <1>1, <1>2, <1>3, <1>4, <1>5, <1>6

\* So does a failure whose rollback is still to come.
LEMMA AbortKept ==
  ASSUME TypeOK, RoleIsTheLock, UNCHANGED <<req, catalog>>,
         NEW r \in Requests, NEW outcome \in {"conflict", "error"},
         Abort(r, outcome), pc[r] \in Holding
  PROVE  RoleIsTheLock'
<1> USE DEF TypeOK, RoleIsTheLock, NameOf, catalog, Labels, Working, Results,
            Holding, AfterInsert
<1>1. RoleHeld'
  BY DEF RoleHeld, Abort
<1>2. RoleOfName'
  BY DEF RoleOfName
<1>3. SchemaUnderRole' /\ ConnectUnderRole'
  BY DEF SchemaUnderRole, ConnectUnderRole
<1>4. RowUnderRole'
  BY DEF RowUnderRole, Abort
<1>5. SchemaHeld' /\ RowHeld'
  BY DEF SchemaHeld, RowHeld, Abort
<1>6. OkHeld'
  BY DEF OkHeld, SchemaHeld, RowHeld, Abort
<1>7. QED
  BY <1>1, <1>2, <1>3, <1>4, <1>5, <1>6

\* The steps of r that may change the catalog: when the call has an effect, one
\* step per conjunct; when it has none, one of the lemmas above.
LEMMA CreateRoleStep ==
  ASSUME TypeOK, RoleIsTheLock, NEW r \in Requests, CreateRole(r)
  PROVE  RoleIsTheLock'
<1> USE DEF TypeOK, RoleIsTheLock, NameOf, Labels, Working, Results, Holding,
            AfterInsert
<1> DEFINE Effect ==
  /\ pc[r] = "createRole" /\ role[NameOf(r)] = NoRequest
  /\ role' = [role EXCEPT ![NameOf(r)] = r]
  /\ UNCHANGED <<req, schema, connect, projects>>
  /\ \/ pc' = [pc EXCEPT ![r] = "createSchema"] /\ UNCHANGED result
     \/ /\ pc' = [pc EXCEPT ![r] = "unlock"]
        /\ result' = [result EXCEPT ![r] = "error"]
<1>0. NameOf(r) \in Names /\ NoRequest \notin Requests
  BY NoRequestAssumption
<1>1. Effect \/ (UNCHANGED catalog /\ Return(r, "error"))
  BY DEF CreateRole, catalog, Goto, Return
<1>2. CASE UNCHANGED catalog /\ Return(r, "error")
  BY <1>2, ReturnKept DEF CreateRole, catalog
<1>3. CASE Effect
  <2>1. RoleHeld'
    BY <1>0, <1>3 DEF RoleHeld, RoleOfName
  <2>2. RoleOfName'
    BY <1>0, <1>3 DEF RoleOfName
  <2>3. SchemaUnderRole'
    BY <1>0, <1>3 DEF SchemaUnderRole, RoleHeld, ConnectUnderRole, RoleOfName
  <2>4. ConnectUnderRole'
    BY <1>0, <1>3 DEF ConnectUnderRole, SchemaUnderRole, RoleHeld
  <2>5. RowUnderRole'
    BY <1>0, <1>3 DEF RowUnderRole, RoleHeld, RoleOfName, SchemaHeld, SchemaUnderRole
  <2>6. SchemaHeld'
    BY <1>0, <1>3 DEF SchemaHeld, RoleHeld, SchemaUnderRole, RoleOfName
  <2>7. RowHeld'
    BY <1>0, <1>3 DEF RowHeld, RoleHeld
  <2>8. OkHeld'
    BY <1>0, <1>3 DEF OkHeld, RoleHeld, SchemaUnderRole, RowUnderRole, SchemaHeld
  <2>9. QED
    BY <2>1, <2>2, <2>3, <2>4, <2>5, <2>6, <2>7, <2>8
<1>4. QED
  BY <1>1, <1>2, <1>3

LEMMA CreateSchemaStep ==
  ASSUME TypeOK, RoleIsTheLock, NEW r \in Requests, CreateSchema(r)
  PROVE  RoleIsTheLock'
<1> USE DEF TypeOK, RoleIsTheLock, NameOf, Labels, Working, Results, Holding,
            AfterInsert
<1> DEFINE Effect ==
  /\ pc[r] = "createSchema" /\ schema[NameOf(r)] = NoRequest
  /\ schema' = [schema EXCEPT ![NameOf(r)] = r]
  /\ connect' = connect \cup {NameOf(r)}
  /\ UNCHANGED <<req, role, projects>>
  /\ \/ pc' = [pc EXCEPT ![r] = "insert"] /\ UNCHANGED result
     \/ /\ pc' = [pc EXCEPT ![r] = "dropRow"]
        /\ result' = [result EXCEPT ![r] = "error"]
<1>0. NameOf(r) \in Names /\ NoRequest \notin Requests
  BY NoRequestAssumption
<1>1. Effect \/ (UNCHANGED catalog /\ Abort(r, "error"))
  BY DEF CreateSchema, Creatable, catalog, Goto, Abort
<1>2. CASE UNCHANGED catalog /\ Abort(r, "error")
  BY <1>2, AbortKept DEF CreateSchema, catalog
<1>3. CASE Effect
  <2>1. RoleHeld'
    BY <1>0, <1>3 DEF RoleHeld, RoleOfName
  <2>2. RoleOfName'
    BY <1>0, <1>3 DEF RoleOfName
  <2>3. SchemaUnderRole'
    BY <1>0, <1>3 DEF SchemaUnderRole, RoleHeld, ConnectUnderRole, RoleOfName
  <2>4. ConnectUnderRole'
    BY <1>0, <1>3 DEF ConnectUnderRole, SchemaUnderRole, RoleHeld
  <2>5. RowUnderRole'
    BY <1>0, <1>3 DEF RowUnderRole, RoleHeld, RoleOfName, SchemaHeld, SchemaUnderRole
  <2>6. SchemaHeld'
    BY <1>0, <1>3 DEF SchemaHeld, RoleHeld, SchemaUnderRole, RoleOfName
  <2>7. RowHeld'
    BY <1>0, <1>3 DEF RowHeld, RoleHeld
  <2>8. OkHeld'
    BY <1>0, <1>3 DEF OkHeld, RoleHeld, SchemaUnderRole, RowUnderRole, SchemaHeld
  <2>9. QED
    BY <2>1, <2>2, <2>3, <2>4, <2>5, <2>6, <2>7, <2>8
<1>4. QED
  BY <1>1, <1>2, <1>3

LEMMA InsertProjectStep ==
  ASSUME TypeOK, RoleIsTheLock, NEW r \in Requests, InsertProject(r)
  PROVE  RoleIsTheLock'
<1> USE DEF TypeOK, RoleIsTheLock, NameOf, Labels, Working, Results, Holding,
            AfterInsert
<1> DEFINE Effect ==
  /\ pc[r] = "insert"
  /\ projects' = projects \cup {r}
  /\ UNCHANGED <<req, role, schema, connect>>
  /\ \/ pc' = [pc EXCEPT ![r] = "electric"] /\ UNCHANGED result
     \/ /\ pc' = [pc EXCEPT ![r] = "unlock"]
        /\ result' = [result EXCEPT ![r] = "ok"]
     \/ /\ pc' = [pc EXCEPT ![r] = "dropRow"]
        /\ result' = [result EXCEPT ![r] = "error"]
<1>0. NameOf(r) \in Names /\ NoRequest \notin Requests
  BY NoRequestAssumption
<1>1. Effect \/ (UNCHANGED catalog /\ \E o \in {"conflict", "error"} : Abort(r, o))
  BY DEF InsertProject, catalog, Goto, Return, Abort
<1>2. CASE UNCHANGED catalog /\ \E o \in {"conflict", "error"} : Abort(r, o)
  BY <1>2, AbortKept DEF InsertProject, catalog
<1>3. CASE Effect
  <2>1. RoleHeld'
    BY <1>0, <1>3 DEF RoleHeld, RoleOfName
  <2>2. RoleOfName'
    BY <1>0, <1>3 DEF RoleOfName
  <2>3. SchemaUnderRole'
    BY <1>0, <1>3 DEF SchemaUnderRole, RoleHeld, ConnectUnderRole, RoleOfName
  <2>4. ConnectUnderRole'
    BY <1>0, <1>3 DEF ConnectUnderRole, SchemaUnderRole, RoleHeld
  <2>5. RowUnderRole'
    BY <1>0, <1>3 DEF RowUnderRole, RoleHeld, RoleOfName, SchemaHeld, SchemaUnderRole
  <2>6. SchemaHeld'
    BY <1>0, <1>3 DEF SchemaHeld, RoleHeld, SchemaUnderRole, RoleOfName
  <2>7. RowHeld'
    BY <1>0, <1>3 DEF RowHeld, RoleHeld
  <2>8. OkHeld'
    BY <1>0, <1>3 DEF OkHeld, RoleHeld, SchemaUnderRole, RowUnderRole, SchemaHeld
  <2>9. QED
    BY <2>1, <2>2, <2>3, <2>4, <2>5, <2>6, <2>7, <2>8
<1>4. QED
  BY <1>1, <1>2, <1>3

LEMMA DropRowStep ==
  ASSUME TypeOK, RoleIsTheLock, NEW r \in Requests, DropRow(r)
  PROVE  RoleIsTheLock'
<1> USE DEF TypeOK, RoleIsTheLock, NameOf, Labels, Working, Results, Holding,
            AfterInsert
<1> DEFINE Effect ==
  /\ pc[r] = "dropRow" /\ pc' = [pc EXCEPT ![r] = "dropSchema"]
  /\ projects' = projects \ {r}
  /\ UNCHANGED <<req, result, role, schema, connect>>
<1>0. NameOf(r) \in Names /\ NoRequest \notin Requests
  BY NoRequestAssumption
<1>1. Effect \/ (UNCHANGED catalog /\ Goto(r, "dropSchema"))
  BY DEF DropRow, catalog, Goto
<1>2. CASE UNCHANGED catalog /\ Goto(r, "dropSchema")
  BY <1>2, GotoKept DEF DropRow, catalog
<1>3. CASE Effect
  <2>1. RoleHeld'
    BY <1>0, <1>3 DEF RoleHeld, RoleOfName
  <2>2. RoleOfName'
    BY <1>0, <1>3 DEF RoleOfName
  <2>3. SchemaUnderRole'
    BY <1>0, <1>3 DEF SchemaUnderRole, RoleHeld, ConnectUnderRole, RoleOfName
  <2>4. ConnectUnderRole'
    BY <1>0, <1>3 DEF ConnectUnderRole, SchemaUnderRole, RoleHeld
  <2>5. RowUnderRole'
    BY <1>0, <1>3 DEF RowUnderRole, RoleHeld, RoleOfName, SchemaHeld, SchemaUnderRole
  <2>6. SchemaHeld'
    BY <1>0, <1>3 DEF SchemaHeld, RoleHeld, SchemaUnderRole, RoleOfName
  <2>7. RowHeld'
    BY <1>0, <1>3 DEF RowHeld, RoleHeld
  <2>8. OkHeld'
    BY <1>0, <1>3 DEF OkHeld, RoleHeld, SchemaUnderRole, RowUnderRole, SchemaHeld
  <2>9. QED
    BY <2>1, <2>2, <2>3, <2>4, <2>5, <2>6, <2>7, <2>8
<1>4. QED
  BY <1>1, <1>2, <1>3

LEMMA DropSchemaStep ==
  ASSUME TypeOK, RoleIsTheLock, NEW r \in Requests, DropSchema(r)
  PROVE  RoleIsTheLock'
<1> USE DEF TypeOK, RoleIsTheLock, NameOf, Labels, Working, Results, Holding,
            AfterInsert
<1> DEFINE Effect ==
  /\ pc[r] = "dropSchema" /\ pc' = [pc EXCEPT ![r] = "dropRole"]
  /\ schema' = [schema EXCEPT ![NameOf(r)] = NoRequest]
  /\ UNCHANGED <<req, result, role, connect, projects>>
<1>0. NameOf(r) \in Names /\ NoRequest \notin Requests
  BY NoRequestAssumption
<1>1. Effect \/ (UNCHANGED catalog /\ Goto(r, "dropRole"))
  BY DEF DropSchema, catalog, Goto
<1>2. CASE UNCHANGED catalog /\ Goto(r, "dropRole")
  BY <1>2, GotoKept DEF DropSchema, catalog
<1>3. CASE Effect
  <2>1. RoleHeld'
    BY <1>0, <1>3 DEF RoleHeld, RoleOfName
  <2>2. RoleOfName'
    BY <1>0, <1>3 DEF RoleOfName
  <2>3. SchemaUnderRole'
    BY <1>0, <1>3 DEF SchemaUnderRole, RoleHeld, ConnectUnderRole, RoleOfName
  <2>4. ConnectUnderRole'
    BY <1>0, <1>3 DEF ConnectUnderRole, SchemaUnderRole, RoleHeld
  <2>5. RowUnderRole'
    BY <1>0, <1>3 DEF RowUnderRole, RoleHeld, RoleOfName, SchemaHeld, SchemaUnderRole
  <2>6. SchemaHeld'
    BY <1>0, <1>3 DEF SchemaHeld, RoleHeld, SchemaUnderRole, RoleOfName
  <2>7. RowHeld'
    BY <1>0, <1>3 DEF RowHeld, RoleHeld
  <2>8. OkHeld'
    BY <1>0, <1>3 DEF OkHeld, RoleHeld, SchemaUnderRole, RowUnderRole, SchemaHeld
  <2>9. QED
    BY <2>1, <2>2, <2>3, <2>4, <2>5, <2>6, <2>7, <2>8
<1>4. QED
  BY <1>1, <1>2, <1>3

LEMMA DropRoleStep ==
  ASSUME TypeOK, RoleIsTheLock, NEW r \in Requests, DropRole(r)
  PROVE  RoleIsTheLock'
<1> USE DEF TypeOK, RoleIsTheLock, NameOf, Labels, Working, Results, Holding,
            AfterInsert
<1> DEFINE Effect ==
  /\ pc[r] = "dropRole" /\ pc' = [pc EXCEPT ![r] = "unlock"]
  /\ schema[NameOf(r)] = NoRequest /\ NameOf(r) \notin connect
  /\ role' = [role EXCEPT ![NameOf(r)] = NoRequest]
  /\ UNCHANGED <<req, result, schema, connect, projects>>
<1>0. NameOf(r) \in Names /\ NoRequest \notin Requests
  BY NoRequestAssumption
<1>1. Effect \/ (UNCHANGED catalog /\ Goto(r, "unlock"))
  BY DEF DropRole, catalog, Goto, Referenced
<1>2. CASE UNCHANGED catalog /\ Goto(r, "unlock")
  BY <1>2, GotoKept DEF DropRole, catalog
<1>3. CASE Effect
  <2>1. RoleHeld'
    BY <1>0, <1>3 DEF RoleHeld, RoleOfName
  <2>2. RoleOfName'
    BY <1>0, <1>3 DEF RoleOfName
  <2>3. SchemaUnderRole'
    BY <1>0, <1>3 DEF SchemaUnderRole, RoleHeld, ConnectUnderRole, RoleOfName
  <2>4. ConnectUnderRole'
    BY <1>0, <1>3 DEF ConnectUnderRole, SchemaUnderRole, RoleHeld
  <2>5. RowUnderRole'
    BY <1>0, <1>3 DEF RowUnderRole, RoleHeld, RoleOfName, SchemaHeld, SchemaUnderRole
  <2>6. SchemaHeld'
    BY <1>0, <1>3 DEF SchemaHeld, RoleHeld, SchemaUnderRole, RoleOfName
  <2>7. RowHeld'
    BY <1>0, <1>3 DEF RowHeld, RoleHeld
  <2>8. OkHeld'
    BY <1>0, <1>3 DEF OkHeld, RoleHeld, SchemaUnderRole, RowUnderRole, SchemaHeld
  <2>9. QED
    BY <2>1, <2>2, <2>3, <2>4, <2>5, <2>6, <2>7, <2>8
<1>4. QED
  BY <1>1, <1>2, <1>3

\* RoleIsTheLock is inductive, relative to the type invariant.
THEOREM RoleIsTheLockHolds == Spec => []RoleIsTheLock
<1>1. Init => RoleIsTheLock
  BY DEF Init, RoleIsTheLock, RoleHeld, RoleOfName, SchemaUnderRole,
         ConnectUnderRole, RowUnderRole, SchemaHeld, RowHeld, OkHeld, Holding
<1>2. TypeOK /\ RoleIsTheLock /\ [Next]_vars => RoleIsTheLock'
  <2> SUFFICES ASSUME TypeOK, RoleIsTheLock, [Next]_vars PROVE RoleIsTheLock'
    OBVIOUS
  <2>0. ASSUME UNCHANGED <<req, pc, result, catalog>> PROVE RoleIsTheLock'
    BY <2>0 DEF RoleIsTheLock, RoleHeld, RoleOfName, SchemaUnderRole, NameOf,
         ConnectUnderRole, RowUnderRole, SchemaHeld, RowHeld, OkHeld, catalog
  <2>1. CASE UNCHANGED vars
    BY <2>0, <2>1 DEF vars, catalog
  <2>2. ASSUME NEW r \in Requests, CtxDone(r) PROVE RoleIsTheLock'
    BY <2>0, <2>2 DEF CtxDone
  <2>3. ASSUME NEW r \in Requests, Begin(r) PROVE RoleIsTheLock'
    BY <2>3, GotoKept DEF Begin, Labels, Working, Holding, AfterInsert
  <2>4. ASSUME NEW r \in Requests, Die(r) PROVE RoleIsTheLock'
    <3>1. Goto(r, "dead")
      BY <2>4 DEF Die, Goto
    <3>2. QED
      BY <2>4, <3>1, GotoKept DEF Die, Labels, Working, Holding, AfterInsert
  <2>5. ASSUME NEW r \in Requests, Run(r) PROVE RoleIsTheLock'
    <3> USE DEF Labels, Working, Holding, AfterInsert, Results
    <3>1. CASE AcquireLock(r)
      <4>1. /\ pc[r] = "lock" /\ UNCHANGED <<req, catalog>>
            /\ pc' = [pc EXCEPT ![r] = "session"] \/ pc' = [pc EXCEPT ![r] = "done"]
            /\ UNCHANGED result \/ result' = [result EXCEPT ![r] = "error"]
        BY <3>1 DEF AcquireLock, Goto
      <4>2. RoleHeld'
        BY <4>1 DEF TypeOK, RoleIsTheLock, RoleHeld, NameOf, catalog
      <4>3. RoleOfName' /\ SchemaUnderRole' /\ ConnectUnderRole'
        BY <4>1 DEF RoleIsTheLock, RoleOfName, SchemaUnderRole,
                    ConnectUnderRole, NameOf, catalog
      <4>4. RowUnderRole'
        BY <4>1 DEF TypeOK, RoleIsTheLock, RowUnderRole, NameOf, catalog
      <4>5. SchemaHeld' /\ RowHeld'
        BY <4>1 DEF TypeOK, RoleIsTheLock, SchemaHeld, RowHeld, NameOf, catalog
      <4>6. OkHeld'
        BY <4>1 DEF TypeOK, RoleIsTheLock, OkHeld, NameOf, catalog
      <4>7. QED
        BY <4>2, <4>3, <4>4, <4>5, <4>6 DEF RoleIsTheLock
    <3>2. CASE EndSession(r)
      BY <3>2, GotoKept DEF EndSession
    <3>3. CASE CheckConflict(r)
      BY <3>3, GotoKept, ReturnKept DEF CheckConflict
    <3>4. CASE CheckSchemata(r)
      BY <3>4, GotoKept, ReturnKept DEF CheckSchemata
    <3>5. CASE EnsureElectric(r)
      BY <3>5, ReturnKept, AbortKept DEF EnsureElectric
    <3>6. CASE Unlock(r)
      BY <3>6, GotoKept DEF Unlock
    <3>7. QED
      BY <2>5, <3>1, <3>2, <3>3, <3>4, <3>5, <3>6, CreateRoleStep,
         CreateSchemaStep, InsertProjectStep, DropRowStep, DropSchemaStep,
         DropRoleStep DEF Run
  <2>6. QED
    BY <2>1, <2>2, <2>3, <2>4, <2>5 DEF Next
<1>3. QED
  BY <1>1, <1>2, TypeCorrect, PTL DEF Spec

\* A request answered 201 keeps its role, schema, CONNECT and row for good.
THEOREM SuccessIsUsableHolds == Spec => []SuccessIsUsable
<1>1. RoleIsTheLock => SuccessIsUsable
  BY DEF RoleIsTheLock, OkHeld, RowUnderRole, SuccessIsUsable
<1>2. QED
  BY <1>1, RoleIsTheLockHolds, PTL

\* A row's role has the password of the row and may connect.
THEOREM RowCanConnectHolds == Spec => []RowCanConnect
<1>1. RoleIsTheLock => RowCanConnect
  BY DEF RoleIsTheLock, RowUnderRole, RowCanConnect
<1>2. QED
  BY <1>1, RoleIsTheLockHolds, PTL

\* INSERT INTO public.projects never meets a row of the same name.
THEOREM InsertIsUniqueHolds == Spec => []InsertIsUnique
<1>1. RoleIsTheLock => InsertIsUnique
  <2> SUFFICES ASSUME RoleIsTheLock, NEW r \in Requests, pc[r] = "insert"
               PROVE  /\ role[NameOf(r)] = r
                      /\ schema[NameOf(r)] = r
                      /\ ~Duplicate(r)
    BY DEF InsertIsUnique
  <2>1. role[NameOf(r)] = r /\ schema[NameOf(r)] = r
    BY DEF RoleIsTheLock, RoleHeld, SchemaHeld, Holding
  <2>2. ASSUME NEW q \in projects, NameOf(q) = NameOf(r) PROVE FALSE
    BY <2>1, <2>2 DEF RoleIsTheLock, RowUnderRole, AfterInsert
  <2>3. QED
    BY <2>1, <2>2 DEF Duplicate
<1>2. QED
  BY <1>1, RoleIsTheLockHolds, PTL

\* Which step changes which part of the catalog, and how.
LEMMA CatalogSteps ==
  ASSUME TypeOK, RoleIsTheLock, [Next]_vars
  PROVE  /\ UNCHANGED req
         /\ connect \subseteq connect'
         /\ \/ UNCHANGED role
            \/ \E q \in Requests :
                 /\ pc[q] = "createRole" /\ role[NameOf(q)] = NoRequest
                 /\ role' = [role EXCEPT ![NameOf(q)] = q]
            \/ \E q \in Requests :
                 /\ pc[q] = "dropRole" /\ role[NameOf(q)] = q
                 /\ NameOf(q) \notin connect
                 /\ role' = [role EXCEPT ![NameOf(q)] = NoRequest]
         /\ \/ UNCHANGED schema
            \/ \E q \in Requests : /\ schema[NameOf(q)] = NoRequest
                                   /\ schema' = [schema EXCEPT ![NameOf(q)] = q]
            \/ \E q \in Requests :
                 /\ pc[q] = "dropSchema" /\ role[NameOf(q)] = q
                 /\ schema' = [schema EXCEPT ![NameOf(q)] = NoRequest]
         /\ \/ projects \subseteq projects'
            \/ \E q \in Requests : /\ pc[q] = "dropRow"
                                   /\ projects' = projects \ {q}
<1> USE DEF catalog
<1>1. CASE UNCHANGED vars
  BY <1>1 DEF vars
<1>2. ASSUME NEW q \in Requests,
             \/ Begin(q) \/ AcquireLock(q) \/ EndSession(q) \/ CheckConflict(q)
             \/ CheckSchemata(q) \/ EnsureElectric(q) \/ Unlock(q)
             \/ CtxDone(q) \/ Die(q)
      PROVE  UNCHANGED <<req, catalog>>
  BY <1>2 DEF Begin, AcquireLock, EndSession, CheckConflict, CheckSchemata,
              EnsureElectric, Unlock, CtxDone, Die
<1>3. ASSUME NEW q \in Requests, CreateRole(q)
      PROVE  /\ UNCHANGED <<req, schema, connect, projects>>
             /\ \/ UNCHANGED role
                \/ /\ pc[q] = "createRole" /\ role[NameOf(q)] = NoRequest
                   /\ role' = [role EXCEPT ![NameOf(q)] = q]
  BY <1>3 DEF CreateRole
<1>4. ASSUME NEW q \in Requests, CreateSchema(q)
      PROVE  /\ UNCHANGED <<req, role, projects>> /\ connect \subseteq connect'
             /\ \/ UNCHANGED schema
                \/ /\ schema[NameOf(q)] = NoRequest
                   /\ schema' = [schema EXCEPT ![NameOf(q)] = q]
  BY <1>4 DEF CreateSchema, Creatable
<1>5. ASSUME NEW q \in Requests, InsertProject(q)
      PROVE  /\ UNCHANGED <<req, role, schema, connect>>
             /\ projects \subseteq projects'
  BY <1>5 DEF InsertProject
<1>6. ASSUME NEW q \in Requests, DropRow(q)
      PROVE  /\ UNCHANGED <<req, role, schema, connect>>
             /\ \/ UNCHANGED projects
                \/ pc[q] = "dropRow" /\ projects' = projects \ {q}
  BY <1>6 DEF DropRow
<1>7. ASSUME NEW q \in Requests, DropSchema(q)
      PROVE  /\ UNCHANGED <<req, role, connect, projects>>
             /\ \/ UNCHANGED schema
                \/ /\ pc[q] = "dropSchema" /\ role[NameOf(q)] = q
                   /\ schema' = [schema EXCEPT ![NameOf(q)] = NoRequest]
  BY <1>7 DEF DropSchema, RoleIsTheLock, RoleHeld, Holding
<1>8. ASSUME NEW q \in Requests, DropRole(q)
      PROVE  /\ UNCHANGED <<req, schema, connect, projects>>
             /\ \/ UNCHANGED role
                \/ /\ pc[q] = "dropRole" /\ role[NameOf(q)] = q
                   /\ NameOf(q) \notin connect
                   /\ role' = [role EXCEPT ![NameOf(q)] = NoRequest]
  BY <1>8 DEF DropRole, Referenced, RoleIsTheLock, RoleHeld, Holding
<1>9. CASE \E q \in Requests : CreateRole(q) \/ CreateSchema(q) \/ InsertProject(q)
                               \/ DropRow(q) \/ DropSchema(q) \/ DropRole(q)
  BY <1>9, <1>3, <1>4, <1>5, <1>6, <1>7, <1>8
<1>10. CASE UNCHANGED <<req, catalog>>
  BY <1>10
<1>11. QED
  BY <1>1, <1>2, <1>9, <1>10 DEF Next, Run

\* A role, a schema or a row is removed by the rollback of its maker only.
THEOREM OnlyMakerRemovesHolds == Spec => OnlyMakerRemoves
<1> DEFINE Removal ==
  \A r \in Requests :
    /\ role[NameOf(r)] = r /\ role'[NameOf(r)] # r => pc[r] = "dropRole"
    /\ schema[NameOf(r)] = r /\ schema'[NameOf(r)] # r => pc[r] = "dropSchema"
    /\ r \in projects /\ r \notin projects' => pc[r] = "dropRow"
<1>1. TypeOK /\ RoleIsTheLock /\ [Next]_vars => [Removal]_vars
  <2> SUFFICES ASSUME TypeOK, RoleIsTheLock, [Next]_vars, NEW r \in Requests
               PROVE  /\ role[NameOf(r)] = r /\ role'[NameOf(r)] # r =>
                           pc[r] = "dropRole"
                      /\ schema[NameOf(r)] = r /\ schema'[NameOf(r)] # r =>
                           pc[r] = "dropSchema"
                      /\ r \in projects /\ r \notin projects' => pc[r] = "dropRow"
    OBVIOUS
  <2>0. NameOf(r) \in Names /\ r # NoRequest
    BY NoRequestAssumption DEF TypeOK, NameOf
  <2>1. role[NameOf(r)] = r /\ role'[NameOf(r)] # r => pc[r] = "dropRole"
    BY <2>0, CatalogSteps DEF TypeOK
  <2>2. schema[NameOf(r)] = r => role[NameOf(r)] = r
    BY <2>0 DEF RoleIsTheLock, SchemaUnderRole
  <2>3. schema[NameOf(r)] = r /\ schema'[NameOf(r)] # r => pc[r] = "dropSchema"
    BY <2>0, <2>2, CatalogSteps DEF TypeOK
  <2>4. r \in projects /\ r \notin projects' => pc[r] = "dropRow"
    BY CatalogSteps
  <2>5. QED
    BY <2>1, <2>3, <2>4
<1>2. QED
  BY <1>1, TypeCorrect, RoleIsTheLockHolds, PTL DEF Spec, OnlyMakerRemoves

\* Once granted CONNECT, a role is never dropped: its name is spent.
THEOREM NameIsSpentHolds == Spec => NameIsSpent
<1>1. TypeOK /\ RoleIsTheLock /\ [Next]_vars =>
        [\A n \in connect : role[n] # NoRequest /\ role'[n] = role[n]]_vars
  <2> SUFFICES ASSUME TypeOK, RoleIsTheLock, [Next]_vars, NEW n \in connect
               PROVE  role[n] # NoRequest /\ role'[n] = role[n]
    OBVIOUS
  <2>1. role[n] # NoRequest
    BY DEF RoleIsTheLock, ConnectUnderRole
  <2>2. role'[n] = role[n]
    BY <2>1, CatalogSteps DEF TypeOK
  <2>3. QED
    BY <2>1, <2>2
<1>2. QED
  BY <1>1, TypeCorrect, RoleIsTheLockHolds, PTL DEF Spec, NameIsSpent

\* Once a row was found, its role and its schema are never another project's: the row
\* stands on a role that was granted CONNECT, which stays, and schemas exist only under
\* the role of their name.
THEOREM FoundIsOwnHolds == Spec => FoundIsOwn
<1> DEFINE Spent(r) == role[NameOf(r)] = r /\ NameOf(r) \in connect
           Own(r) == role[NameOf(r)] = r /\ schema[NameOf(r)] \in {r, NoRequest}
<1>1. ASSUME NEW r \in Requests
      PROVE  Spec => [](r \in projects => []Own(r))
  <2>1. RoleIsTheLock => (r \in projects => Spent(r))
    BY DEF RoleIsTheLock, RowUnderRole
  <2>2. TypeOK /\ RoleIsTheLock /\ Spent(r) => Own(r)
    <3>1. TypeOK => NameOf(r) \in Names
      BY <1>1 DEF TypeOK, NameOf
    <3>2. QED
      BY <3>1 DEF RoleIsTheLock, SchemaUnderRole
  <2>3. TypeOK /\ RoleIsTheLock /\ Spent(r) /\ [Next]_vars => Spent(r)'
    <3> SUFFICES ASSUME TypeOK, RoleIsTheLock, Spent(r), [Next]_vars PROVE Spent(r)'
      OBVIOUS
    <3>1. NameOf(r) \in Names /\ r # NoRequest
      BY <1>1, NoRequestAssumption DEF TypeOK, NameOf
    <3>2. NameOf(r)' = NameOf(r) /\ connect \subseteq connect'
      BY CatalogSteps DEF NameOf
    <3>3. role'[NameOf(r)] = role[NameOf(r)]
      BY <3>1, CatalogSteps DEF TypeOK
    <3>4. QED
      BY <3>2, <3>3
  <2> HIDE DEF Spent, Own
  <2>4. QED
    BY <2>1, <2>2, <2>3, TypeCorrect, RoleIsTheLockHolds, PTL DEF Spec
<1>2. QED
  BY <1>1 DEF FoundIsOwn

\* What each step does to the results: at most one request is answered, with
\* success only by a step that leaves the roles alone, and while its role is
\* its own.
LEMMA ResultSteps ==
  ASSUME TypeOK, RoleIsTheLock, NEW r \in Requests,
         Begin(r) \/ Run(r) \/ CtxDone(r) \/ Die(r)
  PROVE  /\ UNCHANGED req
         /\ \/ UNCHANGED result
            \/ \E o \in {"conflict", "error"} :
                 result[r] # "ok" /\ result' = [result EXCEPT ![r] = o]
            \/ /\ result' = [result EXCEPT ![r] = "ok"] /\ UNCHANGED role
               /\ role[NameOf(r)] = r
         /\ \/ UNCHANGED role
            \/ /\ role[NameOf(r)] = NoRequest /\ result[r] # "ok"
               /\ role' = [role EXCEPT ![NameOf(r)] = r]
            \/ /\ role[NameOf(r)] = r /\ result[r] # "ok"
               /\ role' = [role EXCEPT ![NameOf(r)] = NoRequest]
<1>1. pc[r] \notin {"unlock", "done", "dead"} => result[r] # "ok"
  BY DEF RoleIsTheLock, OkHeld
<1>2. pc[r] \in Holding => role[NameOf(r)] = r
  BY DEF RoleIsTheLock, RoleHeld
<1> USE DEF Goto, Return, Abort, catalog, Holding
<1>3. CASE Begin(r) \/ CtxDone(r) \/ Die(r)
  BY <1>3 DEF Begin, CtxDone, Die
<1>4. CASE AcquireLock(r) \/ EndSession(r)
  BY <1>1, <1>4 DEF AcquireLock, EndSession
<1>5. CASE CheckConflict(r) \/ CheckSchemata(r)
  BY <1>1, <1>5 DEF CheckConflict, CheckSchemata
<1>6. CASE CreateRole(r)
  BY <1>1, <1>6 DEF CreateRole
<1>7. CASE CreateSchema(r)
  BY <1>1, <1>7 DEF CreateSchema
<1>8. CASE InsertProject(r)
  BY <1>1, <1>2, <1>8 DEF InsertProject
<1>9. CASE EnsureElectric(r)
  BY <1>1, <1>2, <1>9 DEF EnsureElectric
<1>10. CASE DropRow(r) \/ DropSchema(r) \/ Unlock(r)
  BY <1>10 DEF DropRow, DropSchema, Unlock
<1>11. CASE DropRole(r)
  BY <1>1, <1>2, <1>11 DEF DropRole
<1>12. QED
  BY <1>3, <1>4, <1>5, <1>6, <1>7, <1>8, <1>9, <1>10, <1>11 DEF Run

-----------------------------------------------------------------------------
(***************************************************************************)
(* What a request that is refused has found, and what it leaves.           *)
(***************************************************************************)
Waiting == {"idle", "lock", "session", "conflict", "schemata", "createRole"}

\* Before its CREATE ROLE a request has no role.
Before == \A r \in Requests : pc[r] \in Waiting => role[NameOf(r)] # r

\* What a step of r does to the labels, results and roles; where it is told 409, the role
\* of its name is another request's.
LEMMA LabelSteps ==
  ASSUME TypeOK, RoleIsTheLock, Before, NEW r \in Requests,
         Begin(r) \/ Run(r) \/ CtxDone(r) \/ Die(r)
  PROVE  /\ UNCHANGED req /\ pc'[r] # "idle"
         /\ pc'[r] \in Waiting => pc[r] \in Waiting
         /\ \A q \in Requests \ {r} : pc'[q] = pc[q] /\ result'[q] = result[q]
         /\ \/ UNCHANGED role
            \/ role' = [role EXCEPT ![NameOf(r)] = r] /\ pc'[r] \notin Waiting
            \/ role' = [role EXCEPT ![NameOf(r)] = NoRequest]
         /\ result'[r] = "conflict" /\ result[r] # "conflict" =>
              role[NameOf(r)] \in Requests \ {r}
<1>0. NameOf(r) \in Names /\ NoRequest \notin Requests
  BY NoRequestAssumption DEF TypeOK, NameOf
<1> USE DEF TypeOK, Goto, Return, Abort, catalog, Waiting
<1>1. CASE Begin(r)
  BY <1>1 DEF Begin
<1>2. CASE CtxDone(r) \/ Die(r)
  BY <1>2 DEF CtxDone, Die, Working
<1>3. CASE AcquireLock(r) \/ EndSession(r)
  BY <1>3 DEF AcquireLock, EndSession
<1>4. CASE CheckConflict(r)
  <2>1. Taken(NameOf(r)) => role[NameOf(r)] \in Requests \ {r}
    <3>1. ASSUME NEW q \in projects, NameOf(q) = NameOf(r)
          PROVE  role[NameOf(r)] # NoRequest
      BY <1>0, <3>1 DEF RoleIsTheLock, RowUnderRole
    <3>2. pc[r] \in Waiting
      BY <1>4 DEF CheckConflict
    <3>3. QED
      BY <1>0, <3>1, <3>2 DEF Taken, Before
  <2>2. QED
    BY <1>4, <2>1 DEF CheckConflict
<1>5. CASE CheckSchemata(r)
  <2>1. schema[NameOf(r)] # NoRequest => role[NameOf(r)] \in Requests \ {r}
    BY <1>0, <1>5 DEF CheckSchemata, Before, RoleIsTheLock, SchemaUnderRole
  <2>2. QED
    BY <1>5, <2>1 DEF CheckSchemata
<1>6. CASE CreateRole(r)
  BY <1>6 DEF CreateRole
<1>7. CASE CreateSchema(r)
  BY <1>7 DEF CreateSchema
<1>8. CASE InsertProject(r)
  <2>1. ~Duplicate(r)
    <3>1. ASSUME NEW q \in projects, NameOf(q) = NameOf(r)
          PROVE  FALSE
      BY <1>0, <1>8, <3>1 DEF InsertProject, RoleIsTheLock, RowUnderRole, RoleHeld,
                              Holding, AfterInsert
    <3>2. QED
      BY <3>1 DEF Duplicate
  <2>2. QED
    BY <1>8, <2>1 DEF InsertProject
<1>9. CASE EnsureElectric(r)
  BY <1>9 DEF EnsureElectric
<1>10. CASE DropRow(r) \/ DropSchema(r) \/ Unlock(r)
  BY <1>10 DEF DropRow, DropSchema, Unlock
<1>11. CASE DropRole(r)
  BY <1>11 DEF DropRole
<1>12. QED
  BY <1>1, <1>2, <1>3, <1>4, <1>5, <1>6, <1>7, <1>8, <1>9, <1>10, <1>11 DEF Run

THEOREM BeforeHolds == Spec => []Before
<1>1. Init => Before
  BY NoRequestAssumption DEF Init, Before, NameOf
<1>2. TypeOK /\ RoleIsTheLock /\ Before /\ [Next]_vars => Before'
  <2> SUFFICES ASSUME TypeOK, RoleIsTheLock, Before, [Next]_vars PROVE Before'
    OBVIOUS
  <2>1. CASE UNCHANGED vars
    BY <2>1 DEF vars, Before, NameOf
  <2>2. ASSUME NEW r \in Requests, Begin(r) \/ Run(r) \/ CtxDone(r) \/ Die(r),
               NEW q \in Requests, pc'[q] \in Waiting
        PROVE  role'[NameOf(q)'] # q
    <3>1. NameOf(q)' = NameOf(q) /\ NameOf(q) \in Names
      BY <2>2, LabelSteps DEF NameOf, TypeOK
    <3>2. pc[q] \in Waiting
      BY <2>2, LabelSteps
    <3>3. role[NameOf(q)] # q /\ q # NoRequest
      BY <3>2, NoRequestAssumption DEF Before
    <3>4. QED
      BY <2>2, <3>1, <3>3, LabelSteps DEF TypeOK
  <2>3. QED
    BY <2>1, <2>2 DEF Next, Before
<1>3. QED
  BY <1>1, <1>2, TypeCorrect, RoleIsTheLockHolds, PTL DEF Spec

\* A request that is told 409 has found the role of another one, which may be gone by
\* now, but which was asked for.
THEOREM ConflictIsRealHolds == Spec => []ConflictIsReal
<1>1. Init => ConflictIsReal
  BY DEF Init, ConflictIsReal
<1>2. TypeOK /\ RoleIsTheLock /\ Before /\ ConflictIsReal /\ [Next]_vars => ConflictIsReal'
  <2> SUFFICES ASSUME TypeOK, RoleIsTheLock, Before, ConflictIsReal, [Next]_vars
               PROVE  ConflictIsReal'
    OBVIOUS
  <2>1. CASE UNCHANGED vars
    BY <2>1 DEF vars, ConflictIsReal, NameOf
  <2>2. ASSUME NEW r \in Requests, Begin(r) \/ Run(r) \/ CtxDone(r) \/ Die(r),
               NEW p \in Requests, result'[p] = "conflict"
        PROVE  \E q \in Requests \ {p} : NameOf(q)' = NameOf(p)' /\ pc'[q] # "idle"
    <3>1. \A q \in Requests : NameOf(q)' = NameOf(q) /\ (pc[q] # "idle" => pc'[q] # "idle")
      BY <2>2, LabelSteps DEF NameOf
    <3>2. CASE result[p] = "conflict"
      BY <3>1, <3>2 DEF ConflictIsReal
    <3>3. CASE result[p] # "conflict"
      <4>1. p = r /\ role[NameOf(p)] \in Requests \ {p}
        BY <2>2, <3>3, LabelSteps
      <4>2. PICK q \in Requests \ {p} : q = role[NameOf(p)]
        BY <4>1
      <4>3. NameOf(p) \in Names /\ q # NoRequest
        BY NoRequestAssumption DEF TypeOK, NameOf
      <4>4. NameOf(q) = NameOf(p)
        BY <4>2, <4>3 DEF RoleIsTheLock, RoleOfName
      <4>5. pc[q] # "idle"
        BY <4>2, <4>4 DEF Before, Waiting
      <4>6. QED
        BY <3>1, <4>4, <4>5
    <3>4. QED
      BY <3>2, <3>3
  <2>3. QED
    BY <2>1, <2>2 DEF Next, ConflictIsReal
<1>3. QED
  BY <1>1, <1>2, TypeCorrect, RoleIsTheLockHolds, BeforeHolds, PTL DEF Spec

\* What a request has recorded when its calls fail cleanly, and what is left where its
\* rollback has got to.
Tidy(r) ==
  /\ Live(r)
  /\ pc[r] \in Holding => "role" \in made[r]
  /\ role[NameOf(r)] = r /\ NameOf(r) \in connect => "schema" \in made[r]
  /\ r \in projects => "metadata" \in made[r]
  /\ pc[r] \in {"dropSchema", "dropRole"} => r \notin projects
  /\ pc[r] = "dropRole" => schema[NameOf(r)] # r
  /\ pc[r] \in {"unlock", "done"} /\ result[r] \in {"conflict", "error"} =>
       /\ r \notin projects /\ schema[NameOf(r)] # r
       /\ role[NameOf(r)] = r => "schema" \in made[r]

\* A step of r gives nothing to another request and records nothing for it.
LEMMA OthersKeep ==
  ASSUME TypeOK, RoleIsTheLock, Before, NEW r \in Requests,
         Begin(r) \/ Run(r) \/ Die(r)
  PROVE  /\ UNCHANGED req
         /\ \A q \in Requests \ {r} :
              /\ pc'[q] = pc[q] /\ ctx'[q] = ctx[q] /\ made'[q] = made[q]
              /\ result'[q] = result[q] /\ (q \in projects' => q \in projects)
         /\ \A m \in Names, q \in Requests \ {r} :
              /\ role'[m] = q => role[m] = q
              /\ schema'[m] = q => schema[m] = q
         /\ connect' = connect \/ (connect' = connect \cup {NameOf(r)} /\ role'[NameOf(r)] = r)
<1>0. NameOf(r) \in Names /\ NoRequest \notin Requests
  BY NoRequestAssumption DEF TypeOK, NameOf
<1> USE DEF TypeOK, Goto, Return, Abort, Mark, catalog
<1>1. CASE Begin(r) \/ Die(r)
  BY <1>1 DEF Begin, Die
<1>2. CASE AcquireLock(r) \/ EndSession(r) \/ CheckConflict(r) \/ CheckSchemata(r)
           \/ EnsureElectric(r) \/ Unlock(r)
  BY <1>2 DEF AcquireLock, EndSession, CheckConflict, CheckSchemata, EnsureElectric, Unlock
<1>3. CASE CreateRole(r)
  BY <1>0, <1>3 DEF CreateRole
<1>4. CASE CreateSchema(r)
  <2>1. role[NameOf(r)] = r
    BY <1>4 DEF CreateSchema, RoleIsTheLock, RoleHeld, Holding
  <2>2. QED
    BY <1>0, <1>4, <2>1 DEF CreateSchema
<1>5. CASE InsertProject(r)
  BY <1>0, <1>5 DEF InsertProject
<1>6. CASE DropRow(r) \/ DropSchema(r)
  BY <1>0, <1>6 DEF DropRow, DropSchema
<1>7. CASE DropRole(r)
  BY <1>0, <1>7 DEF DropRole
<1>8. QED
  BY <1>1, <1>2, <1>3, <1>4, <1>5, <1>6, <1>7 DEF Run

\* Each step of r, for r itself.
LEMMA TidyStep ==
  ASSUME TypeOK, RoleIsTheLock, Before, Faults \subseteq {"refuse", "die"},
         NEW r \in Requests, Tidy(r), Begin(r) \/ Run(r) \/ Die(r)
  PROVE  Tidy(r)'
<1>0. /\ NameOf(r) \in Names /\ r # NoRequest
      /\ "lost" \notin Faults /\ "rollback" \notin Faults
  BY NoRequestAssumption DEF TypeOK, NameOf
<1>1. pc[r] \in Waiting =>
        role[NameOf(r)] # r /\ schema[NameOf(r)] # r /\ r \notin projects
  BY <1>0 DEF Before, RoleIsTheLock, SchemaUnderRole, RowUnderRole
<1>2. schema[NameOf(r)] = r => role[NameOf(r)] = r /\ NameOf(r) \in connect
  BY <1>0 DEF RoleIsTheLock, SchemaUnderRole
<1> USE DEF TypeOK, Tidy, Goto, Return, Abort, Mark, catalog, Holding, Waiting, NameOf, Live
<1>3. CASE Begin(r) \/ Die(r)
  BY <1>3 DEF Begin, Die
<1>4. CASE AcquireLock(r)
  BY <1>1, <1>4 DEF AcquireLock
<1>5. CASE EndSession(r) \/ Unlock(r)
  BY <1>5 DEF EndSession, Unlock
<1>6. CASE CheckConflict(r) \/ CheckSchemata(r)
  BY <1>1, <1>6 DEF CheckConflict, CheckSchemata
<1>7. CASE CreateRole(r)
  <2>1. CASE role[NameOf(r)] = NoRequest /\ role' = [role EXCEPT ![NameOf(r)] = r]
             /\ Mark(r, "role") /\ Goto(r, "createSchema")
    <3>1. NameOf(r) \notin connect
      BY <2>1 DEF RoleIsTheLock, ConnectUnderRole
    <3>2. QED
      BY <1>0, <1>1, <1>7, <2>1, <3>1 DEF CreateRole
  <2>2. CASE Return(r, "error") /\ UNCHANGED <<role, made>>
    BY <1>1, <1>7, <2>2 DEF CreateRole
  <2>3. QED
    BY <1>0, <1>7, <2>1, <2>2 DEF CreateRole
<1>8. CASE CreateSchema(r)
  BY <1>0, <1>8 DEF CreateSchema
<1>9. CASE InsertProject(r)
  BY <1>0, <1>9 DEF InsertProject
<1>10. CASE EnsureElectric(r)
  BY <1>10 DEF EnsureElectric
<1>11. CASE DropRow(r)
  BY <1>0, <1>11 DEF DropRow, Skipped
<1>12. CASE DropSchema(r)
  <2>1. schema'[NameOf(r)] # r
    BY <1>0, <1>2, <1>12 DEF DropSchema, Skipped
  <2>2. QED
    BY <1>12, <2>1 DEF DropSchema
<1>13. CASE DropRole(r)
  <2>1. r \notin projects /\ schema[NameOf(r)] # r /\ "role" \in made[r]
    BY <1>13 DEF DropRole
  <2>2. role[NameOf(r)] = r
    BY <1>13 DEF DropRole, RoleIsTheLock, RoleHeld
  <2>3. schema[NameOf(r)] = NoRequest
    BY <1>0, <2>1, <2>2 DEF RoleIsTheLock, SchemaUnderRole
  <2>4. role'[NameOf(r)] = r => "schema" \in made[r]
    BY <1>0, <1>13, <2>1, <2>2, <2>3 DEF DropRole, Skipped, Referenced
  <2>5. QED
    BY <1>13, <2>1, <2>4 DEF DropRole
<1>14. QED
  BY <1>3, <1>4, <1>5, <1>6, <1>7, <1>8, <1>9, <1>10, <1>11, <1>12, <1>13 DEF Run

\* When calls only fail cleanly, and processes may end, a request that is refused leaves
\* neither a row nor a schema, and a role only where its schema transaction had committed.
THEOREM CleanRollbackHolds ==
  ASSUME Faults \subseteq {"refuse", "die"}
  PROVE  Spec => []CleanRollback
<1> DEFINE AllTidy == \A r \in Requests : Tidy(r)
<1>1. Init => AllTidy
  BY NoRequestAssumption DEF Init, Tidy, Live, Holding, NameOf
<1>2. TypeOK /\ RoleIsTheLock /\ Before /\ AllTidy /\ [Next]_vars => AllTidy'
  <2> SUFFICES ASSUME TypeOK, RoleIsTheLock, Before, AllTidy, [Next]_vars,
                      NEW q \in Requests
               PROVE  Tidy(q)'
    OBVIOUS
  <2>1. CASE UNCHANGED vars
    BY <2>1 DEF vars, Tidy, Live, NameOf
  <2>2. ASSUME NEW r \in Requests, CtxDone(r)
        PROVE  FALSE
    BY <2>2 DEF CtxDone
  <2>3. ASSUME NEW r \in Requests, Begin(r) \/ Run(r) \/ Die(r)
        PROVE  Tidy(q)'
    <3>1. CASE q = r
      BY <2>3, <3>1, TidyStep
    <3>2. CASE q # r
      <4>1. NameOf(q)' = NameOf(q) /\ NameOf(q) \in Names
        BY <2>3, OthersKeep DEF NameOf, TypeOK
      <4>2. /\ pc'[q] = pc[q] /\ ctx'[q] = ctx[q] /\ made'[q] = made[q]
            /\ result'[q] = result[q] /\ (q \in projects' => q \in projects)
            /\ role'[NameOf(q)] = q => role[NameOf(q)] = q
            /\ schema'[NameOf(q)] = q => schema[NameOf(q)] = q
        BY <2>3, <3>2, <4>1, OthersKeep
      <4>3. role'[NameOf(q)] = q /\ NameOf(q) \in connect' => NameOf(q) \in connect
        BY <2>3, <3>2, OthersKeep
      <4>4. QED
        BY <4>1, <4>2, <4>3 DEF Tidy, Live
    <3>3. QED
      BY <3>1, <3>2
  <2>4. QED
    BY <2>1, <2>2, <2>3 DEF Next
<1>3. AllTidy => CleanRollback
  BY DEF Tidy, CleanRollback
<1>4. QED
  BY <1>1, <1>2, <1>3, TypeCorrect, RoleIsTheLockHolds, BeforeHolds, PTL DEF Spec

\* Provisioning in the schema model implements NameClaim: CREATE ROLE claims the
\* name, an answer 201 grants it, DROP ROLE releases it; every other step of
\* every request, fault or rollback is a stutter.
THEOREM NameClaimImplemented == Spec => ImplementsNameClaim
<1>1. Init => Claims!Init
  <2> SUFFICES ASSUME Init PROVE Claims!Init
    OBVIOUS
  <2> DEFINE want == [r \in Requests |-> NameOf(r)]
  <2>1. \A r \in Requests : NameOf(r) \in Names /\ r # NoRequest
    BY NoRequestAssumption DEF Init, NameOf
  <2>2. role \in [Names -> Requests \cup {NoRequest}] /\ \A n \in Names : role[n] = NoRequest
    BY DEF Init
  <2>3. \A r \in Requests : role[want[r]] # r /\ result[r] # "ok"
    BY <2>1, <2>2 DEF Init
  <2>4. {r \in Requests : result[r] = "ok"} = {r \in Requests : role[want[r]] = r}
    BY <2>3
  <2>5. want \in [Requests -> Names]
    BY <2>1
  <2>6. QED
    BY <2>2, <2>4, <2>5 DEF Claims!Init
<1>2. TypeOK /\ RoleIsTheLock /\ [Next]_vars => [Claims!Next]_(Claims!vars)
  <2> DEFINE want == [r \in Requests |-> NameOf(r)]
             granted == {r \in Requests : result[r] = "ok"}
  <2> SUFFICES ASSUME TypeOK, RoleIsTheLock, [Next]_vars
               PROVE  Claims!Next \/ UNCHANGED <<want, role, granted>>
    BY DEF Claims!vars
  <2>1. CASE UNCHANGED vars
    BY <2>1 DEF vars, NameOf
  <2>2. ASSUME NEW r \in Requests, Begin(r) \/ Run(r) \/ CtxDone(r) \/ Die(r)
        PROVE  Claims!Next \/ UNCHANGED <<want, role, granted>>
    <3>1. UNCHANGED want /\ want[r] = NameOf(r)
      BY <2>2, ResultSteps DEF NameOf
    <3>2. CASE UNCHANGED result
      <4>1. UNCHANGED granted
        BY <3>2
      <4>2. CASE UNCHANGED role
        BY <3>1, <4>1, <4>2
      <4>3. CASE ~UNCHANGED role
        <5>1. Claims!Claim(r) \/ Claims!Release(r)
          BY <2>2, <3>1, <4>1, <4>3, ResultSteps DEF Claims!Claim, Claims!Release
        <5>2. QED
          BY <5>1 DEF Claims!Next
      <4>4. QED
        BY <4>2, <4>3
    <3>3. CASE \E o \in {"conflict", "error"} :
                 result[r] # "ok" /\ result' = [result EXCEPT ![r] = o]
      <4>1. UNCHANGED granted
        BY <3>3 DEF TypeOK
      <4>2. CASE UNCHANGED role
        BY <3>1, <4>1, <4>2
      <4>3. CASE ~UNCHANGED role
        <5>1. Claims!Claim(r) \/ Claims!Release(r)
          BY <2>2, <3>1, <4>1, <4>3, ResultSteps DEF Claims!Claim, Claims!Release
        <5>2. QED
          BY <5>1 DEF Claims!Next
      <4>4. QED
        BY <4>2, <4>3
    <3>4. CASE /\ result' = [result EXCEPT ![r] = "ok"] /\ UNCHANGED role
               /\ role[NameOf(r)] = r
      <4>1. granted' = granted \cup {r}
        BY <3>4 DEF TypeOK
      <4>2. Claims!Grant(r)
        BY <3>1, <3>4, <4>1 DEF Claims!Grant
      <4>3. QED
        BY <4>2 DEF Claims!Next
    <3>5. QED
      BY <2>2, <3>2, <3>3, <3>4, ResultSteps
  <2>3. QED
    BY <2>1, <2>2 DEF Next
<1>3. QED
  BY <1>1, <1>2, TypeCorrect, RoleIsTheLockHolds, PTL
  DEF Spec, ImplementsNameClaim, Claims!Spec

-----------------------------------------------------------------------------
(***************************************************************************)
(* The advisory lock: the safety half of EveryRequestEnds, and why         *)
(* LockExcludes fails.                                                     *)
(***************************************************************************)

\* A lock is held by a request that is still in the call that has taken it.
LockIsShort ==
  \A k \in Owners \X Names, q \in Requests :
    lock[k] = q => pc[q] = "session" /\ LockKey(q) = k

\* A step that does not take or give a lock moves nobody who holds one.
LEMMA LockStays ==
  ASSUME TypeOK, LockIsShort, NEW r \in Requests, pc[r] # "session",
         UNCHANGED <<req, lock>>,
         \A q \in Requests : q # r => pc'[q] = pc[q]
  PROVE  LockIsShort'
BY DEF TypeOK, LockIsShort, LockKey

\* Whoever waits for an advisory lock waits for a request in its psql call, which ends by
\* itself: nobody holds a lock while it does anything else, or after it has ended, or for
\* another project, for any faults.  So no request waits for another one for ever, and
\* no provisioning step runs under the lock.
THEOREM LockIsShortHolds == Spec => []LockIsShort
<1>1. Init => LockIsShort
  BY NoRequestAssumption DEF Init, LockIsShort
<1>2. TypeOK /\ LockIsShort /\ [Next]_vars => LockIsShort'
  <2> SUFFICES ASSUME TypeOK, LockIsShort, [Next]_vars PROVE LockIsShort'
    OBVIOUS
  <2>1. CASE UNCHANGED vars
    BY <2>1 DEF vars, LockIsShort, LockKey
  <2>2. ASSUME NEW r \in Requests
        PROVE  LockKey(r) \in Owners \X Names
    BY DEF TypeOK, LockKey
  <2>3. ASSUME NEW r \in Requests, AcquireLock(r)
        PROVE  LockIsShort'
    <3>1. CASE /\ lock[LockKey(r)] = NoRequest
               /\ lock' = [lock EXCEPT ![LockKey(r)] = r]
               /\ pc' = [pc EXCEPT ![r] = "session"]
      BY <2>2, <2>3, <3>1 DEF AcquireLock, TypeOK, LockIsShort, LockKey
    <3>2. CASE UNCHANGED lock /\ pc' = [pc EXCEPT ![r] = "done"]
      BY <2>3, <3>2, LockStays DEF AcquireLock, TypeOK
    <3>3. QED
      BY <2>3, <3>1, <3>2 DEF AcquireLock, Goto
  <2>4. ASSUME NEW r \in Requests, EndSession(r)
        PROVE  LockIsShort'
    <3>1. ASSUME NEW k \in Owners \X Names, NEW q \in Requests, lock'[k] = q
          PROVE  pc'[q] = "session" /\ LockKey(q)' = k
      <4>1. k # LockKey(r) /\ lock[k] = q
        BY <2>2, <2>4, <3>1, NoRequestAssumption DEF EndSession, TypeOK
      <4>2. pc[q] = "session" /\ LockKey(q) = k /\ q # r
        BY <4>1 DEF LockIsShort
      <4>3. QED
        BY <2>4, <4>2 DEF EndSession, Goto, TypeOK, LockKey
    <3>2. QED
      BY <3>1 DEF LockIsShort
  <2>5. ASSUME NEW r \in Requests, Die(r)
        PROVE  LockIsShort'
    <3>1. ASSUME NEW k \in Owners \X Names, NEW q \in Requests, lock'[k] = q
          PROVE  pc'[q] = "session" /\ LockKey(q)' = k
      <4>1. lock[k] = q /\ q # r
        BY <2>5, <3>1, NoRequestAssumption DEF Die, TypeOK
      <4>2. pc[q] = "session" /\ LockKey(q) = k
        BY <4>1 DEF LockIsShort
      <4>3. QED
        BY <2>5, <4>1, <4>2 DEF Die, TypeOK, LockKey
    <3>2. QED
      BY <3>1 DEF LockIsShort
  <2>6. ASSUME NEW r \in Requests, CtxDone(r)
        PROVE  LockIsShort'
    BY <2>6 DEF CtxDone, LockIsShort, LockKey
  <2>7. ASSUME NEW r \in Requests,
               \/ Begin(r) \/ CheckConflict(r) \/ CheckSchemata(r) \/ CreateRole(r)
               \/ CreateSchema(r) \/ InsertProject(r) \/ EnsureElectric(r)
               \/ DropRow(r) \/ DropSchema(r) \/ DropRole(r) \/ Unlock(r)
        PROVE  LockIsShort'
    <3>1. pc[r] # "session" /\ UNCHANGED <<req, lock>>
      BY <2>7 DEF Begin, CheckConflict, CheckSchemata, CreateRole, CreateSchema,
         InsertProject, EnsureElectric, DropRow, DropSchema, DropRole, Unlock
    <3>2. \/ \E label \in Labels : Goto(r, label)
          \/ \E outcome \in Results : Return(r, outcome) \/ Abort(r, outcome)
      BY <2>7 DEF Begin, CheckConflict, CheckSchemata, CreateRole, CreateSchema,
         InsertProject, EnsureElectric, DropRow, DropSchema, DropRole, Unlock,
         Labels, Working, Results
    <3>3. \A q \in Requests : q # r => pc'[q] = pc[q]
      BY <3>2 DEF Goto, Return, Abort, TypeOK
    <3>4. QED
      BY <3>1, <3>3, LockStays
  <2>8. QED
    BY <2>1, <2>3, <2>4, <2>5, <2>6, <2>7 DEF Next, Run
<1>3. QED
  BY <1>1, <1>2, TypeCorrect, PTL DEF Spec

=============================================================================
