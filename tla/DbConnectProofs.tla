--------------------------- MODULE DbConnectProofs ---------------------------
(***************************************************************************)
(* For any number of commands over one document and of connections to one  *)
(* connect: documents name one project, the URL that is printed is that of *)
(* the owner who is let in, and nobody is left waiting.                    *)
(***************************************************************************)
EXTENDS DbConnect, TLAPS

\* What is no document has its type.
LEMMA BlankType ==
  \A kind \in {"absent", "empty", "torn", "doc"} : Blank(kind) \in Documents
BY DEF Blank, Documents

\* What is read is the file or a torn document.
LEMMA ReadableType ==
  ASSUME file \in Documents, NEW doc \in Readable
  PROVE  /\ doc \in Documents
         /\ doc = file \/ doc = Blank("torn")
BY BlankType DEF Readable

LEMMA MergedType ==
  ASSUME NEW doc \in Documents, NEW p \in Persists
  PROVE  /\ Merged(doc, p) \in Documents
         /\ Merged(doc, p).project = Merged(doc, p).database
BY DEF Merged, Documents, Projects

-----------------------------------------------------------------------------
(***************************************************************************)
(* Types.                                                                  *)
(***************************************************************************)

\* What WriteDocument writes is what the process has in hand, as a document.
Written(p) == [kind |-> "doc", project |-> hand[p].project, database |-> hand[p].database,
               legacy |-> hand[p].legacy, keys |-> hand[p].keys]

LEMMA WrittenType ==
  ASSUME hand \in [Persists -> Documents], NEW p \in Persists
  PROVE  Written(p) \in Documents
<1>1. hand[p] \in Documents
  OBVIOUS
<1>2. QED
  BY <1>1 DEF Written, Documents

\* A document at first.
LEMMA FirstType == FirstFiles \subseteq Documents
<1>1. Blank("absent") \in Documents
  BY BlankType
<1>2. ASSUME NEW p \in {None, Old}, NEW l \in {None, Old}
      PROVE  [kind |-> "doc", project |-> p, database |-> p, legacy |-> l, keys |-> Keys]
               \in Documents
  BY DEF Documents, Projects
<1>3. QED
  BY <1>1, <1>2 DEF FirstFiles

LEMMA ConfigStepType ==
  ASSUME TypeOK, ConfigNext
  PROVE  ConfigTypeOK' /\ stage' \in {"load", "token", "listen", "serve", "exited"}
<1> USE DEF TypeOK, ConfigTypeOK, Step, persistVars, connectVars
<1>1. ASSUME NEW p \in Persists, ReadDocument(p)
      PROVE  ConfigTypeOK' /\ stage' = stage
  <2>1. PICK doc \in Readable :
          \/ hand' = [hand EXCEPT ![p] = Merged(doc, p)] /\ Step(p, "open")
          \/ Step(p, "failed") /\ UNCHANGED hand
    BY <1>1 DEF ReadDocument
  <2>2. Merged(doc, p) \in Documents
    BY ReadableType, MergedType
  <2>3. hand' \in [Persists -> Documents]
    BY <2>1, <2>2
  <2>4. QED
    BY <1>1, <2>1, <2>3 DEF ReadDocument
<1>2. ASSUME NEW p \in Persists, TruncateFile(p)
      PROVE  ConfigTypeOK' /\ stage' = stage
  BY <1>2, BlankType DEF TruncateFile
<1>3. ASSUME NEW p \in Persists, WriteDocument(p)
      PROVE  ConfigTypeOK' /\ stage' = stage
  <2>1. file' \in {Written(p), Blank("torn"), file}
    BY <1>3 DEF WriteDocument, Written
  <2>2. file' \in Documents
    BY <2>1, WrittenType, BlankType
  <2>3. QED
    BY <1>3, <2>2 DEF WriteDocument
<1>4. ASSUME NEW p \in Persists, KillPersist(p)
      PROVE  ConfigTypeOK' /\ stage' = stage
  BY <1>4 DEF KillPersist
<1>5. ASSUME LoadProject
      PROVE  ConfigTypeOK' /\ stage' \in {"token", "listen", "exited"}
  <2>1. PICK doc \in Readable :
          \/ /\ ref' = (IF asked # None THEN asked ELSE ProjectIn(doc))
             /\ url' = DatabaseIn(doc)
          \/ UNCHANGED <<ref, url>>
    BY <1>5 DEF LoadProject
  <2>2. doc \in Documents
    BY ReadableType
  <2>3. /\ ProjectIn(doc) \in Projects \cup {None}
        /\ DatabaseIn(doc) \in Projects \cup {None}
    BY <2>2 DEF ProjectIn, DatabaseIn, Documents
  <2>4. ref' \in Projects \cup {None} /\ url' \in Projects \cup {None}
    BY <2>1, <2>3, OptionsAssumption
  <2>5. stage' \in {"token", "listen", "exited"}
    BY <1>5 DEF LoadProject
  <2>6. QED
    BY <1>5, <2>4, <2>5 DEF LoadProject
<1>6. ASSUME ResolveToken
      PROVE  ConfigTypeOK' /\ stage' \in {"listen", "exited"}
  <2>1. token' \in Tokens
    BY <1>6 DEF ResolveToken, TokenIn, Tokens
  <2>2. QED
    BY <1>6, <2>1 DEF ResolveToken
<1>7. QED
  BY <1>1, <1>2, <1>3, <1>4, <1>5, <1>6 DEF ConfigNext, Persist

\* Every variable keeps its type.
THEOREM TypeCorrect == Spec => []TypeOK
<1>1. Init => TypeOK
  <2> SUFFICES ASSUME Init PROVE TypeOK
    OBVIOUS
  <2>1. file \in Documents /\ hand \in [Persists -> Documents]
    BY FirstType, BlankType DEF Init, ConfigInit
  <2>2. QED
    BY <2>1 DEF Init, ConfigInit, TypeOK, ConfigTypeOK, Tokens, Subjects
<1>2. TypeOK /\ [Next]_vars => TypeOK'
  <2> SUFFICES ASSUME TypeOK, [Next]_vars PROVE TypeOK'
    OBVIOUS
  <2>1. CASE UNCHANGED vars
    BY <2>1 DEF vars, persistVars, connectVars, tunnelVars, TypeOK, ConfigTypeOK
  <2>2. CASE ConfigNext /\ UNCHANGED tunnelVars
    BY <2>2, ConfigStepType DEF TypeOK, tunnelVars
  <2> USE DEF TypeOK, ConfigTypeOK, persistVars, connectVars, tunnelVars, Cli, Srv, EndCli
  <2>3. CASE Listen \/ Interrupt \/ Stop \/ Terminate \/ Exit
    <3>1. CASE Listen \/ Interrupt \/ Terminate
      BY <3>1 DEF Listen, Interrupt, Terminate
    <3>2. CASE CloseListener
      BY <3>2 DEF CloseListener
    <3>3. CASE Return
      <4>1. app' \in [Apps -> {"idle", "connected", "closed"}]
        BY <3>3 DEF Return
      <4>2. cli' \in [Apps -> {"none", "dial", "handshake", "open", "ended", "gone"}]
        BY <3>3 DEF Return
      <4>3. QED
        BY <3>3, <4>1, <4>2 DEF Return
    <3>4. CASE Exit
      BY <3>4 DEF Exit
    <3>5. QED
      BY <2>3, <3>1, <3>2, <3>3, <3>4 DEF Stop
  <2>4. ASSUME NEW a \in Apps, Connect(a) \/ Hangup(a) \/ Client(a) \/ Vanish(a)
        PROVE  TypeOK'
    BY <2>4 DEF Connect, Hangup, Client, Accept, Dial, Answered, GiveUp, CloseCli, Vanish
  <2>5. ASSUME NEW a \in Apps, Request(a) \/ Served(a)
        PROVE  TypeOK'
    BY <2>5 DEF Request, Authorize, LookUp, Upgrade, DialPostgres, Subjects,
                Served, Reply, Sent, CloseSrv, Drop, Deadline, LateWrite
  <2>6. QED
    BY <2>1, <2>2, <2>3, <2>4, <2>5 DEF Next
<1>3. QED
  BY <1>1, <1>2, PTL DEF Spec

-----------------------------------------------------------------------------
(***************************************************************************)
(* The project and its URL.                                                *)
(***************************************************************************)

\* Every document anywhere is of one project, and so is what the connect has read.
Paired ==
  /\ file.project = file.database
  /\ \A p \in Persists : hand[p].project = hand[p].database
  /\ OnePair

\* A connect prints the URL of the project it asks for.
THEOREM OnePairHolds == Spec => []OnePair
<1>1. Init => Paired
  BY DEF Init, ConfigInit, FirstFiles, Blank, Paired, OnePair
<1>2. TypeOK /\ Paired /\ [Next]_vars => Paired'
  <2> SUFFICES ASSUME TypeOK, Paired, [Next]_vars PROVE Paired'
    OBVIOUS
  <2> USE DEF Paired, OnePair, TypeOK, ConfigTypeOK, Step, persistVars, connectVars, tunnelVars
  <2>1. ASSUME NEW p \in Persists, ReadDocument(p)
        PROVE  Paired'
    <3>1. PICK doc \in Readable :
            \/ hand' = [hand EXCEPT ![p] = Merged(doc, p)]
            \/ UNCHANGED hand
      BY <2>1 DEF ReadDocument
    <3>2. Merged(doc, p).project = Merged(doc, p).database
      BY ReadableType, MergedType
    <3>3. \A q \in Persists : hand'[q].project = hand'[q].database
      BY <3>1, <3>2
    <3>4. QED
      BY <2>1, <3>3 DEF ReadDocument
  <2>2. ASSUME NEW p \in Persists, TruncateFile(p) \/ WriteDocument(p) \/ KillPersist(p)
        PROVE  Paired'
    BY <2>2 DEF TruncateFile, WriteDocument, KillPersist, Blank
  <2>3. CASE LoadProject
    <3>1. PICK doc \in Readable :
            \/ /\ ref' = (IF asked # None THEN asked ELSE ProjectIn(doc))
               /\ url' = DatabaseIn(doc)
            \/ UNCHANGED <<ref, url>>
      BY <2>3 DEF LoadProject
    <3>2. doc.project = doc.database
      BY ReadableType DEF Blank
    <3>3. ProjectIn(doc) = DatabaseIn(doc)
      BY <3>2 DEF ProjectIn, DatabaseIn
    <3>4. QED
      BY <2>3, <3>1, <3>3 DEF LoadProject
  <2>4. CASE UNCHANGED <<file, hand, asked, ref, url>>
    BY <2>4
  <2>5. [Next]_vars =>
          \/ \E p \in Persists : ReadDocument(p)
          \/ \E p \in Persists : TruncateFile(p) \/ WriteDocument(p) \/ KillPersist(p)
          \/ LoadProject
          \/ UNCHANGED <<file, hand, asked, ref, url>>
    BY DEF Next, vars, ConfigNext, Persist, ResolveToken, Listen, Interrupt, Stop,
           CloseListener, Return, Terminate, Exit, Connect, Hangup, Client, Accept, Dial,
           Answered, GiveUp, CloseCli, Vanish, Request, Authorize, LookUp, Upgrade,
           DialPostgres, Served, Reply, Sent, CloseSrv, Drop, Deadline, LateWrite
  <2>6. QED
    BY <2>1, <2>2, <2>3, <2>4, <2>5
<1>3. Paired => OnePair
  BY DEF Paired
<1>4. QED
  BY <1>1, <1>2, <1>3, TypeCorrect, PTL DEF Spec

-----------------------------------------------------------------------------
(***************************************************************************)
(* Who is let in.                                                          *)
(***************************************************************************)

\* No request is under way before the project is settled, and one that is past the
\* lookup belongs to the owner of the project it asks for.
LetIn ==
  /\ stage \in {"load", "token", "listen"} =>
       listener = "none" /\ \A a \in Apps : cli[a] = "none" /\ srv[a] = "none"
  /\ stage \in {"load", "token", "listen"} => \A a \in Apps : app[a] = "idle"
  /\ \A a \in Apps :
       srv[a] \in {"upgrade", "dial", "open", "write"} => ref \in Rows /\ Owner[ref] = sub[a]

LEMMA LetInHolds == Spec => []LetIn
<1>1. Init => LetIn
  BY DEF Init, ConfigInit, LetIn
<1>2. TypeOK /\ LetIn /\ [Next]_vars => LetIn'
  <2> SUFFICES ASSUME TypeOK, LetIn, [Next]_vars PROVE LetIn'
    OBVIOUS
  <2> USE DEF LetIn, TypeOK, persistVars, connectVars, tunnelVars, Cli, Srv, EndCli
  <2>1. CASE UNCHANGED vars
    BY <2>1 DEF vars
  <2>2. CASE ConfigNext /\ UNCHANGED tunnelVars
    <3>1. \/ UNCHANGED <<stage, ref>>
          \/ stage \in {"load", "token"}
      BY <2>2 DEF ConfigNext, Persist, ReadDocument, TruncateFile, WriteDocument,
                  KillPersist, Step, LoadProject, ResolveToken
    <3>2. QED
      BY <2>2, <3>1
  <2>3. CASE Listen \/ Interrupt \/ Stop \/ Terminate
    BY <2>3 DEF Listen, Interrupt, Stop, CloseListener, Return, Terminate
  <2>4. CASE Exit
    BY <2>4 DEF Exit
  <2>5. ASSUME NEW a \in Apps, Connect(a) \/ Hangup(a) \/ Client(a) \/ Vanish(a)
        PROVE  LetIn'
    BY <2>5 DEF Connect, Hangup, Client, Accept, Dial, Answered, GiveUp, CloseCli, Vanish
  <2>6. ASSUME NEW a \in Apps, Request(a) \/ Served(a)
        PROVE  LetIn'
    BY <2>6 DEF Request, Authorize, LookUp, Upgrade, DialPostgres, Holds,
                Served, Reply, Sent, CloseSrv, Drop, Deadline, LateWrite
  <2>7. QED
    BY <2>1, <2>2, <2>3, <2>4, <2>5, <2>6 DEF Next
<1>3. QED
  BY <1>1, <1>2, TypeCorrect, PTL DEF Spec

\* While a tunnel is up, the printed URL is that of a project of the owner let in.
THEOREM PrintedIsServedHolds == Spec => []PrintedIsServed
<1>1. LetIn /\ OnePair => PrintedIsServed
  BY DEF LetIn, OnePair, PrintedIsServed, Holds
<1>2. QED
  BY <1>1, LetInHolds, OnePairHolds, PTL

-----------------------------------------------------------------------------
(***************************************************************************)
(* Nobody is left waiting: the safety half of AppIsTold.                   *)
(***************************************************************************)

\* The client has sent its request before it waits for the answer, has the answer once it
\* is open, and is begun for connections that were made while the listener was open.
Begun(a) ==
  /\ app[a] = "idle" => cli[a] = "none"
  /\ cli[a] = "handshake" => srv[a] # "none"
  /\ cli[a] = "open" => srv[a] \in {"dial", "open", "write", "ended"}
  /\ app[a] = "connected" => cli[a] \in {"none", "dial", "handshake", "open"}
  /\ app[a] = "connected" /\ cli[a] = "none" => listener = "open"

AllBegun ==
  /\ listener = "open" => stage = "serve"
  /\ \A a \in Apps : Begun(a)

\* As long as an application waits, a call is left that serves it: the process of the
\* connect, one of its goroutines, or the API.
THEOREM WaitIsServedHolds == Spec => []WaitIsServed
<1>1. Init => AllBegun
  BY DEF Init, ConfigInit, AllBegun, Begun
<1>2. TypeOK /\ LetIn /\ AllBegun /\ [Next]_vars => AllBegun'
  <2> SUFFICES ASSUME TypeOK, LetIn, AllBegun, [Next]_vars PROVE AllBegun'
    OBVIOUS
  <2> USE DEF AllBegun, Begun, TypeOK, persistVars, connectVars, tunnelVars, Cli, Srv, EndCli
  <2>1. CASE UNCHANGED vars
    BY <2>1 DEF vars
  <2>2. CASE ConfigNext /\ UNCHANGED tunnelVars
    <3>1. UNCHANGED stage \/ stage \in {"load", "token"}
      BY <2>2 DEF ConfigNext, Persist, ReadDocument, TruncateFile, WriteDocument,
                  KillPersist, Step, LoadProject, ResolveToken
    <3>2. QED
      BY <2>2, <3>1 DEF LetIn
  <2>3. CASE Listen \/ Interrupt \/ Terminate
    BY <2>3 DEF Listen, Interrupt, Terminate, LetIn
  <2>4. CASE CloseListener
    BY <2>4 DEF CloseListener
  <2>5. CASE Return
    BY <2>5 DEF Return
  <2>6. CASE Exit
    BY <2>6 DEF Exit
  <2>7. ASSUME NEW a \in Apps, Connect(a) \/ Hangup(a) \/ Client(a) \/ Vanish(a)
        PROVE  AllBegun'
    BY <2>7 DEF Connect, Hangup, Client, Accept, Dial, Answered, GiveUp, CloseCli, Vanish, Holds
  <2>8. ASSUME NEW a \in Apps, Request(a) \/ Served(a)
        PROVE  AllBegun'
    BY <2>8 DEF Request, Authorize, LookUp, Upgrade, DialPostgres, Holds,
                Served, Reply, Sent, CloseSrv, Drop, Deadline, LateWrite
  <2>9. QED
    BY <2>1, <2>2, <2>3, <2>4, <2>5, <2>6, <2>7, <2>8 DEF Next, Stop
<1>3. AllBegun => WaitIsServed
  BY DEF AllBegun, Begun, WaitIsServed, Through, Holds
<1>4. QED
  BY <1>1, <1>2, <1>3, TypeCorrect, LetInHolds, PTL DEF Spec

=============================================================================
