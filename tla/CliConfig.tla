------------------------------ MODULE CliConfig ------------------------------
(***************************************************************************)
(* The document .einar/config.json and the processes of one directory that *)
(* use it: `einar db persist-project-response` reads it, puts a project    *)
(* into it and writes it back; `einar db connect` reads the project from   *)
(* it, and then the token.  Nobody locks the file, and os.WriteFile first  *)
(* truncates it and then writes into whatever it holds by then.            *)
(*                                                                         *)
(* A document is a page at most, so that one write(2) has all of its effect *)
(* or none.  Documents differ in the project they name and in the keys of  *)
(* other tools (token, workspaceBranch); that of a project stands for its  *)
(* id, name, URL and schema.                                               *)
(***************************************************************************)
EXTENDS Naturals

CONSTANTS
  Persists,     \* persist-project-response processes; each has a project of its own
  Old,          \* the project a document from before names
  None,         \* no project, no token
  Keys,         \* the keys of other tools
  TokenKey,     \* the one that holds a token
  DocToken,     \* the token under that key
  OtherToken,   \* the first token in the documents of the parents or of $HOME, or None
  Asked,        \* what --project may be: projects, or None
  Given,        \* what --token or the environment may be: tokens, or None
  Faults        \* the kinds of fault that may happen

\* full: a file cannot be created or written, no effect
\* kill: a process ends between two calls
FaultKinds == {"full", "kill"}

Projects == Persists \cup {Old}
Tokens == {DocToken, OtherToken} \cup Given

ASSUME NoneAssumption == None \notin Projects \cup {DocToken}
ASSUME KeysAssumption == TokenKey \in Keys
ASSUME OptionsAssumption == Asked \subseteq Projects \cup {None}
ASSUME ConfigFaultsAssumption == Faults \subseteq FaultKinds

VARIABLES
  file,       \* .einar/config.json
  pc,         \* the next call of each persist
  hand,       \* the document each persist has in hand
  stage,      \* the next call of the connect
  asked,      \* its --project
  ref,        \* the project it will ask a tunnel for
  url,        \* the project whose database URL it prints
  token       \* its token

persistVars == <<file, pc, hand>>
connectVars == <<stage, asked, ref, url, token>>

\* A file that is no document is absent, empty (truncated), or torn: invalid JSON.
\* project and database are the objects of these names, legacy the keys from before
\* them: lastProjectId, lastProjectSlug, projectDb*.
Documents == [kind : {"absent", "empty", "torn", "doc"},
              project : Projects \cup {None}, database : Projects \cup {None},
              legacy : Projects \cup {None}, keys : SUBSET Keys]
Blank(kind) == [kind |-> kind, project |-> None, database |-> None,
                legacy |-> None, keys |-> {}]

\* What the directory may hold at first: nothing, the keys of other tools, and with
\* them a project in the new form or in the old one.
FirstFiles ==
  {Blank("absent")} \cup
  {[kind |-> "doc", project |-> p, database |-> p, legacy |-> l, keys |-> Keys] :
     p \in {None, Old}, l \in {None, Old}}

ConfigTypeOK ==
  /\ file \in Documents
  /\ pc \in [Persists -> {"read", "open", "write", "ok", "failed", "killed"}]
  /\ hand \in [Persists -> Documents]
  /\ asked \in Asked
  /\ ref \in Projects \cup {None}
  /\ url \in Projects \cup {None}
  /\ token \in Tokens \cup {None}

ConfigInit ==
  /\ file \in FirstFiles
  /\ pc = [p \in Persists |-> "read"]
  /\ hand = [p \in Persists |-> Blank("absent")]
  /\ stage = "load"
  /\ asked \in Asked
  /\ ref = None
  /\ url = None
  /\ token \in Given

-----------------------------------------------------------------------------
(***************************************************************************)
(* Control flow.                                                           *)
(***************************************************************************)
Step(p, label) == pc' = [pc EXCEPT ![p] = label] /\ UNCHANGED connectVars

\* os.ReadFile: what is there, or, when a write falls between its calls to read(2),
\* the beginning of one document and the end of another one.
Readable == {file} \cup (IF \E p \in Persists : pc[p] = "write" THEN {Blank("torn")} ELSE {})

\* persistProjectConfig: the two objects are replaced and every other key is kept.
\* kind still says what was found; configVersion is left out.
Merged(doc, p) == [kind |-> doc.kind, project |-> p, database |-> p,
                   legacy |-> doc.legacy, keys |-> doc.keys]

\* loadConfig: the new form first, field by field.
ProjectIn(doc) == IF doc.project # None THEN doc.project ELSE doc.legacy
DatabaseIn(doc) == IF doc.database # None THEN doc.database ELSE doc.legacy

\* readTokenFromConfig: an unreadable document is one without a token.
TokenIn(doc) == IF doc.kind = "doc" /\ TokenKey \in doc.keys THEN DocToken ELSE OtherToken

-----------------------------------------------------------------------------
(***************************************************************************)
(* Plausible mistakes: variants of definitions, none of them in use.       *)
(***************************************************************************)

\* LoadProject, were the old keys preferred for the project.
LoadLegacyFirst ==
  /\ stage = "load"
  /\ \E doc \in Readable :
       LET project == IF asked # None THEN asked
                      ELSE IF doc.legacy # None THEN doc.legacy ELSE doc.project
       IN  /\ doc.kind = "doc"
           /\ ref' = project
           /\ url' = DatabaseIn(doc)
           /\ stage' = IF project = None THEN "exited"
                       ELSE IF token = None THEN "token" ELSE "listen"
  /\ UNCHANGED <<persistVars, asked, token>>

-----------------------------------------------------------------------------
(***************************************************************************)
(* einar db persist-project-response.                                      *)
(***************************************************************************)

\* readConfigDocument: no file and an empty file are documents without keys.
ReadDocument(p) ==
  /\ pc[p] = "read"
  /\ \E doc \in Readable :
       \/ /\ doc.kind # "torn"
          /\ hand' = [hand EXCEPT ![p] = Merged(doc, p)]
          /\ Step(p, "open")
       \/ doc.kind = "torn" /\ Step(p, "failed") /\ UNCHANGED hand
  /\ UNCHANGED file

\* os.MkdirAll, and os.WriteFile opens with O_CREATE and O_TRUNC.
TruncateFile(p) ==
  /\ pc[p] = "open"
  /\ \/ file' = Blank("empty") /\ Step(p, "write")
     \/ "full" \in Faults /\ Step(p, "failed") /\ UNCHANGED file
  /\ UNCHANGED hand

\* It writes at the start of the file: the end of a longer document that another
\* process has written meanwhile stays behind it.  Which one is longer is left open.
WriteDocument(p) ==
  /\ pc[p] = "write"
  /\ LET doc == [kind |-> "doc", project |-> hand[p].project, database |-> hand[p].database,
                 legacy |-> hand[p].legacy, keys |-> hand[p].keys]
     IN  \/ file' = doc /\ Step(p, "ok")
         \/ file.kind # "empty" /\ file # doc /\ file' = Blank("torn") /\ Step(p, "ok")
         \/ "full" \in Faults /\ Step(p, "failed") /\ UNCHANGED file
  /\ UNCHANGED hand

KillPersist(p) ==
  /\ "kill" \in Faults
  /\ pc[p] \in {"read", "open", "write"}
  /\ Step(p, "killed")
  /\ UNCHANGED <<file, hand>>

-----------------------------------------------------------------------------
(***************************************************************************)
(* einar db connect, up to the tunnel.                                     *)
(***************************************************************************)
LoadProject ==
  /\ stage = "load"
  /\ \E doc \in Readable :
       LET project == IF asked # None THEN asked ELSE ProjectIn(doc)
       IN  \/ /\ doc.kind = "doc" /\ project # None
              /\ ref' = project
              /\ url' = DatabaseIn(doc)
              /\ stage' = IF token = None THEN "token" ELSE "listen"
           \/ /\ doc.kind # "doc" \/ project = None
              /\ stage' = "exited"
              /\ UNCHANGED <<ref, url>>
  /\ UNCHANGED <<persistVars, asked, token>>

\* resolveToken: the same document again, its parents' and that of $HOME.  Nothing
\* changes these two while they are looked for.
ResolveToken ==
  /\ stage = "token"
  /\ \E doc \in Readable : token' = TokenIn(doc)
  /\ stage' = IF token' = None THEN "exited" ELSE "listen"
  /\ UNCHANGED <<persistVars, asked, ref, url>>

Persist(p) == ReadDocument(p) \/ TruncateFile(p) \/ WriteDocument(p)
ConfigNext == (\E p \in Persists : Persist(p) \/ KillPersist(p)) \/ LoadProject \/ ResolveToken

-----------------------------------------------------------------------------
(***************************************************************************)
(* Properties.                                                             *)
(***************************************************************************)
\* The project a connect asks a tunnel for is the one whose database URL it prints,
\* whatever persists write, interrupt or overwrite meanwhile and whichever form of the
\* document it meets, unless --project says otherwise.
OnePair == asked = None /\ url # None => ref = url

\* The merge is not destructive (doc/plan-implementacion-cli-db-connect.md:137): when
\* every command has reported success, the keys of other tools that one of them found
\* in the document are in the document.
MergeKeeps ==
  (\A p \in Persists : pc[p] = "ok") /\ (\E p \in Persists : hand[p].keys = Keys)
    => file.keys = Keys

=============================================================================
