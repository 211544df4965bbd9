------------------------------ MODULE DbConnect ------------------------------
(***************************************************************************)
(* One `einar db connect`, whole: the project and the token from the       *)
(* document (CliConfig), the listener (tunnel.Serve), and for each         *)
(* connection of an application the WebSocket handshake, the API's checks, *)
(* its connection to PostgreSQL, and the ends of all of them, with Ctrl+C  *)
(* on one side and SIGTERM on the other.  pgtunnel is the same from the    *)
(* listener on.  What the two proxies do with bytes is Tunnel's; here they *)
(* only follow each other's end, and of the API's loop from PostgreSQL it  *)
(* counts on which of its two sockets it waits, as only one has a deadline.*)
(***************************************************************************)
EXTENDS CliConfig

CONSTANTS
  Apps,         \* connections of applications to the local port, one each
  Rows,         \* the projects that have a row in public.projects
  Owner,        \* the subject each project belongs to
  AuthDisabled, \* AUTH_DISABLED=true: every request has the subject DevSub
  DevSub,
  NetFaults     \* the kinds of fault that may happen to a connection

\* refuse: a call of the API fails: an expired token, a query, the dial of PostgreSQL
\* slow:   a handshake takes longer than its timeout
\* vanish: the client's host is gone, and the API's TCP connection does not notice
\* drop:   PostgreSQL or the network closes a connection
NetFaultKinds == {"refuse", "slow", "vanish", "drop"}

\* A token is told from another by its subject.
Subjects == Tokens \cup {DevSub, None}

ASSUME OwnerAssumption == Rows \subseteq Projects /\ DOMAIN Owner = Projects
ASSUME NetFaultsAssumption == NetFaults \subseteq NetFaultKinds

VARIABLES
  listener,     \* of the connect
  interrupted,  \* its context is cancelled
  app,          \* the local connection of each application
  cli,          \* the goroutine of handleConn for it
  srv,          \* the goroutine of handleTunnel for it
  sub,          \* the sub claim the API found
  api           \* the API process

tunnelVars == <<listener, interrupted, app, cli, srv, sub, api>>
vars == <<persistVars, connectVars, tunnelVars>>

TypeOK ==
  /\ ConfigTypeOK
  /\ stage \in {"load", "token", "listen", "serve", "exited"}
  /\ listener \in {"none", "open", "closed"}
  /\ interrupted \in BOOLEAN
  /\ app \in [Apps -> {"idle", "connected", "closed"}]
  /\ cli \in [Apps -> {"none", "dial", "handshake", "open", "ended", "gone"}]
  /\ srv \in [Apps -> {"none", "auth", "lookup", "upgrade", "dial", "open", "write",
                        "ended"}]
  /\ sub \in [Apps -> Subjects]
  /\ api \in {"up", "closing", "down"}

Init ==
  /\ ConfigInit
  /\ listener = "none"
  /\ interrupted = FALSE
  /\ app = [a \in Apps |-> "idle"]
  /\ cli = [a \in Apps |-> "none"]
  /\ srv = [a \in Apps |-> "none"]
  /\ sub = [a \in Apps |-> None]
  /\ api = "up"

\* The API holds a connection to PostgreSQL for a: the loop that reads it is in
\* pgConn.Read (open) or in ws.WriteMessage (write).
Holds(a) == srv[a] \in {"open", "write"}

\* The application can talk to PostgreSQL.
Through(a) == cli[a] = "open" /\ Holds(a)

-----------------------------------------------------------------------------
(***************************************************************************)
(* Control flow.                                                           *)
(***************************************************************************)
Cli(a, label) == cli' = [cli EXCEPT ![a] = label]
Srv(a, label) == srv' = [srv EXCEPT ![a] = label]

\* handleConn returns: the deferred Close of both its connections.
EndCli(a) ==
  /\ Cli(a, "ended")
  /\ app' = [app EXCEPT ![a] = "closed"]

-----------------------------------------------------------------------------
(***************************************************************************)
(* Plausible mistakes: variants of definitions, none of them in use.       *)
(***************************************************************************)

\* LookUp, were the row looked for by its name alone.
LookUpAny(a) ==
  /\ srv[a] = "lookup"
  /\ \/ ref \in Rows /\ Srv(a, "upgrade")
     \/ (ref \notin Rows \/ "refuse" \in NetFaults) /\ Srv(a, "ended")
  /\ UNCHANGED <<persistVars, connectVars, listener, interrupted, app, cli, sub, api>>

\* CloseListener, were the context looked at between two calls of Accept.
CloseAfterAccept ==
  /\ interrupted /\ listener = "open"
  /\ \E a \in Apps : cli[a] = "none" /\ app[a] = "connected"
  /\ listener' = "closed"
  /\ app' = [a \in Apps |-> IF cli[a] = "none" /\ app[a] = "connected"
                            THEN "closed" ELSE app[a]]
  /\ UNCHANGED <<persistVars, connectVars, interrupted, cli, srv, sub, api>>

\* Answered, were the local connection closed by the proxy alone.
AnsweredOpen(a) ==
  /\ cli[a] = "handshake"
  /\ \/ (srv[a] = "dial" \/ Holds(a)) /\ Cli(a, "open")
     \/ srv[a] = "ended" /\ Cli(a, "ended")
  /\ UNCHANGED <<persistVars, connectVars, listener, interrupted, app, srv, sub, api>>

\* Exit, were requests that have not begun ended too.
ExitAll ==
  /\ api = "closing"
  /\ api' = "down"
  /\ srv' = [a \in Apps |-> "down"]
  /\ UNCHANGED <<persistVars, connectVars, listener, interrupted, app, cli, sub>>

\* Deadline, were the TCP connection given none.
NoDeadline(a) ==
  /\ srv[a] = "open" /\ cli[a] = "ended"
  /\ Srv(a, "ended")
  /\ UNCHANGED <<persistVars, connectVars, listener, interrupted, app, cli, sub, api>>

-----------------------------------------------------------------------------
(***************************************************************************)
(* The client: tunnel.Serve and handleConn.                                *)
(***************************************************************************)

\* net.Listen fails when the port is in use; there is no next port.
Listen ==
  /\ stage = "listen"
  /\ \/ stage' = "serve" /\ listener' = "open"
     \/ stage' = "exited" /\ UNCHANGED listener
  /\ UNCHANGED <<persistVars, asked, ref, url, token, interrupted, app, cli, srv, sub, api>>

\* An application connects: the kernel takes the connection before Serve does.
Connect(a) ==
  /\ listener = "open" /\ app[a] = "idle"
  /\ app' = [app EXCEPT ![a] = "connected"]
  /\ UNCHANGED <<persistVars, connectVars, listener, interrupted, cli, srv, sub, api>>

Hangup(a) ==
  /\ app[a] = "connected"
  /\ app' = [app EXCEPT ![a] = "closed"]
  /\ UNCHANGED <<persistVars, connectVars, listener, interrupted, cli, srv, sub, api>>

\* One goroutine each.  An Accept that fails is logged and called again: no step.
Accept(a) ==
  /\ stage = "serve" /\ listener = "open"
  /\ app[a] # "idle" /\ cli[a] = "none"
  /\ Cli(a, "dial")
  /\ UNCHANGED <<persistVars, connectVars, listener, interrupted, app, srv, sub, api>>

\* DialContext: the request is sent, or there is nobody to take it.
Dial(a) ==
  /\ cli[a] = "dial"
  /\ \/ /\ api = "up" /\ ~interrupted
        /\ Cli(a, "handshake") /\ Srv(a, "auth")
        /\ UNCHANGED app
     \/ /\ api # "up" \/ interrupted \/ "slow" \in NetFaults
        /\ EndCli(a)
        /\ UNCHANGED srv
  /\ UNCHANGED <<persistVars, connectVars, listener, interrupted, sub, api>>

\* The answer to the handshake, or the end of the API process.
Answered(a) ==
  /\ cli[a] = "handshake"
  /\ \/ (srv[a] = "dial" \/ Holds(a)) /\ Cli(a, "open") /\ UNCHANGED app
     \/ srv[a] = "ended" /\ EndCli(a)
  /\ UNCHANGED <<persistVars, connectVars, listener, interrupted, srv, sub, api>>

\* HandshakeTimeout, or the context of the connect.
GiveUp(a) ==
  /\ cli[a] = "handshake"
  /\ interrupted \/ "slow" \in NetFaults
  /\ EndCli(a)
  /\ UNCHANGED <<persistVars, connectVars, listener, interrupted, srv, sub, api>>

\* proxyTCPToWebSocket: it ends when the application or the API has closed.
CloseCli(a) ==
  /\ cli[a] = "open"
  /\ app[a] = "closed" \/ srv[a] = "ended"
  /\ EndCli(a)
  /\ UNCHANGED <<persistVars, connectVars, listener, interrupted, srv, sub, api>>

\* SIGINT or SIGTERM cancels the context, whatever is open.
Interrupt ==
  /\ stage = "serve" /\ ~interrupted
  /\ interrupted' = TRUE
  /\ UNCHANGED <<persistVars, connectVars, listener, app, cli, srv, sub, api>>

\* The goroutine that waits for the context; connections nobody has accepted are reset.
CloseListener ==
  /\ interrupted /\ listener = "open"
  /\ listener' = "closed"
  /\ app' = [a \in Apps |-> IF cli[a] = "none" /\ app[a] = "connected"
                            THEN "closed" ELSE app[a]]
  /\ UNCHANGED <<persistVars, connectVars, interrupted, cli, srv, sub, api>>

\* Accept fails, and Serve returns without waiting for its goroutines: the process
\* ends, and the system closes what they had open.
Return ==
  /\ stage = "serve" /\ interrupted /\ listener = "closed"
  /\ stage' = "exited"
  /\ app' = [a \in Apps |-> IF app[a] = "connected" THEN "closed" ELSE app[a]]
  /\ cli' = [a \in Apps |-> IF cli[a] \in {"dial", "handshake", "open"} THEN "ended" ELSE cli[a]]
  /\ UNCHANGED <<persistVars, asked, ref, url, token, listener, interrupted, srv, sub, api>>

\* The host of the client is gone for the API: no packet of it comes any more.
Vanish(a) ==
  /\ "vanish" \in NetFaults
  /\ cli[a] \in {"handshake", "open"}
  /\ Cli(a, "gone")
  /\ app' = [app EXCEPT ![a] = "closed"]
  /\ UNCHANGED <<persistVars, connectVars, listener, interrupted, srv, sub, api>>

-----------------------------------------------------------------------------
(***************************************************************************)
(* The API: JWTMiddleware and handleTunnel.                                *)
(***************************************************************************)
Authorize(a) ==
  /\ srv[a] = "auth"
  /\ LET subject == IF AuthDisabled THEN DevSub ELSE token
     IN  \/ /\ subject # None
            /\ sub' = [sub EXCEPT ![a] = subject]
            /\ Srv(a, "lookup")
         \/ /\ ~AuthDisabled /\ (subject = None \/ "refuse" \in NetFaults)
            /\ Srv(a, "ended")
            /\ UNCHANGED sub
  /\ UNCHANGED <<persistVars, connectVars, listener, interrupted, app, cli, api>>

\* FindProjectForOwner.
LookUp(a) ==
  /\ srv[a] = "lookup"
  /\ LET found == ref \in Rows /\ Owner[ref] = sub[a]
     IN  \/ found /\ Srv(a, "upgrade")
         \/ (~found \/ "refuse" \in NetFaults) /\ Srv(a, "ended")
  /\ UNCHANGED <<persistVars, connectVars, listener, interrupted, app, cli, sub, api>>

\* The connection is hijacked and the handshake answered, if the client still waits.
Upgrade(a) ==
  /\ srv[a] = "upgrade"
  /\ \/ Srv(a, "dial")
     \/ cli[a] # "handshake" /\ Srv(a, "ended")
  /\ UNCHANGED <<persistVars, connectVars, listener, interrupted, app, cli, sub, api>>

\* Only now PostgreSQL is asked; a refusal closes the WebSocket the client has open.
DialPostgres(a) ==
  /\ srv[a] = "dial"
  /\ \/ Srv(a, "open")
     \/ "refuse" \in NetFaults /\ Srv(a, "ended")
  /\ UNCHANGED <<persistVars, connectVars, listener, interrupted, app, cli, sub, api>>

\* PostgreSQL has sent something, and the loop writes it to the WebSocket.
Reply(a) ==
  /\ srv[a] = "open"
  /\ Srv(a, "write")
  /\ UNCHANGED <<persistVars, connectVars, listener, interrupted, app, cli, sub, api>>

\* The WebSocket takes it, if need be because the client has read.
Sent(a) ==
  /\ srv[a] = "write"
  /\ Srv(a, "open")
  /\ UNCHANGED <<persistVars, connectVars, listener, interrupted, app, cli, sub, api>>

\* proxyWebSocketToTCP ends: the client has closed, or the kernel has given up what a
\* host that is gone does not acknowledge.
CloseSrv(a) ==
  /\ Holds(a)
  /\ cli[a] = "ended" \/ (cli[a] = "gone" /\ srv[a] = "write")
  /\ Srv(a, "ended")
  /\ UNCHANGED <<persistVars, connectVars, listener, interrupted, app, cli, sub, api>>

Drop(a) ==
  /\ "drop" \in NetFaults
  /\ Holds(a)
  /\ Srv(a, "ended")
  /\ UNCHANGED <<persistVars, connectVars, listener, interrupted, app, cli, sub, api>>

\* tunnelMaxLifetime is over.  SetDeadline has put it on the connection to PostgreSQL
\* alone, and who finds out is who waits for that connection or uses it next.
Deadline(a) ==
  /\ srv[a] = "open"
  /\ Srv(a, "ended")
  /\ UNCHANGED <<persistVars, connectVars, listener, interrupted, app, cli, sub, api>>

\* The other loop, when the client sends something.
LateWrite(a) ==
  /\ srv[a] = "write" /\ cli[a] = "open"
  /\ Srv(a, "ended")
  /\ UNCHANGED <<persistVars, connectVars, listener, interrupted, app, cli, sub, api>>

\* SIGTERM: ioc.Shutdown calls server.Shutdown, and nothing new is taken.
Terminate ==
  /\ api = "up"
  /\ api' = "closing"
  /\ UNCHANGED <<persistVars, connectVars, listener, interrupted, app, cli, srv, sub>>

\* The process ends, and every request and every tunnel with it: when requests are
\* answered or after ten seconds, or before, because Run has returned ErrServerClosed
\* and startServer's goroutine panics on it.
Exit ==
  /\ api = "closing"
  /\ api' = "down"
  /\ srv' = [a \in Apps |-> IF srv[a] = "none" THEN "none" ELSE "ended"]
  /\ UNCHANGED <<persistVars, connectVars, listener, interrupted, app, cli, sub>>

-----------------------------------------------------------------------------
Client(a) == Accept(a) \/ Dial(a) \/ Answered(a) \/ GiveUp(a) \/ CloseCli(a)
Request(a) == Authorize(a) \/ LookUp(a) \/ Upgrade(a) \/ DialPostgres(a)
Served(a) == Reply(a) \/ Sent(a) \/ CloseSrv(a) \/ Drop(a) \/ Deadline(a) \/ LateWrite(a)
Stop == CloseListener \/ Return

Next ==
  \/ ConfigNext /\ UNCHANGED tunnelVars
  \/ Listen \/ Interrupt \/ Stop \/ Terminate \/ Exit
  \/ \E a \in Apps :
       \/ Connect(a) \/ Hangup(a) \/ Client(a) \/ Vanish(a)
       \/ Request(a) \/ Served(a)

Spec == Init /\ [][Next]_vars

\* Goroutines are scheduled and every call of a handshake ends, the last one by its
\* timeout; a process that has begun to end does so.  The deadline passes once and for
\* all: every later Read fails at once, so that a loop that comes back to it again and
\* again meets it.  Nothing is assumed of applications, signals and faults, and not
\* that a write to the WebSocket ends.
Fairness ==
  /\ \A a \in Apps :
       /\ WF_vars(Client(a)) /\ WF_vars(Request(a)) /\ WF_vars(CloseSrv(a))
       /\ SF_vars(Deadline(a))
  /\ WF_vars(Stop) /\ WF_vars(Exit)

FairSpec == Spec /\ Fairness

-----------------------------------------------------------------------------
(***************************************************************************)
(* Properties.                                                             *)
(***************************************************************************)
\* While a tunnel is up, the database URL the connect has printed is that of a project
\* whose owner the API has let in: although the document is read twice, once for the
\* project and once for the token, while other commands replace it, and although an
\* unreadable document makes the token another user's.
PrintedIsServed ==
  \A a \in Apps :
    Holds(a) /\ asked = None /\ url # None => url \in Rows /\ Owner[url] = sub[a]

\* An application that has connected gets through, or its connection is closed: no
\* refusal, timeout, late failure of PostgreSQL or end of either process leaves it
\* waiting at a socket nobody serves.
AppIsTold ==
  \A a \in Apps : app[a] = "connected" /\ ~Through(a) ~> Through(a) \/ app[a] = "closed"

\* Why it is told: while an application waits, somebody is left whose next call brings
\* it further or closes its connection.  Nobody leaves it to somebody who has given up
\* himself: not Serve to a listener that is closed, not the client to a request that was
\* never sent, not the API to a client it believes still to be in its handshake.
WaitIsServed ==
  \A a \in Apps : app[a] = "connected" /\ ~Through(a) =>
    \/ cli[a] = "none" /\ listener = "open" /\ stage = "serve"
    \/ cli[a] = "dial"
    \/ cli[a] = "handshake" /\ srv[a] # "none"
    \/ cli[a] = "open" /\ srv[a] \in {"dial", "ended"}

\* A connection to PostgreSQL is held for ever in one case only: the API is stuck in a
\* write to a client that is alive and whose application neither reads nor closes.  An
\* idle client, one that has gone without a word and one that never stops talking lose
\* it to the deadline, although nobody watches the clock.
TunnelsEnd ==
  \A a \in Apps :
    <>[]Holds(a) => <>[](srv[a] = "write" /\ cli[a] = "open" /\ app[a] = "connected")

\* Ctrl+C ends the connect, whatever its connections are doing.
ServeStops == interrupted ~> stage = "exited"

=============================================================================
