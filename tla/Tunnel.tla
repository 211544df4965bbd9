------------------------------- MODULE Tunnel -------------------------------
(***************************************************************************)
(* One tunnelled PostgreSQL connection.                                    *)
(*                                                                         *)
(*   application -tcp- CLI (proxyTCPToWebSocket) =websocket=               *)
(*                     API (proxyWebSocketToTCP) -tcp- PostgreSQL          *)
(*                                                                         *)
(* The two sides run the same two loops, each in a goroutine of its own:   *)
(* "out" reads the TCP socket and writes binary frames, "in" reads frames  *)
(* and writes the TCP socket.  Whichever ends first closes both sockets of *)
(* its side, and that ends the other loop.  A chunk of bytes is the number *)
(* of the write that sent it.                                              *)
(***************************************************************************)
EXTENDS Naturals, Sequences

CONSTANTS
  MaxChunks,   \* bound: how many chunks the endpoint of each side writes
  Window,      \* how many chunks a connection holds in flight
  Faults       \* the kinds of fault that may happen

\* drop: the network loses a connection, or the deadline of the API's TCP socket
\*       (tunnelMaxLifetime, eight hours) passes
\* kill: the process of a side exits; exiting closes its sockets
FaultKinds == {"drop", "kill"}

Sides == {"cli", "api"}

ASSUME BoundAssumption == MaxChunks \in [Sides -> Nat] /\ Window \in Nat \ {0}
ASSUME FaultsAssumption == Faults \subseteq FaultKinds

Loops == {"out", "in"}
Other(side) == IF side = "cli" THEN "api" ELSE "cli"

VARIABLES
  sent,      \* chunks the endpoint of each side has written
  endpoint,  \* the endpoint's socket: open, or shut for writing, or closed
  stalled,   \* whether the endpoint has stopped reading
  received,  \* the chunks the endpoint of each side has been delivered
  tcpIn,     \* the chunks in flight from the endpoint to its side
  frames,    \* the binary frames in flight from a side to the other
  pc,        \* what each loop does next: read, write, or it is done
  held,      \* the chunk each loop has read and not yet written, or 0
  tcp,       \* whether a side's TCP socket is open
  ws         \* whether a side's WebSocket is open

data == <<received, tcpIn, frames, held>>
ends == <<sent, endpoint, stalled>>
vars == <<sent, endpoint, stalled, received, tcpIn, frames, pc, held, tcp, ws>>

Chunks(side) == 1 .. MaxChunks[side]

TypeOK ==
  \A side \in Sides :
    /\ sent[side] \in 0 .. MaxChunks[side]
    /\ endpoint[side] \in {"open", "shut", "closed"}
    /\ stalled[side] \in BOOLEAN
    /\ received[side] \in Seq(Chunks(Other(side)))
    /\ tcpIn[side] \in Seq(Chunks(side))
    /\ frames[side] \in Seq(Chunks(side))
    /\ pc[side] \in [Loops -> {"read", "write", "done"}]
    /\ held[side]["out"] \in Chunks(side) \cup {0}
    /\ held[side]["in"] \in Chunks(Other(side)) \cup {0}
    /\ tcp[side] \in BOOLEAN
    /\ ws[side] \in BOOLEAN

\* The handshake is over: the project was found for the owner, the upgrade was
\* accepted, and PostgreSQL answered the dial.
Init ==
  /\ sent = [side \in Sides |-> 0]
  /\ endpoint = [side \in Sides |-> "open"]
  /\ stalled = [side \in Sides |-> FALSE]
  /\ received = [side \in Sides |-> <<>>]
  /\ tcpIn = [side \in Sides |-> <<>>]
  /\ frames = [side \in Sides |-> <<>>]
  /\ pc = [side \in Sides |-> [loop \in Loops |-> "read"]]
  /\ held = [side \in Sides |-> [loop \in Loops |-> 0]]
  /\ tcp = [side \in Sides |-> TRUE]
  /\ ws = [side \in Sides |-> TRUE]

-----------------------------------------------------------------------------
(***************************************************************************)
(* The endpoints: the application at the CLI, PostgreSQL at the API.       *)
(***************************************************************************)
Write(side) ==
  /\ endpoint[side] = "open" /\ tcp[side]
  /\ sent[side] < MaxChunks[side]
  /\ Len(tcpIn[side]) < Window
  /\ sent' = [sent EXCEPT ![side] = @ + 1]
  /\ tcpIn' = [tcpIn EXCEPT ![side] = Append(@, sent[side] + 1)]
  /\ UNCHANGED <<endpoint, stalled, received, frames, pc, held, tcp, ws>>

\* shutdown(SHUT_WR), then close.
Shut(side) ==
  /\ endpoint[side] = "open"
  /\ endpoint' = [endpoint EXCEPT ![side] = "shut"]
  /\ UNCHANGED <<sent, stalled, data, pc, tcp, ws>>

Close(side) ==
  /\ endpoint[side] # "closed"
  /\ endpoint' = [endpoint EXCEPT ![side] = "closed"]
  /\ UNCHANGED <<sent, stalled, data, pc, tcp, ws>>

\* The endpoint reads nothing from now on; its window fills up.
Stall(side) ==
  /\ ~stalled[side] /\ endpoint[side] # "closed"
  /\ stalled' = [stalled EXCEPT ![side] = TRUE]
  /\ UNCHANGED <<sent, endpoint, data, pc, tcp, ws>>

-----------------------------------------------------------------------------
(***************************************************************************)
(* The loops.                                                              *)
(***************************************************************************)
Over(side, loop) == pc[side][loop] = "done"

Step(side, loop, label) == pc' = [pc EXCEPT ![side][loop] = label]

\* closeBoth, and the loop returns.  Were the WebSocket forgotten, or the label
\* misspelt:
EndHalf(side, loop) ==
  /\ Step(side, loop, "done")
  /\ tcp' = [tcp EXCEPT ![side] = FALSE]
  /\ UNCHANGED ws

EndClosed(side, loop) ==
  /\ Step(side, loop, "closed")
  /\ tcp' = [tcp EXCEPT ![side] = FALSE]
  /\ ws' = [ws EXCEPT ![side] = FALSE]

End(side, loop) ==
  /\ Step(side, loop, "done")
  /\ tcp' = [tcp EXCEPT ![side] = FALSE]
  /\ ws' = [ws EXCEPT ![side] = FALSE]

Hold(side, loop, chunk) == held' = [held EXCEPT ![side][loop] = chunk]

-----------------------------------------------------------------------------
(***************************************************************************)
(* Plausible mistakes: variants of the actions below, none of them a step  *)
(* of Next.  PROJECT.json names the property that tells each one from the  *)
(* action it stands for.                                                   *)
(***************************************************************************)

\* ReadFrame, were a binary frame taken for one of the frames that are skipped.
SkipFrame(side) ==
  /\ pc[side]["in"] = "read"
  /\ ws[side] /\ frames[Other(side)] # <<>>
  /\ frames' = [frames EXCEPT ![Other(side)] = Tail(@)]
  /\ UNCHANGED <<ends, received, tcpIn, pc, held, tcp, ws>>

\* ReadFrame, were one goroutine to serve both directions.
ReadFrameInTurn(side) ==
  /\ pc[side]["in"] = "read" /\ pc[side]["out"] # "write"
  /\ \/ /\ ws[side] /\ frames[Other(side)] # <<>>
        /\ Hold(side, "in", Head(frames[Other(side)]))
        /\ frames' = [frames EXCEPT ![Other(side)] = Tail(@)]
        /\ Step(side, "in", "write")
        /\ UNCHANGED <<tcp, ws>>
     \/ /\ ~ws[side] \/ ~ws[Other(side)]
        /\ End(side, "in")
        /\ UNCHANGED <<held, frames>>
  /\ UNCHANGED <<ends, received, tcpIn>>

\* WriteTCP, were a chunk written again after a write that had succeeded.
RewriteTCP(side) ==
  /\ pc[side]["in"] = "write"
  /\ tcp[side] /\ endpoint[side] # "closed" /\ Len(received[side]) < MaxChunks[Other(side)]
  /\ received' = [received EXCEPT ![side] = Append(@, held[side]["in"])]
  /\ UNCHANGED <<ends, tcpIn, frames, pc, held, tcp, ws>>

-----------------------------------------------------------------------------
\* tcp.Read: a chunk, EOF from an endpoint that has shut its socket, or an
\* error: the socket is closed on this side, or the connection is reset.
ReadTCP(side) ==
  /\ pc[side]["out"] = "read"
  /\ \/ /\ tcp[side] /\ tcpIn[side] # <<>>
        /\ Hold(side, "out", Head(tcpIn[side]))
        /\ tcpIn' = [tcpIn EXCEPT ![side] = Tail(@)]
        /\ Step(side, "out", "write")
        /\ UNCHANGED <<tcp, ws>>
     \/ /\ \/ ~tcp[side]
           \/ endpoint[side] # "open" /\ tcpIn[side] = <<>>
           \/ endpoint[side] = "closed"
        /\ End(side, "out")
        /\ UNCHANGED <<held, tcpIn>>
  /\ UNCHANGED <<ends, received, frames>>

\* ws.WriteMessage: waits while the connection is full; may succeed once more
\* after the other side has closed, and the frame is lost with it.
WriteFrame(side) ==
  /\ pc[side]["out"] = "write"
  /\ \/ /\ ws[side] /\ Len(frames[side]) < Window
        /\ frames' = [frames EXCEPT ![side] = Append(@, held[side]["out"])]
        /\ Hold(side, "out", 0)
        /\ Step(side, "out", "read")
        /\ UNCHANGED <<tcp, ws>>
     \/ /\ ~ws[side] \/ ~ws[Other(side)]
        /\ End(side, "out")
        /\ UNCHANGED <<frames, held>>
  /\ UNCHANGED <<ends, received, tcpIn>>

\* ws.NextReader: a frame, or an error: the socket is closed on this side, or
\* the other side has closed, which may discard what is still in flight.
ReadFrame(side) ==
  /\ pc[side]["in"] = "read"
  /\ \/ /\ ws[side] /\ frames[Other(side)] # <<>>
        /\ Hold(side, "in", Head(frames[Other(side)]))
        /\ frames' = [frames EXCEPT ![Other(side)] = Tail(@)]
        /\ Step(side, "in", "write")
        /\ UNCHANGED <<tcp, ws>>
     \/ /\ ~ws[side] \/ ~ws[Other(side)]
        /\ End(side, "in")
        /\ UNCHANGED <<held, frames>>
  /\ UNCHANGED <<ends, received, tcpIn>>

\* io.Copy to the TCP socket: waits while the endpoint does not read; may succeed
\* after the endpoint has closed, and the chunk is lost with it.
WriteTCP(side) ==
  /\ pc[side]["in"] = "write"
  /\ \/ /\ tcp[side] /\ endpoint[side] # "closed" /\ ~stalled[side]
        /\ received' = [received EXCEPT ![side] = Append(@, held[side]["in"])]
        /\ Hold(side, "in", 0)
        /\ Step(side, "in", "read")
        /\ UNCHANGED <<tcp, ws>>
     \/ /\ tcp[side] /\ endpoint[side] = "closed"
        /\ Hold(side, "in", 0)
        /\ Step(side, "in", "read")
        /\ UNCHANGED <<received, tcp, ws>>
     \/ /\ ~tcp[side] \/ endpoint[side] = "closed"
        /\ End(side, "in")
        /\ UNCHANGED <<received, held>>
  /\ UNCHANGED <<ends, tcpIn, frames>>

\* The call a loop is in fails: its connection was reset or timed out.
Break(side, loop) ==
  /\ "drop" \in Faults
  /\ ~Over(side, loop)
  /\ End(side, loop)
  /\ UNCHANGED <<ends, data>>

\* The process of a side exits: einar after Ctrl+C, the API at a restart.
Kill(side) ==
  /\ "kill" \in Faults
  /\ pc[side] # [loop \in Loops |-> "done"]
  /\ pc' = [pc EXCEPT ![side] = [loop \in Loops |-> "done"]]
  /\ tcp' = [tcp EXCEPT ![side] = FALSE]
  /\ ws' = [ws EXCEPT ![side] = FALSE]
  /\ UNCHANGED <<ends, data>>

Out(side) == ReadTCP(side) \/ WriteFrame(side)
In(side) == ReadFrame(side) \/ WriteTCP(side)

Next ==
  \E side \in Sides :
    \/ Write(side) \/ Shut(side) \/ Close(side) \/ Stall(side)
    \/ Out(side) \/ In(side)
    \/ Kill(side) \/ \E loop \in Loops : Break(side, loop)

Spec == Init /\ [][Next]_vars

\* The goroutines are scheduled, and a socket that can be read or written is;
\* no fault comes to the help of a loop that waits.
Fairness ==
  \A side \in Sides :
    /\ WF_vars(Out(side))
    /\ WF_vars(In(side))

FairSpec == Spec /\ Fairness

-----------------------------------------------------------------------------
(***************************************************************************)
(* Properties.                                                             *)
(***************************************************************************)
FirstChunks(k) == [i \in 1 .. k |-> i]

\* What an endpoint is delivered is what the other one wrote, in order, without
\* a gap or a repetition, up to some point: however the connection ends, no side
\* goes on writing after a chunk it has lost.
InOrder ==
  \A side \in Sides :
    received[side] = FirstChunks(Len(received[side]))
      /\ Len(received[side]) <= sent[Other(side)]

\* As long as nothing was closed no chunk is lost: what was written is what
\* was delivered, what the two loops hold and what is in flight.
HeldBy(side, loop) == IF held[side][loop] = 0 THEN <<>> ELSE <<held[side][loop]>>

InFlight(side) ==
  HeldBy(Other(side), "in") \o frames[side] \o HeldBy(side, "out") \o tcpIn[side]

NothingLost ==
  (\A side \in Sides : tcp[side] /\ ws[side] /\ endpoint[side] # "closed") =>
    \A side \in Sides :
      received[Other(side)] \o InFlight(side) = FirstChunks(sent[side])

\* Once a loop of either side has ended, both sides go, whole: two loops and two
\* sockets each.  The one that may stay, and whole too, is a side whose endpoint has
\* stopped reading: its "in" loop is blocked in a write, so nobody there reads from
\* the WebSocket that the other side has closed.
Gone(side) == ~tcp[side] /\ ~ws[side] /\ \A loop \in Loops : Over(side, loop)
Stays(side) == stalled[side] /\ tcp[side] /\ ws[side]
TunnelCloses ==
  (\E side \in Sides, loop \in Loops : Over(side, loop)) ~>
    \A side \in Sides : Gone(side) \/ Stays(side)

\* As long as the tunnel is open, each direction catches up with what was written,
\* unless nobody reads it at its end: an endpoint that stops reading never stops what
\* it writes itself, although all windows of the other direction are full.
CaughtUp(side) == Len(received[Other(side)]) = sent[side]
Reads(side) == ~stalled[side] /\ endpoint[side] # "closed"
Delivered ==
  []<>(\/ \A side \in Sides : Reads(Other(side)) => CaughtUp(side)
       \/ \E side \in Sides : ~tcp[side] \/ ~ws[side])

\* To the programs at its ends the tunnel is a connection: closing, stalling and the
\* faults of the network or of a process change what is still delivered, never which
\* chunk is next; and nothing buffers more than the two sockets on the way and the two
\* loops between them hold, so that a writer is stopped by a reader that lags.
Ends == INSTANCE Connection WITH Capacity <- 2 * Window + 2

ImplementsConnection == Ends!Spec

\* The goroutines wait for something that only an endpoint can bring about, never for
\* each other: when every loop has ended or is in a call that waits, either nobody has
\* closed and each reader that reads has been delivered everything, or both sides are
\* gone but for one whose reader has stalled.
OutWaits(side) ==
  \/ Over(side, "out")
  \/ /\ pc[side]["out"] = "read" /\ tcp[side]
     /\ tcpIn[side] = <<>> /\ endpoint[side] = "open"
  \/ /\ pc[side]["out"] = "write" /\ ws[side] /\ ws[Other(side)]
     /\ Len(frames[side]) >= Window

InWaits(side) ==
  \/ Over(side, "in")
  \/ /\ pc[side]["in"] = "read" /\ ws[side] /\ ws[Other(side)]
     /\ frames[Other(side)] = <<>>
  \/ /\ pc[side]["in"] = "write" /\ tcp[side]
     /\ endpoint[side] # "closed" /\ stalled[side]

NeverStuck ==
  (\A side \in Sides : OutWaits(side) /\ InWaits(side)) =>
    \/ \A side \in Sides : tcp[side] /\ ws[side] /\ (Reads(Other(side)) => CaughtUp(side))
    \/ \A side \in Sides : Gone(side) \/ Stays(side)

=============================================================================
