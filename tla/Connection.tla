----------------------------- MODULE Connection -----------------------------
(***************************************************************************)
(* What a connection promises the two programs at its ends, whatever it is *)
(* made of: each of them is delivered what the other one wrote, in order,  *)
(* without a gap and without repetition, as long as it reads; and a writer *)
(* is never further ahead of a reader than the connection can hold.        *)
(*                                                                         *)
(* Tunnel implements this with three sockets and four goroutines.          *)
(***************************************************************************)
EXTENDS Naturals, Sequences

CONSTANT Capacity   \* the most chunks on the way in one direction

VARIABLES
  sent,      \* how many chunks each end has written
  endpoint,  \* each end: open, shut for writing, or closed
  stalled,   \* whether an end has stopped reading
  received   \* the chunks each end has been delivered

vars == <<sent, endpoint, stalled, received>>

Sides == {"cli", "api"}
Other(side) == IF side = "cli" THEN "api" ELSE "cli"

Init ==
  /\ sent = [side \in Sides |-> 0]
  /\ endpoint = [side \in Sides |-> "open"]
  /\ stalled = [side \in Sides |-> FALSE]
  /\ received = [side \in Sides |-> <<>>]

\* What is written to an end that has closed may vanish on the way.
Write(side) ==
  /\ endpoint[side] = "open"
  /\ \/ endpoint[Other(side)] = "closed"
     \/ sent[side] - Len(received[Other(side)]) < Capacity
  /\ sent' = [sent EXCEPT ![side] = @ + 1]
  /\ UNCHANGED <<endpoint, stalled, received>>

Deliver(side) ==
  /\ endpoint[side] # "closed" /\ ~stalled[side]
  /\ Len(received[side]) < sent[Other(side)]
  /\ received' = [received EXCEPT ![side] = Append(@, Len(@) + 1)]
  /\ UNCHANGED <<sent, endpoint, stalled>>

Shut(side) ==
  /\ endpoint[side] = "open"
  /\ endpoint' = [endpoint EXCEPT ![side] = "shut"]
  /\ UNCHANGED <<sent, stalled, received>>

Close(side) ==
  /\ endpoint[side] # "closed"
  /\ endpoint' = [endpoint EXCEPT ![side] = "closed"]
  /\ UNCHANGED <<sent, stalled, received>>

Stall(side) ==
  /\ ~stalled[side]
  /\ stalled' = [stalled EXCEPT ![side] = TRUE]
  /\ UNCHANGED <<sent, endpoint, received>>

Next ==
  \E side \in Sides :
    Write(side) \/ Deliver(side) \/ Shut(side) \/ Close(side) \/ Stall(side)

Spec == Init /\ [][Next]_vars

=============================================================================
