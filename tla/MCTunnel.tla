------------------------------ MODULE MCTunnel ------------------------------
(***************************************************************************)
(* Tunnel for TLC: a query of two chunks and a reply of three.             *)
(***************************************************************************)
EXTENDS Tunnel

QueryAndReply == [side \in Sides |-> IF side = "cli" THEN 2 ELSE 3]

=============================================================================
