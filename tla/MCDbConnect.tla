------------------------------ MODULE MCDbConnect ------------------------------
(***************************************************************************)
(* Two persists and one connect over one document, with one connection.    *)
(***************************************************************************)
EXTENDS DbConnect, TLC

CONSTANTS p1, p2, alice, bob

\* alice's token is in the directory's document, bob's in the one of $HOME.
MCOwner == [p \in Projects |-> alice]

=============================================================================
