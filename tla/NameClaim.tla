----------------------------- MODULE NameClaim -----------------------------
(***************************************************************************)
(* What provisioning promises, whatever the calls it is made of: a project *)
(* name is claimed by at most one request at a time, a request is answered *)
(* with success only while it holds the claim of the name it asked for,    *)
(* and a claim that was answered with success is never given up.           *)
(*                                                                         *)
(* SchemaProvisioning and DatabaseProvisioning implement this, both with   *)
(* the claim kept by the tenant's PostgreSQL role.                         *)
(***************************************************************************)
CONSTANTS Requests, Names, NoRequest

VARIABLES
  want,     \* the name each request asks for
  claim,    \* the request that holds each name, or NoRequest
  granted   \* the requests answered with success

vars == <<want, claim, granted>>

\* What was granted before the first step is still claimed.
Init ==
  /\ want \in [Requests -> Names]
  /\ claim \in [Names -> Requests \cup {NoRequest}]
  /\ granted = {r \in Requests : claim[want[r]] = r}
  /\ \A n \in Names : claim[n] # NoRequest => want[claim[n]] = n

Claim(r) ==
  /\ claim[want[r]] = NoRequest
  /\ r \notin granted
  /\ claim' = [claim EXCEPT ![want[r]] = r]
  /\ UNCHANGED <<want, granted>>

Grant(r) ==
  /\ claim[want[r]] = r
  /\ granted' = granted \cup {r}
  /\ UNCHANGED <<want, claim>>

Release(r) ==
  /\ claim[want[r]] = r
  /\ r \notin granted
  /\ claim' = [claim EXCEPT ![want[r]] = NoRequest]
  /\ UNCHANGED <<want, granted>>

Next == \E r \in Requests : Claim(r) \/ Grant(r) \/ Release(r)

Spec == Init /\ [][Next]_vars

=============================================================================
