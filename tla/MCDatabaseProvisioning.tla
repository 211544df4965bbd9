----------------------- MODULE MCDatabaseProvisioning -----------------------
(***************************************************************************)
(* Instances of DatabaseProvisioning for TLC.                              *)
(***************************************************************************)
EXTENDS DatabaseProvisioning, TLC

\* New projects, owners and names are interchangeable; legacy projects and
\* ports are not.
Symmetry ==
  Permutations(Projects \ Legacy) \cup Permutations(Owners)
    \cup Permutations(Names) \cup Permutations(Syncs)

\* TLC's symmetry reduction is unsound for liveness.  For one legacy project the
\* same is done here by hand for its name.
FirstName == CHOOSE n \in Names : TRUE
CanonicalInit == Init /\ \A p \in Legacy : NameOf(p) = FirstName
CanonicalSpec == CanonicalInit /\ [][Next]_vars /\ Fairness

=============================================================================
