-------------------------- MODULE MCSharedElectric --------------------------
(***************************************************************************)
(* Instances of SharedElectric for TLC.                                    *)
(***************************************************************************)
EXTENDS SharedElectric, TLC

\* New projects are interchangeable, and so are syncs.
Symmetry == Permutations(Projects \ Existing) \cup Permutations(Syncs)

=============================================================================
