------------------------ MODULE MCSchemaProvisioning ------------------------
(***************************************************************************)
(* Instances of SchemaProvisioning for TLC.                                *)
(***************************************************************************)
EXTENDS SchemaProvisioning, TLC

\* Requests, owners and names are interchangeable: only equality of them
\* matters to the model and to its safety properties.
Symmetry ==
  Permutations(Requests) \cup Permutations(Owners) \cup Permutations(Names)

=============================================================================
