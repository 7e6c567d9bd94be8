-------------------------- MODULE MCParliaSnapshot --------------------------
(* ParliaSnapshot for TLC.  Validators are interchangeable: only their     *)
(* identity matters to the snapshot, so permuting them is a symmetry.      *)
EXTENDS ParliaSnapshot, TLC

CONSTANT Sizes

MCAnnounced == {V \in SUBSET Validator : Cardinality(V) \in Sizes}
MCSymmetry == Permutations(Validator)

=============================================================================
