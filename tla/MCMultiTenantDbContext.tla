------------------------ MODULE MCMultiTenantDbContext ------------------------
(* Instances of MultiTenantDbContext for TLC.                                *)
EXTENDS MultiTenantDbContext, TLC

CONSTANTS c1, c2, A, B, k1, k2

DefaultModes == {DefaultMode}
LenientModes == {DefaultMode, Mode("Throw", "Overwrite")}

Symmetry == Permutations({A, B}) \cup Permutations({k1, k2})
=============================================================================
