----------------------------- MODULE MCEFCoreStore -----------------------------
(* An instance of EFCoreStore for TLC: tenants that take and give up one     *)
(* another's identifiers.                                                    *)
EXTENDS EFCoreStore

CONSTANTS d1, d2

MCIds  == {"i1", "i2", "i3"}
MCKeys == {"a", "b"}

MCTenants == [id : MCIds, key : MCKeys]
=============================================================================
