-------------------------- MODULE MCRequestServices --------------------------
(* An instance of RequestServices for TLC: two TenantInfo objects of one     *)
(* tenant and one of another, besides no tenant at all.                      *)
EXTENDS RequestServices

MCTenants ==
  {[id |-> "i1", version |-> 1], [id |-> "i1", version |-> 2], [id |-> "i2", version |-> 1]}
=============================================================================
