---------------------- MODULE MCMultiTenantStoreWrapper ----------------------
(* An instance of MultiTenantStoreWrapper for TLC, with the default, case    *)
(* insensitive comparer.                                                     *)
EXTENDS MultiTenantStoreWrapper, TLC

CONSTANTS c1, c2, c3

MCIds  == {"i1", "i2"}
MCKeys == {"a", "A", "b", "c"}
MCComparer == [k \in MCKeys |-> IF k = "A" THEN "a" ELSE k]

Object(id, key, version) == [id |-> id, key |-> key, version |-> version]

\* i1 can be given another spelling of its identifier, the one i2 wants, or
\* none; i2 a free one.
MCTenants ==
  {Object("i1", "a", 1), Object("i1", "A", 2), Object("i1", "b", 1), Object("i1", Null, 1),
   Object("i2", "b", 1), Object("i2", "c", 1)}

Symmetry == Permutations({c1, c2, c3})
=============================================================================
