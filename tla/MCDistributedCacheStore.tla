----------------------- MODULE MCDistributedCacheStore -----------------------
(* Instances of DistributedCacheStore for TLC.                               *)
EXTENDS DistributedCacheStore

CONSTANTS c1, c2

MCIds  == {"i1", "i2"}
MCKeys == {"a", "b"}
Value(id, key, version) == [id |-> id, key |-> key, version |-> version]

\* Two tenants in two versions each, an identifier each.
SteadyTenants ==
  {Value("i1", "a", 1), Value("i1", "a", 2), Value("i2", "b", 1), Value("i2", "b", 2)}

\* One tenant that changes its identifier.
RenamedTenants == {Value("i1", "a", 1), Value("i1", "b", 1)}

\* c1 administers i1 and c2 the rest; both look up everything.
ByOwner == [c \in Clients |-> {t \in Tenants : (t.id = "i1") <=> (c = c1)}]
ByAnyone == [c \in Clients |-> Tenants]

ASSUME OwnedSetting == Administers = ByOwner /\ Tenants = SteadyTenants => SeparateTenants
=============================================================================
