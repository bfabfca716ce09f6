---------------------- MODULE MCMultiTenantOptionsCache ----------------------
(* An instance of MultiTenantOptionsCache for TLC.                           *)
EXTENDS MultiTenantOptionsCache, FiniteSets

\* Clear(tenantId) for every tenant, for none, and with null.
MCClearArgs == TenantIds \cup {NoTenant, Null}

\* A Lazy for each flow's call and one that is cached: an allocation never waits.
ASSUME EnoughLazies == Cardinality(Lazies) > Cardinality(Clients)
=============================================================================
