--------------------------- MODULE TenantRegistry ---------------------------
(***************************************************************************)
(* What a tenant store promises its callers, whatever it is built from: it *)
(* holds a set of tenants in which an id names at most one tenant and an   *)
(* identifier (the C# property ITenantInfo.Key) at most one tenant; a      *)
(* tenant is registered, replaced by another version of itself, or         *)
(* unregistered, each in one step.  IMultiTenantStore.cs and ITenantInfo.cs*)
(* state the promise ("unique id", "unique identifier"); the stores are    *)
(* shown to implement it where they do.                                    *)
(***************************************************************************)
CONSTANTS
  Tenants,    \* the ITenantInfo objects that exist, records with fields id and key
  Comparer    \* the string comparer: identifier |-> representative of its equal spellings

VARIABLE registered   \* the ITenantInfo objects the store holds

SameId(t, u)  == t.id = u.id
SameKey(t, u) == Comparer[t.key] = Comparer[u.key]

\* No two registered objects share an id or an identifier.
UniqueTenants(R) ==
  \A t, u \in R : t # u => ~SameId(t, u) /\ ~SameKey(t, u)

Init == registered \in {R \in SUBSET Tenants : UniqueTenants(R)}

Register(t) ==
  /\ \A u \in registered : ~SameId(t, u) /\ ~SameKey(t, u)
  /\ registered' = registered \cup {t}

Unregister(t) ==
  /\ t \in registered
  /\ registered' = registered \ {t}

\* A new version of a tenant takes the place of the old one.
Replace(old, new) ==
  /\ old \in registered
  /\ SameId(old, new)
  /\ \A u \in registered \ {old} : ~SameKey(new, u)
  /\ registered' = (registered \ {old}) \cup {new}

Next ==
  \/ \E t \in Tenants : Register(t) \/ Unregister(t)
  \/ \E old, new \in Tenants : Replace(old, new)

Spec == Init /\ [][Next]_registered
=============================================================================
