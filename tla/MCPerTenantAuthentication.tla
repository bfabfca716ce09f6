---------------------- MODULE MCPerTenantAuthentication ----------------------
(* An instance of PerTenantAuthentication for TLC: "a" and "A" are one key.    *)
EXTENDS PerTenantAuthentication, TLC

CONSTANTS r1

MCKeys == {"a", "A", "b"}
MCFold == [k \in MCKeys |-> IF k = "A" THEN "a" ELSE k]
MCStrategies == <<"claim", "other", "callback">>
=============================================================================
