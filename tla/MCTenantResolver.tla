--------------------------- MODULE MCTenantResolver ---------------------------
(* An instance of TenantResolver for TLC.  The first registered strategy is  *)
(* a fallback with the priority of StaticStrategy, so it runs last; the      *)
(* other two have equal priorities.  "a" and "A" are one identifier to the   *)
(* options but not to the stores.                                            *)
EXTENDS TenantResolver

MCPriority == <<-1000, 0, 0>>
MCKeys == {"a", "A"}
MCFold == [k \in MCKeys |-> "a"]

\* Every strategy answers, some are silent, one throws early or late.
MCContexts ==
  {<<"a", "A", Null>>, <<"A", Null, "a">>, <<"a", Throws, "A">>, <<Null, "A", Throws>>}
=============================================================================
