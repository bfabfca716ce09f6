------------------------ MODULE MCConfigurationStore ------------------------
(* An instance of ConfigurationStore for TLC: a tenant that never changes    *)
(* and two sections that come and go, are renamed, get an identifier from    *)
(* the defaults, have none, or want the same one up to case.                 *)
EXTENDS ConfigurationStore

MCIds  == {"i1", "i2", "i3"}
MCKeys == {"a", "b", "B", "c"}
MCComparer == [k \in MCKeys |-> IF k = "B" THEN "b" ELSE k]

Tenant(id, key) == [id |-> id, key |-> key]
Content(defaults, second, third) ==
  [i \in {0, 1, 2, 3} |-> CASE i = 0 -> defaults [] i = 1 -> Tenant("i1", "a")
                            [] i = 2 -> second   [] i = 3 -> third]

MCConfigs ==
  {Content(Blank, Tenant("i2", "b"), Blank),
   Content(Blank, Blank, Tenant("i3", "B")),
   Content(Blank, Tenant("i2", "b"), Tenant("i3", "B")),
   Content(Blank, Tenant("i2", Null), Tenant("i3", "b")),
   Content(Tenant(Null, "c"), Tenant("i2", Null), Tenant("i3", "b"))}

\* The steady tenant is there, so the property about it says something.
ASSUME SteadySetting == Configs = MCConfigs => Steady(1)
=============================================================================
