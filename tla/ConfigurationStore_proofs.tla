---------------------- MODULE ConfigurationStore_proofs ----------------------
(***************************************************************************)
(* What holds of ConfigurationStore for any sections, contents and         *)
(* comparer, however often and at whatever step the content changes, and   *)
(* of EFCoreStore for any contexts and tenants.                            *)
(***************************************************************************)
EXTENDS ConfigurationStore, EFCoreStore, TLAPS

\* What one value of a section may be.
OfField(f, v) == (f = "id" /\ v \in Ids \cup {Null}) \/ (f = "key" /\ v \in Keys \cup {Null})

LEMMA FieldsOf ==
  ASSUME NEW v \in Values
  PROVE  /\ \A f \in Fields : OfField(f, v[f])
         /\ v.id = v["id"] /\ v.key = v["key"]
         /\ v.id \in Ids \cup {Null} /\ v.key \in Keys \cup {Null}
  BY DEF Values, Fields, OfField

\* Writing one field of a tenant.
LEMMA WriteField ==
  ASSUME NEW v \in Values, NEW f \in Fields, NEW x, OfField(f, x)
  PROVE  /\ [v EXCEPT ![f] = x] \in Values
         /\ \A g \in Fields : [v EXCEPT ![f] = x][g] = IF g = f THEN x ELSE v[g]
  BY DEF Values, Fields, OfField

LEMMA SlotOf == \A k \in Keys : Comparer[k] \in Slots
  BY DEF Slots

LEMMA BlankIs == Blank \in Values /\ \A f \in Fields : Blank[f] = Null
  BY DEF Blank, Values, Fields

LEMMA ContentOf ==
  ASSUME NEW cfg \in Contents
  PROVE  /\ cfg[Defaults] \in Values
         /\ \A i \in Sections : cfg[i] \in Values
         /\ Children(cfg) \subseteq Sections
         /\ Exists(cfg) => cfg \in Configs
  <1>1. \A i \in Sections \cup {Defaults} : Absent[i] = Blank
    BY DEF Absent
  <1>2. CASE cfg \in Configs
    BY <1>2, ConfigurationAssumption DEF Children
  <1>3. CASE cfg = Absent
    BY <1>1, <1>3, BlankIs DEF Children, Exists
  <1> QED
    BY <1>2, <1>3 DEF Contents

\* A content the configuration may come to have.
LEMMA ConfigIsContent == \A cfg \in Configs : cfg \in Contents
  BY DEF Contents

LEMMA LoadIs ==
  ASSUME NEW todo \in SUBSET Sections, NEW map \in Maps
  PROVE  /\ Load(todo, map) \in Loads
         /\ Load(todo, map).todo = todo
         /\ Load(todo, map).map = map
         /\ Load(todo, map).from = "defaults"
         /\ Load(todo, map).unread = Fields
         /\ Load(todo, map).tenant = Blank
  BY BlankIs DEF Load, Loads

LEMMA NoTenantsIs == NoTenants \in Maps /\ \A s \in Slots : NoTenants[s] = Null
  BY DEF NoTenants, Maps

LEMMA LoadFields ==
  ASSUME NEW l \in Loads
  PROVE  /\ l.todo \in SUBSET Sections /\ l.map \in Maps
         /\ l.from \in {"defaults", "section"}
         /\ l.unread \in SUBSET Fields /\ l.tenant \in Values
  BY DEF Loads
-----------------------------------------------------------------------------
(* What reading one value does to the load, and what adding a tenant does.  *)

ValueRead(i, f) == config[IF load.from = "defaults" THEN Defaults ELSE i][f]

LEMMA ReadValueEffect ==
  ASSUME TypeOK, NEW i \in Sections, NEW f \in Fields, ReadValue(i, f)
  PROVE  /\ Loading /\ IsFirst(i) /\ f \in load.unread
         /\ load' \in Loads
         /\ load'.todo = load.todo /\ load'.map = load.map
         /\ load'.tenant \in Values
         /\ \A g \in Fields :
              load'.tenant[g] = IF g = f /\ ValueRead(i, f) # Null
                                  THEN ValueRead(i, f) ELSE load.tenant[g]
         /\ \/ /\ load.from = "defaults" /\ load.unread = {f}
               /\ load'.from = "section" /\ load'.unread = Fields
            \/ /\ ~(load.from = "defaults" /\ load.unread = {f})
               /\ load'.from = load.from /\ load'.unread = load.unread \ {f}
         /\ UNCHANGED <<config, unraised, fired, tenantMap, stage>>
  <1> DEFINE v == ValueRead(i, f)
             over == load.from = "defaults" /\ load.unread = {f}
  <1>1. load \in Loads /\ config \in Contents
    BY DEF TypeOK
  <1>2. OfField(f, v)
    BY <1>1, ContentOf, FieldsOf DEF ValueRead
  <1>3. PICK t : t = IF v = Null THEN load.tenant ELSE [load.tenant EXCEPT ![f] = v]
    OBVIOUS
  <1>4. PICK from : from = IF over THEN "section" ELSE load.from
    OBVIOUS
  <1>5. PICK unread : unread = IF over THEN Fields ELSE load.unread \ {f}
    OBVIOUS
  <1>6. load' = [load EXCEPT !.tenant = t, !.from = from, !.unread = unread]
    BY <1>3, <1>4, <1>5 DEF ReadValue, ValueRead
  <1>7. t \in Values /\ \A g \in Fields : t[g] = IF g = f /\ v # Null THEN v ELSE load.tenant[g]
    BY <1>1, <1>2, <1>3, LoadFields, WriteField
  <1>8. from \in {"defaults", "section"} /\ unread \in SUBSET Fields
    BY <1>1, <1>4, <1>5, LoadFields
  <1>9. /\ load' \in Loads
        /\ load'.todo = load.todo /\ load'.map = load.map
        /\ load'.tenant = t /\ load'.from = from /\ load'.unread = unread
    <2> HIDE DEF v, over
    <2> QED
      BY <1>1, <1>6, <1>7, <1>8 DEF Loads
  <1> QED
    BY <1>4, <1>5, <1>7, <1>9 DEF ReadValue

LEMMA AddTenantEffect ==
  ASSUME TypeOK, NEW i \in Sections, AddTenant(i)
  PROVE  /\ Loading /\ IsFirst(i) /\ load.from = "section" /\ load.unread = {}
         /\ load.tenant \in Values /\ load.tenant.key \in Keys
         /\ Comparer[load.tenant.key] \in Slots
         /\ load' \in Loads
         /\ load'.todo = load.todo \ {i}
         /\ \A s \in Slots :
              load'.map[s] = IF s = Comparer[load.tenant.key] /\ load.map[s] = Null
                               THEN load.tenant ELSE load.map[s]
         /\ load'.from = "defaults" /\ load'.unread = Fields /\ load'.tenant = Blank
         /\ UNCHANGED <<config, unraised, fired, tenantMap, stage>>
  <1>1. /\ load.todo \in SUBSET Sections /\ load.map \in Maps /\ load.tenant \in Values
    BY LoadFields DEF TypeOK
  <1>2. load.tenant.key \in Keys
    BY <1>1, FieldsOf DEF AddTenant
  <1>3. Comparer[load.tenant.key] \in Slots
    BY <1>2, SlotOf
  <1>4. PICK k : k = Comparer[load.tenant.key]
    OBVIOUS
  <1>5. PICK m : m = [load.map EXCEPT ![k] = IF @ = Null THEN load.tenant ELSE @]
    OBVIOUS
  <1>6. /\ m \in Maps
        /\ \A s \in Slots : m[s] = IF s = k /\ load.map[s] = Null THEN load.tenant ELSE load.map[s]
    BY <1>1, <1>3, <1>4, <1>5 DEF Maps
  <1>7. load' = Load(load.todo \ {i}, m)
    BY <1>4, <1>5 DEF AddTenant
  <1>8. load.todo \ {i} \in SUBSET Sections
    BY <1>1
  <1>9. /\ load' \in Loads
        /\ load'.todo = load.todo \ {i} /\ load'.map = m
        /\ load'.from = "defaults" /\ load'.unread = Fields /\ load'.tenant = Blank
    BY <1>6, <1>7, <1>8, LoadIs
  <1>10. \A s \in Slots :
           load'.map[s] = IF s = k /\ load.map[s] = Null THEN load.tenant ELSE load.map[s]
    BY <1>6, <1>9
  <1>11. /\ Loading /\ IsFirst(i) /\ load.from = "section" /\ load.unread = {}
         /\ UNCHANGED <<config, unraised, fired, tenantMap, stage>>
    BY DEF AddTenant, IsBound
  <1> QED
    BY <1>1, <1>2, <1>3, <1>4, <1>9, <1>10, <1>11
-----------------------------------------------------------------------------
LEMMA TypeInit == Init => TypeOK
  <1> SUFFICES ASSUME Init PROVE TypeOK
    OBVIOUS
  <1>1. load \in Loads
    BY NoTenantsIs, LoadIs DEF Init, NoLoad
  <1> QED
    BY <1>1 DEF Init, TypeOK

LEMMA StartLoadIs ==
  ASSUME TypeOK, StartLoad
  PROVE  /\ load' \in Loads
         /\ load'.todo = Children(config) /\ load'.map = NoTenants
         /\ load'.from = "defaults" /\ load'.unread = Fields /\ load'.tenant = Blank
  <1>1. Children(config) \in SUBSET Sections
    BY ContentOf DEF TypeOK
  <1> QED
    BY <1>1, NoTenantsIs, LoadIs DEF StartLoad

LEMMA TypeStep == TypeOK /\ [Next]_vars => TypeOK'
  <1> SUFFICES ASSUME TypeOK, [Next]_vars PROVE TypeOK'
    OBVIOUS
  <1>0. NoLoad \in Loads
    BY NoTenantsIs, LoadIs DEF NoLoad
  <1>1. CASE Change
    BY <1>1, ConfigIsContent DEF Change, storeVars, TypeOK
  <1>2. CASE Raise
    <2>1. fired' \in BOOLEAN /\ unraised' \in BOOLEAN
      <3>1. fired' = (stage \in {"rest", "reload"}) /\ unraised' = FALSE
        BY <1>2 DEF Raise
      <3>2. (stage \in {"rest", "reload"}) \in BOOLEAN
        OBVIOUS
      <3> QED
        BY <3>1, <3>2, Zenon
    <2>2. config' = config /\ tenantMap' = tenantMap /\ stage' = stage /\ load' = load
      BY <1>2 DEF Raise
    <2> QED
      BY <2>1, <2>2 DEF TypeOK
  <1>3. ASSUME NEW i \in Sections, NEW f \in Fields, ReadValue(i, f) PROVE TypeOK'
    BY <1>3, ReadValueEffect DEF TypeOK
  <1>4. ASSUME NEW i \in Sections, AddTenant(i) PROVE TypeOK'
    BY <1>4, AddTenantEffect DEF TypeOK
  <1>5. ASSUME NEW i \in Sections, Throw(i) PROVE TypeOK'
    BY <1>5, <1>0 DEF Throw, IsBound, Loading, TypeOK
  <1>6. CASE EndLoad
    BY <1>0, <1>6, LoadFields DEF EndLoad, Loading, TypeOK
  <1>7. CASE Register
    BY <1>7 DEF Register, TypeOK
  <1>8. CASE Reload
    BY <1>8, StartLoadIs DEF Reload, TypeOK
  <1>9. CASE UNCHANGED vars
    BY <1>9 DEF vars, TypeOK
  <1>10. CASE Construct
    BY <1>10, StartLoadIs DEF Construct, TypeOK
  <1> QED
    BY <1>1, <1>2, <1>3, <1>4, <1>5, <1>6, <1>7, <1>8, <1>9, <1>10 DEF Next, StoreStep

\* The content is one the configuration may have, the map is complete once the
\* store is constructed, and a build is at one of the sections there are.
THEOREM StoreTypeCorrect == Spec => []TypeOK
  BY TypeInit, TypeStep, PTL DEF Spec

-----------------------------------------------------------------------------
(* Tenants that stay configured are served all the time.                    *)

\* What a steady section says, whatever the content.
LEMMA SteadyIs ==
  ASSUME NEW c \in Configs, NEW d \in Configs, NEW i \in Sections, Steady(i)
  PROVE  /\ c[i] = d[i]
         /\ c[i] \in Values /\ c[i] # Null
         /\ c[i].key \in Keys /\ Comparer[c[i].key] \in Slots
         /\ \A f \in Fields : c[i][f] # Null
         /\ i \in Children(c)
         /\ \A j \in Sections : j < i =>
              /\ c[j]["key"] # Null => Comparer[c[j]["key"]] # Comparer[d[i].key]
              /\ c[Defaults]["key"] # Null => Comparer[c[Defaults]["key"]] # Comparer[d[i].key]
  <1>1. c[i] = d[i] /\ c[i].id # Null /\ c[i].key # Null
    BY DEF Steady
  <1>2. c[i] \in Values /\ c[Defaults] \in Values /\ \A j \in Sections : c[j] \in Values
    BY ConfigIsContent, ContentOf
  <1>3. c[i].key \in Keys /\ c[i].id = c[i]["id"] /\ c[i].key = c[i]["key"]
    BY <1>1, <1>2, FieldsOf
  <1>4. c[i] # Null /\ c[i] # Blank
    BY <1>1, <1>2, ConfigurationAssumption DEF Blank
  <1>5. \A j \in Sections : c[j].key = c[j]["key"] /\ c[Defaults].key = c[Defaults]["key"]
    BY <1>2, FieldsOf
  <1>6. \A j \in Sections : j < i =>
              /\ c[j].key # Null => Comparer[c[j].key] # Comparer[c[i].key]
              /\ c[Defaults].key # Null => Comparer[c[Defaults].key] # Comparer[c[i].key]
    BY DEF Steady
  <1> QED
    BY <1>1, <1>2, <1>3, <1>4, <1>5, <1>6, SlotOf DEF Fields, Children

\* Of the steady section i: a build takes it in its turn, what it has read of it
\* is what it says, and until then its identifier is free.
SteadyInLoad(i) ==
  LET slot == Comparer[config[i].key]
  IN /\ i \in load.todo => load.map[slot] = Null
     /\ i \notin load.todo => load.map[slot] = config[i]
     /\ IsFirst(i) /\ load.from = "section" =>
          \A f \in Fields \ load.unread : load.tenant[f] = config[i][f]
     /\ \A j \in Sections : IsFirst(j) /\ j < i =>
          (load.tenant["key"] # Null => Comparer[load.tenant["key"]] # slot)

SteadyInMap(i) ==
  stage \notin {"none", "construct"} => tenantMap[Comparer[config[i].key]] = config[i]

\* Only a section that exists makes a store.
SteadyInv ==
  /\ TypeOK
  /\ stage # "none" => config \in Configs
  /\ \A i \in Sections : Steady(i) =>
       /\ SteadyInMap(i)
       /\ Loading => SteadyInLoad(i)

\* A build that begins has every steady section before it.
LEMMA SteadyStart ==
  ASSUME TypeOK, config \in Configs, NEW i \in Sections, Steady(i),
         config' = config,
         load'.todo = Children(config), load'.map = NoTenants,
         load'.from = "defaults", load'.tenant = Blank
  PROVE  SteadyInLoad(i)'
  <1>1. /\ i \in Children(config) /\ Comparer[config[i].key] \in Slots
    BY SteadyIs
  <1> QED
    BY <1>1, NoTenantsIs, BlankIs DEF SteadyInLoad, IsFirst, Fields

LEMMA SteadyRead ==
  ASSUME SteadyInv, NEW i \in Sections, Steady(i),
         NEW j \in Sections, NEW f \in Fields, ReadValue(j, f)
  PROVE  SteadyInLoad(i)'
  <1>1. TypeOK /\ config \in Configs /\ SteadyInLoad(i)
    BY ReadValueEffect DEF SteadyInv, Loading
  <1>2. /\ IsFirst(j) /\ f \in load.unread
        /\ load'.todo = load.todo /\ load'.map = load.map
        /\ config' = config
    BY <1>1, ReadValueEffect
  <1>3. /\ \A g \in Fields : load'.tenant[g] =
             IF g = f /\ ValueRead(j, f) # Null THEN ValueRead(j, f) ELSE load.tenant[g]
        /\ \/ load'.from = "section" /\ load'.unread = Fields
           \/ load'.from = load.from /\ load'.unread = load.unread \ {f}
    BY <1>1, ReadValueEffect
  <1>4. \A k \in Sections : IsFirst(k)' <=> IsFirst(k)
    BY <1>2 DEF IsFirst
  <1>5. \A k \in Sections : IsFirst(k) => k = j
    BY <1>2, ConfigurationAssumption DEF IsFirst
  <1>6. /\ \A g \in Fields : config[i][g] # Null
        /\ \A k \in Sections : k < i =>
             /\ config[k]["key"] # Null => Comparer[config[k]["key"]] # Comparer[config[i].key]
             /\ config[Defaults]["key"] # Null =>
                  Comparer[config[Defaults]["key"]] # Comparer[config[i].key]
    BY <1>1, SteadyIs
  <1>7. ASSUME IsFirst(i), load'.from = "section", NEW g \in Fields \ load'.unread
        PROVE  load'.tenant[g] = config[i][g]
    <2>1. i = j /\ load.from = "section" /\ load'.unread = load.unread \ {f}
      BY <1>3, <1>5, <1>7 DEF Fields
    <2>2. CASE g = f
      BY <1>3, <1>6, <2>1, <2>2 DEF ValueRead
    <2>3. CASE g # f
      <3>1. g \in Fields \ load.unread
        BY <2>1, <2>3, <1>7
      <3> QED
        BY <1>1, <1>3, <1>7, <2>1, <2>3, <3>1 DEF SteadyInLoad
    <2> QED
      BY <2>2, <2>3
  <1>8. ASSUME j < i, load'.tenant["key"] # Null
        PROVE  Comparer[load'.tenant["key"]] # Comparer[config[i].key]
    <2>1. "key" \in Fields
      BY DEF Fields
    <2>2. CASE f = "key" /\ ValueRead(j, f) # Null
      BY <1>3, <1>6, <1>8, <2>1, <2>2 DEF ValueRead
    <2>3. CASE ~(f = "key" /\ ValueRead(j, f) # Null)
      BY <1>1, <1>2, <1>3, <1>8, <2>1, <2>3 DEF SteadyInLoad
    <2> QED
      BY <2>2, <2>3
  <1> QED
    BY <1>1, <1>2, <1>4, <1>5, <1>7, <1>8 DEF SteadyInLoad

LEMMA SteadyAdd ==
  ASSUME SteadyInv, NEW i \in Sections, Steady(i),
         NEW j \in Sections, AddTenant(j)
  PROVE  SteadyInLoad(i)'
  <1> DEFINE slot == Comparer[config[i].key]
  <1>1. TypeOK /\ config \in Configs /\ SteadyInLoad(i)
    BY AddTenantEffect DEF SteadyInv, Loading
  <1>2. /\ IsFirst(j) /\ load.from = "section" /\ load.unread = {}
        /\ load.tenant \in Values /\ load.tenant.key \in Keys
        /\ load'.todo = load.todo \ {j}
        /\ load'.from = "defaults" /\ load'.tenant = Blank
        /\ config' = config
    BY <1>1, AddTenantEffect
  <1>3. \A s \in Slots : load'.map[s] =
          IF s = Comparer[load.tenant.key] /\ load.map[s] = Null THEN load.tenant ELSE load.map[s]
    BY <1>1, AddTenantEffect
  <1>4. /\ config[i] \in Values /\ config[i] # Null /\ slot \in Slots
        /\ \A g \in Fields : config[i][g] # Null
    BY <1>1, SteadyIs
  <1>5. load'.map[slot] = IF i \in load'.todo THEN Null ELSE config[i]
    <2>1. CASE i = j
      <3>1. load.tenant = config[i]
        <4>1. \A g \in Fields : load.tenant[g] = config[i][g]
          BY <1>1, <1>2, <2>1 DEF SteadyInLoad
        <4> QED
          BY <1>2, <1>4, <4>1 DEF Values, Fields
      <3>2. load.map[slot] = Null
        BY <1>1, <1>2, <2>1 DEF SteadyInLoad, IsFirst
      <3> QED
        BY <1>2, <1>3, <1>4, <2>1, <3>1, <3>2
    <2>2. CASE i # j /\ i \in load.todo
      <3>1. j < i
        BY <1>2, <2>2, ConfigurationAssumption DEF IsFirst
      <3>2. load.tenant.key = load.tenant["key"] /\ load.tenant["key"] # Null
        BY <1>2, FieldsOf, ConfigurationAssumption
      <3>3. Comparer[load.tenant.key] # slot
        BY <1>1, <1>2, <3>1, <3>2 DEF SteadyInLoad
      <3>4. load.map[slot] = Null
        BY <1>1, <2>2 DEF SteadyInLoad
      <3> QED
        BY <1>2, <1>3, <1>4, <2>2, <3>3, <3>4
    <2>3. CASE i \notin load.todo
      <3>1. load.map[slot] = config[i]
        BY <1>1, <2>3 DEF SteadyInLoad
      <3> QED
        BY <1>2, <1>3, <1>4, <2>3, <3>1
    <2> QED
      BY <2>1, <2>2, <2>3
  <1> QED
    BY <1>2, <1>5, BlankIs DEF SteadyInLoad, Fields

LEMMA SteadyInit == Init => SteadyInv
  BY TypeInit DEF Init, SteadyInv, SteadyInMap, Loading

LEMMA SteadyStep == SteadyInv /\ [Next]_vars => SteadyInv'
  <1> SUFFICES ASSUME SteadyInv, [Next]_vars
               PROVE  /\ stage' # "none" => config' \in Configs
                      /\ \A i \in Sections : Steady(i) =>
                           SteadyInMap(i)' /\ (Loading' => SteadyInLoad(i)')
    BY TypeStep DEF SteadyInv
  <1>typed. TypeOK /\ TypeOK' /\ (stage # "none" => config \in Configs)
    BY TypeStep DEF SteadyInv
  <1>content. stage' # "none" => config' \in Configs
    <2>1. CASE Construct
      BY <1>typed, <2>1, ContentOf DEF Construct, TypeOK
    <2>2. CASE Change
      BY <2>2 DEF Change
    <2>3. CASE config' = config /\ stage # "none"
      BY <1>typed, <2>3
    <2>4. CASE config' = config /\ stage' = stage
      BY <1>typed, <2>4
    <2>5. \/ Construct \/ Change
          \/ config' = config /\ stage # "none"
          \/ config' = config /\ stage' = stage
      BY DEF Next, StoreStep, vars, Raise, ReadValue, AddTenant, Throw, IsBound, EndLoad, Register,
         Reload, Loading
    <2> QED
      BY <2>1, <2>2, <2>3, <2>4, <2>5
  <1> SUFFICES ASSUME NEW i \in Sections, Steady(i)
               PROVE  SteadyInMap(i)' /\ (Loading' => SteadyInLoad(i)')
    BY <1>content
  <1>none. CASE stage' = "none"
    BY <1>none DEF SteadyInMap, Loading
  <1>constructing. CASE stage = "none" /\ stage' # "none"
    <2>1. Construct
      BY <1>constructing DEF Next, StoreStep, Change, storeVars, vars, Raise, ReadValue, AddTenant, Throw,
         IsBound, EndLoad, Register, Reload, Loading
    <2>2. config' = config /\ config \in Configs /\ stage' = "construct"
      BY <1>typed, <2>1, ContentOf DEF Construct, TypeOK
    <2> QED
      BY <1>typed, <2>1, <2>2, StartLoadIs, SteadyStart DEF Construct, SteadyInMap
  <1> SUFFICES ASSUME stage # "none", stage' # "none"
               PROVE  SteadyInMap(i)' /\ (Loading' => SteadyInLoad(i)')
    BY <1>none, <1>constructing
  <1>0. /\ TypeOK /\ config \in Configs /\ config' \in Configs
        /\ SteadyInMap(i) /\ (Loading => SteadyInLoad(i))
    BY <1>typed, <1>content DEF SteadyInv
  <1>1. config'[i] = config[i]
    BY <1>0, SteadyIs
  <1>2. CASE /\ tenantMap' = tenantMap /\ load' = load
             /\ Loading' => Loading
             /\ stage' \notin {"none", "construct"} => stage \notin {"none", "construct"}
    BY <1>0, <1>1, <1>2 DEF SteadyInMap, SteadyInLoad, IsFirst
  <1>3. ASSUME NEW j \in Sections, NEW f \in Fields, ReadValue(j, f)
        PROVE  SteadyInMap(i)' /\ (Loading' => SteadyInLoad(i)')
    BY <1>0, <1>1, <1>3, SteadyRead, ReadValueEffect DEF SteadyInMap
  <1>4. ASSUME NEW j \in Sections, AddTenant(j)
        PROVE  SteadyInMap(i)' /\ (Loading' => SteadyInLoad(i)')
    BY <1>0, <1>1, <1>4, SteadyAdd, AddTenantEffect DEF SteadyInMap
  <1>5. ASSUME NEW j \in Sections, Throw(j)
        PROVE  SteadyInMap(i)' /\ (Loading' => SteadyInLoad(i)')
    BY <1>0, <1>1, <1>5 DEF Throw, SteadyInMap, Loading
  <1>6. CASE EndLoad
    <2>1. SteadyInLoad(i) /\ load.todo = {}
      BY <1>0, <1>6 DEF EndLoad
    <2>2. load.map[Comparer[config[i].key]] = config[i]
      BY <2>1 DEF SteadyInLoad
    <2>3. tenantMap' = load.map /\ ~Loading' /\ config' = config
      BY <1>6 DEF EndLoad, Loading
    <2> QED
      BY <2>2, <2>3 DEF SteadyInMap
  <1>7. CASE Reload
    <2>1. SteadyInMap(i)' /\ config' = config
      BY <1>0, <1>1, <1>7 DEF Reload, SteadyInMap
    <2> QED
      BY <1>0, <1>7, <2>1, StartLoadIs, SteadyStart DEF Reload
  <1>8. CASE Change \/ Raise \/ Register \/ UNCHANGED vars
    BY <1>2, <1>8 DEF Change, Raise, Register, vars, storeVars, Loading
  <1>9. ~Construct
    BY DEF Construct
  <1> QED
    BY <1>9, <1>3, <1>4, <1>5, <1>6, <1>7, <1>8 DEF Next, StoreStep

\* SteadyTenantsAreServed: the map in use was built by a load that ended, and a
\* load does not end before every steady section is in its map.
THEOREM SteadyTenantsAreAlwaysServed == Spec => []SteadyTenantsAreServed
  <1>1. SteadyInv => SteadyTenantsAreServed
    <2> SUFFICES ASSUME SteadyInv, Served, NEW i \in Sections, Steady(i)
                 PROVE  tenantMap[Comparer[config[i].key]] = config[i]
      BY DEF SteadyTenantsAreServed
    <2> QED
      BY DEF SteadyInv, SteadyInMap, Served
  <1> QED
    BY <1>1, SteadyInit, SteadyStep, PTL DEF Spec

-----------------------------------------------------------------------------
(* The store at rest holds what the configuration says.                     *)

LEMMA BoundIs ==
  ASSUME NEW cfg \in Contents, NEW i \in Sections
  PROVE  /\ Bound(cfg, i) \in Values
         /\ \A f \in Fields :
              Bound(cfg, i)[f] = IF cfg[i][f] = Null THEN cfg[Defaults][f] ELSE cfg[i][f]
  <1>1. cfg[i] \in Values /\ cfg[Defaults] \in Values
    BY ContentOf
  <1>2. \A f \in Fields :
          Bound(cfg, i)[f] = IF cfg[i][f] = Null THEN cfg[Defaults][f] ELSE cfg[i][f]
    BY DEF Bound
  <1>3. Bound(cfg, i)["id"] \in Ids \cup {Null} /\ Bound(cfg, i)["key"] \in Keys \cup {Null}
    BY <1>1, <1>2, FieldsOf DEF OfField, Fields
  <1>4. Bound(cfg, i) = [id |-> Bound(cfg, i)["id"], key |-> Bound(cfg, i)["key"]]
    BY DEF Bound, Fields
  <1> QED
    BY <1>2, <1>3, <1>4 DEF Values

\* TryAdd in the order of the sections gives every identifier to its first.
LEMMA HoldsOneMore ==
  ASSUME NEW cfg \in Contents, NEW S \in SUBSET Sections, NEW i \in Sections,
         \A j \in S : j < i,
         NEW map, HoldsTenants(map, cfg, S),
         NEW added,
         \A s \in Slots :
           added[s] = IF s = Comparer[Bound(cfg, i).key] /\ map[s] = Null
                        THEN Bound(cfg, i) ELSE map[s]
  PROVE  HoldsTenants(added, cfg, S \cup {i})
  <1> DEFINE slot(j) == Comparer[Bound(cfg, j).key]
             T == S \cup {i}
  <1>1. \A j \in T : j \in Int
    BY ConfigurationAssumption
  <1>2. SUFFICES ASSUME NEW s \in Slots
                 PROVE  \/ added[s] = Null /\ \A k \in T : slot(k) # s
                        \/ \E k \in T :
                             /\ added[s] = Bound(cfg, k) /\ slot(k) = s
                             /\ \A j \in T : j < k => slot(j) # s
    BY DEF HoldsTenants
  <1>3. CASE map[s] = Null /\ \A k \in S : slot(k) # s
    <2>1. CASE slot(i) = s
      <3>1. /\ added[s] = Bound(cfg, i) /\ slot(i) = s
            /\ \A j \in T : j < i => slot(j) # s
        BY <1>1, <1>3, <2>1
      <3> QED
        BY <3>1
    <2>2. CASE slot(i) # s
      BY <1>3, <2>2
    <2> QED
      BY <2>1, <2>2
  <1>4. ASSUME NEW k \in S, map[s] = Bound(cfg, k), slot(k) = s,
               \A j \in S : j < k => slot(j) # s
        PROVE  \E l \in T : /\ added[s] = Bound(cfg, l) /\ slot(l) = s
                            /\ \A j \in T : j < l => slot(j) # s
    <2>1. map[s] # Null
      BY <1>4, BoundIs, ConfigurationAssumption
    <2>2. \A j \in T : j < k => slot(j) # s
      <3>1. ~(i < k)
        BY <1>1
      <3> QED
        BY <1>4, <3>1
    <2> QED
      BY <1>4, <2>1, <2>2
  <1> QED
    BY <1>3, <1>4 DEF HoldsTenants

LEMMA HoldsNone ==
  ASSUME NEW cfg
  PROVE  HoldsTenants(NoTenants, cfg, {})
  BY NoTenantsIs DEF HoldsTenants

\* What a build has read that no change has overtaken: the sections up to the
\* first in todo, and of that one the values that are not unread any more.
Partial(i, f) ==
  IF load.from = "defaults"
    THEN IF f \in load.unread THEN Null ELSE config[Defaults][f]
    ELSE IF f \in load.unread THEN config[Defaults][f] ELSE Bound(config, i)[f]

LoadIsExact ==
  /\ load.todo \subseteq Children(config)
  /\ \A i \in load.todo, j \in Children(config) \ load.todo : j < i
  /\ HoldsTenants(load.map, config, Children(config) \ load.todo)
  /\ \A i \in Sections, f \in Fields : IsFirst(i) => load.tenant[f] = Partial(i, f)

\* Until it has registered the constructor hears of no change, so without early
\* ones what it reads is what is configured.
RestsInv ==
  /\ TypeOK
  /\ stage \in {"none", "construct", "register"} => ~fired
  /\ stage = "register" => Holds(config)
  /\ Loading /\ (stage = "construct" \/ (~unraised /\ ~fired)) => LoadIsExact
  /\ RestsOnTheConfiguration

LEMMA ExactStart ==
  ASSUME TypeOK, config' = config,
         load'.todo = Children(config), load'.map = NoTenants,
         load'.from = "defaults", load'.unread = Fields, load'.tenant = Blank
  PROVE  LoadIsExact'
  <1>1. Children(config) \ Children(config) = {}
    OBVIOUS
  <1>2. HoldsTenants(load'.map, config', Children(config') \ load'.todo)
    BY <1>1, HoldsNone
  <1>3. \A i \in Sections, f \in Fields : load'.tenant[f] = Partial(i, f)'
    BY BlankIs DEF Partial
  <1> QED
    BY <1>2, <1>3 DEF LoadIsExact

LEMMA ExactRead ==
  ASSUME TypeOK, LoadIsExact, NEW j \in Sections, NEW f \in Fields, ReadValue(j, f)
  PROVE  LoadIsExact'
  <1>1. /\ IsFirst(j) /\ f \in load.unread /\ load.unread \in SUBSET Fields
        /\ load'.todo = load.todo /\ load'.map = load.map
        /\ config' = config /\ config \in Contents
        /\ load.from \in {"defaults", "section"}
    BY ReadValueEffect, LoadFields DEF TypeOK
  <1>2. \A g \in Fields : load'.tenant[g] =
          IF g = f /\ ValueRead(j, f) # Null THEN ValueRead(j, f) ELSE load.tenant[g]
    BY ReadValueEffect
  <1>3. \/ /\ load.from = "defaults" /\ load.unread = {f}
           /\ load'.from = "section" /\ load'.unread = Fields
        \/ /\ ~(load.from = "defaults" /\ load.unread = {f})
           /\ load'.from = load.from /\ load'.unread = load.unread \ {f}
    BY ReadValueEffect
  <1>4. \A k \in Sections : IsFirst(k)' => k = j
    BY <1>1, ConfigurationAssumption DEF IsFirst
  <1>5. \A g \in Fields :
          /\ load.tenant[g] = Partial(j, g)
          /\ Bound(config, j)[g] = IF config[j][g] = Null THEN config[Defaults][g] ELSE config[j][g]
    BY <1>1, BoundIs DEF LoadIsExact
  <1>6. ASSUME NEW g \in Fields PROVE load'.tenant[g] = Partial(j, g)'
    <2>1. CASE g = f
      BY <1>1, <1>2, <1>3, <1>5, <2>1 DEF Partial, ValueRead
    <2>2. CASE g # f
      BY <1>1, <1>2, <1>3, <1>5, <2>2 DEF Partial
    <2> QED
      BY <2>1, <2>2
  <1> QED
    BY <1>1, <1>4, <1>6 DEF LoadIsExact

LEMMA ExactAdd ==
  ASSUME TypeOK, LoadIsExact, NEW i \in Sections, AddTenant(i)
  PROVE  LoadIsExact'
  <1>1. /\ IsFirst(i) /\ load.from = "section" /\ load.unread = {}
        /\ load.tenant \in Values
        /\ load'.todo = load.todo \ {i}
        /\ load'.from = "defaults" /\ load'.unread = Fields /\ load'.tenant = Blank
        /\ config' = config /\ config \in Contents
    BY AddTenantEffect DEF TypeOK
  <1>2. \A s \in Slots : load'.map[s] =
          IF s = Comparer[load.tenant.key] /\ load.map[s] = Null THEN load.tenant ELSE load.map[s]
    BY AddTenantEffect
  <1>3. load.tenant = Bound(config, i)
    <2>1. \A f \in Fields : load.tenant[f] = Bound(config, i)[f]
      BY <1>1 DEF LoadIsExact, Partial
    <2>2. Bound(config, i) \in Values
      BY <1>1, BoundIs
    <2> QED
      BY <1>1, <2>1, <2>2 DEF Values, Fields
  <1> DEFINE S == Children(config) \ load.todo
  <1>4. S \in SUBSET Sections /\ i \in load.todo /\ i \in Children(config)
    BY <1>1, ContentOf DEF IsFirst, LoadIsExact
  <1>5. \A j \in S : j < i
    BY <1>4 DEF LoadIsExact
  <1>6. HoldsTenants(load'.map, config, S \cup {i})
    BY <1>1, <1>2, <1>3, <1>4, <1>5, HoldsOneMore DEF LoadIsExact
  <1>7. Children(config) \ load'.todo = S \cup {i}
    BY <1>1, <1>4
  <1>8. load'.todo \subseteq Children(config)
    BY <1>1 DEF LoadIsExact
  <1>9. \A k \in load'.todo, j \in Children(config) \ load'.todo : j < k
    <2> SUFFICES ASSUME NEW k \in load.todo \ {i}, NEW j \in S \cup {i} PROVE j < k
      BY <1>1, <1>7
    <2>1. CASE j \in S
      BY <2>1 DEF LoadIsExact
    <2>2. CASE j = i
      <3>1. i <= k /\ i # k /\ i \in Int /\ k \in Int
        BY <1>1, <1>4, <1>8, ConfigurationAssumption DEF IsFirst, TypeOK, Loads
      <3> QED
        BY <2>2, <3>1
    <2> QED
      BY <2>1, <2>2
  <1>10. \A k \in Sections, f \in Fields : load'.tenant[f] = Partial(k, f)'
    BY <1>1, BlankIs DEF Partial
  <1> QED
    BY <1>1, <1>6, <1>7, <1>8, <1>9, <1>10 DEF LoadIsExact

LEMMA RestsInit == Init => RestsInv
  BY TypeInit DEF Init, RestsInv, RestsOnTheConfiguration, Loading

\* A build throws on a tenant without identifier, so the content is not valid.
LEMMA ExactThrow ==
  ASSUME TypeOK, LoadIsExact, NEW i \in Sections, Throw(i)
  PROVE  ~Valid(config)
  <1>1. /\ IsFirst(i) /\ load.from = "section" /\ load.unread = {} /\ load.tenant.key = Null
        /\ load.tenant \in Values /\ config \in Contents
    BY LoadFields DEF Throw, IsBound, TypeOK
  <1>2. "key" \in Fields /\ load.tenant.key = load.tenant["key"]
    BY <1>1, FieldsOf DEF Fields
  <1>3. load.tenant["key"] = Bound(config, i)["key"]
    BY <1>1, <1>2 DEF LoadIsExact, Partial
  <1>4. Bound(config, i).key = Bound(config, i)["key"]
    BY <1>1, BoundIs, FieldsOf
  <1>5. i \in Children(config)
    BY <1>1 DEF LoadIsExact, IsFirst
  <1> QED
    BY <1>1, <1>2, <1>3, <1>4, <1>5 DEF Valid

LEMMA RestsStep ==
  ASSUME ~EarlyChanges
  PROVE  RestsInv /\ [Next]_vars => RestsInv'
  <1> SUFFICES ASSUME RestsInv, [Next]_vars PROVE RestsInv'
    OBVIOUS
  <1>0. TypeOK /\ TypeOK'
    BY TypeStep DEF RestsInv
  <1>1. CASE Change
    BY <1>0, <1>1 DEF Change, RestsInv, storeVars, RestsOnTheConfiguration
  <1>2. CASE Raise
    <2>1. /\ config' = config /\ stage' = stage /\ load' = load /\ tenantMap' = tenantMap
          /\ unraised' = FALSE /\ fired' = (stage \in {"rest", "reload"})
      BY <1>2 DEF Raise
    <2>2. CASE stage \in {"rest", "reload"}
      BY <1>0, <2>1, <2>2 DEF RestsInv, RestsOnTheConfiguration
    <2>3. CASE stage \in {"none", "construct", "register"}
      <3>1. ~fired' /\ ~fired
        <4>1. ~(stage \in {"rest", "reload"})
          BY <2>3
        <4>2. ~fired'
          BY <2>1, <4>1, Zenon
        <4> QED
          BY <2>3, <4>2 DEF RestsInv
      <3>2. stage = "register" => Holds(config)'
        BY <2>1 DEF RestsInv, Holds, HoldsTenants, Children, Bound
      <3>3. Loading' => LoadIsExact'
        BY <2>1, <2>3, <3>1 DEF RestsInv, Loading, LoadIsExact, HoldsTenants, Children, Bound, Partial,
           IsFirst
      <3> QED
        BY <1>0, <2>1, <2>3, <3>1, <3>2, <3>3 DEF RestsInv, RestsOnTheConfiguration
    <2> QED
      BY <1>0, <2>2, <2>3 DEF TypeOK
  <1>3. ASSUME NEW i \in Sections, NEW f \in Fields, ReadValue(i, f) PROVE RestsInv'
    <2>1. Loading /\ UNCHANGED <<config, unraised, fired, tenantMap, stage>>
      BY <1>0, <1>3, ReadValueEffect
    <2>2. stage = "construct" \/ (~unraised /\ ~fired) => LoadIsExact'
      BY <1>0, <1>3, ExactRead, <2>1 DEF RestsInv
    <2> QED
      BY <1>0, <2>1, <2>2 DEF RestsInv, RestsOnTheConfiguration, Loading
  <1>4. ASSUME NEW i \in Sections, AddTenant(i) PROVE RestsInv'
    <2>1. Loading /\ UNCHANGED <<config, unraised, fired, tenantMap, stage>>
      BY <1>0, <1>4, AddTenantEffect
    <2>2. stage = "construct" \/ (~unraised /\ ~fired) => LoadIsExact'
      BY <1>0, <1>4, ExactAdd, <2>1 DEF RestsInv
    <2> QED
      BY <1>0, <2>1, <2>2 DEF RestsInv, RestsOnTheConfiguration, Loading
  <1>5. ASSUME NEW i \in Sections, Throw(i) PROVE RestsInv'
    <2>1. Loading /\ UNCHANGED <<config, unraised, fired, tenantMap>>
      BY <1>5 DEF Throw, IsBound
    <2>2. CASE stage = "construct"
      <3>1. stage' = "none"
        BY <1>5, <2>2 DEF Throw
      <3> QED
        BY <1>0, <2>1, <2>2, <3>1 DEF RestsInv, RestsOnTheConfiguration, Loading
    <2>3. CASE stage # "construct"
      <3>1. ~unraised /\ ~fired => ~Valid(config)
        BY <1>0, <1>5, <2>1, ExactThrow DEF RestsInv
      <3>2. stage' = "rest" /\ config' = config
        BY <1>5, <2>1, <2>3 DEF Throw
      <3>3. ~unraised' /\ ~fired' => ~Valid(config')
        BY <2>1, <3>1, <3>2
      <3> QED
        BY <1>0, <3>2, <3>3 DEF RestsInv, RestsOnTheConfiguration, Loading
    <2> QED
      BY <2>2, <2>3
  <1>6. CASE EndLoad
    <2>1. /\ Loading /\ load.todo = {} /\ tenantMap' = load.map
          /\ UNCHANGED <<config, unraised, fired>>
          /\ stage' = IF stage = "construct" THEN "register" ELSE "rest"
      BY <1>6 DEF EndLoad
    <2>2. stage = "construct" \/ (~unraised /\ ~fired) => Holds(config)'
      <3>1. Children(config) \ load.todo = Children(config)
        BY <2>1
      <3>2. stage = "construct" \/ (~unraised /\ ~fired) => HoldsTenants(load.map, config, Children(config))
        BY <2>1, <3>1 DEF RestsInv, LoadIsExact
      <3> QED
        BY <2>1, <3>2 DEF Holds
    <2>3. CASE stage = "construct"
      BY <1>0, <2>1, <2>2, <2>3 DEF RestsInv, RestsOnTheConfiguration, Loading
    <2>4. CASE stage # "construct"
      BY <1>0, <2>1, <2>2, <2>4 DEF RestsInv, RestsOnTheConfiguration, Loading
    <2> QED
      BY <2>3, <2>4
  <1>7. CASE Register
    <2>1. Holds(config) /\ UNCHANGED <<config, unraised, tenantMap>> /\ stage' = "rest"
      BY <1>7 DEF Register, RestsInv
    <2>2. Holds(config)'
      BY <2>1 DEF Holds, HoldsTenants, Children, Bound
    <2> QED
      BY <1>0, <2>1, <2>2 DEF RestsInv, RestsOnTheConfiguration, Loading
  <1>8. CASE Reload
    <2>1. UNCHANGED <<config, unraised, tenantMap>> /\ stage' = "reload" /\ StartLoad
      BY <1>8 DEF Reload
    <2>2. LoadIsExact'
      BY <1>0, <2>1, StartLoadIs, ExactStart
    <2> QED
      BY <1>0, <2>1, <2>2 DEF RestsInv, RestsOnTheConfiguration
  <1>9. CASE UNCHANGED vars
    <2>1. UNCHANGED <<config, unraised, fired, tenantMap, stage, load>>
      BY <1>9 DEF vars
    <2> QED
      BY <1>0, <2>1 DEF RestsInv, RestsOnTheConfiguration, Holds, HoldsTenants, Children, Bound,
         Valid, Loading, LoadIsExact, Partial, IsFirst
  <1>10. CASE Construct
    <2>1. UNCHANGED <<config, unraised, fired, tenantMap>> /\ stage' = "construct" /\ StartLoad
      BY <1>10 DEF Construct
    <2>2. LoadIsExact' /\ ~fired
      BY <1>0, <1>10, <2>1, StartLoadIs, ExactStart DEF Construct, RestsInv
    <2> QED
      BY <1>0, <2>1, <2>2 DEF RestsInv, RestsOnTheConfiguration
  <1> QED
    BY <1>1, <1>2, <1>3, <1>4, <1>5, <1>6, <1>7, <1>8, <1>9, <1>10 DEF Next, StoreStep

\* RestsOnTheConfiguration: a build that no change has overtaken holds of the
\* sections behind it what the configuration says; a change that comes later
\* fires the token, which the store takes before it builds.
THEOREM StoreRestsOnTheConfiguration ==
  ASSUME ~EarlyChanges
  PROVE  Spec => []RestsOnTheConfiguration
  <1>1. RestsInv => RestsOnTheConfiguration
    BY DEF RestsInv
  <1>2. RestsInv /\ [Next]_vars => RestsInv'
    BY RestsStep
  <1> QED
    BY <1>1, <1>2, RestsInit, PTL DEF Spec
-----------------------------------------------------------------------------
(* The EF Core store.                                                       *)

\* What the rows and the trackers hold is filed under its id.
EFRowsInv ==
  /\ EFTypeOK
  /\ UniqueKeys(rows)
  /\ \A c \in Contexts, id \in Ids : tracked[c][id] # Null => tracked[c][id].tenant.id = id

\* A context that saved all it was given tracks nothing, and during a removal the
\* entity to be removed alone.
EFCleanInv ==
  /\ CleanBetweenCalls
  /\ \A c \in Contexts : ~Idle(c) =>
       \A id \in Ids :
         tracked[c][id] # Null => id = removing[c] /\ tracked[c][id].state = "Unchanged"

\* A change tracker whose entries are filed under their ids.
EFFiled(tr) ==
  /\ tr \in [Ids -> Entries \cup {Null}]
  /\ \A id \in Ids : tr[id] # Null => tr[id].tenant.id = id

\* The row of an id after a save.
LEMMA EFSentRow ==
  ASSUME NEW tr, NEW id \in Ids
  PROVE  Sent(tr)[id] = IF ~IsPending(tr, id) THEN rows[id]
                        ELSE IF tr[id].state = "Deleted" THEN Null ELSE tr[id].tenant
  BY DEF Sent

\* What a save makes of the rows and of the tracker.
LEMMA EFSavedFiled ==
  ASSUME StoreParameters, NEW tr, EFFiled(tr)
  PROVE  EFFiled(Saved(tr))
  <1>1. ASSUME NEW id \in Ids
        PROVE  /\ Saved(tr)[id] \in Entries \cup {Null}
               /\ Saved(tr)[id] # Null => Saved(tr)[id].tenant.id = id
    <2>1. Saved(tr)[id] = IF ~IsPending(tr, id) THEN tr[id]
                          ELSE IF tr[id].state = "Deleted" THEN Null
                          ELSE Entry(tr[id].tenant, "Unchanged", tr[id].own)
      BY DEF Saved
    <2>2. CASE ~IsPending(tr, id)
      BY <2>1, <2>2 DEF EFFiled
    <2>3. CASE IsPending(tr, id)
      <3>1. tr[id] \in Entries /\ tr[id].tenant.id = id
        BY <2>3 DEF EFFiled, IsPending
      <3> QED
        BY <2>1, <3>1 DEF Entry, Entries
    <2> QED
      BY <2>2, <2>3
  <1>2. Saved(tr) = [id \in Ids |-> Saved(tr)[id]]
    BY DEF Saved
  <1> QED
    BY <1>1, <1>2 DEF EFFiled

\* The rows stay filed under their ids when the database accepts a save.
LEMMA EFSentFiled ==
  ASSUME StoreParameters, EFRowsInv, NEW tr, EFFiled(tr), Accepts(tr)
  PROVE  /\ Sent(tr) \in [Ids -> Tenants \cup {Null}]
         /\ \A id \in Ids : Sent(tr)[id] # Null => Sent(tr)[id].id = id
         /\ UniqueKeys(Sent(tr))
  <1>1. ASSUME NEW id \in Ids
        PROVE  /\ Sent(tr)[id] \in Tenants \cup {Null}
               /\ Sent(tr)[id] # Null => Sent(tr)[id].id = id
    <2>1. CASE ~IsPending(tr, id)
      BY <2>1, EFSentRow DEF EFRowsInv, EFTypeOK
    <2>2. CASE IsPending(tr, id)
      <3>1. tr[id] \in Entries /\ tr[id].tenant.id = id
        BY <2>2 DEF EFFiled, IsPending
      <3> QED
        BY <2>2, <3>1, EFSentRow DEF Entries
    <2> QED
      BY <2>1, <2>2
  <1> QED
    BY <1>1 DEF Sent, Accepts

\* A save of context c, whether it succeeds or throws.
LEMMA EFSaveStep ==
  ASSUME StoreParameters, EFRowsInv, NEW c \in Contexts, NEW tr, NEW after,
         EFFiled(tr), EFFiled(after), SaveChanges(c, tr, after),
         removing' \in [Contexts -> Ids \cup {Null}], removing'[c] = Null,
         \A d \in Contexts : d # c => removing'[d] = removing[d]
  PROVE  EFRowsInv'
  <1>1. PICK new : EFFiled(new) /\ tracked' = [tracked EXCEPT ![c] = new]
    BY DEF SaveChanges
  <1>2. /\ rows' \in [Ids -> Tenants \cup {Null}]
        /\ \A id \in Ids : rows'[id] # Null => rows'[id].id = id
        /\ UniqueKeys(rows')
    BY EFSentFiled DEF SaveChanges, EFRowsInv, EFTypeOK
  <1>3. /\ tracked' \in [Contexts -> [Ids -> Entries \cup {Null}]] /\ tracked'[c] = new
        /\ \A d \in Contexts : d # c => tracked'[d] = tracked[d]
    BY <1>1 DEF EFRowsInv, EFTypeOK, EFFiled
  <1>4. \A d \in Contexts : ~Idle(d)' => tracked'[d][removing'[d]] # Null
    BY <1>3 DEF EFRowsInv, EFTypeOK, Idle
  <1>5. UniqueKeys(rows)'
    BY <1>2 DEF UniqueKeys
  <1> QED
    BY <1>1, <1>2, <1>3, <1>4, <1>5 DEF EFRowsInv, EFTypeOK, EFFiled

\* The tracker of a context is one.
LEMMA EFTrackerFiled ==
  ASSUME EFRowsInv, NEW c \in Contexts PROVE EFFiled(tracked[c])
  BY DEF EFRowsInv, EFTypeOK, EFFiled

\* Tracking a tenant object and detaching it.
LEMMA EFTrackFiled ==
  ASSUME StoreParameters, NEW tr, EFFiled(tr),
         NEW t \in Tenants, NEW state \in {"Added", "Modified"}
  PROVE  /\ EFFiled([tr EXCEPT ![t.id] = Entry(t, state, TRUE)])
         /\ EFFiled(Detach(tr, t.id))
  <1>1. Entry(t, state, TRUE) \in Entries /\ Entry(t, state, TRUE).tenant = t /\ t.id \in Ids
    BY DEF StoreParameters, Entry, Entries
  <1> QED
    BY <1>1 DEF EFFiled, Detach

\* The initial table and trackers.
LEMMA EFInitInv == StoreParameters /\ EFInit => EFRowsInv /\ EFCleanInv
  BY DEF StoreParameters, EFInit, EFRowsInv, EFCleanInv, EFTypeOK,
         CleanBetweenCalls, Idle, Untracked

\* The three operations on the tracker of an idle or a removing context.
LEMMA EFAddOrUpdateStep ==
  ASSUME StoreParameters, EFRowsInv, NEW c \in Contexts, NEW t \in Tenants,
         TryAdd(c, t) \/ TryUpdate(c, t)
  PROVE  EFRowsInv'
  <1>1. PICK state \in {"Added", "Modified"} : \E tr :
          /\ tr = [tracked[c] EXCEPT ![t.id] = Entry(t, state, TRUE)]
          /\ SaveChanges(c, tr, Detach(Saved(tr), t.id))
          /\ removing' = removing /\ removing[c] = Null
    BY DEF TryAdd, TryUpdate, Idle
  <1>2. PICK tr :
          /\ tr = [tracked[c] EXCEPT ![t.id] = Entry(t, state, TRUE)]
          /\ SaveChanges(c, tr, Detach(Saved(tr), t.id))
          /\ removing' = removing /\ removing[c] = Null
    BY <1>1
  <1>3. EFFiled(tr)
    BY <1>2, EFTrackerFiled, EFTrackFiled
  <1>4. EFFiled(Detach(Saved(tr), t.id))
    BY <1>3, EFSavedFiled, EFTrackFiled
  <1> QED
    BY <1>2, <1>3, <1>4, EFSaveStep DEF EFRowsInv, EFTypeOK

\* The query of a removal.
LEMMA EFRemoveQueryStep ==
  ASSUME StoreParameters, EFRowsInv, NEW c \in Contexts, NEW id \in Ids, NEW key \in Keys,
         TryRemoveQuery(c, id, key)
  PROVE  EFRowsInv'
  <1>1. PICK e \in Entries : e.tenant.id = id /\ tracked' = [tracked EXCEPT ![c][id] = e]
    <2>1. /\ Entry(rows[id], "Unchanged", FALSE) \in Entries
          /\ Entry(rows[id], "Unchanged", FALSE).tenant.id = id
      BY DEF TryRemoveQuery, EFRowsInv, EFTypeOK, Entry, Entries
    <2>2. tracked[c][id] # Null => tracked[c][id] \in Entries /\ tracked[c][id].tenant.id = id
      BY DEF EFRowsInv, EFTypeOK
    <2>3. tracked' = [tracked EXCEPT ![c][id] =
             IF tracked[c][id] = Null THEN Entry(rows[id], "Unchanged", FALSE)
             ELSE tracked[c][id]]
      BY DEF TryRemoveQuery, EFRowsInv, EFTypeOK
    <2> QED
      BY <2>1, <2>2, <2>3
  <1>2. /\ tracked' \in [Contexts -> [Ids -> Entries \cup {Null}]]
        /\ \A d \in Contexts, i \in Ids :
             tracked'[d][i] = IF d = c /\ i = id THEN e ELSE tracked[d][i]
    BY <1>1 DEF EFRowsInv, EFTypeOK
  <1>3. rows' = rows /\ removing' = [removing EXCEPT ![c] = id]
    BY DEF TryRemoveQuery
  <1>4. e # Null
    BY <1>1 DEF StoreParameters
  <1> QED
    BY <1>1, <1>2, <1>3, <1>4 DEF EFRowsInv, EFTypeOK, UniqueKeys, Idle

\* The save of a removal.
LEMMA EFRemoveSaveStep ==
  ASSUME StoreParameters, EFRowsInv, NEW c \in Contexts, TryRemoveSave(c)
  PROVE  EFRowsInv'
  <1>1. PICK id \in Ids : removing[c] = id /\ tracked[c][id] # Null
    BY DEF TryRemoveSave, Idle, EFRowsInv, EFTypeOK
  <1>2. PICK tr :
          /\ tr = [tracked[c] EXCEPT ![id] = IF tracked[c][id].state = "Added" THEN Null
                                             ELSE [tracked[c][id] EXCEPT !.state = "Deleted"]]
          /\ SaveChanges(c, tr, Saved(tr))
    BY <1>1 DEF TryRemoveSave, EFRowsInv, EFTypeOK
  <1>3. EFFiled(tr)
    <2>1. tracked[c][id] \in Entries /\ tracked[c][id].tenant.id = id
      BY <1>1 DEF EFRowsInv, EFTypeOK
    <2>2. /\ [tracked[c][id] EXCEPT !.state = "Deleted"] \in Entries
          /\ [tracked[c][id] EXCEPT !.state = "Deleted"].tenant.id = id
      BY <2>1 DEF Entries
    <2> QED
      BY <1>2, <2>1, <2>2, EFTrackerFiled DEF EFFiled
  <1>4. removing' = [removing EXCEPT ![c] = Null]
    BY DEF TryRemoveSave
  <1> QED
    BY <1>2, <1>3, <1>4, EFSavedFiled, EFSaveStep DEF EFRowsInv, EFTypeOK

\* A new scope.
LEMMA EFNewScopeStep ==
  ASSUME StoreParameters, EFRowsInv, NEW c \in Contexts, NewScope(c)
  PROVE  EFRowsInv'
  BY DEF NewScope, Untracked, EFRowsInv, EFTypeOK, UniqueKeys, Idle

\* Every step, of careful contexts or not.
LEMMA EFRowsStep == StoreParameters /\ EFRowsInv /\ [EFNext]_efVars => EFRowsInv'
  <1>1. ASSUME StoreParameters, EFRowsInv, UNCHANGED efVars PROVE EFRowsInv'
    BY <1>1 DEF efVars, EFRowsInv, EFTypeOK, UniqueKeys, Idle
  <1> QED
    BY <1>1, EFAddOrUpdateStep, EFRemoveQueryStep, EFRemoveSaveStep, EFNewScopeStep
    DEF EFNext, BeginCall

\* Type correctness of the table and of the change trackers, however contexts are
\* used: a row and a tracked entity are filed under their own id.
THEOREM EFCoreStoreTypesAreRight ==
  ASSUME StoreParameters PROVE EFSpec => []EFTypeOK
  <1>1. EFRowsInv => EFTypeOK
    BY DEF EFRowsInv
  <1> QED
    BY <1>1, EFInitInv, EFRowsStep, PTL DEF EFSpec

\* A careful step of an idle context starts from an empty tracker.
LEMMA EFCleanStep ==
  StoreParameters /\ EFRowsInv /\ EFCleanInv /\ [CarefulNext]_efVars => EFCleanInv'
  <1> SUFFICES ASSUME StoreParameters, EFRowsInv, EFCleanInv, [CarefulNext]_efVars
               PROVE  EFCleanInv'
    OBVIOUS
  <1>0. \A id \in Ids : Untracked[id] = Null
    BY DEF Untracked
  \* The obligation of one context.
  <1>1. ASSUME NEW c \in Contexts, NEW tr, tracked' = [tracked EXCEPT ![c] = tr],
               removing'[c] = Null, \A d \in Contexts : d # c => removing'[d] = removing[d],
               tr = Untracked \/ \E id \in Ids : IsPending(tr, id)
        PROVE  EFCleanInv'
    <2>1. /\ tracked'[c] = tr
          /\ \A d \in Contexts : d # c => tracked'[d] = tracked[d]
      BY <1>1 DEF EFRowsInv, EFTypeOK
    <2> QED
      BY <1>1, <2>1 DEF EFCleanInv, CleanBetweenCalls, Idle, HasPending
  <1>2. ASSUME NEW c \in Contexts, ~HasPending(c), NEW t \in Tenants,
               TryAdd(c, t) \/ TryUpdate(c, t)
        PROVE  EFCleanInv'
    <2>1. t.id \in Ids /\ tracked[c] = Untracked
      BY <1>2
      DEF StoreParameters, TryAdd, TryUpdate, EFCleanInv, CleanBetweenCalls
    <2>2. PICK state \in {"Added", "Modified"} : \E tr :
            /\ tr = [tracked[c] EXCEPT ![t.id] = Entry(t, state, TRUE)]
            /\ SaveChanges(c, tr, Detach(Saved(tr), t.id))
            /\ removing' = removing /\ removing[c] = Null
      BY <1>2 DEF TryAdd, TryUpdate, Idle
    <2>3. PICK tr :
            /\ tr = [tracked[c] EXCEPT ![t.id] = Entry(t, state, TRUE)]
            /\ SaveChanges(c, tr, Detach(Saved(tr), t.id))
            /\ removing' = removing /\ removing[c] = Null
      BY <2>2
    <2>4. \A id \in Ids : tr[id] = IF id = t.id THEN Entry(t, state, TRUE) ELSE Null
      BY <2>1, <2>3 DEF Untracked
    <2>5. IsPending(tr, t.id)
      <3>1. Entry(t, state, TRUE) \in Entries /\ Entry(t, state, TRUE).state = state
        BY DEF Entry, Entries
      <3> QED
        BY <2>1, <2>4, <3>1 DEF IsPending, StoreParameters
    <2>6. Detach(Saved(tr), t.id) = Untracked
      <3>1. \A id \in Ids : id # t.id => Saved(tr)[id] = Null
        BY <2>4 DEF Saved, IsPending
      <3>2. Saved(tr) = [id \in Ids |-> Saved(tr)[id]]
        BY DEF Saved
      <3> QED
        BY <3>1, <3>2 DEF Detach, Untracked
    <2> QED
      BY <1>1, <2>1, <2>3, <2>5, <2>6 DEF SaveChanges
  <1>3. ASSUME NEW c \in Contexts, ~HasPending(c), NEW id \in Ids, NEW key \in Keys,
               TryRemoveQuery(c, id, key)
        PROVE  EFCleanInv'
    <2>1. tracked[c] = Untracked
      BY <1>3 DEF TryRemoveQuery, EFCleanInv, CleanBetweenCalls
    <2>2. PICK e : e.state = "Unchanged" /\ tracked' = [tracked EXCEPT ![c][id] = e]
      BY <1>0, <1>3, <2>1 DEF TryRemoveQuery, Entry, EFRowsInv, EFTypeOK
    <2>3. \A d \in Contexts, i \in Ids : tracked'[d][i] = IF d = c /\ i = id THEN e ELSE tracked[d][i]
      BY <2>2 DEF EFRowsInv, EFTypeOK
    <2>4. \A d \in Contexts : d # c => tracked'[d] = tracked[d]
      BY <2>2 DEF EFRowsInv, EFTypeOK
    <2>5. removing' = [removing EXCEPT ![c] = id] /\ id # Null
      BY <1>3 DEF TryRemoveQuery, StoreParameters
    <2> QED
      BY <1>0, <2>1, <2>2, <2>3, <2>4, <2>5
      DEF EFCleanInv, CleanBetweenCalls, Idle, HasPending, EFRowsInv, EFTypeOK
  <1>4. ASSUME NEW c \in Contexts, TryRemoveSave(c) PROVE EFCleanInv'
    <2>1. PICK id \in Ids : removing[c] = id /\ tracked[c][id] # Null
      BY <1>4 DEF TryRemoveSave, Idle, EFRowsInv, EFTypeOK
    <2>2. PICK tr :
            /\ tr = [tracked[c] EXCEPT ![id] = IF tracked[c][id].state = "Added" THEN Null
                                               ELSE [tracked[c][id] EXCEPT !.state = "Deleted"]]
            /\ SaveChanges(c, tr, Saved(tr))
      BY <1>4, <2>1 DEF TryRemoveSave, EFRowsInv, EFTypeOK
    <2>3. /\ tracked[c][id] \in Entries /\ tracked[c][id].state = "Unchanged"
          /\ \A i \in Ids : i # id => tracked[c][i] = Null
      BY <1>4, <2>1 DEF TryRemoveSave, EFCleanInv, EFRowsInv, EFTypeOK
    <2>4. PICK e \in Entries : e.state = "Deleted" /\ tr = [tracked[c] EXCEPT ![id] = e]
      <3>1. /\ [tracked[c][id] EXCEPT !.state = "Deleted"] \in Entries
            /\ [tracked[c][id] EXCEPT !.state = "Deleted"].state = "Deleted"
        BY <2>3 DEF Entries
      <3> QED
        BY <2>2, <2>3, <3>1
    <2>5. \A i \in Ids : tr[i] = IF i = id THEN e ELSE Null
      BY <2>3, <2>4 DEF EFRowsInv, EFTypeOK
    <2>6. IsPending(tr, id)
      BY <2>4, <2>5 DEF IsPending, StoreParameters
    <2>7. Saved(tr) = Untracked
      BY <2>4, <2>5, <2>6 DEF Saved, Untracked, IsPending
    <2>8. removing' = [removing EXCEPT ![c] = Null]
      BY <1>4 DEF TryRemoveSave
    <2>9. removing'[c] = Null /\ \A d \in Contexts : d # c => removing'[d] = removing[d]
      BY <2>8 DEF EFRowsInv, EFTypeOK
    <2>10. tracked' = [tracked EXCEPT ![c] = tr] \/ tracked' = [tracked EXCEPT ![c] = Untracked]
      BY <2>2, <2>7 DEF SaveChanges
    <2> QED
      BY <1>1, <2>6, <2>9, <2>10
  <1>5. ASSUME NEW c \in Contexts, NewScope(c) PROVE EFCleanInv'
    BY <1>1, <1>5 DEF NewScope, EFRowsInv, EFTypeOK
  <1>6. CASE UNCHANGED efVars
    BY <1>6 DEF efVars, EFCleanInv, CleanBetweenCalls, Idle, HasPending
  <1> QED
    BY <1>2, <1>3, <1>4, <1>5, <1>6 DEF CarefulNext, BeginCall

\* Both hold while contexts are used with care.
LEMMA EFCarefulInvariant ==
  ASSUME StoreParameters PROVE CarefulSpec => [](EFRowsInv /\ EFCleanInv)
  <1>1. [CarefulNext]_efVars => [EFNext]_efVars
    BY DEF CarefulNext, EFNext
  <1> QED
    BY <1>1, EFInitInv, EFRowsStep, EFCleanStep, PTL DEF CarefulSpec

\* CleanBetweenCalls: whatever a call added, updated or found for removal, it
\* leaves the tracker empty unless its save failed.
THEOREM EFCoreContextsAreClean ==
  ASSUME StoreParameters PROVE CarefulSpec => []CleanBetweenCalls
  <1>1. EFCleanInv => CleanBetweenCalls
    BY DEF EFCleanInv
  <1> QED
    BY <1>1, EFCarefulInvariant, PTL

\* A save of a careful context sends what its call asked for and nothing else.
LEMMA EFSentByAddOrUpdate ==
  ASSUME StoreParameters, EFRowsInv, EFCleanInv, NEW c \in Contexts, ~HasPending(c),
         NEW t \in Tenants, TryAdd(c, t) \/ TryUpdate(c, t), rows' # rows
  PROVE  /\ TryAdd(c, t) \/ rows[t.id] # Null
         /\ TryUpdate(c, t) \/ rows[t.id] = Null
         /\ \A id \in Ids : rows'[id] = IF id = t.id THEN t ELSE rows[id]
  <1>1. t.id \in Ids /\ tracked[c] = Untracked
    BY DEF StoreParameters, TryAdd, TryUpdate, EFCleanInv, CleanBetweenCalls
  <1>2. ASSUME NEW state \in {"Added", "Modified"}, NEW tr,
               tr = [tracked[c] EXCEPT ![t.id] = Entry(t, state, TRUE)],
               SaveChanges(c, tr, Detach(Saved(tr), t.id))
        PROVE  /\ rows[t.id] = Null <=> state = "Added"
               /\ \A id \in Ids : rows'[id] = IF id = t.id THEN t ELSE rows[id]
    <2>1. \A id \in Ids : tr[id] = IF id = t.id THEN Entry(t, state, TRUE) ELSE Null
      BY <1>1, <1>2 DEF Untracked
    <2>2. /\ Entry(t, state, TRUE) \in Entries /\ Entry(t, state, TRUE).state = state
          /\ Entry(t, state, TRUE).tenant = t
      BY DEF Entry, Entries
    <2>3. \A id \in Ids : IsPending(tr, id) <=> id = t.id
      BY <1>1, <2>1, <2>2 DEF IsPending, StoreParameters
    <2>4. Accepts(tr) /\ rows' = Sent(tr)
      BY <1>2 DEF SaveChanges
    <2>5. \A id \in Ids : Sent(tr)[id] = IF id = t.id THEN t ELSE rows[id]
      BY <2>1, <2>2, <2>3 DEF Sent
    <2> QED
      BY <1>1, <2>1, <2>2, <2>3, <2>4, <2>5 DEF Accepts
  <1>3. CASE TryAdd(c, t)
    BY <1>2, <1>3 DEF TryAdd
  <1>4. CASE TryUpdate(c, t)
    BY <1>2, <1>4 DEF TryUpdate
  <1> QED
    BY <1>3, <1>4

\* A removal that is saved empties one row.
LEMMA EFSentByRemove ==
  ASSUME StoreParameters, EFRowsInv, EFCleanInv,
         NEW c \in Contexts, TryRemoveSave(c), rows' # rows
  PROVE  \E id \in Ids :
           rows[id] # Null /\ \A i \in Ids : rows'[i] = IF i = id THEN Null ELSE rows[i]
  <1>1. PICK id \in Ids : removing[c] = id /\ tracked[c][id] # Null
    BY DEF TryRemoveSave, Idle, EFRowsInv, EFTypeOK
  <1>2. PICK tr :
          /\ tr = [tracked[c] EXCEPT ![id] = IF tracked[c][id].state = "Added" THEN Null
                                             ELSE [tracked[c][id] EXCEPT !.state = "Deleted"]]
          /\ SaveChanges(c, tr, Saved(tr))
    BY <1>1 DEF TryRemoveSave, EFRowsInv, EFTypeOK
  <1>3. /\ tracked[c][id] \in Entries /\ tracked[c][id].state = "Unchanged"
        /\ \A i \in Ids : i # id => tracked[c][i] = Null
    BY <1>1 DEF TryRemoveSave, EFCleanInv, EFRowsInv, EFTypeOK
  <1>4. PICK e \in Entries : e.state = "Deleted" /\ tr = [tracked[c] EXCEPT ![id] = e]
    <2>1. /\ [tracked[c][id] EXCEPT !.state = "Deleted"] \in Entries
          /\ [tracked[c][id] EXCEPT !.state = "Deleted"].state = "Deleted"
      BY <1>3 DEF Entries
    <2> QED
      BY <1>2, <1>3, <2>1
  <1>5. \A i \in Ids : tr[i] = IF i = id THEN e ELSE Null
    BY <1>3, <1>4 DEF EFRowsInv, EFTypeOK
  <1>6. \A i \in Ids : IsPending(tr, i) <=> i = id
    BY <1>4, <1>5 DEF IsPending, StoreParameters
  <1>7. Accepts(tr) /\ rows' = Sent(tr)
    BY <1>2 DEF SaveChanges
  <1>8. rows[id] # Null
    BY <1>4, <1>5, <1>6, <1>7 DEF Accepts
  <1>9. \A i \in Ids : Sent(tr)[i] = IF i = id THEN Null ELSE rows[i]
    BY <1>4, <1>5, <1>6 DEF Sent
  <1> QED
    BY <1>7, <1>8, <1>9

\* The tenants of the table, as the registry has them.
EFRegistered == {rows[id] : id \in Ids} \ {Null}

\* A tenant is registered as the row of its id.
LEMMA EFRegisteredRows ==
  ASSUME StoreParameters, EFRowsInv
  PROVE  \A t : t \in EFRegistered <=> t \in Tenants /\ rows[t.id] = t
  BY DEF StoreParameters, EFRowsInv, EFTypeOK, EFRegistered

\* No two of them share an id or an identifier.
LEMMA EFRegisteredUnique ==
  ASSUME StoreParameters, EFRowsInv, NEW t \in EFRegistered, NEW u \in EFRegistered, t # u
  PROVE  t.id # u.id /\ t.key # u.key
  <1>1. t \in Tenants /\ u \in Tenants /\ rows[t.id] = t /\ rows[u.id] = u
    BY EFRegisteredRows
  <1> QED
    BY <1>1 DEF StoreParameters, EFRowsInv, UniqueKeys

\* Every step of the store is one of the registry, or leaves it alone.
LEMMA EFRegistryStep ==
  StoreParameters /\ EFRowsInv /\ EFCleanInv /\ EFRowsInv' /\ [CarefulNext]_efVars =>
    Registry!Next \/ EFRegistered' = EFRegistered
  <1> SUFFICES ASSUME StoreParameters, EFRowsInv, EFCleanInv, EFRowsInv', [CarefulNext]_efVars,
                      rows' # rows
               PROVE  Registry!Next
    BY DEF EFRegistered
  <1>1. \A t : t \in EFRegistered <=> t \in Tenants /\ rows[t.id] = t
    BY EFRegisteredRows
  <1>2. \A t : t \in EFRegistered' <=> t \in Tenants /\ rows'[t.id] = t
    BY DEF StoreParameters, EFRowsInv, EFTypeOK, EFRegistered
  <1>3. \A t, u \in EFRegistered' : t # u => t.id # u.id /\ t.key # u.key
    <2> SUFFICES ASSUME NEW t \in EFRegistered', NEW u \in EFRegistered', t # u
                 PROVE  t.id # u.id /\ t.key # u.key
      OBVIOUS
    <2>1. t \in Tenants /\ u \in Tenants /\ rows'[t.id] = t /\ rows'[u.id] = u
      BY <1>2
    <2> QED
      BY <2>1 DEF StoreParameters, EFRowsInv, UniqueKeys
  <1>4. \A t \in Tenants : [k \in Keys |-> k][t.key] = t.key
    BY DEF StoreParameters
  <1>6. ASSUME NEW c \in Contexts, ~HasPending(c), NEW t \in Tenants,
               TryAdd(c, t) \/ TryUpdate(c, t)
        PROVE  Registry!Next
    <2>1. /\ t.id \in Ids /\ t # Null
          /\ \A id \in Ids : rows'[id] = IF id = t.id THEN t ELSE rows[id]
      BY <1>6, EFSentByAddOrUpdate DEF StoreParameters
    <2>2. \A u \in Tenants : u.id \in Ids
      BY DEF StoreParameters
    <2>3. CASE rows[t.id] = Null
      <3>1. \A u \in EFRegistered : u.id # t.id
        BY <1>1, <2>1, <2>3 DEF StoreParameters
      <3>2. EFRegistered' = EFRegistered \cup {t} /\ t \notin EFRegistered
        BY <1>1, <1>2, <2>1, <2>2, <2>3, <3>1
      <3>3. \A u \in EFRegistered : u.key # t.key
        BY <1>3, <3>2
      <3>4. Registry!Register(t)
        BY <1>1, <1>4, <3>1, <3>2, <3>3
        DEF Registry!Register, Registry!SameId, Registry!SameKey, EFRegistered
      <3> QED
        BY <3>4 DEF Registry!Next
    <2>4. CASE rows[t.id] # Null
      <3>1. PICK old \in Tenants : old = rows[t.id] /\ old.id = t.id
        BY <2>1, <2>4 DEF EFRowsInv, EFTypeOK
      <3>2. old \in EFRegistered
        BY <1>1, <3>1
      <3>3. \A u \in EFRegistered \ {old} : u.id # t.id
        BY <1>1, <3>1
      <3>4. EFRegistered' = (EFRegistered \ {old}) \cup {t}
        BY <1>1, <1>2, <2>1, <2>2, <3>1, <3>3
      <3>5. \A u \in EFRegistered \ {old} : t.key # u.key
        BY <1>3, <3>3, <3>4
      <3>6. Registry!Replace(old, t)
        BY <1>1, <1>4, <3>1, <3>2, <3>4, <3>5
        DEF Registry!Replace, Registry!SameId, Registry!SameKey, EFRegistered
      <3> QED
        BY <3>6 DEF Registry!Next
    <2> QED
      BY <2>3, <2>4
  <1>7. ASSUME NEW c \in Contexts, TryRemoveSave(c) PROVE Registry!Next
    <2>1. PICK id \in Ids :
            rows[id] # Null /\ \A i \in Ids : rows'[i] = IF i = id THEN Null ELSE rows[i]
      BY <1>7, EFSentByRemove
    <2>2. PICK old \in Tenants : old = rows[id] /\ old.id = id
      BY <2>1 DEF EFRowsInv, EFTypeOK
    <2>3. old \in EFRegistered
      BY <1>1, <2>2
    <2>4. \A u \in Tenants : u.id \in Ids /\ u # Null
      BY DEF StoreParameters
    <2>5. EFRegistered' = EFRegistered \ {old}
      BY <1>1, <1>2, <2>1, <2>2, <2>4
    <2>6. Registry!Unregister(old)
      BY <2>3, <2>5 DEF Registry!Unregister, EFRegistered
    <2> QED
      BY <2>6 DEF Registry!Next
  <1> QED
    BY <1>6, <1>7 DEF CarefulNext, BeginCall, TryRemoveQuery, NewScope, efVars

\* The initial table is an initial registry.
LEMMA EFRegistryInit == StoreParameters /\ EFInit => Registry!Init
  <1> SUFFICES ASSUME StoreParameters, EFInit PROVE Registry!Init
    OBVIOUS
  <1>1. EFRowsInv
    BY EFInitInv
  <1>2. EFRegistered \in SUBSET Tenants
    BY <1>1, EFRegisteredRows
  <1>3. \A t, u \in EFRegistered : t # u => t.id # u.id /\ t.key # u.key
    BY <1>1, EFRegisteredUnique
  <1>4. \A t \in Tenants : [k \in Keys |-> k][t.key] = t.key
    BY DEF StoreParameters
  <1> QED
    BY <1>2, <1>3, <1>4
    DEF EFRegistered, Registry!Init, Registry!UniqueTenants, Registry!SameId, Registry!SameKey

\* RegistrySpec: a save that the database accepts registers, replaces or unregisters
\* the one tenant its call is about, and a save it refuses does nothing.
THEOREM EFCoreStoreImplementsRegistry ==
  ASSUME StoreParameters PROVE CarefulSpec => RegistrySpec
  <1>1. EFRowsInv /\ EFCleanInv /\ (EFRowsInv /\ EFCleanInv)' /\ [CarefulNext]_efVars
          => [Registry!Next]_EFRegistered
    BY EFRegistryStep
  <1>2. EFInit => Registry!Init
    BY EFRegistryInit
  <1>3. CarefulSpec => [](EFRowsInv /\ EFCleanInv)
    BY EFCarefulInvariant
  <1>4. CarefulSpec => Registry!Init /\ [][Registry!Next]_EFRegistered
    BY <1>1, <1>2, <1>3, PTL DEF CarefulSpec
  <1> QED
    BY <1>4, PTL DEF RegistrySpec, Registry!Spec, EFRegistered
=============================================================================
