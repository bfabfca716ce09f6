# Verification of Finbuckle.MultiTenant

TLA+ models of the parts of Finbuckle.MultiTenant that keep state or make
decisions across several steps, the TLC runs that check them and theorems about
them checked by TLAPS.  Paths below are relative to `src/src/` of the
repository unless they start with `docs/` or `test/`.

## 1. The system and its parts

The library finds out which *tenant* a request belongs to and makes the rest of
an application (options, authentication, Entity Framework) depend on it.

    request --> MultiTenantMiddleware --> TenantResolver --> strategies (request -> identifier)
                      |                        |
                      |                        +-----------> stores (identifier -> tenant),
                      v                                      each in a MultiTenantStoreWrapper
             HttpContext.Items, AsyncLocal accessor
                      |
                      +--> options cache/manager, authentication services,
                           DbContexts: read the current tenant from the accessor

| Part | State | Operations | Hard because |
|---|---|---|---|
| `InMemoryStore` | one `ConcurrentDictionary`: identifier to tenant object | TryGet, TryGetByKey, GetAll, TryAdd, TryRemove, TryUpdate | called by all threads; TryUpdate is a read and a later swap |
| `MultiTenantStoreWrapper` | none | the same, with checks before and exceptions turned into null or false | check, then act, over several awaits |
| `TenantResolver`, `MultiTenantStrategyWrapper` | none but a call's locals | ResolveAsync | stores, outages and options change at each await |
| `DistributedCacheStore` | two entries per tenant in an `IDistributedCache` | as the stores | two writes per change without a transaction, sliding expiration, failures half way |
| `ConfigurationStore` | a map replaced when the configuration reloads | the constructor, UpdateTenantMap, reads | reload against readers; builds of a configuration that is changing; builds that throw |
| `HttpRemoteStore`, `EFCoreStore` | none; a `DbContext` | reads over HTTP; CRUD | remote failures; what a failed save leaves tracked |
| `MultiTenantOptionsCache` | a dictionary of `OptionsCache`s of `Lazy`s | GetOrAdd, TryAdd, TryRemove, Clear, ClearAll | two-level dictionaries, factories run by whoever comes first |
| `MultiTenantOptionsManager` and its registration | one private cache each | Value, Get, Reset | which instance lives how long; the scope an override replaces |
| `MultiTenantMiddleware`, accessor, `HttpContextExtensions` | `HttpContext.Items`, an `AsyncLocal` | Invoke, GetMultiTenantContext, OverrideTenantInfo | two copies of the current tenant with different flow |
| strategies | none | GetKeyAsync | order, fallbacks; the claim strategy authenticates before there is a tenant |
| authentication service, cookie events, remote callback | a stamp in authentication properties, a flag in `HttpContext.Items` | ChallengeAsync, SignInAsync, OnValidatePrincipal | stamps travel through browsers and come back late, twice or under another tenant |
| authentication scheme provider | two plain collections of schemes | AddScheme, RemoveScheme, GetScheme, GetDefault... | reads outside the lock; the inner provider |
| `MultiTenantDbContext`, `EnforceMultiTenant` | the change tracker, the tenant of the context | SaveChanges, query filter | a check that mutates and may throw half way |
| builders, model building | none at run time | registration | - |

What makes each part correct: a store gives the tenant last stored for an id or
identifier, and ids and identifiers stay unique; the resolver's answer follows
from what stores and options were; the two entries of a cached tenant agree; a
tenant gets options made for it, shared, and none that were cleared; the current
tenant is the same wherever it is read; a session counts under its own tenant
only; scheme lookups are exact; only rows of the current tenant change.

## 2. The modules

| Module | Models | Proofs |
|---|---|---|
| `TenantRegistry` | what `IMultiTenantStore` promises: a set of tenants with unique ids, changed by registration, replacement and removal | |
| `TenantInfo` | what tenants are told apart by, the constants all stores share | |
| `InMemoryStore` | `InMemoryStore.cs` | with the next |
| `MultiTenantStoreWrapper` (extends `InMemoryStore`) | `MultiTenantStoreWrapper.cs` around that store | `MultiTenantStoreWrapper_proofs` |
| `TenantResolver` | `TenantResolver.ResolveAsync`, the strategy wrapper, the lookup of the store wrapper | `TenantResolver_proofs` |
| `DistributedCacheStore` | `DistributedCacheStore.cs` on an external cache | `DistributedCacheStore_proofs` |
| `MultiTenantOptionsCache` | `MultiTenantOptionsCache.cs` and `MultiTenantOptionsManager.Get/Reset` on external `OptionsCache` and `Lazy` | `MultiTenantOptionsCache_proofs` |
| `ConfigurationStore` | `ConfigurationStore.cs` on an external configuration | `ConfigurationStore_proofs` |
| `EFCoreStore` | `EFCoreStore.cs` on an external database and change tracker | with `ConfigurationStore`'s |
| `CurrentTenant` | `HttpContext.Items` and the `AsyncLocal` accessor of one request after the other | with the next |
| `PerTenantAuthentication` (extends `CurrentTenant`) | the middleware, the authentication service, `OnValidatePrincipal`, the claim and the remote callback strategy, overrides | `PerTenantAuthentication_proofs` |
| `RequestServices` (an instance of `CurrentTenant` in it) | the scope of services of a request: `OverrideTenantInfo` with its reset, `MultiTenantOptionsManager` as `IOptions` and `IOptionsSnapshot`, the `DbContext` bound to a tenant | with `MultiTenantOptionsCache`'s |
| `MultiTenantAuthenticationSchemeProvider` | `MultiTenantAuthenticationSchemeProvider.cs` | `MultiTenantAuthenticationSchemeProvider_proofs` |
| `MultiTenantDbContext` | `MultiTenantDbContext.cs`, the tenant of `MultiTenantIdentityDbContext.cs`, `EnforceMultiTenant`, the query filter | `MultiTenantDbContext_proofs` |

`MC<Module>.tla` gives a module finite constants, and each `.cfg` is one
question.  Definitions called "a plausible mistake" are the code as a slip would
have it: for each property there is one under which TLC finds it violated.

**InMemoryStore.**  `tenantMap` is the dictionary, keyed by the representative
of an identifier under its comparer (case-insensitive by default).  Each
dictionary call is atomic.  `TryUpdateAsync` is `TryUpdateRead` (find the object
that has the id) and `TryUpdateSwap` (`TryUpdate` on the old object's
identifier, which compares references), with other threads in between; `update`
holds what was read.  Lookups are operators (`Finds`, `TryGetByKey`).
`GetAllAsync`, which enumerates the dictionary without a snapshot of it, changes
nothing and is promised nothing; `Stored` is the set of objects as the
properties see it.

**MultiTenantStoreWrapper.**  `TryAddAsync` is `AddCheckId`, `AddCheckKey`,
`Add`; `TryUpdateAsync` is `UpdateCheckId`, `UpdateRead`, `UpdateSwap`; `Remove`
is the store's.  A lookup in which the store throws (two objects with one id)
counts as "not found", as in the code.  Any client may add, rename, update and
remove any tenant at any time.  `misled` (history) says of an add in flight that
the id it found free was not (the lookup threw, `Doubled`) or has been added by
another call since.  Stores taken from dependency injection
are not wrapped: for those `InMemoryStore` alone is the model.

**TenantResolver.**  A request's locals are `req[r]`.  `TryStrategy` is one turn
of the outer loop (call the strategy, drop an ignored identifier), `TryStore`
one turn of the inner loop, `RaiseResolved` and `RaiseNotResolved` the events,
whose handlers may throw.  What surrounds the resolver is `ChangeStore`,
`StoreFailsOrRecovers` and `ReloadOptions`, which may happen between any two
steps.  The history variables note, for a request in flight, which strategy and
store pairs agreed on a tenant all the time (`steady`), which strategies were
usable at some time (`allowed`) and which tenants were held at some time
(`held`); no action of the resolver reads them.

**DistributedCacheStore.**  Each await on the cache is a step.  `value` and
`left` are the cache, `left` counting the ticks until an entry expires.
`Abandon` is a call that ends half way, by an exception of the cache or the end
of the process; `torn` (history) names the tenants it left and that no completed
call has made good.  Prefix, serialisation and `GetAllAsync` (which throws) are
left out.

**ConfigurationStore.**  There is no store at first (`stage = "none"`), and the
configuration may lack its section (`Absent`).  `Construct` is the constructor,
which throws unless the section `Exists`; one that threw, then or in its build,
leaves no store, and the next request tries again.  A build (`UpdateTenantMap`) is `StartLoad`, one
`ReadValue` per value of the defaults and of the section (`Get` and `Bind` read
them one by one), `AddTenant` or `Throw` per section, and `EndLoad`, which
replaces the map.  A provider takes another content (`Change`) and tells so later
(`Raise`), also in the middle of a build, which then mixes two contents.
`Register` and `Reload` are `ChangeToken.OnChange`: the next token is taken before
the build and waited for after it, also when it threw, so builds never overlap
and `fired` is all that is left of the tokens.  A binding that throws because of a
value of the wrong type is left out; it ends a build as a missing identifier does.

**EFCoreStore.**  `rows` is the table, `tracked` the change tracker of each
context.  `TryAdd` and `TryUpdate` are one step each with their save, since all
they read beforehand is the context's own tracker; `TryRemoveAsync` is a query and a save, with
other contexts in between.  A save is refused when an id or an identifier would be
there twice or a row is gone, and may fail for reasons of its own; the code
after it does not run then, and the entity stays pending.  `NewScope` is the end
of the scope, at any time, the middle of a removal included.

**MultiTenantOptionsCache.**  Each method is `Begin` or `Clear`/`ClearAll`
(current tenant, outer dictionary) and a second half on the tenant's
`OptionsCache`; `GetOrAdd` goes on with `AskForValue` and `Create`, the life of a
`Lazy`.  A `Lazy` nobody refers to may be allocated anew, which keeps the model
finite without bounding the run.  `removed` and `noted` are history variables.

**RequestServices.**  `scope[r]` is `HttpContext.RequestServices`: the private
cache of its `IOptionsSnapshot` (the tenant object and the configuration an
instance was made from, per id) and the tenant of its `DbContext`, both made when
they are first asked for.  `singleton` is the private cache of `IOptions`.
`OverrideTenantInfo` is the method with both values of its flag.  The tenant is a
`TenantInfo` object here, of which there may be several with one id, since the
caches go by the id and the factories by the object.  Each use of a cache is one
step; what can come between its halves is in `MultiTenantOptionsCache`.  `fresh`
(history) says that the scope was made by what set the tenant last.

**CurrentTenant.**  `items[r]` is the tenant in `HttpContext.Items`, `flows[r]` the
accessor's value in each async method under way: `CallAsync` copies the caller's,
`ReturnAsync` drops it, and `SetContext` sets the innermost and the Items.
`setIn` (history) is how deep the method was that set the tenant last.

**PerTenantAuthentication.**  `tickets` and `states` are the cookies and the state
parameters browsers hold; a request brings any of them (`Send`), which covers
lost, repeated, late and reordered answers.  `req[r]` is the rest of the
`HttpContext`: the step of the middleware (`Invoke`, one action per strategy,
`NotResolved`), the bypass flag, the cached result of the cookie handler and the
user.  The claim strategy's await is between `BeginAskClaim` and `EndAskClaim`.
What an application does in the pipeline is `Authenticate`, `Challenge`,
`SignIn`, `ForbidOrSignOut`, `OverrideTenantInfo` and `Nest`, in any order, before
or after the middleware.  The properties it passes are new ones, those it used
last (`req[r].own`) or the session's, and the service stamps the object itself
(`StampInPlace`), so whoever uses it later in the request meets the stamp.
`HandleCallback` is Microsoft's remote handler, which signs in through the
service.  `TenantResolver` has the resolver's loops in detail; here
`Resolve` is what is left of them when a store finds a tenant or does not.
`properties.born` (history) is the tenant under which properties were first
passed on; it follows the rule of the stamp, that the first one counts.

**MultiTenantAuthenticationSchemeProvider.**  `schemes` and `handlers` are the two
collections, empty at first.  `Construct` is one turn of the constructor's loop
over the configured schemes; `built` counts them, and calls begin when all are
there.  Two configured schemes of one name make the constructor throw, so there
is no provider to speak of.  `AddScheme` and `RemoveScheme` are the check outside the lock,
`LockAndAdd` and `LockAndRemove` the check inside and the change of the list,
`Store` and `Erase` the change of the dictionary.  `ContainsKey` and `Indexer`
are the two reads of a get.  A read while the dictionary is written is undefined:
it may find what is there, nothing, or throw (`MayFind`, `NoticeWrite`).  The list
loses the first occurrence of a scheme, as `List.Remove` does (`RemoveFirst`).
`raced` (history) says that a get has met a write.

**MultiTenantDbContext.**  `tracked` is each context's change tracker: per
primary key the state of the entity, the value of its `TenantId` and whether that
value will be written.  `row` is the table and `author` (history) the tenant
under which a row was written last.  `EnforceMultiTenant` is a function of
tracker, tenant and modes that says whether it passes and what it has overwritten
in either case; it reads nothing that another context can change, so it makes
one step with the transaction (`SaveSucceeds`), or with its failure or the
exception of the check (`SaveFails`).  An attached entity has its tenant's
id or, as `IsMultiTenant` adds `TenantId` as a shadow property, none.  Keys are
never given out again, as databases generate them.  `SwitchTenant` is the
Identity context, which asks the accessor each time.

## 3. What the runs show

| Run | Shows | Bounds |
|---|---|---|
| `store_wrapper` | whoever administers what: `EntryKeepsItsTenant` and `UpdateNeverResurrects`, the swap of an update never hits another tenant's entry nor brings back a removed one; `OnlyMisledAddsShareIds`, ids that are unique stay so until an add that is `misled`; `RegistrySteps`, from a state `TenantRegistry` may be in every step is one of it, with two exceptions (a misled add, an update that takes another tenant's identifier) | three clients (interchangeable), two ids, six objects in four spellings of three identifiers and without one |
| `resolver` | `AnswerAccountedFor`, `EveryRequestEnds` | one request, three strategies (one a fallback), two stores, two spellings of one identifier |
| `distributed_cache` | `TwinsInSync`, `TwinsExpireTogether`, `RemovalIsComplete` | two clients, a tenant each in two versions, two ticks to live, calls may be cut short |
| `options_cache` | `TenantIsolation`, `SharedInstance`, `FreshAfterRemoval`, `ClearIsComplete`, `OneRunner`, `EveryGetEnds` | two flows, one tenant and no tenant, one name, three `Lazy`s (enough that an allocation never waits) |
| `configuration_store` | `RestsOnTheConfiguration`, `SteadyTenantsAreServed`, `ChangesAreReflected` | three sections and the defaults, five contents and at first perhaps none; one section never changes |
| `configuration_store_early` (violation) | `RestsOnTheConfiguration` fails when the configuration changes under the constructor | the same |
| `ef_core_store` | `RegistrySpec`, the table implements `TenantRegistry`; `CleanBetweenCalls` | two contexts, three ids, two identifiers |
| `request_services` | `ScopedServicesFollowResets`, `SnapshotsAreOfTheScope` | one request after the other, two nested methods, two objects of one tenant and one of another, two configurations |
| `scheme_provider` | `NeverReplaced`, `HandlersMatch`, `UnracedGetsAreExact` | three threads; a scheme from the options, two more names, two objects of one name |
| `authentication` | `SessionsStayHome`, `RemoteSignInsReturn`, `AccessorInStep` | one request after the other, two tenants, two spellings of one key, three strategies, three nested methods |
| `db_context` | in default modes: `LastWriterOwns`, `RowKeepsTenant` | two contexts, one of which changes its tenant, two tenants, two rows |
| `db_context_not_set` (violation) | in `TenantNotSetMode.Overwrite` a row of another tenant is deleted | the same |

Two clients suffice for the caches because every property is about two
conflicting calls or a call and a lookup; the store wrapper has a third for an
update or a removal between two adds that race.  Both exceptions of
`RegistrySteps` and `misled` are needed: without any of them TLC finds the step.
One request suffices for the resolver because requests share nothing but the
world, which changes freely.
Three strategies give a first, a second and a fallback, equal and unequal
priorities; two stores give a first and a second.  One request slot suffices for
the authentication because requests share nothing but what browsers hold, and that only grows: whatever an overlapping request
could have left, an earlier one has left as well.  Two tenants are one that owns a
session and one that does not; of three nested methods the first calls the
middleware's and the last sets the tenant.  Three threads
suffice for the scheme provider: one that writes, one that waits for the lock and
one that reads.  Two contexts and two rows
suffice for the DbContext since a row is written through one context at a time,
and the second row is what lets a check throw after it has overwritten the first.
A configuration of three sections has one that stays, and two that compete for
an identifier up to case; its contents have a section that comes and goes, one
whose identifier is missing (the build throws) and one that gets it from the
defaults.  The change counter of the configured options needs two values, before
and after; a scope that replaced its predecessor needs one request slot.  Where
there are theorems they say the same for any number.

Deadlock is checked in every run: no model may stop.

**Fairness.**  `FairSpec` of the resolver gives each request weak fairness of its
own steps: its continuation is scheduled and strategies, stores and handlers
return or throw.  The world is not required to rest.  `FairSpec` of the options
cache gives each get weak fairness: factories return or throw.  Clears, adds and
removals need not go on.  `FairSpec` of the configuration store gives weak
fairness to the raising of a change by a provider that has taken it
(`ConfigurationProvider` does both in one method) and to the store's own steps,
which run on the thread that raises; requests keep asking for a store that could
not be constructed.  Contents need not stop changing: what is
promised holds if they do.  No other run has a liveness property.

## 4. Where code and documentation differ

Those with a run are findings: TLC has the behaviour.  The others were met in
earlier forms of the models or in reading, and show when a configuration is
changed as the table says.

| Statement | Code | Seen in |
|---|---|---|
| identifiers can be changed (`ITenantInfo.cs:24`) | the in-memory store keeps the old identifier as the key | `InMemoryStore.cs:92`, `TryUpdateSwap` |
| the configuration store reflects a change of its source (`docs/Stores.md:101`) | not a change raised between its first build and its registration | `configuration_store_early` |
| the event names the last identifier used (`TenantNotFoundContext.cs:18`) | a later silent strategy overwrites it | `TenantResolver.cs:57`, `TryStrategy` |
| updates keep the dual entries synced (`docs/Stores.md:257`) | not when the identifier changes | `DistributedCache.cfg` with `Tenants <- RenamedTenants` |
| | nor when two clients update one tenant | `DistributedCache.cfg` with `Administers <- ByAnyone` |
| a lookup keeps the entries synced (`DistributedCacheStore.cs:55`) | not when one expires in between | `DistributedCache.cfg` with `Expiry = "anyTime"` |
| `Clear(null)` clears the options of no tenant (`docs/Options.md:189`) | it throws | `MultiTenantOptionsCache.cs:48`, `Clear` |
| a call that returned false or threw did nothing (`IMultiTenantStore.cs:18`) | after a failed save the EF Core store's context keeps the entity pending, and the next call saves both | `EFCoreStore.cfg` with `SPECIFICATION EFSpec` |
| `IOptions` is regenerated when injected (`docs/Options.md:170`, `docs/ConfigurationAndUsage.md:148`) | it is a singleton with one cache | `RequestServices.cfg` with `INVARIANT OptionsAreRegenerated`: options that were made, then configured anew, meet the next request; `ServiceCollectionExtensions.cs:267` |
| after an override with a reset, services are of the current tenant (`docs/ConfigurationAndUsage.md:134`) | in the method that overrides and what it calls; a caller meets the new services while its accessor has the old tenant | `HttpContextExtensions.cs:57`, `ScopedServicesFollowResets` without `setIn[r] # 0` |
| a new sign-in under a new tenant replaces the tenant (`docs/Authentication.md:59`) | not if it is given properties that have a stamp, as those of the session | `MultiTenantAuthenticationService.cs:31`, `Stamp` |
| a removed scheme is not used any more (`MultiTenantAuthenticationSchemeProvider.cs:181`) | the inner provider, which has the schemes of the options too, is asked first | `MultiTenantAuthenticationSchemeProvider.cs:136`, `GetScheme` |
| a deleted entity of another tenant throws (`docs/EFCore.md:368`) | not with `TenantNotSetMode.Overwrite` and no `TenantId` | `db_context_not_set` |
| an id is unique (`ITenantInfo.cs:12`) | the options of the in-memory store may hold one twice (`InMemoryStore.cs:35`), and two adds of one id under two identifiers at once both succeed; then lookups of the id throw, and adds of it take that for "not found" | `StoreWrapper.cfg` with `INVARIANT UniqueIds`, and without `misled[c]` in `OnlyMisledAddsShareIds` |
| an identifier is unique (`ITenantInfo.cs:20`) | an update may take the identifier of another tenant | `InMemoryStore.cs:92`, `TakesKey` in `RegistrySteps` |
| low priority values run first (`IMultiTenantStrategy.cs:25`) | `OrderByDescending` | `TenantResolver.cs:38` |
| the first identifier ends the search (`docs/Strategies.md:36`) | only a tenant does | `TenantResolver.cs:53` |

## 5. What is proved

For all values of the constants that satisfy the `ASSUME`s of the modules:

* `MultiTenantStoreWrapper_proofs`, for the in-memory store: type correctness,
  `EntryKeepsItsTenant` and `UpdateNeverResurrects`.  They follow from one
  invariant about the update in flight: what it read has the id it was asked for.
  For the wrapper, with no assumption on who administers or renames which tenant:
  type correctness, `OnlyMisledAddsShareIds` and `RegistrySteps`.  The invariant
  (`PendingAdds`) says that an add in flight is misled or nothing stored has its
  id, which every add has to keep for all the others; a swap keeps the id of the
  entry it replaces.
  `WrappedStoreStepsAreRegistrySteps` adds to this that an update that does not
  take another tenant's identifier replaces one tenant of the registry.
* `TenantResolver_proofs`: type correctness and `AnswerAccountedFor`.  The
  invariant relates a request's position in the two loops to the histories:
  whatever agreed all the time has not been passed yet.  Two theorems say what of
  `EveryRequestEnds` is not a matter of scheduling.  `RequestsAreNeverStuck`: a
  request in flight has a next step; that one of the strategies left comes first
  in any priorities is shown with a least counterexample (`FirstExists`).
  `RequestsMoveForward`: each of its steps leaves fewer strategies, or the same
  and fewer stores and events.
* `DistributedCacheStore_proofs`: type correctness, `TwinsInSync`,
  `TwinsExpireTogether` and `RemovalIsComplete` under
  `SeparateTenants` and `Expiry # "anyTime"`, conditions that are both needed
  (section 4).  `CacheInv` says that entries are under the
  names of their values, what each call in flight knows of the entry it has just
  touched, and that the twins of a tenant agree unless somebody is at it.  The
  lemma `ClientStep` reduces every step to the client's own knowledge and the
  twins of one tenant.
* `MultiTenantOptionsCache_proofs`: type correctness, `TenantIsolation`,
  `SharedInstance`, `FreshAfterRemoval` and `ClearIsComplete`.  `OptionsInv` says
  that a `Lazy` is in one entry at most, that all who hold it hold it for the
  tenant it is cached for, and that what was removed stays out of the caches until
  it is garbage.  `ClearInv` adds that what a clear noted and still finds cached is
  cached for a tenant the clear has yet to come to.  `FactoriesHaveOneRunner` (`OneRunner`) is
  the safety in `EveryGetEnds`: a Lazy is allocated anew only when no call holds
  it, so a factory that runs is run by exactly one get in flight, and a get that
  waits for a value waits for another one that can go on.
  For the services of requests: type correctness,
  `ScopedServicesFollowResets` and `SnapshotsAreOfTheScope`, under `ServicesParameters`, the assumption of the module.  `ServicesInv` says
  what the services of one request hold (`Served`): options no older than their
  scope, which began no later than now, each under the id of its tenant, and
  nothing of another object while the scope is fresh.  That the accessor names
  the object of the Items then is `InStep`, as in `PerTenantAuthentication_proofs`
  with objects for keys.
* `ConfigurationStore_proofs`: type correctness; `SteadyTenantsAreServed`, by
  induction over the sections a build has passed (`SteadyInv`: one that was passed
  is in the new map, for a section before it never takes its identifier, whatever
  contents are mixed, and only a section that exists makes a store);
  `RestsOnTheConfiguration` under `~EarlyChanges`.  `RestsInv`
  says that a build in the constructor, or during which no change has been taken or
  is still to be told, has read the content there is (`LoadIsExact`, `Partial`), and
  that of any other the token tells.
  For the EF Core store: type correctness however contexts
  are used, and for contexts that are given up when a save fails (`CarefulSpec`)
  `CleanBetweenCalls` and the implementation of `TenantRegistry`.  `EFRowsInv`
  says that rows and tracked entities are filed under their ids and identifiers
  are unique; `EFCleanInv` that a removal under way tracks the one entity to be
  removed, unchanged.  From both a save sends what its call asked for and nothing
  else (`EFSentByAddOrUpdate`, `EFSentByRemove`), which is a step of the registry.
* `PerTenantAuthentication_proofs`: type correctness, `AccessorInStep`,
  `SessionsStayHome` and `RemoteSignInsReturn`, for any number of requests that
  overlap.  `Inv` says of the accessor that all methods from the one that set the
  tenant have the same, and of the rest that browsers hold only properties whose
  stamp is the tenant they were first passed on under (`Honest`), and that a
  request outside the claim strategy has no bypass (`Sound`).  Each operation of
  `CurrentTenant` has a lemma on the values of one request; `QuietStep` and
  `GivingStep` reduce a step to the request that takes it.
* `MultiTenantAuthenticationSchemeProvider_proofs`: type correctness,
  `HandlersMatch`, `NeverReplaced` and `UnracedGetsAreExact`.  `ProviderInv` says
  that who writes holds the lock, that a name about to be stored is free, and what
  a get that has met no write knows.  `HandlersInv` says which one scheme the list
  may be ahead of the dictionary by, or behind, under the lock; it starts from
  what the constructor has built so far (`Construction`) and rests on what
  appending and removing do to a list without repetitions (`AppendedOnce`,
  `RemovedOnce`).
* `MultiTenantDbContext_proofs`: type correctness and, under `OrdinaryUse`
  (default modes, nobody but the library writes an id into a `TenantId`),
  `LastWriterOwns` and `RowKeepsTenant`.  Neither is inductive: `TrackedAgrees`
  adds that an entry that is or may become a change carries the owner of its row,
  or none, also when a check threw half way or the tenant of the context changed
  since.

Each invariant and each action property of a run is stated by one of these
theorems.  Those about `EFCoreStore` stand beside those about the configuration
store, and those about `RequestServices` beside those about the options cache:
each of these two proof modules extends both of its components, whose definitions
therefore have distinct names (`EFInit`, `ServicesInit` and so on).  Their assumptions on constants are hypotheses of each
theorem (`StoreParameters`, `ServicesParameters`).

Only model-checked: the liveness properties `EveryRequestEnds`, `EveryGetEnds` and
`ChangesAreReflected` (liveness under fairness is outside what the proof system
does).  `NeverStuck` states the guards of the steps, as `ENABLED` is outside it
too.

## 6. What is not modelled

* Per-tenant cookie names, schemes and OpenID Connect options
  (`WithPerTenantAuthenticationConventions`): strings composed from the tenant.
* The builders and registrations, which run once at start-up on one thread, and
  model building with expression trees.  What they set up is modelled where it
  bites: lifetimes, the query filter, the key and the index of the store's table.
* `HttpRemoteStore`: one GET per lookup and no state; to its callers a store that
  answers or is down.
* The parsing of requests in the strategies: each is a function from a request to
  an identifier, nothing or an exception.
* A host that runs the pipeline again on the `HttpContext` of a failed request, and
  enumerations of the scheme provider's live list.
* Logging, and the samples with the scripts they carry (the only JavaScript in the
  repository, third-party form validation): the library is the C# code under
  `src/src/`.
