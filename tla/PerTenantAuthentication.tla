------------------------ MODULE PerTenantAuthentication ------------------------
(***************************************************************************)
(* WithPerTenantAuthentication and WithClaimStrategy.                      *)
(* MultiTenantAuthenticationService stamps the tenant's key on the         *)
(* authentication properties it passes on; cookie events compare the stamp *)
(* with the current tenant; RemoteAuthenticationCallbackStrategy and       *)
(* ClaimStrategy get the tenant of a request from what a stamp or a claim  *)
(* said in an earlier one.                                                 *)
(*                                                                         *)
(* Requests have in common only what browsers bring back: cookies and the  *)
(* state parameters of remote sign-ins.  As requests overlap, answers get  *)
(* lost and pages are loaded again, a request may bring any it was ever    *)
(* given.                                                                  *)
(***************************************************************************)
EXTENDS CurrentTenant

CONSTANTS
  Fold,        \* StringComparison.OrdinalIgnoreCase: representative of a spelling
  Known,       \* keys of the tenants that stores hold at times
  Claims,      \* what principals claim of their tenant, Null for nothing
  Strategies,  \* in the order of their priorities: "other" for one that reads the request only
  SkipChallengeIfTenantNotResolved  \* the values the option may have

ASSUME AuthenticationAssumption ==
  /\ Fold \in [Keys -> Keys]
  /\ Known \subseteq Keys
  /\ Claims \subseteq Keys \cup {Null}
  /\ Strategies \in Seq({"other", "claim", "callback"})
  /\ SkipChallengeIfTenantNotResolved \subseteq BOOLEAN

\* AuthenticationProperties: the item under Constants.TenantToken; history: the
\* tenant of the first request that had one and passed these properties on.
Properties == [stamp : KeyOrNull, born : KeyOrNull]
NoProperties == [stamp |-> Null, born |-> Null]

Tickets == [properties : Properties, claim : KeyOrNull]

\* A handler's AuthenticateResult: no ticket may mean a rejected one.
NotAsked == [asked |-> FALSE, ticket |-> Null]
Result(ticket) == [asked |-> TRUE, ticket |-> ticket]

VARIABLES
  tickets, \* in cookies
  states,  \* properties in state parameters
  req      \* the rest of each request's HttpContext

vars == <<tickets, states, req, items, flows, setIn>>

\* A strategy number is what a request in the resolver is at; own is the last
\* AuthenticationProperties the application made in the request.
NoRequest ==
  [step |-> "none", strategy |-> 0, cookie |-> Null, state |-> Null,
   bypass |-> FALSE, result |-> NotAsked, user |-> Null, own |-> NoProperties]

Init ==
  /\ tickets = {}
  /\ states = {}
  /\ req = [r \in Requests |-> NoRequest]
  /\ items = [r \in Requests |-> Null]
  /\ flows = [r \in Requests |-> <<Null>>]
  /\ setIn = [r \in Requests |-> 0]
-----------------------------------------------------------------------------
At(r, step) == req[r].step = step
Become(r, new) == req' = [req EXCEPT ![r] = new]

Same(k, l) == k = l \/ (k \in Keys /\ l \in Keys /\ Fold[k] = Fold[l])

\* What a store may have for a key, at the time.
Lookup(key) == {k \in Known : Fold[k] = Fold[key]} \cup {Null}

\* A plausible mistake: a stamp that is there is overwritten.
StampOver(properties, tenant) ==
  [stamp |-> tenant,
   born  |-> IF properties.born # Null THEN properties.born ELSE tenant]

\* AddTenantIdentifierToProperties.
Stamp(properties, tenant) ==
  [stamp |-> IF properties.stamp # Null THEN properties.stamp ELSE tenant,
   born  |-> IF properties.born # Null THEN properties.born ELSE tenant]

\* A request for the application or, with a state, for a callback path.
Send(r, cookie, state) ==
  /\ At(r, "none")
  /\ Become(r, [NoRequest EXCEPT !.step = "sent", !.cookie = cookie, !.state = state])
  /\ NewContext(r)
  /\ UNCHANGED <<tickets, states>>

\* OnValidatePrincipal.
Validate(r, ticket) == req[r].bypass \/ Same(items[r], ticket.properties.stamp)

\* What a cookie handler makes of the request's cookie.
TicketOf(r) ==
  IF req[r].cookie # Null /\ Validate(r, req[r].cookie) THEN req[r].cookie ELSE Null
-----------------------------------------------------------------------------
(* The middleware and the strategies.                                       *)
Asking(r, strategy) ==
  At(r, "resolving") /\ req[r].strategy \in DOMAIN Strategies /\ Strategies[req[r].strategy] = strategy

Invoke(r) ==
  /\ At(r, "sent")
  /\ Become(r, [req[r] EXCEPT !.step = "resolving", !.strategy = 1])
  /\ CallAsync(r)
  /\ UNCHANGED <<tickets, states>>

\* The resolver looks a key up and ends or goes on to the next strategy.
Resolve(r, q, key) ==
  /\ \E k \in IF key = Null THEN {Null} ELSE Lookup(key) :
       IF k = Null
         THEN /\ Become(r, [q EXCEPT !.step = "resolving", !.strategy = q.strategy + 1])
              /\ UNCHANGED contextVars
         ELSE /\ Become(r, [q EXCEPT !.step = "resolved", !.strategy = 0])
              /\ SetContext(r, k)
  /\ UNCHANGED <<tickets, states>>

AskOther(r, key) == Asking(r, "other") /\ Resolve(r, req[r], key)

\* A signed-in user's claim, or else that of the cookie, which a handler of the
\* strategy's own authenticates without the comparison of tenants.
AskClaimOfUser(r) ==
  /\ Asking(r, "claim")
  /\ req[r].user # Null
  /\ Resolve(r, req[r], req[r].user.claim)

BeginAskClaim(r) ==
  /\ Asking(r, "claim")
  /\ req[r].user = Null
  /\ Become(r, [req[r] EXCEPT !.step = "claiming", !.bypass = TRUE])
  /\ UNCHANGED <<tickets, states, contextVars>>

\* A plausible mistake: the bypass is left behind.
EndAskClaimBypassed(r) ==
  /\ At(r, "claiming")
  /\ LET ticket == TicketOf(r)
     IN Resolve(r, req[r], IF ticket = Null THEN Null ELSE ticket.claim)

EndAskClaim(r) ==
  /\ At(r, "claiming")
  /\ LET ticket == TicketOf(r)
     IN Resolve(r, [req[r] EXCEPT !.bypass = FALSE], IF ticket = Null THEN Null ELSE ticket.claim)

\* A path that is no callback, or a state that cannot be read, has no key.
AskCallback(r) ==
  /\ Asking(r, "callback")
  /\ Resolve(r, req[r], IF req[r].state = Null THEN Null ELSE req[r].state.stamp)

NotResolved(r) ==
  /\ At(r, "resolving")
  /\ req[r].strategy > Len(Strategies)
  /\ Become(r, [req[r] EXCEPT !.step = "resolved", !.strategy = 0])
  /\ SetContext(r, Null)
  /\ UNCHANGED <<tickets, states>>
-----------------------------------------------------------------------------
(* What follows the middleware; the authentication middleware may precede it.*)
InPipeline(r) == req[r].step \in {"sent", "resolved"}

\* The authentication middleware, which sets HttpContext.User if there is a principal.
Authenticate(r) ==
  /\ InPipeline(r)
  /\ ~req[r].result.asked
  /\ LET ticket == TicketOf(r)
     IN Become(r, [req[r] EXCEPT !.result = Result(ticket),
                                 !.user = IF ticket = Null THEN @ ELSE ticket])
  /\ UNCHANGED <<tickets, states, contextVars>>

\* The properties an application may pass on: new ones, its own, the session's.
AtHand(r) ==
  {NoProperties, req[r].own} \cup
    (IF req[r].result.ticket = Null THEN {} ELSE {req[r].result.ticket.properties})

\* The object that is passed on is stamped in place.
StampInPlace(r, properties) ==
  LET stamped == Stamp(properties, items[r])
      ticket  == req[r].result.ticket
  IN \/ /\ properties \in {NoProperties, req[r].own}
        /\ Become(r, [req[r] EXCEPT !.own = stamped])
     \/ /\ ticket # Null /\ properties = ticket.properties
        /\ Become(r, [req[r] EXCEPT !.result = Result([ticket EXCEPT !.properties = stamped])])

\* A challenge of a remote scheme, whose handler protects the properties in the
\* state parameter.
Challenge(r) ==
  /\ InPipeline(r)
  /\ \E skip \in SkipChallengeIfTenantNotResolved : skip => items[r] # Null
  /\ \E properties \in AtHand(r) :
       /\ StampInPlace(r, properties)
       /\ states' = states \cup {Stamp(properties, items[r])}
  /\ UNCHANGED <<tickets, contextVars>>

\* ForbidAsync and SignOutAsync stamp as well, and nothing comes back with it.
ForbidOrSignOut(r) ==
  /\ InPipeline(r)
  /\ \E properties \in AtHand(r) : StampInPlace(r, properties)
  /\ UNCHANGED <<tickets, states, contextVars>>

\* A plausible mistake: without a tenant there are no properties to pass on.
SignInWithNone(r, properties, claim) ==
  tickets' = tickets \cup
    {[properties |-> IF items[r] = Null THEN Null ELSE Stamp(properties, items[r]),
      claim |-> claim]}

SignInWith(r, properties, claim) ==
  tickets' = tickets \cup {[properties |-> Stamp(properties, items[r]), claim |-> claim]}

SignIn(r, claim) ==
  /\ InPipeline(r)
  /\ \E properties \in AtHand(r) :
       StampInPlace(r, properties) /\ SignInWith(r, properties, claim)
  /\ UNCHANGED <<states, contextVars>>

\* The remote handler signs in with the properties of the state and ends the request.
HandleCallback(r, claim) ==
  /\ InPipeline(r)
  /\ req[r].state # Null
  /\ SignInWith(r, req[r].state, claim)
  /\ Become(r, NoRequest)
  /\ NewContext(r)
  /\ UNCHANGED states

\* A new scope of services has handlers of its own.
OverrideTenantInfo(r, key, resetServiceProviderScope) ==
  /\ InPipeline(r)
  /\ Become(r, [req[r] EXCEPT !.result = IF resetServiceProviderScope THEN NotAsked ELSE @])
  /\ SetContext(r, key)
  /\ UNCHANGED <<tickets, states>>

\* The components of the pipeline call each other.
Nest(r) ==
  /\ InPipeline(r)
  /\ CallAsync(r) \/ ReturnAsync(r)
  /\ UNCHANGED <<tickets, states, req>>

\* A request ends, or fails wherever it is.
End(r) ==
  /\ req[r].step # "none"
  /\ Become(r, NoRequest)
  /\ NewContext(r)
  /\ UNCHANGED <<tickets, states>>

Next ==
  \E r \in Requests :
    \/ \E cookie \in tickets \cup {Null}, state \in states \cup {Null} : Send(r, cookie, state)
    \/ \E key \in KeyOrNull : AskOther(r, key)
    \/ Invoke(r) \/ AskClaimOfUser(r) \/ BeginAskClaim(r) \/ EndAskClaim(r)
    \/ AskCallback(r) \/ NotResolved(r)
    \/ Authenticate(r) \/ Challenge(r) \/ ForbidOrSignOut(r) \/ Nest(r) \/ End(r)
    \/ \E claim \in Claims : SignIn(r, claim) \/ HandleCallback(r, claim)
    \/ \E key \in Known, reset \in BOOLEAN : OverrideTenantInfo(r, key, reset)

Spec == Init /\ [][Next]_vars
-----------------------------------------------------------------------------
Steps == {"none", "sent", "resolving", "claiming", "resolved"}
Results == {NotAsked} \cup {Result(ticket) : ticket \in Tickets \cup {Null}}

Contexts ==
  [step : Steps, strategy : 0..Len(Strategies) + 1,
   cookie : Tickets \cup {Null}, state : Properties \cup {Null},
   bypass : BOOLEAN, result : Results, user : Tickets \cup {Null}, own : Properties]

TypeOK ==
  /\ tickets \subseteq Tickets
  /\ states \subseteq Properties
  /\ req \in [Requests -> Contexts]
  /\ ContextTypeOK

\* A sign-in does not leak over to a request for another tenant: whatever requests
\* set and overrode, and though the claim strategy authenticates without a
\* comparison, a session is accepted only under the tenant it was begun under.
SessionsStayHome ==
  [][\A r \in Requests :
       req'[r].result # req[r].result /\ req'[r].result.ticket # Null
         => Same(items[r], req'[r].result.ticket.properties.born)]_vars

\* A request that its callback state resolves is for the tenant under which the
\* properties in that state were first passed on: that of the request which began
\* the remote sign-in or, if it used the session's properties, of the session.
RemoteSignInsReturn ==
  [][\A r \in Requests :
       Asking(r, "callback") /\ req'[r].step = "resolved"
         => Same(items'[r], req[r].state.born)]_vars
=============================================================================
