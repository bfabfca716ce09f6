-------------------- MODULE PerTenantAuthentication_proofs --------------------
(***************************************************************************)
(* Theorems about PerTenantAuthentication and CurrentTenant for any keys,  *)
(* strategies and requests, which may overlap.                             *)
(***************************************************************************)
EXTENDS PerTenantAuthentication, TLAPS

\* One request's Items, accessor and the depth of who set them.
InStep(item, flow, depth) ==
  /\ item \in KeyOrNull
  /\ flow \in Seq(KeyOrNull)
  /\ Len(flow) \in 1..MaxFlows
  /\ depth \in 0..Len(flow)
  /\ depth # 0 => \A i \in depth..Len(flow) : flow[i] = item

ContextInv ==
  /\ items = [r \in Requests |-> items[r]]
  /\ flows = [r \in Requests |-> flows[r]]
  /\ setIn = [r \in Requests |-> setIn[r]]
  /\ \A r \in Requests : InStep(items[r], flows[r], setIn[r])

\* Each operation of CurrentTenant on values of one request.
LEMMA InStepNew == InStep(Null, <<Null>>, 0)
  BY CurrentTenantAssumption DEF InStep, KeyOrNull

LEMMA InStepSet ==
  ASSUME NEW item, NEW flow, NEW depth, InStep(item, flow, depth), NEW key \in KeyOrNull
  PROVE  InStep(key, [flow EXCEPT ![Len(flow)] = key], Len(flow))
  BY CurrentTenantAssumption DEF InStep

LEMMA InStepCall ==
  ASSUME NEW item, NEW flow, NEW depth, InStep(item, flow, depth), Len(flow) < MaxFlows
  PROVE  InStep(item, Append(flow, flow[Len(flow)]), depth)
  <1> DEFINE called == Append(flow, flow[Len(flow)])
  <1>1. flow \in Seq(KeyOrNull) /\ Len(flow) \in 1..MaxFlows /\ MaxFlows \in Nat /\ depth \in 0..Len(flow)
    BY CurrentTenantAssumption DEF InStep
  <1>2. flow[Len(flow)] \in KeyOrNull
    BY <1>1
  <1>3. called \in Seq(KeyOrNull) /\ Len(called) = Len(flow) + 1
    BY <1>1, <1>2
  <1>4. \A i \in 1..Len(flow) : called[i] = flow[i]
    BY <1>1, <1>2
  <1>5. called[Len(flow) + 1] = flow[Len(flow)]
    BY <1>1, <1>2
  <1>6. ASSUME depth # 0, NEW i \in depth..Len(called) PROVE called[i] = item
    <2>1. CASE i = Len(flow) + 1
      BY <1>1, <1>5, <1>6, <2>1 DEF InStep
    <2>2. CASE i # Len(flow) + 1
      BY <1>1, <1>3, <1>4, <1>6, <2>2 DEF InStep
    <2> QED
      BY <2>1, <2>2
  <1> HIDE DEF called
  <1>7. InStep(item, called, depth)
    BY <1>1, <1>3, <1>6 DEF InStep
  <1> QED
    BY <1>7 DEF called

LEMMA InStepReturn ==
  ASSUME NEW item, NEW flow, NEW depth, InStep(item, flow, depth), Len(flow) > 1
  PROVE  InStep(item, SubSeq(flow, 1, Len(flow) - 1), IF depth = Len(flow) THEN 0 ELSE depth)
  <1> DEFINE rest == SubSeq(flow, 1, Len(flow) - 1)
  <1>1. flow \in Seq(KeyOrNull) /\ Len(flow) \in 1..MaxFlows /\ MaxFlows \in Nat /\ depth \in 0..Len(flow)
    BY CurrentTenantAssumption DEF InStep
  <1>2. rest \in Seq(KeyOrNull) /\ Len(rest) = Len(flow) - 1
    BY <1>1
  <1>3. \A i \in 1..Len(flow) - 1 : rest[i] = flow[i]
    BY <1>1
  <1> HIDE DEF rest
  <1>4. InStep(item, rest, IF depth = Len(flow) THEN 0 ELSE depth)
    BY <1>1, <1>2, <1>3 DEF InStep
  <1> QED
    BY <1>4 DEF rest

LEMMA NewContextStep == \A r \in Requests : ContextInv /\ NewContext(r) => ContextInv'
  BY InStepNew DEF ContextInv, NewContext

LEMMA SetContextStep ==
  \A r \in Requests, key \in KeyOrNull : ContextInv /\ SetContext(r, key) => ContextInv'
  <1> SUFFICES ASSUME NEW r \in Requests, NEW key \in KeyOrNull, ContextInv, SetContext(r, key)
               PROVE  ContextInv'
    OBVIOUS
  <1>1. InStep(key, [flows[r] EXCEPT ![Len(flows[r])] = key], Len(flows[r]))
    BY InStepSet DEF ContextInv
  <1> QED
    BY <1>1 DEF ContextInv, SetContext, Depth

LEMMA CallStep == \A r \in Requests : ContextInv /\ CallAsync(r) => ContextInv'
  <1> SUFFICES ASSUME NEW r \in Requests, ContextInv, CallAsync(r) PROVE ContextInv'
    OBVIOUS
  <1>1. InStep(items[r], Append(flows[r], flows[r][Len(flows[r])]), setIn[r])
    BY InStepCall DEF ContextInv, CallAsync, Depth
  <1> QED
    BY <1>1 DEF ContextInv, CallAsync, Depth

LEMMA ReturnStep == \A r \in Requests : ContextInv /\ ReturnAsync(r) => ContextInv'
  <1> SUFFICES ASSUME NEW r \in Requests, ContextInv, ReturnAsync(r) PROVE ContextInv'
    OBVIOUS
  <1>1. InStep(items[r], SubSeq(flows[r], 1, Len(flows[r]) - 1),
               IF setIn[r] = Len(flows[r]) THEN 0 ELSE setIn[r])
    BY InStepReturn DEF ContextInv, ReturnAsync, Depth
  <1> QED
    BY <1>1 DEF ContextInv, ReturnAsync, Depth
-----------------------------------------------------------------------------
\* What is stamped is stamped with the tenant it began under.
Honest == {p \in Properties : p.stamp = p.born}

HonestTickets == {t \in Tickets : t.properties \in Honest}

\* One request's part, with what browsers have been given.
Sound(q, given, begun) ==
  /\ q \in Contexts
  /\ q.cookie \in given \cup {Null} /\ q.user \in given \cup {Null}
  /\ q.result.ticket \in HonestTickets \cup {Null} /\ q.own \in Honest
  /\ q.state \in begun \cup {Null}
  /\ q.bypass => q.step = "claiming"
  /\ q.step = "claiming" => q.strategy \in 1..Len(Strategies)

AuthenticationInv ==
  /\ tickets \subseteq HonestTickets
  /\ states \subseteq Honest
  /\ req = [r \in Requests |-> req[r]]
  /\ \A r \in Requests : Sound(req[r], tickets, states)

Inv == ContextInv /\ AuthenticationInv

LEMMA NoRequestSound == \A given, begun : Sound(NoRequest, given, begun)
  <1>1. NoProperties \in Honest
    BY DEF NoProperties, Honest, Properties, KeyOrNull
  <1>2. NotAsked \in Results /\ NotAsked.ticket = Null
    BY DEF Results, NotAsked
  <1>3. NoRequest \in Contexts
    BY <1>1, <1>2, AuthenticationAssumption DEF NoRequest, Contexts, Steps, Honest
  <1> QED
    BY <1>1, <1>2, <1>3 DEF Sound, NoRequest

LEMMA StampHonest ==
  \A p \in Honest, key \in KeyOrNull : Stamp(p, key) \in Honest
  BY DEF Honest, Stamp, Properties

\* A step of one request that gives browsers more.
LEMMA RequestStep ==
  ASSUME AuthenticationInv, NEW r \in Requests, NEW q, Become(r, q), Sound(q, tickets', states'),
         tickets \subseteq tickets', states \subseteq states',
         tickets' \subseteq HonestTickets, states' \subseteq Honest
  PROVE  AuthenticationInv'
  <1>1. req' = [s \in Requests |-> req'[s]] /\ req'[r] = q /\ \A s \in Requests : s # r => req'[s] = req[s]
    BY DEF AuthenticationInv, Become
  <1>2. ASSUME NEW s \in Requests PROVE Sound(req'[s], tickets', states')
    <2>1. CASE s = r
      BY <1>1, <2>1
    <2>2. CASE s # r
      BY <1>1, <2>2 DEF AuthenticationInv, Sound
    <2> QED
      BY <2>1, <2>2
  <1> QED
    BY <1>1, <1>2 DEF AuthenticationInv

\* A step of one request that gives browsers nothing.
LEMMA QuietStep ==
  ASSUME AuthenticationInv, NEW r \in Requests, NEW q, Become(r, q), Sound(q, tickets, states),
         UNCHANGED <<tickets, states>>
  PROVE  AuthenticationInv'
  BY RequestStep DEF AuthenticationInv

\* A step that gives browsers something and nothing else.
LEMMA GivingStep ==
  ASSUME AuthenticationInv, req' = req, tickets \subseteq tickets', states \subseteq states',
         tickets' \subseteq HonestTickets, states' \subseteq Honest
  PROVE  AuthenticationInv'
  BY DEF AuthenticationInv, Sound

LEMMA SameTenantData ==
  ASSUME Inv, UNCHANGED contextVars PROVE ContextInv'
  BY DEF Inv, ContextInv, contextVars

\* Moving on in the resolver.
LEMMA MoveSound ==
  ASSUME NEW given, NEW begun, NEW q, Sound(q, given, begun), ~q.bypass,
         NEW step \in {"resolving", "resolved"}, NEW n \in 0..Len(Strategies) + 1,
         NEW moved, moved = [q EXCEPT !.step = step, !.strategy = n]
  PROVE  Sound(moved, given, begun)
  <1>1. moved \in Contexts /\ moved.step = step
    BY DEF Sound, Contexts, Steps
  <1>2. /\ moved.cookie = q.cookie /\ moved.result = q.result /\ moved.user = q.user
        /\ moved.state = q.state /\ moved.bypass = q.bypass /\ moved.own = q.own
    BY DEF Sound, Contexts
  <1> QED
    BY <1>1, <1>2 DEF Sound

\* The end of a strategy.
LEMMA ResolveStep ==
  ASSUME Inv, NEW r \in Requests, NEW q, NEW key \in KeyOrNull, Resolve(r, q, key),
         Sound(q, tickets, states), ~q.bypass, q.strategy \in 1..Len(Strategies)
  PROVE  Inv'
  <1>1. q \in Contexts /\ Len(Strategies) \in Nat
    BY AuthenticationAssumption DEF Sound
  <1>2. PICK k \in IF key = Null THEN {Null} ELSE Lookup(key) :
          /\ UNCHANGED <<tickets, states>>
          /\ IF k = Null
               THEN /\ Become(r, [q EXCEPT !.step = "resolving", !.strategy = q.strategy + 1])
                    /\ UNCHANGED contextVars
               ELSE /\ Become(r, [q EXCEPT !.step = "resolved", !.strategy = 0])
                    /\ SetContext(r, k)
    BY DEF Resolve
  <1>3. k \in KeyOrNull
    BY <1>2, AuthenticationAssumption DEF Lookup, KeyOrNull
  <1>4. CASE k = Null
    <2>1. PICK moved : moved = [q EXCEPT !.step = "resolving", !.strategy = q.strategy + 1]
      OBVIOUS
    <2>2. Sound(moved, tickets, states)
      BY <1>1, <2>1, q.strategy + 1 \in 0..Len(Strategies) + 1, MoveSound
    <2>3. Become(r, moved) /\ UNCHANGED <<tickets, states>> /\ UNCHANGED contextVars
      BY <1>2, <1>4, <2>1
    <2>4. AuthenticationInv'
      BY <2>2, <2>3, QuietStep DEF Inv
    <2>5. ContextInv'
      BY <2>3, SameTenantData
    <2> QED
      BY <2>4, <2>5 DEF Inv
  <1>5. CASE k # Null
    <2>1. PICK moved : moved = [q EXCEPT !.step = "resolved", !.strategy = 0]
      OBVIOUS
    <2>2. Sound(moved, tickets, states)
      BY <1>1, <2>1, 0 \in 0..Len(Strategies) + 1, MoveSound
    <2>3. Become(r, moved) /\ UNCHANGED <<tickets, states>> /\ SetContext(r, k)
      BY <1>2, <1>5, <2>1
    <2>4. AuthenticationInv'
      BY <2>2, <2>3, QuietStep DEF Inv
    <2>5. ContextInv'
      BY <1>3, <2>3, SetContextStep DEF Inv
    <2> QED
      BY <2>4, <2>5 DEF Inv
  <1> QED
    BY <1>4, <1>5
-----------------------------------------------------------------------------
LEMMA InitInv == Init => Inv
  <1> SUFFICES ASSUME Init PROVE Inv
    OBVIOUS
  <1>1. ContextInv
    BY InStepNew DEF Init, ContextInv
  <1>2. AuthenticationInv
    BY NoRequestSound DEF Init, AuthenticationInv
  <1> QED
    BY <1>1, <1>2 DEF Inv

\* What a cookie handler can come to.
LEMMA TicketOfType ==
  ASSUME Inv, NEW r \in Requests
  PROVE  TicketOf(r) \in tickets \cup {Null}
  BY DEF Inv, AuthenticationInv, Sound, TicketOf

LEMMA ClaimType ==
  ASSUME Inv, NEW ticket \in tickets PROVE ticket.claim \in KeyOrNull
  BY DEF Inv, AuthenticationInv, HonestTickets, Tickets

LEMMA AtHandHonest ==
  ASSUME Inv, NEW r \in Requests, NEW p \in AtHand(r)
  PROVE  p \in Honest
  BY DEF Inv, AuthenticationInv, Sound, HonestTickets, AtHand, NoProperties, Honest, Properties, KeyOrNull

LEMMA ItemsType == Inv => \A r \in Requests : items[r] \in KeyOrNull
  BY DEF Inv, ContextInv, InStep

\* Stamping in place leaves a request sound; a session's properties change only
\* where they had no stamp, and get that of the current tenant.
LEMMA StampInPlaceStep ==
  ASSUME Inv, NEW r \in Requests, NEW p \in AtHand(r), StampInPlace(r, p)
  PROVE  \E q : /\ Become(r, q) /\ Sound(q, tickets, states) /\ q.step = req[r].step
                /\ \/ q.result = req[r].result
                   \/ Same(items[r], q.result.ticket.properties.born)
  <1>1. Sound(req[r], tickets, states) /\ req[r] \in Contexts
    BY DEF Inv, AuthenticationInv, Sound
  <1>2. PICK stamped \in Honest : stamped = Stamp(p, items[r])
    BY AtHandHonest, ItemsType, StampHonest
  <1>3. CASE Become(r, [req[r] EXCEPT !.own = stamped])
    <2>1. PICK q : q = [req[r] EXCEPT !.own = stamped]
      OBVIOUS
    <2>2. /\ q \in Contexts /\ q.step = req[r].step /\ q.strategy = req[r].strategy
          /\ q.cookie = req[r].cookie /\ q.state = req[r].state /\ q.bypass = req[r].bypass
          /\ q.user = req[r].user /\ q.result = req[r].result /\ q.own = stamped
      BY <1>1, <1>2, <2>1 DEF Contexts, Honest
    <2>3. Sound(q, tickets, states)
      BY <1>1, <2>2 DEF Sound
    <2> QED
      BY <1>3, <2>1, <2>2, <2>3
  <1>4. CASE /\ req[r].result.ticket # Null /\ p = req[r].result.ticket.properties
             /\ Become(r, [req[r] EXCEPT !.result = Result([req[r].result.ticket EXCEPT !.properties = stamped])])
    <2>1. PICK old \in Tickets : req[r].result = Result(old)
      <3>1. req[r].result \in Results
        BY <1>1 DEF Contexts
      <3>2. NotAsked.ticket = Null /\ \A ticket : Result(ticket).ticket = ticket
        BY DEF NotAsked, Result
      <3>3. req[r].result # NotAsked
        BY <1>4, <3>2
      <3>4. PICK ticket \in Tickets \cup {Null} : req[r].result = Result(ticket)
        BY <3>1, <3>3 DEF Results
      <3> QED
        BY <1>4, <3>2, <3>4
    <2>2. /\ req[r].result.ticket = old
          /\ old.properties \in Honest /\ old.properties = p
      BY <1>1, <1>4, <2>1 DEF Sound, HonestTickets, Result
    <2>3. PICK new : new = [old EXCEPT !.properties = stamped]
      OBVIOUS
    <2>4. new \in HonestTickets /\ new.properties = stamped
      BY <1>2, <2>1, <2>3 DEF HonestTickets, Tickets, Honest
    <2>5. Result(new) \in Results /\ Result(new).ticket = new
      BY <2>4 DEF Results, Result, HonestTickets
    <2>6. PICK q : q = [req[r] EXCEPT !.result = Result(new)]
      OBVIOUS
    <2>7. /\ q \in Contexts /\ q.step = req[r].step /\ q.strategy = req[r].strategy
          /\ q.cookie = req[r].cookie /\ q.state = req[r].state /\ q.bypass = req[r].bypass
          /\ q.user = req[r].user /\ q.result = Result(new) /\ q.own = req[r].own
      BY <1>1, <2>5, <2>6 DEF Contexts
    <2>8. Become(r, q) /\ Sound(q, tickets, states) /\ q.step = req[r].step
      BY <1>1, <1>4, <2>2, <2>3, <2>4, <2>5, <2>6, <2>7 DEF Sound
    <2>9. CASE old.properties.born = Null
      <3>1. stamped.born = items[r]
        BY <1>2, <2>2, <2>9 DEF Stamp
      <3>2. Same(items[r], q.result.ticket.properties.born)
        BY <2>4, <2>5, <2>7, <3>1 DEF Same
      <3> QED
        BY <2>8, <3>2
    <2>10. CASE old.properties.born # Null
      <3>1. stamped = old.properties
        BY <1>2, <2>2, <2>10 DEF Stamp, Honest, Properties
      <3>2. new = old
        BY <2>1, <2>3, <3>1 DEF Tickets
      <3>3. q.result = req[r].result
        BY <2>1, <2>7, <3>2
      <3> QED
        BY <2>8, <3>3
    <2> QED
      BY <2>9, <2>10
  <1> QED
    BY <1>2, <1>3, <1>4 DEF StampInPlace

\* The properties of a sign-in are honest.
LEMMA SignInWithHonest ==
  ASSUME Inv, NEW r \in Requests, NEW p \in Honest, NEW claim \in Claims, SignInWith(r, p, claim)
  PROVE  tickets \subseteq tickets' /\ tickets' \subseteq HonestTickets
  <1>1. PICK stamped \in Honest : stamped = Stamp(p, items[r])
    BY StampHonest, ItemsType
  <1>2. [properties |-> stamped, claim |-> claim] \in HonestTickets
    BY <1>1, AuthenticationAssumption DEF HonestTickets, Tickets, Honest, KeyOrNull
  <1> QED
    BY <1>1, <1>2 DEF SignInWith, Inv, AuthenticationInv

\* A strategy that is asked is one of the strategies and has no bypass.
LEMMA AskingFacts ==
  ASSUME Inv, NEW r \in Requests, NEW strategy, Asking(r, strategy)
  PROVE  /\ Sound(req[r], tickets, states) /\ ~req[r].bypass
         /\ req[r].strategy \in 1..Len(Strategies)
  BY AuthenticationAssumption DEF Inv, AuthenticationInv, Sound, Asking, At

LEMMA ResolverSteps ==
  ASSUME Inv, NEW r \in Requests
  PROVE  /\ \A key \in KeyOrNull : AskOther(r, key) => Inv'
         /\ AskClaimOfUser(r) => Inv'
         /\ BeginAskClaim(r) => Inv'
         /\ EndAskClaim(r) => Inv'
         /\ AskCallback(r) => Inv'
         /\ NotResolved(r) => Inv'
  <1>1. ASSUME NEW key \in KeyOrNull, AskOther(r, key) PROVE Inv'
    BY <1>1, AskingFacts, ResolveStep DEF AskOther
  <1>2. ASSUME AskClaimOfUser(r) PROVE Inv'
    <2>1. req[r].user.claim \in KeyOrNull
      BY <1>2, AskingFacts, ClaimType DEF AskClaimOfUser, Sound
    <2> QED
      BY <1>2, <2>1, AskingFacts, ResolveStep DEF AskClaimOfUser
  <1>3. ASSUME BeginAskClaim(r) PROVE Inv'
    <2>1. PICK q : q = [req[r] EXCEPT !.step = "claiming", !.bypass = TRUE]
      OBVIOUS
    <2>2. Sound(req[r], tickets, states) /\ req[r].strategy \in 1..Len(Strategies)
      BY <1>3, AskingFacts DEF BeginAskClaim
    <2>3. /\ q \in Contexts /\ q.step = "claiming" /\ q.strategy = req[r].strategy
          /\ q.cookie = req[r].cookie /\ q.result = req[r].result /\ q.user = req[r].user
          /\ q.state = req[r].state /\ q.own = req[r].own
      BY <2>1, <2>2 DEF Sound, Contexts, Steps
    <2>4. Sound(q, tickets, states)
      BY <2>2, <2>3 DEF Sound
    <2>5. Become(r, q) /\ UNCHANGED <<tickets, states>> /\ UNCHANGED contextVars
      BY <1>3, <2>1 DEF BeginAskClaim
    <2>6. AuthenticationInv'
      BY <2>4, <2>5, QuietStep DEF Inv
    <2> QED
      BY <2>5, <2>6, SameTenantData DEF Inv
  <1>4. ASSUME EndAskClaim(r) PROVE Inv'
    <2>1. PICK q : q = [req[r] EXCEPT !.bypass = FALSE]
      OBVIOUS
    <2>2. Sound(req[r], tickets, states) /\ req[r].step = "claiming"
      BY <1>4 DEF EndAskClaim, At, Inv, AuthenticationInv
    <2>3. /\ q \in Contexts /\ q.strategy = req[r].strategy /\ ~q.bypass
          /\ q.cookie = req[r].cookie /\ q.result = req[r].result /\ q.user = req[r].user
          /\ q.state = req[r].state /\ q.own = req[r].own
      BY <2>1, <2>2 DEF Sound, Contexts
    <2>4. Sound(q, tickets, states) /\ q.strategy \in 1..Len(Strategies)
      BY <2>2, <2>3 DEF Sound
    <2>5. PICK key \in KeyOrNull : Resolve(r, q, key)
      BY <1>4, <2>1, TicketOfType, ClaimType DEF EndAskClaim, KeyOrNull
    <2> QED
      BY <2>3, <2>4, <2>5, ResolveStep
  <1>5. ASSUME AskCallback(r) PROVE Inv'
    <2>1. PICK key \in KeyOrNull : Resolve(r, req[r], key)
      BY <1>5, AskingFacts DEF AskCallback, Sound, Inv, AuthenticationInv, Honest, Properties, KeyOrNull
    <2> QED
      BY <1>5, <2>1, AskingFacts, ResolveStep DEF AskCallback
  <1>6. ASSUME NotResolved(r) PROVE Inv'
    <2>1. PICK q : q = [req[r] EXCEPT !.step = "resolved", !.strategy = 0]
      OBVIOUS
    <2>2. Sound(req[r], tickets, states) /\ ~req[r].bypass
      BY <1>6 DEF NotResolved, At, Inv, AuthenticationInv, Sound
    <2>3. Len(Strategies) \in Nat
      BY AuthenticationAssumption
    <2>4. Sound(q, tickets, states)
      BY <2>1, <2>2, <2>3, 0 \in 0..Len(Strategies) + 1, MoveSound
    <2>5. Become(r, q) /\ UNCHANGED <<tickets, states>> /\ SetContext(r, Null)
      BY <1>6, <2>1 DEF NotResolved
    <2>6. AuthenticationInv'
      BY <2>4, <2>5, QuietStep DEF Inv
    <2>7. ContextInv'
      BY <2>5, SetContextStep DEF Inv, KeyOrNull
    <2> QED
      BY <2>6, <2>7 DEF Inv
  <1> QED
    BY <1>1, <1>2, <1>3, <1>4, <1>5, <1>6

\* The middleware, and what may run where the pipeline is.
LEMMA PipelineSteps ==
  ASSUME Inv, NEW r \in Requests
  PROVE  /\ \A cookie \in tickets \cup {Null}, state \in states \cup {Null} :
              Send(r, cookie, state) => Inv'
         /\ Invoke(r) => Inv'
         /\ Authenticate(r) => Inv'
         /\ Challenge(r) => Inv'
         /\ \A claim \in Claims : SignIn(r, claim) => Inv'
         /\ \A claim \in Claims : HandleCallback(r, claim) => Inv'
         /\ \A key \in Known, reset \in BOOLEAN : OverrideTenantInfo(r, key, reset) => Inv'
         /\ Nest(r) => Inv'
         /\ ForbidOrSignOut(r) => Inv'
         /\ End(r) => Inv'
  <1>0. Sound(req[r], tickets, states) /\ ContextInv /\ AuthenticationInv
    BY DEF Inv, AuthenticationInv
  <1>1. ASSUME NEW cookie \in tickets \cup {Null}, NEW state \in states \cup {Null},
               Send(r, cookie, state)
        PROVE  Inv'
    <2>1. PICK q : q = [NoRequest EXCEPT !.step = "sent", !.cookie = cookie, !.state = state]
      OBVIOUS
    <2>2. cookie \in Tickets \cup {Null} /\ state \in Properties \cup {Null}
      BY <1>0 DEF AuthenticationInv, HonestTickets, Honest
    <2>3. Sound(NoRequest, tickets, states)
      BY NoRequestSound
    <2>4. /\ q \in Contexts /\ q.step = "sent" /\ q.cookie = cookie /\ q.state = state
          /\ ~q.bypass /\ q.result = NoRequest.result /\ q.user = NoRequest.user
          /\ q.own = NoRequest.own
      BY <2>1, <2>2, <2>3 DEF Sound, Contexts, Steps, NoRequest
    <2>5. Sound(q, tickets, states)
      BY <2>3, <2>4 DEF Sound
    <2>6. Become(r, q) /\ UNCHANGED <<tickets, states>> /\ NewContext(r)
      BY <1>1, <2>1 DEF Send
    <2>7. AuthenticationInv'
      BY <1>0, <2>5, <2>6, QuietStep
    <2> QED
      BY <1>0, <2>6, <2>7, NewContextStep DEF Inv
  <1>2. ASSUME Invoke(r) PROVE Inv'
    <2>1. PICK q : q = [req[r] EXCEPT !.step = "resolving", !.strategy = 1]
      OBVIOUS
    <2>2. ~req[r].bypass /\ 1 \in 0..Len(Strategies) + 1
      BY <1>0, <1>2, AuthenticationAssumption DEF Invoke, At, Sound
    <2>3. Sound(q, tickets, states)
      BY <1>0, <2>1, <2>2, MoveSound
    <2>4. Become(r, q) /\ UNCHANGED <<tickets, states>> /\ CallAsync(r)
      BY <1>2, <2>1 DEF Invoke
    <2>5. AuthenticationInv'
      BY <1>0, <2>3, <2>4, QuietStep
    <2> QED
      BY <1>0, <2>4, <2>5, CallStep DEF Inv
  <1>3. ASSUME Authenticate(r) PROVE Inv'
    <2>1. PICK ticket \in tickets \cup {Null} : ticket = TicketOf(r)
      BY TicketOfType
    <2>2. PICK q : q = [req[r] EXCEPT !.result = Result(ticket),
                                      !.user = IF ticket = Null THEN @ ELSE ticket]
      OBVIOUS
    <2>3. ticket \in Tickets \cup {Null}
      BY <1>0 DEF AuthenticationInv, HonestTickets
    <2>4. Result(ticket) \in Results /\ Result(ticket).ticket = ticket
      BY <2>3 DEF Results, Result
    <2>5. /\ q \in Contexts /\ q.step = req[r].step /\ q.strategy = req[r].strategy
          /\ q.cookie = req[r].cookie /\ q.state = req[r].state /\ q.bypass = req[r].bypass
          /\ q.result = Result(ticket) /\ q.user \in {req[r].user, ticket} /\ q.own = req[r].own
      BY <1>0, <2>2, <2>3, <2>4 DEF Sound, Contexts
    <2>6. Sound(q, tickets, states)
      BY <1>0, <2>4, <2>5 DEF Sound, AuthenticationInv
    <2>7. Become(r, q) /\ UNCHANGED <<tickets, states>> /\ UNCHANGED contextVars
      BY <1>3, <2>1, <2>2 DEF Authenticate
    <2>8. AuthenticationInv'
      BY <1>0, <2>6, <2>7, QuietStep
    <2> QED
      BY <2>7, <2>8, SameTenantData DEF Inv
  <1>4. ASSUME Challenge(r) PROVE Inv'
    <2>1. PICK properties \in AtHand(r) : /\ StampInPlace(r, properties)
                                          /\ states' = states \cup {Stamp(properties, items[r])}
      BY <1>4 DEF Challenge
    <2>2. Stamp(properties, items[r]) \in Honest
      BY AtHandHonest, ItemsType, StampHonest
    <2>3. PICK q : Become(r, q) /\ Sound(q, tickets, states)
      BY <2>1, StampInPlaceStep
    <2>4. tickets' = tickets /\ states \subseteq states' /\ UNCHANGED contextVars
      BY <1>4, <2>1 DEF Challenge
    <2>5. states' \subseteq Honest /\ tickets' \subseteq HonestTickets
      BY <1>0, <2>1, <2>2, <2>4 DEF AuthenticationInv
    <2>6. Sound(q, tickets', states')
      BY <2>3, <2>4 DEF Sound
    <2>7. AuthenticationInv'
      BY <1>0, <2>3, <2>4, <2>5, <2>6, RequestStep
    <2> QED
      BY <2>4, <2>7, SameTenantData DEF Inv
  <1>5. ASSUME NEW claim \in Claims, SignIn(r, claim) PROVE Inv'
    <2>1. PICK properties \in AtHand(r) : StampInPlace(r, properties) /\ SignInWith(r, properties, claim)
      BY <1>5 DEF SignIn
    <2>2. tickets \subseteq tickets' /\ tickets' \subseteq HonestTickets
      BY <2>1, AtHandHonest, SignInWithHonest
    <2>3. PICK q : Become(r, q) /\ Sound(q, tickets, states)
      BY <2>1, StampInPlaceStep
    <2>4. states' = states /\ UNCHANGED contextVars
      BY <1>5 DEF SignIn
    <2>5. states \subseteq states' /\ states' \subseteq Honest
      BY <1>0, <2>4 DEF AuthenticationInv
    <2>6. Sound(q, tickets', states')
      BY <2>2, <2>3, <2>4 DEF Sound
    <2>7. AuthenticationInv'
      BY <1>0, <2>2, <2>3, <2>5, <2>6, RequestStep
    <2> QED
      BY <2>4, <2>7, SameTenantData DEF Inv
  <1>6. ASSUME NEW claim \in Claims, HandleCallback(r, claim) PROVE Inv'
    <2>1. req[r].state \in Honest
      BY <1>0, <1>6 DEF HandleCallback, Sound, AuthenticationInv
    <2>2. tickets \subseteq tickets' /\ tickets' \subseteq HonestTickets
      BY <1>6, <2>1, SignInWithHonest DEF HandleCallback
    <2>3. states' = states /\ Become(r, NoRequest) /\ NewContext(r)
      BY <1>6 DEF HandleCallback
    <2>4. states \subseteq states' /\ states' \subseteq Honest
      BY <1>0, <2>3 DEF AuthenticationInv
    <2>5. Sound(NoRequest, tickets', states')
      BY NoRequestSound
    <2>6. AuthenticationInv'
      BY <1>0, <2>2, <2>3, <2>4, <2>5, RequestStep
    <2> QED
      BY <1>0, <2>3, <2>6, NewContextStep DEF Inv
  <1>7. ASSUME NEW key \in Known, NEW reset \in BOOLEAN, OverrideTenantInfo(r, key, reset)
        PROVE  Inv'
    <2>1. PICK q : q = [req[r] EXCEPT !.result = IF reset THEN NotAsked ELSE @]
      OBVIOUS
    <2>2. NotAsked \in Results /\ NotAsked.ticket = Null
      BY DEF Results, NotAsked
    <2>3. /\ q \in Contexts /\ q.step = req[r].step /\ q.strategy = req[r].strategy
          /\ q.cookie = req[r].cookie /\ q.state = req[r].state /\ q.bypass = req[r].bypass
          /\ q.user = req[r].user /\ q.result \in {req[r].result, NotAsked} /\ q.own = req[r].own
      BY <1>0, <2>1, <2>2 DEF Sound, Contexts
    <2>4. Sound(q, tickets, states)
      BY <1>0, <2>2, <2>3 DEF Sound
    <2>5. Become(r, q) /\ UNCHANGED <<tickets, states>> /\ SetContext(r, key)
      BY <1>7, <2>1 DEF OverrideTenantInfo
    <2>6. AuthenticationInv'
      BY <1>0, <2>4, <2>5, QuietStep
    <2>7. key \in KeyOrNull
      BY AuthenticationAssumption DEF KeyOrNull
    <2> QED
      BY <1>0, <2>5, <2>6, <2>7, SetContextStep DEF Inv
  <1>8. ASSUME Nest(r) PROVE Inv'
    <2>1. AuthenticationInv'
      BY <1>0, <1>8, GivingStep DEF Nest, AuthenticationInv
    <2> QED
      BY <1>0, <1>8, <2>1, CallStep, ReturnStep DEF Nest, Inv
  <1>9. ASSUME End(r) PROVE Inv'
    <2>1. Become(r, NoRequest) /\ UNCHANGED <<tickets, states>> /\ NewContext(r)
      BY <1>9 DEF End
    <2>2. AuthenticationInv'
      BY <1>0, <2>1, NoRequestSound, QuietStep
    <2> QED
      BY <1>0, <2>1, <2>2, NewContextStep DEF Inv
  <1>10. ASSUME ForbidOrSignOut(r) PROVE Inv'
    <2>1. PICK properties \in AtHand(r) : StampInPlace(r, properties)
      BY <1>10 DEF ForbidOrSignOut
    <2>2. PICK q : Become(r, q) /\ Sound(q, tickets, states)
      BY <2>1, StampInPlaceStep
    <2>3. UNCHANGED <<tickets, states>> /\ UNCHANGED contextVars
      BY <1>10 DEF ForbidOrSignOut
    <2>4. AuthenticationInv'
      BY <1>0, <2>2, <2>3, QuietStep
    <2> QED
      BY <2>3, <2>4, SameTenantData DEF Inv
  <1> QED
    BY <1>1, <1>2, <1>3, <1>4, <1>5, <1>6, <1>7, <1>8, <1>9, <1>10

LEMMA StepInv == Inv /\ [Next]_vars => Inv'
  <1> SUFFICES ASSUME Inv, [Next]_vars PROVE Inv'
    OBVIOUS
  <1>1. CASE Next
    <2>1. PICK r \in Requests :
            \/ \E cookie \in tickets \cup {Null}, state \in states \cup {Null} : Send(r, cookie, state)
            \/ \E key \in KeyOrNull : AskOther(r, key)
            \/ Invoke(r) \/ AskClaimOfUser(r) \/ BeginAskClaim(r) \/ EndAskClaim(r)
            \/ AskCallback(r) \/ NotResolved(r)
            \/ Authenticate(r) \/ Challenge(r) \/ ForbidOrSignOut(r) \/ Nest(r) \/ End(r)
            \/ \E claim \in Claims : SignIn(r, claim) \/ HandleCallback(r, claim)
            \/ \E key \in Known, reset \in BOOLEAN : OverrideTenantInfo(r, key, reset)
      BY <1>1 DEF Next
    <2> QED
      BY <2>1, ResolverSteps, PipelineSteps
  <1>2. CASE UNCHANGED vars
    <2>1. AuthenticationInv'
      BY <1>2, GivingStep DEF vars, Inv, AuthenticationInv
    <2> QED
      BY <1>2, <2>1, SameTenantData DEF vars, contextVars, Inv
  <1> QED
    BY <1>1, <1>2

\* The inductive invariant: the accessor of every method is bounded and in step,
\* browsers hold honest stamps only, and no request outside the claim strategy has
\* the bypass.
THEOREM AlwaysInv == Spec => []Inv
  <1> QED
    BY InitInv, StepInv, PTL DEF Spec

\* TypeOK: all that browsers are given and all contexts have their types.
THEOREM TypesAreRight == Spec => []TypeOK
  <1>1. Inv => TypeOK
    <2> SUFFICES ASSUME Inv PROVE TypeOK
      OBVIOUS
    <2>1. tickets \subseteq Tickets /\ states \subseteq Properties
      BY DEF Inv, AuthenticationInv, HonestTickets, Honest
    <2>2. req \in [Requests -> Contexts]
      BY DEF Inv, AuthenticationInv, Sound
    <2>3. ContextTypeOK
      <3>1. ASSUME NEW item, NEW flow, NEW depth, InStep(item, flow, depth)
            PROVE  /\ item \in KeyOrNull /\ flow \in Seq(KeyOrNull)
                   /\ Len(flow) \in 1..MaxFlows /\ depth \in 0..MaxFlows
        BY <3>1, CurrentTenantAssumption DEF InStep
      <3>2. \A r \in Requests : /\ items[r] \in KeyOrNull /\ flows[r] \in Seq(KeyOrNull)
                                /\ Depth(r) \in 1..MaxFlows /\ setIn[r] \in 0..MaxFlows
        BY <3>1 DEF Inv, ContextInv, Depth
      <3> QED
        BY <3>2 DEF Inv, ContextInv, ContextTypeOK
    <2> QED
      BY <2>1, <2>2, <2>3 DEF TypeOK
  <1> QED
    BY <1>1, AlwaysInv, PTL

\* AccessorInStep: the method that set the tenant last, and what it calls, have
\* the tenant of the HttpContext in the accessor.
THEOREM TheAccessorIsInStep == Spec => []AccessorInStep
  <1>1. Inv => AccessorInStep
    BY DEF Inv, ContextInv, InStep, AccessorInStep, Depth
  <1> QED
    BY <1>1, AlwaysInv, PTL

\* What a handler accepts is of a session begun under the current tenant.
LEMMA AcceptedAtHome ==
  ASSUME Inv, NEW r \in Requests, Authenticate(r), TicketOf(r) # Null
  PROVE  Same(items[r], TicketOf(r).properties.born)
  <1>1. Sound(req[r], tickets, states) /\ ~req[r].bypass
    BY DEF Inv, AuthenticationInv, Sound, Authenticate, InPipeline
  <1>2. TicketOf(r) = req[r].cookie /\ Validate(r, req[r].cookie)
    BY DEF TicketOf
  <1>3. TicketOf(r).properties \in Honest
    BY TicketOfType DEF Inv, AuthenticationInv, HonestTickets
  <1> QED
    BY <1>1, <1>2, <1>3 DEF Validate, Honest

\* Moving on in the resolver leaves the results of handlers.
LEMMA ResolveKeeps ==
  ASSUME NEW r \in Requests, NEW q \in Contexts, NEW key, Resolve(r, q, key)
  PROVE  \E moved : Become(r, moved) /\ moved.result = q.result
  <1>1. PICK step, n : Become(r, [q EXCEPT !.step = step, !.strategy = n])
    BY DEF Resolve
  <1>2. PICK moved : moved = [q EXCEPT !.step = step, !.strategy = n]
    OBVIOUS
  <1>3. moved.result = q.result
    BY <1>2 DEF Contexts
  <1> QED
    BY <1>1, <1>2, <1>3

\* The result of a handler changes when it is asked or its properties are stamped,
\* and is forgotten otherwise.
LEMMA ResultChanges ==
  ASSUME Inv, Next, NEW r \in Requests, req'[r].result # req[r].result
  PROVE  \/ Authenticate(r) /\ req'[r].result = Result(TicketOf(r))
         \/ req'[r].result.ticket = Null
         \/ Same(items[r], req'[r].result.ticket.properties.born)
  <1>1. \A s \in Requests : \A q : Become(s, q) => req'[r] = IF r = s THEN q ELSE req[r]
    BY DEF Become, Inv, AuthenticationInv
  <1>2. ASSUME NEW s \in Requests, NEW q, Become(s, q), q.result = req[s].result PROVE FALSE
    BY <1>1, <1>2
  <1>3. ASSUME NEW s \in Requests, NEW q, Become(s, q), q.result.ticket = Null
        PROVE  req'[r].result.ticket = Null
    BY <1>1, <1>3
  <1>4. NotAsked.ticket = Null /\ NoRequest.result.ticket = Null
    BY DEF NoRequest, NotAsked
  <1>5. PICK s \in Requests :
            \/ \E cookie \in tickets \cup {Null}, state \in states \cup {Null} : Send(s, cookie, state)
            \/ \E key \in KeyOrNull : AskOther(s, key)
            \/ Invoke(s) \/ AskClaimOfUser(s) \/ BeginAskClaim(s) \/ EndAskClaim(s)
            \/ AskCallback(s) \/ NotResolved(s)
            \/ Authenticate(s) \/ Challenge(s) \/ ForbidOrSignOut(s) \/ Nest(s) \/ End(s)
            \/ \E claim \in Claims : SignIn(s, claim) \/ HandleCallback(s, claim)
            \/ \E key \in Known, reset \in BOOLEAN : OverrideTenantInfo(s, key, reset)
    BY DEF Next
  <1>6. req[s] \in Contexts
    BY DEF Inv, AuthenticationInv, Sound
  <1>7. ~AskClaimOfUser(s) /\ ~AskCallback(s) /\ ~ \E key \in KeyOrNull : AskOther(s, key)
    BY <1>2, <1>6, ResolveKeeps DEF AskClaimOfUser, AskCallback, AskOther
  <1>8. ASSUME EndAskClaim(s) PROVE FALSE
    <2>1. PICK q : q = [req[s] EXCEPT !.bypass = FALSE]
      OBVIOUS
    <2>2. q \in Contexts /\ q.result = req[s].result
      BY <1>6, <2>1 DEF Contexts
    <2>3. \E key : Resolve(s, q, key)
      BY <1>8, <2>1 DEF EndAskClaim
    <2> QED
      BY <1>2, <2>2, <2>3, ResolveKeeps
  <1>9. ASSUME Invoke(s) \/ NotResolved(s) PROVE FALSE
    <2>1. PICK step, n : Become(s, [req[s] EXCEPT !.step = step, !.strategy = n])
      BY <1>9 DEF Invoke, NotResolved
    <2>2. PICK moved : moved = [req[s] EXCEPT !.step = step, !.strategy = n]
      OBVIOUS
    <2>3. moved.result = req[s].result
      BY <1>6, <2>2 DEF Contexts
    <2> QED
      BY <1>2, <2>1, <2>2, <2>3
  <1>10. ASSUME BeginAskClaim(s) PROVE FALSE
    <2>1. PICK q : q = [req[s] EXCEPT !.step = "claiming", !.bypass = TRUE]
      OBVIOUS
    <2>2. q.result = req[s].result
      BY <1>6, <2>1 DEF Contexts
    <2> QED
      BY <1>2, <1>10, <2>1, <2>2 DEF BeginAskClaim
  <1>11. ~Nest(s)
    BY DEF Nest
  <1>12. ASSUME NEW cookie, NEW state, Send(s, cookie, state) PROVE req'[r].result.ticket = Null
    <2>1. PICK q : q = [NoRequest EXCEPT !.step = "sent", !.cookie = cookie, !.state = state]
      OBVIOUS
    <2>2. q.result = NotAsked
      BY <2>1 DEF NoRequest
    <2> QED
      BY <1>3, <1>4, <1>12, <2>1, <2>2 DEF Send
  <1>13. End(s) \/ (\E claim \in Claims : HandleCallback(s, claim)) => req'[r].result.ticket = Null
    BY <1>3, <1>4 DEF End, HandleCallback
  <1>14. ASSUME NEW key, NEW reset \in BOOLEAN, OverrideTenantInfo(s, key, reset)
         PROVE  req'[r].result.ticket = Null
    <2>1. PICK q : q = [req[s] EXCEPT !.result = IF reset THEN NotAsked ELSE @]
      OBVIOUS
    <2>2. q.result \in {NotAsked, req[s].result}
      BY <1>6, <2>1 DEF Contexts
    <2> QED
      BY <1>2, <1>3, <1>4, <1>14, <2>1, <2>2 DEF OverrideTenantInfo
  <1>15. ASSUME Authenticate(s) PROVE s = r /\ req'[r].result = Result(TicketOf(r))
    <2>1. PICK ticket : ticket = TicketOf(s)
      OBVIOUS
    <2>2. PICK q : q = [req[s] EXCEPT !.result = Result(ticket),
                                      !.user = IF ticket = Null THEN @ ELSE ticket]
      OBVIOUS
    <2>3. q.result = Result(ticket)
      BY <1>6, <2>2 DEF Contexts
    <2>4. Become(s, q)
      BY <1>15, <2>1, <2>2 DEF Authenticate
    <2> QED
      BY <1>1, <2>1, <2>3, <2>4
  <1>16. ASSUME NEW p \in AtHand(s), StampInPlace(s, p)
         PROVE  Same(items[r], req'[r].result.ticket.properties.born)
    <2>1. PICK q : /\ Become(s, q)
                   /\ \/ q.result = req[s].result
                      \/ Same(items[s], q.result.ticket.properties.born)
      BY <1>16, StampInPlaceStep
    <2> QED
      BY <1>1, <1>2, <2>1
  <1>17. Challenge(s) \/ ForbidOrSignOut(s) \/ (\E claim \in Claims : SignIn(s, claim))
         => Same(items[r], req'[r].result.ticket.properties.born)
    BY <1>16 DEF Challenge, ForbidOrSignOut, SignIn
  <1> QED
    BY <1>5, <1>7, <1>8, <1>9, <1>10, <1>11, <1>12, <1>13, <1>14, <1>15, <1>17

\* SessionsStayHome: OnValidatePrincipal's comparison, with stamps that are never
\* overwritten, accepts a session under the tenant it began under only.
THEOREM SessionsNeverLeave == Spec => SessionsStayHome
  <1> DEFINE Home == \A r \in Requests :
       req'[r].result # req[r].result /\ req'[r].result.ticket # Null
         => Same(items[r], req'[r].result.ticket.properties.born)
  <1>1. Inv /\ [Next]_vars => [Home]_vars
    <2> SUFFICES ASSUME Inv, Next, NEW r \in Requests, req'[r].result # req[r].result,
                        req'[r].result.ticket # Null
                 PROVE  Same(items[r], req'[r].result.ticket.properties.born)
      OBVIOUS
    <2>1. CASE Authenticate(r) /\ req'[r].result = Result(TicketOf(r))
      <3>1. req'[r].result.ticket = TicketOf(r)
        BY <2>1 DEF Result
      <3> QED
        BY <2>1, <3>1, AcceptedAtHome
    <2> QED
      BY <2>1, ResultChanges
  <1> QED
    BY <1>1, AlwaysInv, PTL DEF Spec, SessionsStayHome

\* A callback state that resolves has the stamp of the tenant found.
LEMMA CallbackResolves ==
  ASSUME Inv, NEW r \in Requests, AskCallback(r), req'[r].step = "resolved"
  PROVE  Same(items'[r], req[r].state.born)
  <1>1. PICK state : state = req[r].state
    OBVIOUS
  <1>2. PICK key : key = IF state = Null THEN Null ELSE state.stamp
    OBVIOUS
  <1>3. PICK k \in IF key = Null THEN {Null} ELSE Lookup(key) :
          IF k = Null
            THEN Become(r, [req[r] EXCEPT !.step = "resolving", !.strategy = req[r].strategy + 1])
            ELSE SetContext(r, k)
    BY <1>1, <1>2 DEF AskCallback, Resolve
  <1>4. req[r] \in Contexts /\ req = [s \in Requests |-> req[s]] /\ state \in states \cup {Null}
    BY <1>1 DEF Inv, AuthenticationInv, Sound
  <1>5. k # Null
    <2> SUFFICES ASSUME k = Null PROVE FALSE
      OBVIOUS
    <2>1. PICK moved : moved = [req[r] EXCEPT !.step = "resolving", !.strategy = req[r].strategy + 1]
      OBVIOUS
    <2>2. req'[r] = moved
      BY <1>3, <1>4, <2>1 DEF Become
    <2>3. moved.step = "resolving"
      BY <1>4, <2>1 DEF Contexts
    <2> QED
      BY <2>2, <2>3
  <1>6. items'[r] = k
    BY <1>3, <1>5 DEF SetContext, Inv, ContextInv
  <1>7. key # Null /\ k \in Known /\ Fold[k] = Fold[key]
    BY <1>3, <1>5 DEF Lookup
  <1>8. state \in Honest /\ key = state.stamp
    BY <1>2, <1>4, <1>7 DEF Inv, AuthenticationInv
  <1>9. key \in Keys /\ key = state.born
    BY <1>7, <1>8 DEF Honest, Properties, KeyOrNull
  <1> QED
    BY <1>1, <1>6, <1>7, <1>9, AuthenticationAssumption DEF Same

\* A request at the callback strategy is resolved by nothing else.
LEMMA OnlyCallbackResolves ==
  ASSUME Inv, Next, NEW r \in Requests, Asking(r, "callback"), req'[r].step = "resolved"
  PROVE  AskCallback(r)
  <1>1. req'[r] # req[r] /\ req[r].step = "resolving"
    BY DEF Asking, At
  <1>2. \A s \in Requests : \A q : Become(s, q) => req'[r] = IF r = s THEN q ELSE req[r]
    BY DEF Become, Inv, AuthenticationInv
  <1>3. \A s \in Requests : \A q : Become(s, q) => s = r
    BY <1>1, <1>2
  <1>4. PICK s \in Requests :
            \/ \E cookie \in tickets \cup {Null}, state \in states \cup {Null} : Send(s, cookie, state)
            \/ \E key \in KeyOrNull : AskOther(s, key)
            \/ Invoke(s) \/ AskClaimOfUser(s) \/ BeginAskClaim(s) \/ EndAskClaim(s)
            \/ AskCallback(s) \/ NotResolved(s)
            \/ Authenticate(s) \/ Challenge(s) \/ ForbidOrSignOut(s) \/ Nest(s) \/ End(s)
            \/ \E claim \in Claims : SignIn(s, claim) \/ HandleCallback(s, claim)
            \/ \E key \in Known, reset \in BOOLEAN : OverrideTenantInfo(s, key, reset)
    BY DEF Next
  <1>5. ~Nest(s)
    BY <1>1 DEF Nest
  <1>6. s = r
    <2>1. (\E key \in KeyOrNull : AskOther(s, key)) \/ AskClaimOfUser(s) \/ EndAskClaim(s) \/ AskCallback(s)
          => s = r
      BY <1>3 DEF AskOther, AskClaimOfUser, EndAskClaim, AskCallback, Resolve
    <2>2. Invoke(s) \/ BeginAskClaim(s) \/ NotResolved(s) => s = r
      BY <1>3 DEF Invoke, BeginAskClaim, NotResolved
    <2>3. Authenticate(s) \/ End(s) \/ (\E claim \in Claims : HandleCallback(s, claim)) => s = r
      BY <1>3 DEF Authenticate, End, HandleCallback
    <2>4. (\E key \in Known, reset \in BOOLEAN : OverrideTenantInfo(s, key, reset)) => s = r
      BY <1>3 DEF OverrideTenantInfo
    <2>5. (\E cookie \in tickets \cup {Null}, state \in states \cup {Null} : Send(s, cookie, state)) => s = r
      BY <1>3 DEF Send
    <2>6. Challenge(s) \/ ForbidOrSignOut(s) \/ (\E claim \in Claims : SignIn(s, claim)) => s = r
      BY <1>3 DEF Challenge, ForbidOrSignOut, SignIn, StampInPlace
    <2> QED
      BY <1>4, <1>5, <2>1, <2>2, <2>3, <2>4, <2>5, <2>6
  <1>7. req[r].strategy \in 1..Len(Strategies)
    BY AskingFacts
  <1>8. ~NotResolved(r)
    BY <1>7, AuthenticationAssumption DEF NotResolved
  <1>9. ~AskClaimOfUser(r) /\ ~BeginAskClaim(r) /\ ~ \E key \in KeyOrNull : AskOther(r, key)
    BY DEF AskClaimOfUser, BeginAskClaim, AskOther, Asking
  <1>10. ~Invoke(r) /\ ~EndAskClaim(r)
    BY <1>1 DEF Invoke, EndAskClaim, At
  <1>11. ~InPipeline(r) /\ ~At(r, "none")
    BY <1>1 DEF InPipeline, At
  <1>12. /\ ~Authenticate(r) /\ ~Challenge(r) /\ ~ForbidOrSignOut(r)
         /\ ~ \E claim \in Claims : SignIn(r, claim)
         /\ ~ \E claim \in Claims : HandleCallback(r, claim)
         /\ ~ \E key \in Known, reset \in BOOLEAN : OverrideTenantInfo(r, key, reset)
         /\ ~ \E cookie \in tickets \cup {Null}, state \in states \cup {Null} : Send(r, cookie, state)
    BY <1>11 DEF Authenticate, Challenge, ForbidOrSignOut, SignIn, HandleCallback,
                OverrideTenantInfo, Send
  <1>13. ~End(r)
    BY <1>2 DEF End, NoRequest
  <1> QED
    BY <1>4, <1>5, <1>6, <1>8, <1>9, <1>10, <1>12, <1>13

\* RemoteSignInsReturn: as stamps are not overwritten, the tenant of a callback is
\* the one under which its properties were first passed on.
THEOREM RemoteSignInsComeBack == Spec => RemoteSignInsReturn
  <1> DEFINE Returns == \A r \in Requests :
       Asking(r, "callback") /\ req'[r].step = "resolved"
         => Same(items'[r], req[r].state.born)
  <1>1. Inv /\ [Next]_vars => [Returns]_vars
    BY OnlyCallbackResolves, CallbackResolves
  <1> QED
    BY <1>1, AlwaysInv, PTL DEF Spec, RemoteSignInsReturn
=============================================================================
