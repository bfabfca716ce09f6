----------------------------- MODULE CurrentTenant -----------------------------
(***************************************************************************)
(* Where the current tenant of a request is kept, and the operations that  *)
(* set it: HttpContext.Items, which all code of the request shares         *)
(* (HttpContextExtensions.cs), and the AsyncLocal of                       *)
(* AsyncLocalMultiTenantContextAccessor.cs, which an async method hands    *)
(* down to what it calls and never up to its caller.  Null stands for no   *)
(* MultiTenantContext as well as for one without tenant: whoever asks first*)
(* makes an empty one.                                                     *)
(***************************************************************************)
EXTENDS Naturals, Sequences

CONSTANTS
  Requests,
  Keys,      \* keys of tenants, as spelled
  MaxFlows,  \* bound on the nesting of async methods
  Null

ASSUME CurrentTenantAssumption == Null \notin Keys /\ MaxFlows \in Nat \ {0}

KeyOrNull == Keys \cup {Null}

VARIABLES
  items,  \* HttpContext.Items[typeof(IMultiTenantContext)]
  flows,  \* the accessor's value in each async method under way, the innermost last
  setIn   \* history: the depth of the method that set the tenant last, 0 once it has returned

contextVars == <<items, flows, setIn>>

Depth(r) == Len(flows[r])

NewContext(r) ==
  /\ items' = [items EXCEPT ![r] = Null]
  /\ flows' = [flows EXCEPT ![r] = <<Null>>]
  /\ setIn' = [setIn EXCEPT ![r] = 0]

\* A plausible mistake: the accessor is forgotten.
SetItems(r, key) ==
  /\ items' = [items EXCEPT ![r] = key]
  /\ setIn' = [setIn EXCEPT ![r] = Depth(r)]
  /\ UNCHANGED flows

\* The setter and the Items, one after the other.
SetContext(r, key) ==
  /\ items' = [items EXCEPT ![r] = key]
  /\ flows' = [flows EXCEPT ![r][Depth(r)] = key]
  /\ setIn' = [setIn EXCEPT ![r] = Depth(r)]

CallAsync(r) ==
  /\ Depth(r) < MaxFlows
  /\ flows' = [flows EXCEPT ![r] = Append(flows[r], flows[r][Depth(r)])]
  /\ UNCHANGED <<items, setIn>>

ReturnAsync(r) ==
  /\ Depth(r) > 1
  /\ flows' = [flows EXCEPT ![r] = SubSeq(flows[r], 1, Depth(r) - 1)]
  /\ setIn' = [setIn EXCEPT ![r] = IF setIn[r] = Depth(r) THEN 0 ELSE setIn[r]]
  /\ UNCHANGED items
-----------------------------------------------------------------------------
ContextTypeOK ==
  /\ items \in [Requests -> KeyOrNull]
  /\ flows \in [Requests -> Seq(KeyOrNull)]
  /\ \A r \in Requests : Depth(r) \in 1..MaxFlows
  /\ setIn \in [Requests -> 0..MaxFlows]

\* The accessor and the HttpContext name the same tenant in the method that set
\* it last and in all that it calls; only what has returned to a caller of that
\* method may see two.
AccessorInStep ==
  \A r \in Requests :
    setIn[r] # 0 => \A i \in setIn[r]..Depth(r) : flows[r][i] = items[r]
=============================================================================
