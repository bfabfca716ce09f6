--------------- MODULE MultiTenantAuthenticationSchemeProvider ---------------
(***************************************************************************)
(* MultiTenantAuthenticationSchemeProvider.cs: a provider of authentication*)
(* schemes around Microsoft's own, which is private to it and only read.   *)
(* Schemes are added and removed at run time by any thread, under a lock;  *)
(* they are looked up without it, in a plain Dictionary.                   *)
(***************************************************************************)
EXTENDS Naturals, SequencesExt

CONSTANTS
  Threads,
  Schemes,      \* AuthenticationScheme objects: name, handles (a request handler?)
  Inner,        \* what the options hold, as built by the inner provider
  Own,          \* and as this one builds them again, in the order of the options
  OptionsInUse, \* AuthenticationOptions, which differ from tenant to tenant
  Null

Names == {s.name : s \in Schemes}
Purposes == {"authenticate", "challenge", "forbid", "signIn", "signOut"}

ASSUME SchemesAssumption ==
  /\ Null \notin Schemes /\ Null \notin Names /\ Null \notin Threads
  /\ \A s \in Schemes : s.handles \in BOOLEAN
  /\ Inner \subseteq Schemes
  /\ Own \in Seq(Schemes)
  /\ \A s, t \in Inner : s.name = t.name => s = t
  /\ OptionsInUse \subseteq [Purposes \cup {"default"} -> Names \cup {Null}]

VARIABLES
  schemes,  \* _schemes: name to scheme or Null
  handlers, \* _requestHandlers
  built,    \* how many schemes of Own the constructor has added
  lock,     \* the thread that holds _lock
  op,       \* each thread's call of the provider
  raced     \* history: was a write of _schemes under way during the get?

vars == <<schemes, handlers, built, lock, op, raced>>

Call(step, name, scheme) == [step |-> step, name |-> name, scheme |-> scheme]
Ended == {"returned", "threw", "keyNotFound"}

Init ==
  /\ schemes = [n \in Names |-> Null]
  /\ handlers = <<>>
  /\ built = 0
  /\ lock = Null
  /\ op = [t \in Threads |-> Call("returned", Null, Null)]
  /\ raced = [t \in Threads |-> FALSE]
-----------------------------------------------------------------------------
(* The constructor adds the schemes of the options one by one, before anybody    *)
(* has the provider; where it threw, at a name it has already, there is none.   *)
Construct ==
  /\ built < Len(Own)
  /\ LET s == Own[built + 1]
     IN /\ schemes[s.name] = Null
        /\ handlers' = IF s.handles THEN Append(handlers, s) ELSE handlers
        /\ schemes' = [schemes EXCEPT ![s.name] = s]
  /\ built' = built + 1
  /\ UNCHANGED <<lock, op, raced>>
-----------------------------------------------------------------------------
Ready(t) == op[t].step \in Ended
At(t, step) == op[t].step = step

\* A Dictionary that is read while it is written may not find what is there.
Writing == \E t \in Threads : op[t].step \in {"store", "erase"}
MayFind(name) == {schemes[name]} \cup (IF Writing THEN {Null} ELSE {})

Goto(t, call) == op' = [op EXCEPT ![t] = call]
Leave(t, step) == Goto(t, Call(step, Null, Null))
Answer(t, scheme) == Goto(t, Call("returned", Null, scheme))
Unchanged == UNCHANGED <<schemes, handlers, lock, raced>>

\* Every get in flight when a write begins has raced with it.
BeginWrite ==
  raced' = [t \in Threads |-> raced[t] \/ op[t].step \in {"contains", "index"}]
-----------------------------------------------------------------------------
(* GetSchemeAsync and the five GetDefault...SchemeAsync.                    *)
Else(name, fallback) == IF name # Null THEN name ELSE fallback

DefaultName(options, purpose) ==
  LET challenge == Else(options["challenge"], options["default"])
      signIn    == Else(options["signIn"], options["default"])
  IN CASE purpose = "forbid"  -> Else(options["forbid"], challenge)
       [] purpose = "signOut" -> Else(options["signOut"], signIn)
       [] OTHER               -> Else(options[purpose], options["default"])

GetScheme(t, name) ==
  /\ Ready(t)
  /\ UNCHANGED <<schemes, handlers, lock>>
  /\ raced' = [raced EXCEPT ![t] = Writing]
  /\ \/ \E s \in Inner : s.name = name /\ Answer(t, s)
     \/ /\ \A s \in Inner : s.name # name
        /\ Goto(t, Call("contains", name, Null))

\* A plausible mistake: the last default is not asked whether it is set.
GetDefaultSchemeUnset(t, options, purpose) == GetScheme(t, DefaultName(options, purpose))

GetDefaultScheme(t, options, purpose) ==
  LET name == DefaultName(options, purpose)
  IN IF name # Null THEN GetScheme(t, name)
     ELSE Ready(t) /\ Answer(t, Null) /\ Unchanged

\* A plausible mistake: the indexer without the question whether the key is there.
ContainsKeyNotAsked(t) ==
  /\ At(t, "contains")
  /\ Goto(t, Call("index", op[t].name, Null))
  /\ Unchanged

ContainsKey(t) ==
  /\ At(t, "contains")
  /\ \E found \in MayFind(op[t].name) :
       IF found = Null THEN Answer(t, Null) ELSE Goto(t, Call("index", op[t].name, Null))
  /\ Unchanged

Indexer(t) ==
  /\ At(t, "index")
  /\ \E found \in MayFind(op[t].name) :
       IF found = Null THEN Leave(t, "keyNotFound") ELSE Answer(t, found)
  /\ Unchanged

\* A Dictionary that notices the concurrent write throws.
NoticeWrite(t) ==
  /\ op[t].step \in {"contains", "index"}
  /\ Writing
  /\ Leave(t, "keyNotFound")
  /\ Unchanged
-----------------------------------------------------------------------------
(* AddScheme and RemoveScheme: a check, which may throw when it notices a      *)
(* concurrent write, and the same check under the lock.                       *)
AddScheme(t, s) ==
  /\ Ready(t)
  /\ \/ \E found \in MayFind(s.name) :
          IF found = Null THEN Goto(t, Call("add", s.name, s)) ELSE Leave(t, "threw")
     \/ Writing /\ Leave(t, "threw")
  /\ Unchanged

\* A plausible mistake: the check is not made again under the lock.
LockAndAddUnchecked(t) ==
  /\ At(t, "add")
  /\ lock = Null
  /\ lock' = t
  /\ handlers' = IF op[t].scheme.handles THEN Append(handlers, op[t].scheme) ELSE handlers
  /\ Goto(t, Call("store", op[t].name, op[t].scheme))
  /\ BeginWrite
  /\ UNCHANGED schemes

LockAndAdd(t) ==
  /\ At(t, "add")
  /\ lock = Null
  /\ \/ schemes[op[t].name] # Null /\ Leave(t, "threw") /\ Unchanged
     \/ /\ schemes[op[t].name] = Null
        /\ lock' = t
        /\ handlers' = IF op[t].scheme.handles THEN Append(handlers, op[t].scheme) ELSE handlers
        /\ Goto(t, Call("store", op[t].name, op[t].scheme))
        /\ BeginWrite
        /\ UNCHANGED schemes

Store(t) ==
  /\ At(t, "store")
  /\ schemes' = [schemes EXCEPT ![op[t].name] = op[t].scheme]
  /\ lock' = Null
  /\ Leave(t, "returned")
  /\ UNCHANGED <<handlers, raced>>

RemoveScheme(t, name) ==
  /\ Ready(t)
  /\ \/ \E found \in MayFind(name) :
          IF found = Null THEN Leave(t, "returned") ELSE Goto(t, Call("remove", name, Null))
     \/ Writing /\ Leave(t, "threw")
  /\ Unchanged

\* A plausible mistake: the list of request handlers is forgotten.
LockAndRemoveNoHandler(t) ==
  /\ At(t, "remove")
  /\ lock = Null
  /\ \/ schemes[op[t].name] = Null /\ Leave(t, "returned") /\ Unchanged
     \/ /\ schemes[op[t].name] # Null
        /\ lock' = t
        /\ Goto(t, Call("erase", op[t].name, Null))
        /\ BeginWrite
        /\ UNCHANGED <<schemes, handlers>>

LockAndRemove(t) ==
  /\ At(t, "remove")
  /\ lock = Null
  /\ \/ schemes[op[t].name] = Null /\ Leave(t, "returned") /\ Unchanged
     \/ /\ schemes[op[t].name] # Null
        /\ lock' = t
        /\ handlers' = RemoveFirst(handlers, schemes[op[t].name])
        /\ Goto(t, Call("erase", op[t].name, Null))
        /\ BeginWrite
        /\ UNCHANGED schemes

Erase(t) ==
  /\ At(t, "erase")
  /\ schemes' = [schemes EXCEPT ![op[t].name] = Null]
  /\ lock' = Null
  /\ Leave(t, "returned")
  /\ UNCHANGED <<handlers, raced>>

Step(t) ==
  \/ \E name \in Names : GetScheme(t, name) \/ RemoveScheme(t, name)
  \/ \E options \in OptionsInUse, purpose \in Purposes : GetDefaultScheme(t, options, purpose)
  \/ \E s \in Schemes : AddScheme(t, s)
  \/ ContainsKey(t) \/ Indexer(t) \/ NoticeWrite(t)
  \/ LockAndAdd(t) \/ Store(t) \/ LockAndRemove(t) \/ Erase(t)

Next ==
  \/ Construct
  \/ /\ built = Len(Own)
     /\ UNCHANGED built
     /\ \E t \in Threads : Step(t)

Spec == Init /\ [][Next]_vars
-----------------------------------------------------------------------------
Calls ==
  [step : Ended, name : {Null}, scheme : Schemes \cup {Null}]
  \cup [step : {"contains", "index", "remove", "erase"}, name : Names, scheme : {Null}]
  \cup {Call(step, s.name, s) : step \in {"add", "store"}, s \in Schemes}

TypeOK ==
  /\ schemes \in [Names -> Schemes \cup {Null}]
  /\ \A n \in Names : schemes[n] # Null => schemes[n].name = n
  /\ handlers \in Seq(Schemes)
  /\ built \in 0..Len(Own)
  /\ lock \in Threads \cup {Null}
  /\ op \in [Threads -> Calls]
  /\ raced \in [Threads -> BOOLEAN]

\* The check without the lock and the check under it let one of two threads add
\* a name: a scheme only ever makes way to nothing, never to another one.
NeverReplaced ==
  [][\A n \in Names : schemes[n] # Null => schemes'[n] \in {schemes[n], Null}]_vars

\* Whenever nobody is inside the lock, the request handlers are the schemes that
\* handle requests, each once.
HandlersMatch ==
  lock = Null =>
    /\ \A s \in Schemes : s \in Range(handlers) <=> s.handles /\ schemes[s.name] = s
    /\ \A i, j \in DOMAIN handlers : handlers[i] = handlers[j] => i = j

\* Between ContainsKey and the indexer others may run; still, a get that no write
\* of the dictionary has overlapped answers what the dictionary holds when it
\* ends, and does not throw.
UnracedGetsAreExact ==
  [][\A t \in Threads :
       /\ op[t].step \in {"contains", "index"}
       /\ op'[t].step \in Ended
       /\ ~raced[t]
       => op'[t].step = "returned" /\ op'[t].scheme = schemes[op[t].name]]_vars
=============================================================================
