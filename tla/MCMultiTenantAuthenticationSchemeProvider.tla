-------------- MODULE MCMultiTenantAuthenticationSchemeProvider --------------
(* An instance of MultiTenantAuthenticationSchemeProvider for TLC: "n1" comes *)
(* from the options, "n2" and "n3" come and go.                               *)
EXTENDS MultiTenantAuthenticationSchemeProvider, TLC

CONSTANTS t1, t2, t3

Scheme(name, handles, object) == [name |-> name, handles |-> handles, object |-> object]

MCInner == {Scheme("n1", TRUE, 1)}
MCOwn == <<Scheme("n1", TRUE, 2)>>
MCSchemes ==
  {Scheme("n1", TRUE, 1), Scheme("n1", TRUE, 2),
   Scheme("n2", TRUE, 1), Scheme("n2", TRUE, 2), Scheme("n3", FALSE, 1)}

\* One tenant challenges with "n3" and signs in with "n2"; all else is by default.
MCOptionsInUse ==
  {[p \in Purposes \cup {"default"} |->
     IF p = "challenge" THEN "n3" ELSE IF p = "signIn" THEN "n2" ELSE IF p = "default" THEN "n1" ELSE Null],
   [p \in Purposes \cup {"default"} |-> Null]}

Symmetry == Permutations({t1, t2, t3})
=============================================================================
