------------------------------ MODULE TenantInfo ------------------------------
(***************************************************************************)
(* ITenantInfo.cs: what the stores tell tenants apart by.  A tenant object *)
(* has an id and a key, the identifier requests name it by.                *)
(***************************************************************************)
CONSTANTS
  Ids,    \* tenant ids
  Keys,   \* identifiers, as spelled
  Null    \* C# null: no id, no key, no object
=============================================================================
