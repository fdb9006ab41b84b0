---------------------------- MODULE MCScopeArgs ----------------------------
(***************************************************************************)
(* Small instances of ScopeArgs.  Two arguments tell an overwritten one    *)
(* from its replacement; one place is enough, since no property looks at   *)
(* the values of scopes.                                                   *)
(***************************************************************************)
EXTENDS ArgList

MCArgs == {"a", "b"}

MCLocs == {"msg"}
=============================================================================
