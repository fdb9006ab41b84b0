------------------------------ MODULE EnvStores ------------------------------
(***************************************************************************)
(* What env.go promises of environments: every one is a store of its own,  *)
(* from keys to values.  A call, from Go or from a program, changes one    *)
(* binding of one store; a clone begins with all bindings of its original; *)
(* nothing else changes a store.                                           *)
(***************************************************************************)
EXTENDS Functions

CONSTANTS Threads, Keys

VARIABLE stores     \* per thread, the bindings of its environment

-----------------------------------------------------------------------------

Init == stores = [t \in Threads |-> <<>>]

New(t) == stores' = [stores EXCEPT ![t] = <<>>]

Clone(t, u) == stores' = [stores EXCEPT ![u] = stores[t]]

\* Key k of t's environment gets a value.
Bind(t, k) ==
    /\ DOMAIN stores' = Threads
    /\ DOMAIN stores'[t] = DOMAIN stores[t] \cup {k}
    /\ \A u \in Threads : \A j \in DOMAIN stores'[u] :
          <<u, j>> = <<t, k>> \/ (j \in DOMAIN stores[u] /\ stores'[u][j] = stores[u][j])
    /\ \A u \in Threads \ {t} : stores'[u] = stores[u]

Delete(t, k) == stores' = [stores EXCEPT ![t] = Restrict(@, DOMAIN @ \ {k})]

Next ==
    \/ \E t \in Threads : New(t)
    \/ \E t, u \in Threads : Clone(t, u)
    \/ \E t \in Threads : \E k \in Keys : Bind(t, k)
    \/ \E t \in Threads : \E k \in Keys : Delete(t, k)

Spec == Init /\ [][Next]_stores
=============================================================================
