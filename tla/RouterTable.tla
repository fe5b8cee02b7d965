---------------------------- MODULE RouterTable ----------------------------
(***************************************************************************)
(* What the router promises its callers, its owner and the readers of its  *)
(* loupe: one table from selectors to facets, changed by whole cuts of the *)
(* owner, as long as there is an owner and diamondCut itself is routed.    *)
(***************************************************************************)
CONSTANTS Selectors, Facets, HasCode, This, Zero, CutSelector

VARIABLES
    routes,     \* the facet that serves each selector, or Zero
    loupe,      \* the selectors listed for each facet
    owner

Listing(r) == [f \in Facets |-> {s \in Selectors : r[s] = f}]

RouterInit ==
    /\ \E f \in HasCode \ {This} :
         routes = [s \in Selectors |-> IF s = CutSelector THEN f ELSE Zero]
    /\ loupe = Listing(routes)
    /\ owner \in Facets

\* All of a cut or nothing: only contracts are routed to, and what the router
\* serves itself it goes on serving.
Cut ==
    /\ owner \in Facets /\ routes[CutSelector] # Zero
    /\ routes' \in [Selectors -> HasCode \cup {Zero}]
    /\ \A s \in Selectors : routes[s] = This => routes'[s] = This
    /\ loupe' = Listing(routes')
    /\ UNCHANGED owner

Transfer ==
    /\ owner \in Facets
    /\ owner' \in Facets \cup {Zero}
    /\ UNCHANGED <<routes, loupe>>

RouterNext == Cut \/ Transfer

RouterSpec == RouterInit /\ [][RouterNext]_<<routes, loupe, owner>>
=============================================================================
