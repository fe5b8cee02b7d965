------------------------------- MODULE Diamond -------------------------------
(***************************************************************************)
(* The router contract's function table: the storage kept by LibDiamond     *)
(* (contracts/src/libraries/LibDiamond.sol), changed by diamondCut and read *)
(* by the router's fallback (contracts/src/Diamond.sol) and by the loupe.   *)
(*                                                                          *)
(* The table is kept twice: by selector, for routing, and by facet, for the *)
(* loupe.  Removal moves the last entry of an array into the gap, so each   *)
(* entry also records its own position.  Array positions are one higher     *)
(* than in Solidity.  A transaction is a sequence of steps, one for each    *)
(* selector of the request, that ends in a commit or reverts to the storage *)
(* it began with.                                                           *)
(***************************************************************************)
EXTENDS Integers, Sequences

CONSTANTS
    Selectors,      \* function selectors
    Facets,         \* addresses, the zero address apart
    HasCode,        \* those with contract code
    This,           \* the router itself, address(this)
    Zero,           \* the zero address
    CutSelector     \* the selector of diamondCut

ASSUME DiamondAssumption ==
    /\ HasCode \subseteq Facets
    /\ This \in Facets
    /\ Zero \notin Facets
    /\ CutSelector \in Selectors

VARIABLES
    ds,         \* DiamondStorage
    begun,      \* DiamondStorage when the transaction began
    phase,      \* "idle", or "cutting" inside diamondCut
    owner       \* ds.contractOwner

vars == <<ds, begun, phase, owner>>

Storage ==
    [facetOf  : [Selectors -> Facets \cup {Zero}],  \* selectorToFacetAndPosition
     posOf    : [Selectors -> Nat \ {0}],
     list     : [Facets -> Seq(Selectors)],         \* facetFunctionSelectors
     facetPos : [Facets -> Nat \ {0}],
     facets   : Seq(Facets)]                        \* facetAddresses

TypeOK ==
    /\ ds \in Storage
    /\ begun \in Storage
    /\ phase \in {"idle", "cutting"}
    /\ owner \in Facets \cup {Zero}

------------------------------------------------------------------------------
(* Storage operations *)

\* Array removal: the last element replaces the one at i, then pop().
SwapPop(s, i) == [k \in 1 .. (Len(s) - 1) |-> IF k = i THEN s[Len(s)] ELSE s[k]]

\* Mutant: the position recorded is one too low.
EnsureFacetLow(d, f) ==
    IF Len(d.list[f]) > 0 THEN d
    ELSE [d EXCEPT !.facets = Append(@, f), !.facetPos[f] = Len(d.facets)]

\* addFacet, called when the facet has no selector yet.
EnsureFacet(d, f) ==
    IF Len(d.list[f]) > 0 THEN d
    ELSE [d EXCEPT !.facets = Append(@, f),
                   !.facetPos[f] = Len(d.facets) + 1]

\* addFunction at the position after the facet's last selector.
AddFunction(d, s, f) ==
    [d EXCEPT !.facetOf[s] = f,
              !.posOf[s] = Len(d.list[f]) + 1,
              !.list[f] = Append(@, s)]

\* Mutant: the selector moved into the gap keeps its old position.
DropSelectorStale(d, s) ==
    LET g == d.facetOf[s]
    IN  [d EXCEPT !.list[g] = SwapPop(d.list[g], d.posOf[s]),
                  !.posOf[s] = 1,
                  !.facetOf[s] = Zero]

\* removeFunction, first half: the selector leaves its facet's array.
DropSelector(d, s) ==
    LET g == d.facetOf[s]
        i == d.posOf[s]
        last == d.list[g][Len(d.list[g])]
    IN  [d EXCEPT !.list[g] = SwapPop(d.list[g], i),
                  !.posOf = [[@ EXCEPT ![last] = i] EXCEPT ![s] = 1],
                  !.facetOf[s] = Zero]

\* removeFunction, second half: a facet left without selectors is dropped.
DropFacet(d, g) ==
    LET p == d.facetPos[g]
        last == d.facets[Len(d.facets)]
    IN  [d EXCEPT !.facets = SwapPop(d.facets, p),
                  !.facetPos = [[@ EXCEPT ![last] = p] EXCEPT ![g] = 1]]

RemoveFunction(d, s) ==
    LET g == d.facetOf[s]
    IN  IF Len(d.list[g]) = 1 THEN DropFacet(DropSelector(d, s), g)
                              ELSE DropSelector(d, s)

------------------------------------------------------------------------------
(* The steps of diamondCut: what each demands, and does *)

Welcome(f) == f \in Facets /\ (Len(ds.list[f]) = 0 => f \in HasCode)

Removable(s) == ds.facetOf[s] \notin {Zero, This}

CanAdd(s, f) == Welcome(f) /\ ds.facetOf[s] = Zero

CanReplace(s, f) == Welcome(f) /\ ds.facetOf[s] # f /\ Removable(s)

CanRemove(s, f) == f = Zero /\ Removable(s)

Init ==
    \* the constructor adds diamondCut from the facet it is given
    \E f \in HasCode \ {This} :
        /\ ds = AddFunction(EnsureFacet(
                    [facetOf  |-> [s \in Selectors |-> Zero],
                     posOf    |-> [s \in Selectors |-> 1],
                     list     |-> [g \in Facets |-> << >>],
                     facetPos |-> [g \in Facets |-> 1],
                     facets   |-> << >>], f), CutSelector, f)
        /\ begun = ds
        /\ phase = "idle"
        /\ owner \in Facets

\* Mutant: enforceIsContractOwner is not called.
BeginAnyone(caller) ==
    /\ phase = "idle"
    /\ ds.facetOf[CutSelector] # Zero
    /\ begun' = ds
    /\ phase' = "cutting"
    /\ UNCHANGED <<ds, owner>>

\* The fallback routes diamondCut, and enforceIsContractOwner lets it pass.
Begin(caller) ==
    /\ phase = "idle"
    /\ ds.facetOf[CutSelector] # Zero
    /\ caller = owner
    /\ begun' = ds
    /\ phase' = "cutting"
    /\ UNCHANGED <<ds, owner>>

Add(s, f) ==
    /\ phase = "cutting" /\ CanAdd(s, f)
    /\ ds' = AddFunction(EnsureFacet(ds, f), s, f)
    /\ UNCHANGED <<begun, phase, owner>>

Replace(s, f) ==
    /\ phase = "cutting" /\ CanReplace(s, f)
    /\ ds' = AddFunction(RemoveFunction(EnsureFacet(ds, f), s), s, f)
    /\ UNCHANGED <<begun, phase, owner>>

Remove(s, f) ==
    /\ phase = "cutting" /\ CanRemove(s, f)
    /\ ds' = RemoveFunction(ds, s)
    /\ UNCHANGED <<begun, phase, owner>>

\* initializeDiamondCut has nothing to run, or runs to its end.  A diamondCut
\* it calls comes from the router, not from the owner, and reverts.
Commit ==
    /\ phase = "cutting"
    /\ phase' = "idle"
    /\ UNCHANGED <<ds, begun, owner>>

\* A step whose demand fails, an empty or unknown request, or a failing
\* initializer undoes the transaction.
Revert ==
    /\ phase = "cutting"
    /\ ds' = begun
    /\ phase' = "idle"
    /\ UNCHANGED <<begun, owner>>

\* OwnershipFacet; there is no check of the new owner.
TransferOwnership(caller, new) ==
    /\ phase = "idle"
    /\ caller = owner
    /\ owner' = new
    /\ UNCHANGED <<ds, begun, phase>>

Next ==
    \/ \E caller \in Facets : Begin(caller)
    \/ \E s \in Selectors, f \in Facets \cup {Zero} :
         Add(s, f) \/ Replace(s, f) \/ Remove(s, f)
    \/ Commit
    \/ Revert
    \/ \E caller \in Facets, new \in Facets \cup {Zero} :
         TransferOwnership(caller, new)

Spec == Init /\ [][Next]_vars

------------------------------------------------------------------------------
(* Properties *)

\* The facet is in use, or about to be: "opening" holds the facets that are
\* listed before their first selector is.
InUse(d, opening, f) == Len(d.list[f]) > 0 \/ f \in opening

\* A routed selector is in its facet's array, at the position it records.
SelectorsFound(d) ==
    \A s \in Selectors : d.facetOf[s] # Zero =>
        /\ d.posOf[s] \in 1 .. Len(d.list[d.facetOf[s]])
        /\ d.list[d.facetOf[s]][d.posOf[s]] = s

\* An entry of a facet's array is a selector routed to that facet.
EntriesRouted(d) ==
    \A f \in Facets : \A i \in 1 .. Len(d.list[f]) :
        d.facetOf[d.list[f][i]] = f /\ d.posOf[d.list[f][i]] = i

\* A facet in use is in the array of facets, at the position it records.
FacetsFound(d, opening) ==
    \A f \in Facets : InUse(d, opening, f) =>
        /\ d.facetPos[f] \in 1 .. Len(d.facets)
        /\ d.facets[d.facetPos[f]] = f

\* An entry of the array of facets is a facet in use.
FacetsUsed(d, opening) ==
    \A i \in 1 .. Len(d.facets) :
        InUse(d, opening, d.facets[i]) /\ d.facetPos[d.facets[i]] = i

Consistent(d, opening) ==
    /\ SelectorsFound(d) /\ EntriesRouted(d)
    /\ FacetsFound(d, opening) /\ FacetsUsed(d, opening)

\* The two views of the table agree after every selector of every cut: swaps
\* and pops neither lose, duplicate nor misplace a selector or a facet.
TableConsistent == Consistent(ds, {})

\* What the loupe lists is what the fallback routes: the selector is in the
\* array of a listed facet exactly if calls of it reach that facet.
LoupeMatchesRouting ==
    \A s \in Selectors, f \in Facets :
        ds.facetOf[s] = f <=>
            /\ \E i \in 1 .. Len(ds.facets) : ds.facets[i] = f
            /\ \E i \in 1 .. Len(ds.list[f]) : ds.list[f][i] = s

\* A function the router implements itself is immutable: whatever a cut does
\* step by step, in any order, it is still routed to the router, unless the cut
\* reverts.
ImmutableInCut ==
    \A s \in Selectors :
        phase = "cutting" /\ begun.facetOf[s] = This => ds.facetOf[s] = This

\* The table others see: inside a transaction it is still the one before.
Committed == IF phase = "cutting" THEN begun ELSE ds

LoupeOf(d) == [f \in Facets |-> {d.list[f][i] : i \in 1 .. Len(d.list[f])}]

Router == INSTANCE RouterTable WITH routes <- Committed.facetOf, loupe <- LoupeOf(Committed)

\* To everyone outside a transaction the two indexes, swaps and pops are one
\* table that changes by whole cuts, which only an owner makes.
ImplementsRouter == Router!RouterSpec
==============================================================================
