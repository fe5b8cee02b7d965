---------------------------- MODULE DiamondProofs ----------------------------
(***************************************************************************)
(* Proofs about Diamond, for any number of selectors, facets and steps of a *)
(* cut: LibDiamond's two views of the function table never disagree.        *)
(*                                                                          *)
(* Consistent is not kept by the halves of a step: addFacet lists a facet   *)
(* before its first selector is there.  The lemmas carry that facet along   *)
(* as "opening", through a removal that must not be of it, to the addition  *)
(* that closes it.                                                          *)
(***************************************************************************)
EXTENDS Diamond, TLAPS

------------------------------------------------------------------------------
(* Sequences *)

\* Removing by swap and pop: one element shorter, the last one in the gap.
LEMMA SwapPopFacts ==
    ASSUME NEW S, NEW s \in Seq(S), NEW i \in 1 .. Len(s)
    PROVE  /\ SwapPop(s, i) \in Seq(S)
           /\ Len(SwapPop(s, i)) = Len(s) - 1
           /\ \A k \in 1 .. (Len(s) - 1) :
                SwapPop(s, i)[k] = IF k = i THEN s[Len(s)] ELSE s[k]
<1>1. Len(s) \in Nat /\ Len(s) > 0
  OBVIOUS
<1>2. \A k \in 1 .. Len(s) : s[k] \in S
  OBVIOUS
<1>3. \A k \in 1 .. (Len(s) - 1) : (IF k = i THEN s[Len(s)] ELSE s[k]) \in S
  BY <1>1, <1>2
<1>4. SwapPop(s, i) \in [1 .. (Len(s) - 1) -> S]
  BY <1>3 DEF SwapPop
<1>5. Len(s) - 1 \in Nat
  BY <1>1
<1>6. SwapPop(s, i) \in Seq(S)
  BY <1>4, <1>5
<1>7. Len(SwapPop(s, i)) = Len(s) - 1
  BY <1>4, <1>5, <1>6
<1>8. QED
  BY <1>6, <1>7 DEF SwapPop

------------------------------------------------------------------------------
(* addFacet and addFunction *)

\* addFacet, when needed, lists the facet at the position it records; the
\* facet is then opening until its first selector is added.
LEMMA EnsureFacetFacts ==
    ASSUME NEW d \in Storage, NEW f \in Facets, Consistent(d, {})
    PROVE  LET e == EnsureFacet(d, f)
           IN  /\ e \in Storage
               /\ Consistent(e, {f})
               /\ e.facetOf = d.facetOf
<1> DEFINE e == EnsureFacet(d, f)
<1>1. CASE Len(d.list[f]) > 0
  <2>1. e = d
    BY <1>1 DEF EnsureFacet
  <2>2. \A g \in Facets : InUse(d, {f}, g) <=> InUse(d, {}, g)
    BY <1>1 DEF InUse
  <2>3. \A i \in 1 .. Len(d.facets) : d.facets[i] \in Facets
    BY DEF Storage
  <2>4. FacetsFound(d, {f})
    BY <2>2 DEF Consistent, FacetsFound
  <2>5. FacetsUsed(d, {f})
    BY <2>2, <2>3 DEF Consistent, FacetsUsed
  <2>6. QED
    BY <2>1, <2>4, <2>5 DEF Consistent
<1>2. CASE ~(Len(d.list[f]) > 0)
  <2>1. /\ e.facetOf = d.facetOf /\ e.posOf = d.posOf /\ e.list = d.list
        /\ e.facets = Append(d.facets, f)
        /\ e.facetPos = [d.facetPos EXCEPT ![f] = Len(d.facets) + 1]
    BY <1>2 DEF EnsureFacet, Storage
  <2>2. d.facets \in Seq(Facets) /\ d.facetPos \in [Facets -> Nat \ {0}]
    BY DEF Storage
  <2>3. e \in Storage
    <3>1. Append(d.facets, f) \in Seq(Facets) /\ Len(d.facets) + 1 \in Nat
      BY <2>2
    <3>2. [d.facetPos EXCEPT ![f] = Len(d.facets) + 1] \in [Facets -> Nat \ {0}]
      BY <2>2, <3>1
    <3>3. e = [d EXCEPT !.facets = Append(d.facets, f),
                        !.facetPos = [d.facetPos EXCEPT ![f] = Len(d.facets) + 1]]
      BY <1>2 DEF EnsureFacet
    <3>4. QED
      BY <3>1, <3>2, <3>3 DEF Storage
  <2>4. SelectorsFound(e) /\ EntriesRouted(e)
    BY <2>1 DEF Consistent, SelectorsFound, EntriesRouted
  <2>5. /\ Len(e.facets) = Len(d.facets) + 1
        /\ \A i \in 1 .. Len(d.facets) : e.facets[i] = d.facets[i]
        /\ e.facets[Len(d.facets) + 1] = f
    BY <2>1, <2>2
  <2>6. \A i \in 1 .. Len(d.facets) : d.facets[i] \in Facets /\ d.facets[i] # f
    BY <1>2, <2>2 DEF Consistent, FacetsUsed, InUse
  <2>7. FacetsFound(e, {f})
    BY <2>1, <2>2, <2>5 DEF Consistent, FacetsFound, InUse
  <2>8. FacetsUsed(e, {f})
    BY <2>1, <2>2, <2>5, <2>6 DEF Consistent, FacetsUsed, InUse
  <2>9. QED
    BY <2>1, <2>3, <2>4, <2>7, <2>8 DEF Consistent
<1>3. QED
  BY <1>1, <1>2

\* addFunction to a facet in use or opening leaves a consistent table.
LEMMA AddFunctionFacts ==
    ASSUME NEW d \in Storage, NEW s \in Selectors, NEW f \in Facets,
           Consistent(d, {f}), d.facetOf[s] = Zero
    PROVE  LET e == AddFunction(d, s, f)
           IN  /\ e \in Storage
               /\ Consistent(e, {})
               /\ e.facetOf = [d.facetOf EXCEPT ![s] = f]
<1> DEFINE e == AddFunction(d, s, f)
           n == Len(d.list[f])
<1>1. /\ d.list \in [Facets -> Seq(Selectors)] /\ d.posOf \in [Selectors -> Nat \ {0}]
      /\ d.facetOf \in [Selectors -> Facets \cup {Zero}]
      /\ n \in Nat
  BY DEF Storage
<1>2. /\ e.facetOf = [d.facetOf EXCEPT ![s] = f]
      /\ e.posOf = [d.posOf EXCEPT ![s] = n + 1]
      /\ e.list = [d.list EXCEPT ![f] = Append(d.list[f], s)]
      /\ e.facets = d.facets /\ e.facetPos = d.facetPos
  BY DEF AddFunction, Storage
<1> HIDE DEF e
<1>3. e \in Storage
  <2>1. /\ [d.facetOf EXCEPT ![s] = f] \in [Selectors -> Facets \cup {Zero}]
        /\ [d.posOf EXCEPT ![s] = n + 1] \in [Selectors -> Nat \ {0}]
    BY <1>1
  <2>2. Append(d.list[f], s) \in Seq(Selectors)
    BY <1>1
  <2>3. [d.list EXCEPT ![f] = Append(d.list[f], s)] \in [Facets -> Seq(Selectors)]
    BY <1>1, <2>2
  <2>4. e = [d EXCEPT !.facetOf = [d.facetOf EXCEPT ![s] = f],
                      !.posOf = [d.posOf EXCEPT ![s] = n + 1],
                      !.list = [d.list EXCEPT ![f] = Append(d.list[f], s)]]
    BY DEF AddFunction, e
  <2>5. QED
    BY <2>1, <2>3, <2>4 DEF Storage
<1>4. /\ Len(e.list[f]) = n + 1 /\ e.list[f][n + 1] = s
      /\ \A k \in 1 .. n : e.list[f][k] = d.list[f][k]
      /\ \A g \in Facets : g # f => e.list[g] = d.list[g]
  BY <1>1, <1>2
<1>5. \A g \in Facets : \A k \in 1 .. Len(d.list[g]) : d.list[g][k] # s
  BY <1>1, DiamondAssumption DEF Consistent, EntriesRouted
<1>6. SelectorsFound(e)
  <2> SUFFICES ASSUME NEW t \in Selectors, e.facetOf[t] # Zero
               PROVE  /\ e.posOf[t] \in 1 .. Len(e.list[e.facetOf[t]])
                      /\ e.list[e.facetOf[t]][e.posOf[t]] = t
    BY DEF SelectorsFound
  <2>1. CASE t = s
    BY <1>1, <1>2, <1>4, <2>1
  <2>2. CASE t # s
    <3>1. /\ e.facetOf[t] = d.facetOf[t] /\ e.posOf[t] = d.posOf[t]
          /\ d.facetOf[t] \in Facets
      BY <1>1, <1>2, <2>2
    <3>2. /\ d.posOf[t] \in 1 .. Len(d.list[d.facetOf[t]])
          /\ d.list[d.facetOf[t]][d.posOf[t]] = t
      BY <3>1 DEF Consistent, SelectorsFound
    <3>3. CASE d.facetOf[t] = f
      <4>1. d.posOf[t] \in 1 .. n /\ e.list[f][d.posOf[t]] = t
        BY <1>4, <3>2, <3>3
      <4>2. QED
        BY <1>1, <1>4, <3>1, <3>3, <4>1
    <3>4. CASE d.facetOf[t] # f
      BY <1>4, <3>1, <3>2, <3>4
    <3>5. QED
      BY <3>3, <3>4
  <2>3. QED
    BY <2>1, <2>2
<1>7. EntriesRouted(e)
  <2> SUFFICES ASSUME NEW g \in Facets, NEW k \in 1 .. Len(e.list[g])
               PROVE  e.facetOf[e.list[g][k]] = g /\ e.posOf[e.list[g][k]] = k
    BY DEF EntriesRouted
  <2>1. CASE g = f /\ k = n + 1
    BY <1>1, <1>2, <1>4, <2>1
  <2>2. CASE g # f \/ k # n + 1
    <3>1. k \in 1 .. Len(d.list[g]) /\ e.list[g][k] = d.list[g][k]
      BY <1>1, <1>4, <2>2
    <3>2. d.list[g][k] \in Selectors /\ d.list[g][k] # s
      BY <1>1, <1>5, <3>1
    <3>3. d.facetOf[d.list[g][k]] = g /\ d.posOf[d.list[g][k]] = k
      BY <3>1 DEF Consistent, EntriesRouted
    <3>4. e.facetOf[d.list[g][k]] = g
      BY <1>1, <1>2, <3>2, <3>3
    <3>5. e.posOf[d.list[g][k]] = k
      BY <1>1, <1>2, <3>2, <3>3
    <3>6. QED
      BY <3>1, <3>4, <3>5
  <2>3. QED
    BY <2>1, <2>2
<1>8. \A g \in Facets : InUse(e, {}, g) <=> InUse(d, {f}, g)
  BY <1>1, <1>4 DEF InUse
<1>9. FacetsFound(e, {}) /\ FacetsUsed(e, {})
  <2>1. \A i \in 1 .. Len(d.facets) : d.facets[i] \in Facets
    BY DEF Storage
  <2>2. FacetsFound(e, {})
    BY <1>2, <1>8 DEF Consistent, FacetsFound
  <2>3. FacetsUsed(e, {})
    BY <1>2, <1>8, <2>1 DEF Consistent, FacetsUsed
  <2>4. QED
    BY <2>2, <2>3
<1>10. QED
  BY <1>2, <1>3, <1>6, <1>7, <1>9 DEF Consistent, e

------------------------------------------------------------------------------
(* removeFunction *)

\* The first half of removeFunction closes the gap in the facet's selectors
\* and leaves a table that is consistent but for a facet that is now empty.
LEMMA DropSelectorFacts ==
    ASSUME NEW d \in Storage, NEW s \in Selectors, d.facetOf[s] \in Facets,
           SelectorsFound(d), EntriesRouted(d)
    PROVE  LET e == DropSelector(d, s)
               g == d.facetOf[s]
           IN  /\ e \in Storage
               /\ SelectorsFound(e) /\ EntriesRouted(e)
               /\ e.facetOf = [d.facetOf EXCEPT ![s] = Zero]
               /\ e.facets = d.facets /\ e.facetPos = d.facetPos
               /\ Len(d.list[g]) \in Nat \ {0}
               /\ Len(e.list[g]) = Len(d.list[g]) - 1
               /\ \A h \in Facets : h # g => e.list[h] = d.list[h]
<1> DEFINE e == DropSelector(d, s)
           g == d.facetOf[s]
           i == d.posOf[s]
           n == Len(d.list[g])
           last == d.list[g][n]
<1>1. /\ d.list \in [Facets -> Seq(Selectors)] /\ d.posOf \in [Selectors -> Nat \ {0}]
      /\ d.facetOf \in [Selectors -> Facets \cup {Zero}]
      /\ d.list[g] \in Seq(Selectors) /\ n \in Nat
  BY DEF Storage
<1>2. /\ i \in 1 .. n /\ d.list[g][i] = s
      /\ g = d.facetOf[s] /\ i = d.posOf[s] /\ g \in Facets
  BY DiamondAssumption DEF SelectorsFound
<1>3. /\ n \in Nat \ {0} /\ last \in Selectors
      /\ n = Len(d.list[g]) /\ last = d.list[g][n]
  BY <1>1, <1>2
<1>4. d.facetOf[last] = g /\ d.posOf[last] = n
  BY <1>1, <1>3 DEF EntriesRouted
<1>5. /\ SwapPop(d.list[g], i) \in Seq(Selectors)
      /\ Len(SwapPop(d.list[g], i)) = n - 1
      /\ \A k \in 1 .. (n - 1) :
           SwapPop(d.list[g], i)[k] = IF k = i THEN last ELSE d.list[g][k]
  <2>1. d.list[g] \in Seq(Selectors) /\ i \in 1 .. Len(d.list[g])
    BY <1>1, <1>2
  <2>2. SwapPop(d.list[g], i) \in Seq(Selectors)
    BY <2>1, SwapPopFacts
  <2>3. Len(SwapPop(d.list[g], i)) = Len(d.list[g]) - 1
    BY <2>1, <2>2, SwapPopFacts
  <2>4. \A k \in 1 .. (Len(d.list[g]) - 1) :
          SwapPop(d.list[g], i)[k] = IF k = i THEN d.list[g][Len(d.list[g])] ELSE d.list[g][k]
    BY DEF SwapPop
  <2>5. QED
    BY <2>2, <2>3, <2>4
<1>6. /\ e.facetOf = [d.facetOf EXCEPT ![s] = Zero]
      /\ e.posOf = [[d.posOf EXCEPT ![last] = i] EXCEPT ![s] = 1]
      /\ e.list = [d.list EXCEPT ![g] = SwapPop(d.list[g], i)]
      /\ e.facets = d.facets /\ e.facetPos = d.facetPos
  BY DEF DropSelector, Storage
<1> HIDE DEF e, g, i, n, last
<1>7. /\ e.list[g] = SwapPop(d.list[g], i)
      /\ \A h \in Facets : h # g => e.list[h] = d.list[h]
  BY <1>1, <1>2, <1>6
<1>8. e \in Storage
  <2>1. /\ e.facetOf \in [Selectors -> Facets \cup {Zero}]
        /\ e.posOf \in [Selectors -> Nat \ {0}]
        /\ e.list \in [Facets -> Seq(Selectors)]
    <3>1. e.facetOf \in [Selectors -> Facets \cup {Zero}]
      BY <1>1, <1>6
    <3>2. i \in Nat \ {0}
      BY <1>1, <1>2
    <3>3. [d.posOf EXCEPT ![last] = i] \in [Selectors -> Nat \ {0}]
      BY <1>1, <1>3, <3>2
    <3>4. e.posOf \in [Selectors -> Nat \ {0}]
      BY <1>6, <3>3
    <3>5. e.list \in [Facets -> Seq(Selectors)]
      BY <1>1, <1>5, <1>6
    <3>6. QED
      BY <3>1, <3>4, <3>5
  <2>2. e = [d EXCEPT !.list = e.list, !.posOf = e.posOf, !.facetOf = e.facetOf]
    BY <1>6 DEF DropSelector, Storage, e, g, i, n, last
  <2>3. QED
    BY <2>1, <2>2 DEF Storage
<1>9. SelectorsFound(e)
  <2> SUFFICES ASSUME NEW t \in Selectors, e.facetOf[t] # Zero
               PROVE  /\ e.posOf[t] \in 1 .. Len(e.list[e.facetOf[t]])
                      /\ e.list[e.facetOf[t]][e.posOf[t]] = t
    BY DEF SelectorsFound
  <2>1. t # s /\ e.facetOf[t] = d.facetOf[t] /\ d.facetOf[t] \in Facets
    BY <1>1, <1>6
  <2>2. /\ d.posOf[t] \in 1 .. Len(d.list[d.facetOf[t]])
        /\ d.list[d.facetOf[t]][d.posOf[t]] = t
    BY <2>1, DiamondAssumption DEF SelectorsFound
  <2>3. CASE d.facetOf[t] # g
    <3>1. t # last
      BY <1>4, <2>3
    <3>2. QED
      BY <1>1, <1>6, <1>7, <2>1, <2>2, <2>3, <3>1, SMTT(30)
  <2>4. CASE d.facetOf[t] = g /\ t = last
    <3>1. e.posOf[t] = i /\ i # n
      BY <1>1, <1>2, <1>3, <1>6, <2>1, <2>4
    <3>2. i \in 1 .. (n - 1)
      BY <1>2, <1>3, <3>1
    <3>3. e.list[g][i] = last
      BY <1>5, <1>7, <3>2
    <3>4. QED
      BY <1>5, <1>7, <2>1, <2>4, <3>1, <3>2, <3>3
  <2>5. CASE d.facetOf[t] = g /\ t # last
    <3>1. e.posOf[t] = d.posOf[t] /\ d.posOf[t] # n /\ d.posOf[t] # i
      BY <1>1, <1>2, <1>3, <1>6, <2>1, <2>2, <2>5
    <3>2. d.posOf[t] \in 1 .. (n - 1)
      BY <1>3, <2>2, <2>5, <3>1
    <3>3. e.list[g][d.posOf[t]] = t
      BY <1>5, <1>7, <2>2, <2>5, <3>1, <3>2
    <3>4. QED
      BY <1>5, <1>7, <2>1, <2>5, <3>1, <3>2, <3>3
  <2>6. QED
    BY <2>3, <2>4, <2>5
<1>10. EntriesRouted(e)
  <2> SUFFICES ASSUME NEW h \in Facets, NEW k \in 1 .. Len(e.list[h])
               PROVE  e.facetOf[e.list[h][k]] = h /\ e.posOf[e.list[h][k]] = k
    BY DEF EntriesRouted
  <2>1. CASE h # g
    <3>1. e.list[h] = d.list[h] /\ k \in 1 .. Len(d.list[h])
      BY <1>7, <2>1
    <3>2. d.list[h][k] \in Selectors
      BY <1>1, <3>1
    <3>3. d.facetOf[d.list[h][k]] = h /\ d.posOf[d.list[h][k]] = k
      BY <3>1 DEF EntriesRouted
    <3>4. d.list[h][k] # s /\ d.list[h][k] # last
      BY <1>2, <1>4, <2>1, <3>3
    <3>5. QED
      BY <1>1, <1>6, <3>1, <3>2, <3>3, <3>4
  <2>2. CASE h = g /\ k = i
    <3>1. k \in 1 .. (n - 1) /\ e.list[h][k] = last
      BY <1>5, <1>7, <2>2
    <3>2. last # s
      BY <1>2, <1>3, <1>4, <2>2, <3>1
    <3>3. e.facetOf[last] = g
      BY <1>1, <1>3, <1>4, <1>6, <3>2
    <3>4. e.posOf[last] = i
      BY <1>1, <1>3, <1>6, <3>2
    <3>5. QED
      BY <2>2, <3>1, <3>3, <3>4
  <2>3. CASE h = g /\ k # i
    <3>1. k \in 1 .. (n - 1) /\ e.list[h][k] = d.list[g][k]
      BY <1>5, <1>7, <2>3
    <3>2. k \in 1 .. n /\ d.list[g][k] \in Selectors
      BY <1>1, <1>3, <3>1
    <3>3. d.facetOf[d.list[g][k]] = g /\ d.posOf[d.list[g][k]] = k
      BY <1>2, <1>3, <3>2 DEF EntriesRouted
    <3>4. d.list[g][k] # s /\ d.list[g][k] # last
      BY <1>2, <1>3, <1>4, <2>3, <3>1, <3>3
    <3>5. e.facetOf[d.list[g][k]] = g
      BY <1>1, <1>6, <3>2, <3>3, <3>4
    <3>6. e.posOf[d.list[g][k]] = k
      BY <1>1, <1>6, <3>2, <3>3, <3>4
    <3>7. QED
      BY <2>3, <3>1, <3>5, <3>6
  <2>4. QED
    BY <2>1, <2>2, <2>3
<1>11. QED
  BY <1>3, <1>5, <1>6, <1>7, <1>8, <1>9, <1>10 DEF e, g, n

\* Dropping the facet g that has just lost its last selector.
LEMMA DropFacetFacts ==
    ASSUME NEW x \in Storage, NEW g \in Facets,
           x.facetPos[g] \in 1 .. Len(x.facets), x.facets[x.facetPos[g]] = g,
           \A k \in 1 .. Len(x.facets) : x.facetPos[x.facets[k]] = k
    PROVE  LET e == DropFacet(x, g)
           IN  /\ e \in Storage
               /\ e.facetOf = x.facetOf /\ e.posOf = x.posOf /\ e.list = x.list
               /\ \A h \in Facets \ {g} :
                    /\ x.facetPos[h] \in 1 .. Len(x.facets)
                    /\ x.facets[x.facetPos[h]] = h
                    => /\ e.facetPos[h] \in 1 .. Len(e.facets)
                       /\ e.facets[e.facetPos[h]] = h
               /\ \A k \in 1 .. Len(e.facets) :
                    /\ e.facets[k] \in Facets \ {g}
                    /\ e.facetPos[e.facets[k]] = k
                    /\ \E j \in 1 .. Len(x.facets) : e.facets[k] = x.facets[j]
<1> DEFINE e == DropFacet(x, g)
           p == x.facetPos[g]
           m == Len(x.facets)
           last == x.facets[m]
<1>1. /\ x.facets \in Seq(Facets) /\ x.facetPos \in [Facets -> Nat \ {0}]
      /\ p \in Nat /\ m \in Nat \ {0}
  BY DEF Storage
<1>2. \A k \in 1 .. m : x.facets[k] \in Facets
  BY <1>1
<1>3. /\ last \in Facets /\ x.facetPos[last] = m
      /\ last = x.facets[m] /\ p = x.facetPos[g] /\ m = Len(x.facets)
      /\ p \in 1 .. m /\ x.facets[p] = g
      /\ \A k \in 1 .. m : x.facetPos[x.facets[k]] = k
  BY <1>1, <1>2
<1>4. /\ SwapPop(x.facets, p) \in Seq(Facets)
      /\ Len(SwapPop(x.facets, p)) = m - 1
      /\ \A k \in 1 .. (m - 1) :
           SwapPop(x.facets, p)[k] = IF k = p THEN last ELSE x.facets[k]
  <2>1. x.facets \in Seq(Facets) /\ p \in 1 .. Len(x.facets)
    BY <1>1, <1>3
  <2>2. SwapPop(x.facets, p) \in Seq(Facets)
    BY <2>1, SwapPopFacts
  <2>3. Len(SwapPop(x.facets, p)) = Len(x.facets) - 1
    BY <2>1, <2>2, SwapPopFacts, SMTT(30)
  <2>4. \A k \in 1 .. (Len(x.facets) - 1) :
          SwapPop(x.facets, p)[k] = IF k = p THEN x.facets[Len(x.facets)] ELSE x.facets[k]
    BY DEF SwapPop
  <2>5. QED
    BY <2>2, <2>3, <2>4
<1>5. /\ e.facetOf = x.facetOf /\ e.posOf = x.posOf /\ e.list = x.list
      /\ e.facets = SwapPop(x.facets, p)
      /\ e.facetPos = [[x.facetPos EXCEPT ![last] = p] EXCEPT ![g] = 1]
  BY DEF DropFacet, Storage
<1> HIDE DEF e, p, m, last
<1>6. e \in Storage
  <2>1. [x.facetPos EXCEPT ![last] = p] \in [Facets -> Nat \ {0}]
    BY <1>1, <1>3
  <2>2. e.facetPos \in [Facets -> Nat \ {0}]
    BY <1>5, <2>1
  <2>3. e = [x EXCEPT !.facets = e.facets, !.facetPos = e.facetPos]
    BY <1>5 DEF DropFacet, Storage, e, p, m, last
  <2>4. QED
    BY <1>4, <1>5, <2>2, <2>3 DEF Storage
<1>7. ASSUME NEW h \in Facets \ {g},
             x.facetPos[h] \in 1 .. m, x.facets[x.facetPos[h]] = h
      PROVE  /\ e.facetPos[h] \in 1 .. Len(e.facets)
             /\ e.facets[e.facetPos[h]] = h
  <2>1. CASE h = last
    <3>1. e.facetPos[h] = p /\ p # m
      BY <1>1, <1>3, <1>5, <2>1, <1>7
    <3>2. p \in 1 .. (m - 1)
      BY <1>1, <1>3, <3>1
    <3>3. QED
      BY <1>4, <1>5, <2>1, <3>1, <3>2
  <2>2. CASE h # last
    <3>1. e.facetPos[h] = x.facetPos[h]
      BY <1>1, <1>5, <1>7, <2>2
    <3>2. x.facetPos[h] # m /\ x.facetPos[h] # p
      BY <1>3, <1>7, <2>2
    <3>3. x.facetPos[h] \in 1 .. (m - 1)
      BY <1>1, <1>7, <3>2
    <3>4. QED
      BY <1>4, <1>5, <1>7, <3>1, <3>2, <3>3
  <2>3. QED
    BY <2>1, <2>2
<1>8. ASSUME NEW k \in 1 .. Len(e.facets)
      PROVE  /\ e.facets[k] \in Facets \ {g}
             /\ e.facetPos[e.facets[k]] = k
             /\ \E j \in 1 .. m : e.facets[k] = x.facets[j]
  <2>1. k \in 1 .. (m - 1) /\ k \in 1 .. m /\ m \in 1 .. m
    <3>1. k \in 1 .. (m - 1)
      BY <1>4, <1>5
    <3>2. QED
      BY <1>1, <3>1
  <2>2. CASE k = p
    <3>1. e.facets[k] = last
      BY <1>4, <1>5, <2>1, <2>2
    <3>2. last # g
      BY <1>1, <1>3, <2>1, <2>2
    <3>3. e.facetPos[last] = p
      BY <1>1, <1>3, <1>5, <3>2
    <3>4. QED
      BY <1>3, <2>1, <2>2, <3>1, <3>2, <3>3
  <2>3. CASE k # p
    <3>1. e.facets[k] = x.facets[k]
      BY <1>4, <1>5, <2>1, <2>3
    <3>2. x.facetPos[x.facets[k]] = k /\ x.facets[k] \in Facets
      BY <1>2, <1>3, <2>1
    <3>3. x.facets[k] # g /\ x.facets[k] # last
      BY <1>1, <1>3, <2>1, <2>3, <3>2, SMTT(30)
    <3>4. e.facetPos[x.facets[k]] = k
      BY <1>1, <1>5, <3>2, <3>3
    <3>5. QED
      BY <2>1, <3>1, <3>2, <3>3, <3>4
  <2>4. QED
    BY <2>2, <2>3
<1>9. QED
  BY <1>5, <1>6, <1>7, <1>8 DEF e, m

\* removeFunction leaves a consistent table, its facet dropped if empty.
LEMMA RemoveFunctionFacts ==
    ASSUME NEW d \in Storage, NEW s \in Selectors, NEW opening \in SUBSET Facets,
           Consistent(d, opening),
           d.facetOf[s] \in Facets, d.facetOf[s] \notin opening
    PROVE  LET e == RemoveFunction(d, s)
           IN  /\ e \in Storage
               /\ Consistent(e, opening)
               /\ e.facetOf = [d.facetOf EXCEPT ![s] = Zero]
<1> DEFINE e == RemoveFunction(d, s)
           x == DropSelector(d, s)
           g == d.facetOf[s]
           n == Len(d.list[g])
<1>1. /\ x \in Storage
      /\ SelectorsFound(x) /\ EntriesRouted(x)
      /\ x.facetOf = [d.facetOf EXCEPT ![s] = Zero]
      /\ x.facets = d.facets /\ x.facetPos = d.facetPos
      /\ n \in Nat \ {0}
      /\ Len(x.list[g]) = n - 1
      /\ \A h \in Facets : h # g => x.list[h] = d.list[h]
  BY DropSelectorFacts DEF Consistent
<1>2. \A k \in 1 .. Len(d.facets) : d.facets[k] \in Facets
  BY DEF Storage
<1>3. g \in Facets /\ g \notin opening /\ n = Len(d.list[g])
  OBVIOUS
<1>4. e = IF n = 1 THEN DropFacet(x, g) ELSE x
  BY DEF RemoveFunction
<1> HIDE DEF x, g, n
<1>5. CASE n # 1
  <2>1. e = x
    BY <1>4, <1>5
  <2>2. \A h \in Facets : InUse(x, opening, h) <=> InUse(d, opening, h)
    <3>1. n > 0 /\ n - 1 > 0
      BY <1>1, <1>5
    <3>2. Len(d.list[g]) > 0
      BY <1>3, <3>1
    <3>3. Len(x.list[g]) > 0
      BY <1>1, <3>1
    <3>4. QED
      BY <1>1, <3>2, <3>3 DEF InUse
  <2>3. FacetsFound(x, opening)
    BY <1>1, <2>2 DEF Consistent, FacetsFound
  <2>4. FacetsUsed(x, opening)
    BY <1>1, <1>2, <2>2 DEF Consistent, FacetsUsed
  <2>5. QED
    BY <1>1, <2>1, <2>3, <2>4 DEF Consistent
<1>6. CASE n = 1
  <2> DEFINE y == DropFacet(x, g)
  <2>1. e = y
    BY <1>4, <1>6
  <2>2. InUse(d, opening, g)
    BY <1>3, <1>6 DEF InUse
  <2>3. /\ x.facetPos[g] \in 1 .. Len(x.facets)
        /\ x.facets[x.facetPos[g]] = g
    BY <1>1, <1>3, <2>2 DEF Consistent, FacetsFound
  <2>4. \A k \in 1 .. Len(x.facets) : x.facetPos[x.facets[k]] = k
    BY <1>1 DEF Consistent, FacetsUsed
  <2>5. /\ y \in Storage
        /\ y.facetOf = x.facetOf /\ y.posOf = x.posOf /\ y.list = x.list
        /\ \A h \in Facets \ {g} :
             /\ x.facetPos[h] \in 1 .. Len(x.facets)
             /\ x.facets[x.facetPos[h]] = h
             => /\ y.facetPos[h] \in 1 .. Len(y.facets)
                /\ y.facets[y.facetPos[h]] = h
        /\ \A k \in 1 .. Len(y.facets) :
             /\ y.facets[k] \in Facets \ {g}
             /\ y.facetPos[y.facets[k]] = k
             /\ \E j \in 1 .. Len(x.facets) : y.facets[k] = x.facets[j]
    BY <1>1, <1>3, <2>3, <2>4, DropFacetFacts
  <2>6. \A h \in Facets : InUse(y, opening, h) <=> InUse(d, opening, h) /\ h # g
    BY <1>1, <1>3, <1>6, <2>5 DEF InUse
  <2>7. SelectorsFound(y) /\ EntriesRouted(y)
    BY <1>1, <2>5 DEF SelectorsFound, EntriesRouted
  <2>8. FacetsFound(y, opening)
    BY <1>1, <2>5, <2>6 DEF Consistent, FacetsFound
  <2>9. FacetsUsed(y, opening)
    BY <1>1, <2>5, <2>6 DEF Consistent, FacetsUsed
  <2>10. QED
    BY <1>1, <2>1, <2>5, <2>7, <2>8, <2>9 DEF Consistent
<1>7. QED
  BY <1>5, <1>6

------------------------------------------------------------------------------
(* The specification *)

\* A transaction keeps the storage it may revert to.
Inv == /\ ds \in Storage /\ begun \in Storage
       /\ Consistent(ds, {}) /\ Consistent(begun, {})
       /\ phase \in {"idle", "cutting"}
       /\ owner \in Facets \cup {Zero}

\* The constructor's table, with diamondCut alone in it, is consistent.
LEMMA InitInv == Init => Inv
<1> SUFFICES ASSUME Init PROVE Inv
  OBVIOUS
<1> DEFINE empty == [facetOf  |-> [s \in Selectors |-> Zero],
                     posOf    |-> [s \in Selectors |-> 1],
                     list     |-> [g \in Facets |-> << >>],
                     facetPos |-> [g \in Facets |-> 1],
                     facets   |-> << >>]
<1>1. PICK f \in HasCode \ {This} :
        /\ ds = AddFunction(EnsureFacet(empty, f), CutSelector, f)
        /\ begun = ds /\ phase = "idle" /\ owner \in Facets
  BY DEF Init
<1>2. f \in Facets /\ CutSelector \in Selectors
  BY DiamondAssumption
<1>3. empty \in Storage
  BY DEF Storage
<1>4. Consistent(empty, {})
  BY DEF Consistent, SelectorsFound, EntriesRouted, FacetsFound, FacetsUsed, InUse
<1>5. /\ EnsureFacet(empty, f) \in Storage
      /\ Consistent(EnsureFacet(empty, f), {f})
      /\ EnsureFacet(empty, f).facetOf = empty.facetOf
  BY <1>2, <1>3, <1>4, EnsureFacetFacts
<1>6. EnsureFacet(empty, f).facetOf[CutSelector] = Zero
  BY <1>2, <1>5
<1>7. ds \in Storage /\ Consistent(ds, {})
  BY <1>1, <1>2, <1>5, <1>6, AddFunctionFacts
<1>8. QED
  BY <1>1, <1>7 DEF Inv

\* addFunctions keeps the invariant, one selector at a time.
LEMMA AddInv ==
    ASSUME Inv, NEW s \in Selectors, NEW f \in Facets \cup {Zero}, Add(s, f)
    PROVE  Inv' /\ ds'.facetOf = [ds.facetOf EXCEPT ![s] = f]
<1>1. f \in Facets /\ ds.facetOf[s] = Zero
  BY DEF Add, CanAdd, Welcome
<1>2. /\ EnsureFacet(ds, f) \in Storage
      /\ Consistent(EnsureFacet(ds, f), {f})
      /\ EnsureFacet(ds, f).facetOf = ds.facetOf
  BY <1>1, EnsureFacetFacts DEF Inv
<1>3. /\ ds' \in Storage /\ Consistent(ds', {})
      /\ ds'.facetOf = [ds.facetOf EXCEPT ![s] = f]
  BY <1>1, <1>2, AddFunctionFacts DEF Add
<1>4. Inv'
  BY <1>3 DEF Inv, Add
<1>5. QED
  BY <1>3, <1>4

\* removeFunctions keeps the invariant, one selector at a time.
LEMMA RemoveInv ==
    ASSUME Inv, NEW s \in Selectors, NEW f \in Facets \cup {Zero}, Remove(s, f)
    PROVE  Inv' /\ ds'.facetOf = [ds.facetOf EXCEPT ![s] = f]
<1>1. ds.facetOf[s] \in Facets
  BY DEF Inv, Storage, Remove, CanRemove, Removable
<1>2. /\ ds' \in Storage /\ Consistent(ds', {})
      /\ ds'.facetOf = [ds.facetOf EXCEPT ![s] = Zero]
  BY <1>1, RemoveFunctionFacts DEF Inv, Remove
<1>3. Inv'
  BY <1>2 DEF Inv, Remove
<1>4. QED
  BY <1>2, <1>3 DEF Remove, CanRemove

\* The facet the selector leaves is not the one that opens for it.
LEMMA ReplaceInv ==
    ASSUME Inv, NEW s \in Selectors, NEW f \in Facets \cup {Zero}, Replace(s, f)
    PROVE  Inv' /\ ds'.facetOf = [ds.facetOf EXCEPT ![s] = f]
<1> DEFINE d == EnsureFacet(ds, f)
           e == RemoveFunction(d, s)
<1>1. f \in Facets /\ ds.facetOf[s] \in Facets /\ ds.facetOf[s] # f
  BY DEF Inv, Storage, Replace, CanReplace, Removable, Welcome
<1>2. d \in Storage /\ Consistent(d, {f}) /\ d.facetOf = ds.facetOf
  BY <1>1, EnsureFacetFacts DEF Inv
<1>3. /\ e \in Storage /\ Consistent(e, {f})
      /\ e.facetOf = [d.facetOf EXCEPT ![s] = Zero]
  BY <1>1, <1>2, RemoveFunctionFacts
<1>4. e.facetOf[s] = Zero
  BY <1>2, <1>3 DEF Storage
<1>5. ds' = AddFunction(e, s, f)
  BY DEF Replace
<1> HIDE DEF d, e
<1>6. /\ ds' \in Storage /\ Consistent(ds', {})
      /\ ds'.facetOf = [e.facetOf EXCEPT ![s] = f]
  <2>1. /\ AddFunction(e, s, f) \in Storage
        /\ Consistent(AddFunction(e, s, f), {})
        /\ AddFunction(e, s, f).facetOf = [e.facetOf EXCEPT ![s] = f]
    <3>1. e \in Storage /\ Consistent(e, {f})
      BY <1>3
    <3>2. f \in Facets
      BY <1>1
    <3>3. QED
      BY <1>4, <3>1, <3>2, AddFunctionFacts, Zenon
  <2>2. QED
    BY <1>5, <2>1
<1>7. Inv'
  BY <1>6 DEF Inv, Replace
<1>8. ds'.facetOf = [ds.facetOf EXCEPT ![s] = f]
  <2>1. ds.facetOf \in [Selectors -> Facets \cup {Zero}]
    BY DEF Inv, Storage
  <2>2. QED
    BY <1>2, <1>3, <1>6, <2>1
<1>9. QED
  BY <1>7, <1>8

\* Every step of a cut, its commit or revert, and a change of owner preserve
\* the invariant.
LEMMA NextInv ==
    ASSUME Inv, [Next]_vars
    PROVE  Inv'
<1>1. CASE UNCHANGED vars
  BY <1>1 DEF Inv, vars
<1>2. ASSUME NEW caller \in Facets, Begin(caller) PROVE Inv'
  BY <1>2 DEF Inv, Begin
<1>3. CASE Commit
  BY <1>3 DEF Inv, Commit
<1>4. CASE Revert
  BY <1>4 DEF Inv, Revert
<1>5. ASSUME NEW caller \in Facets, NEW new \in Facets \cup {Zero},
             TransferOwnership(caller, new)
      PROVE  Inv'
  BY <1>5 DEF Inv, TransferOwnership
<1>6. QED
  BY <1>1, <1>2, <1>3, <1>4, <1>5, AddInv, RemoveInv, ReplaceInv DEF Next

\* The inductive invariant holds throughout: the types, and the consistency
\* of the present table and of the one a revert goes back to.
THEOREM InvHolds == Spec => []Inv
<1>1. Init => Inv
  BY InitInv
<1>2. Inv /\ [Next]_vars => Inv'
  BY NextInv
<1>3. QED
  BY <1>1, <1>2, PTL DEF Spec

------------------------------------------------------------------------------
(* The results *)

\* After every selector of every cut the two views of the table agree, so that
\* no later swap and pop reads a position that is not there.
THEOREM TableStaysConsistent == Spec => []TableConsistent
<1>1. Inv => TableConsistent
  BY DEF Inv, TableConsistent
<1>2. QED
  BY <1>1, InvHolds, PTL

\* The loupe reports exactly the routing of the fallback.
THEOREM LoupeIsRouting == Spec => []LoupeMatchesRouting
<1>1. ASSUME Inv, NEW s \in Selectors, NEW f \in Facets, ds.facetOf[s] = f
      PROVE  /\ \E i \in 1 .. Len(ds.facets) : ds.facets[i] = f
             /\ \E i \in 1 .. Len(ds.list[f]) : ds.list[f][i] = s
  <2>1. ds.posOf[s] \in 1 .. Len(ds.list[f]) /\ ds.list[f][ds.posOf[s]] = s
    BY <1>1, DiamondAssumption DEF Inv, Consistent, SelectorsFound
  <2>2. InUse(ds, {}, f)
    BY <2>1 DEF InUse, Inv, Storage
  <2>3. ds.facetPos[f] \in 1 .. Len(ds.facets) /\ ds.facets[ds.facetPos[f]] = f
    BY <1>1, <2>2 DEF Inv, Consistent, FacetsFound
  <2>4. QED
    BY <2>1, <2>3
<1>2. ASSUME Inv, NEW s \in Selectors, NEW f \in Facets,
             NEW i \in 1 .. Len(ds.list[f]), ds.list[f][i] = s
      PROVE  ds.facetOf[s] = f
  BY <1>2 DEF Inv, Consistent, EntriesRouted
<1>3. Inv => LoupeMatchesRouting
  BY <1>1, <1>2 DEF LoupeMatchesRouting
<1>4. QED
  BY <1>3, InvHolds, PTL

\* The table keeps its types: no step of a cut reads or writes a position
\* outside an array, which would leave a storage that is none.
THEOREM TypeCorrect == Spec => []TypeOK
<1> DEFINE Rest == phase \in {"idle", "cutting"} /\ owner \in Facets \cup {Zero}
<1>1. Init => Rest
  BY DiamondAssumption DEF Init
<1>2. ASSUME Rest, [Next]_vars PROVE Rest'
  <2>1. CASE UNCHANGED vars
    BY <1>2, <2>1 DEF vars
  <2>2. ASSUME NEW caller \in Facets, NEW new \in Facets \cup {Zero},
               Begin(caller) \/ TransferOwnership(caller, new)
        PROVE  Rest'
    BY <1>2, <2>2 DEF Begin, TransferOwnership
  <2>3. CASE Commit \/ Revert
    BY <1>2, <2>3 DEF Commit, Revert
  <2>4. ASSUME NEW s \in Selectors, NEW f \in Facets \cup {Zero},
               Add(s, f) \/ Replace(s, f) \/ Remove(s, f)
        PROVE  Rest'
    BY <1>2, <2>4 DEF Add, Replace, Remove
  <2>5. QED
    BY <1>2, <2>1, <2>2, <2>3, <2>4, DiamondAssumption DEF Next
<1>3. Inv /\ Rest => TypeOK
  BY DEF Inv, TypeOK
<1>4. QED
  BY <1>1, <1>2, <1>3, InvHolds, PTL DEF Spec

\* No order of additions, replacements and removals in a cut takes a function
\* away that the router itself implements.
THEOREM ImmutableStays == Spec => []ImmutableInCut
<1>1. Init => ImmutableInCut
  BY DEF Init, ImmutableInCut
<1>2. ASSUME Inv, ImmutableInCut, NEW s \in Selectors, NEW f \in Facets \cup {Zero},
             Add(s, f) \/ Replace(s, f) \/ Remove(s, f)
      PROVE  ImmutableInCut'
  <2>1. ds.facetOf[s] # This
    BY <1>2, DiamondAssumption
       DEF Add, Replace, Remove, CanAdd, CanReplace, CanRemove, Removable
  <2>2. ds'.facetOf = [ds.facetOf EXCEPT ![s] = f]
    BY <1>2, AddInv, ReplaceInv, RemoveInv
  <2>3. begun' = begun /\ phase' = phase
    BY <1>2 DEF Add, Replace, Remove
  <2>4. QED
    BY <1>2, <2>1, <2>2, <2>3 DEF ImmutableInCut
<1>3. ASSUME Inv, ImmutableInCut, [Next]_vars PROVE ImmutableInCut'
  <2>1. CASE UNCHANGED vars
    BY <1>3, <2>1 DEF ImmutableInCut, vars
  <2>2. CASE \E caller \in Facets : Begin(caller)
    BY <2>2 DEF ImmutableInCut, Begin
  <2>3. CASE Commit \/ Revert
    BY <2>3 DEF ImmutableInCut, Commit, Revert
  <2>4. CASE \E caller \in Facets, new \in Facets \cup {Zero} :
               TransferOwnership(caller, new)
    BY <1>3, <2>4 DEF ImmutableInCut, TransferOwnership
  <2>5. QED
    BY <1>2, <1>3, <2>1, <2>2, <2>3, <2>4 DEF Next
<1>4. QED
  BY <1>1, <1>3, InvHolds, PTL DEF Spec
=============================================================================
