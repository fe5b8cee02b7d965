---------------------------- MODULE RouterProofs ----------------------------
(***************************************************************************)
(* Diamond implements RouterTable: seen from outside its transactions, the *)
(* storage of LibDiamond is one table that changes by whole cuts; a swap   *)
(* of its facets leaves the router what it had; and the page that calls    *)
(* it sends what it shows and reports what it has done.                    *)
(***************************************************************************)
EXTENDS DiamondProofs, RouterSwap, SwapPage

\* Calls are routed to contracts only, and a cut under way was begun by an
\* owner, while diamondCut was routed.
CutInv ==
    /\ \A s \in Selectors : {ds.facetOf[s], begun.facetOf[s]} \subseteq HasCode \cup {Zero}
    /\ phase = "cutting" => owner \in Facets /\ begun.facetOf[CutSelector] # Zero

\* A facet that is welcome has code: a selector already routed to it shows so.
LEMMA WelcomeHasCode ==
    ASSUME Inv, CutInv, NEW f, Welcome(f)
    PROVE  f \in HasCode
<1>1. CASE Len(ds.list[f]) = 0
  BY <1>1 DEF Welcome
<1>2. CASE Len(ds.list[f]) # 0
  <2>1. f \in Facets /\ ds.list[f] \in Seq(Selectors)
    BY DEF Inv, Storage, Welcome
  <2>2. 1 \in 1 .. Len(ds.list[f]) /\ ds.list[f][1] \in Selectors
    BY <1>2, <2>1
  <2>3. ds.facetOf[ds.list[f][1]] = f
    BY <2>1, <2>2 DEF Inv, Consistent, EntriesRouted
  <2>4. QED
    BY <2>1, <2>2, <2>3, DiamondAssumption DEF CutInv
<1>3. QED
  BY <1>1, <1>2

\* Every step of every cut routes to contracts only.
LEMMA CutInvStep ==
    ASSUME Inv, CutInv, [Next]_vars
    PROVE  CutInv'
<1>1. CASE UNCHANGED vars
  BY <1>1 DEF CutInv, vars
<1>2. ASSUME NEW caller \in Facets, Begin(caller) PROVE CutInv'
  BY <1>2 DEF CutInv, Begin
<1>3. ASSUME NEW s \in Selectors, NEW f \in Facets \cup {Zero},
             Add(s, f) \/ Replace(s, f) \/ Remove(s, f)
      PROVE  CutInv'
  <2>1. f \in HasCode \cup {Zero}
    BY <1>3, WelcomeHasCode DEF Add, Replace, Remove, CanAdd, CanReplace, CanRemove
  <2>2. ds'.facetOf = [ds.facetOf EXCEPT ![s] = f]
    BY <1>3, AddInv, ReplaceInv, RemoveInv
  <2>3. UNCHANGED <<begun, phase, owner>>
    BY <1>3 DEF Add, Replace, Remove
  <2>4. ds.facetOf \in [Selectors -> Facets \cup {Zero}]
    BY DEF Inv, Storage
  <2>5. QED
    BY <2>1, <2>2, <2>3, <2>4 DEF CutInv
<1>4. CASE Commit \/ Revert
  BY <1>4 DEF CutInv, Commit, Revert
<1>5. ASSUME NEW caller \in Facets, NEW new \in Facets \cup {Zero},
             TransferOwnership(caller, new)
      PROVE  CutInv'
  BY <1>5 DEF CutInv, TransferOwnership
<1>6. QED
  BY <1>1, <1>2, <1>3, <1>4, <1>5 DEF Next

\* The constructor routes diamondCut, and nothing else, to a contract.
LEMMA InitRoutes ==
    ASSUME Init
    PROVE  \E f \in HasCode \ {This} :
              ds.facetOf = [s \in Selectors |-> IF s = CutSelector THEN f ELSE Zero]
<1>1. PICK f \in HasCode \ {This} :
        ds = AddFunction(EnsureFacet(
                [facetOf  |-> [s \in Selectors |-> Zero],
                 posOf    |-> [s \in Selectors |-> 1],
                 list     |-> [g \in Facets |-> << >>],
                 facetPos |-> [g \in Facets |-> 1],
                 facets   |-> << >>], f), CutSelector, f)
  BY DEF Init
<1>2. ds.facetOf = [[s \in Selectors |-> Zero] EXCEPT ![CutSelector] = f]
  BY <1>1, DiamondAssumption DEF AddFunction, EnsureFacet
<1>3. QED
  BY <1>2

\* Each facet's array lists just the selectors routed to the facet.
LEMMA LoupeListsRoutes ==
    ASSUME NEW d \in Storage, Consistent(d, {})
    PROVE  LoupeOf(d) = Router!Listing(d.facetOf)
<1>1. ASSUME NEW f \in Facets
      PROVE  {d.list[f][i] : i \in 1 .. Len(d.list[f])} = {s \in Selectors : d.facetOf[s] = f}
  <2>1. ASSUME NEW i \in 1 .. Len(d.list[f])
        PROVE  d.list[f][i] \in Selectors /\ d.facetOf[d.list[f][i]] = f
    BY <1>1, <2>1 DEF Storage, Consistent, EntriesRouted
  <2>2. ASSUME NEW s \in Selectors, d.facetOf[s] = f
        PROVE  \E i \in 1 .. Len(d.list[f]) : d.list[f][i] = s
    BY <1>1, <2>2, DiamondAssumption DEF Consistent, SelectorsFound
  <2>3. QED
    BY <2>1, <2>2
<1>2. QED
  BY <1>1 DEF LoupeOf, Router!Listing

\* A commit is a whole cut of the table; an abandoned one, and each step of
\* one under way, changes nothing that is seen.
LEMMA StepIsRouterStep ==
    ASSUME Inv, CutInv, ImmutableInCut, [Next]_vars
    PROVE  [Router!RouterNext]_<<Committed.facetOf, LoupeOf(Committed), owner>>
<1>1. ASSUME Committed' = Committed, owner' = owner
      PROVE  UNCHANGED <<Committed.facetOf, LoupeOf(Committed), owner>>
  BY <1>1 DEF LoupeOf
<1>2. CASE UNCHANGED vars
  BY <1>1, <1>2 DEF vars, Committed
<1>3. ASSUME NEW caller \in Facets, Begin(caller) PROVE Committed' = Committed /\ owner' = owner
  BY <1>3 DEF Begin, Committed
<1>4. ASSUME NEW s \in Selectors, NEW f \in Facets \cup {Zero},
             Add(s, f) \/ Replace(s, f) \/ Remove(s, f)
      PROVE  Committed' = Committed /\ owner' = owner
  BY <1>4 DEF Add, Replace, Remove, Committed
<1>5. CASE Revert
  BY <1>1, <1>5 DEF Revert, Committed
<1>6. CASE Commit
  <2>1. Committed = begun /\ Committed' = ds /\ owner' = owner
    BY <1>6 DEF Commit, Committed
  <2>2. owner \in Facets /\ begun.facetOf[CutSelector] # Zero
    BY <1>6 DEF Commit, CutInv
  <2>3. ds.facetOf \in [Selectors -> HasCode \cup {Zero}]
    BY DEF Inv, Storage, CutInv
  <2>4. \A s \in Selectors : begun.facetOf[s] = This => ds.facetOf[s] = This
    BY <1>6 DEF Commit, ImmutableInCut
  <2>5. LoupeOf(Committed)' = Router!Listing(ds.facetOf)
    BY <2>1, LoupeListsRoutes DEF Inv, LoupeOf
  <2>6. Router!Cut
    BY <2>1, <2>2, <2>3, <2>4, <2>5 DEF Router!Cut
  <2>7. QED
    BY <2>6 DEF Router!RouterNext
<1>7. ASSUME NEW caller \in Facets, NEW new \in Facets \cup {Zero},
             TransferOwnership(caller, new)
      PROVE  Router!Transfer
  <2>1. Committed' = Committed
    BY <1>7 DEF TransferOwnership, Committed
  <2>2. UNCHANGED <<Committed.facetOf, LoupeOf(Committed)>>
    BY <2>1 DEF LoupeOf
  <2>3. QED
    BY <1>7, <2>2 DEF TransferOwnership, Router!Transfer
<1>8. QED
  BY <1>1, <1>2, <1>3, <1>4, <1>5, <1>6, <1>7 DEF Next, Router!RouterNext

\* The constructor's table is one the promise may start from.
LEMMA InitIsRouterInit ==
    ASSUME Init
    PROVE  Router!RouterInit
<1>1. Committed = ds /\ owner \in Facets
  BY DEF Init, Committed
<1>2. LoupeOf(ds) = Router!Listing(ds.facetOf)
  BY InitInv, LoupeListsRoutes DEF Inv
<1>3. QED
  BY <1>1, <1>2, InitRoutes DEF Router!RouterInit

\* Routing to contracts, and the two conditions of a cut, hold throughout.
THEOREM CutInvHolds == Spec => []CutInv
<1>1. ASSUME Init PROVE CutInv
  <2>1. begun = ds /\ phase = "idle"
    BY <1>1 DEF Init
  <2>2. QED
    BY <1>1, <2>1, InitRoutes DEF CutInv
<1>2. QED
  BY <1>1, CutInvStep, InvHolds, PTL DEF Spec

\* The router keeps its promise: every behaviour of the contract's storage is,
\* from outside, a behaviour of the one table that changes by whole cuts.
THEOREM RouterImplemented == Spec => ImplementsRouter
<1>1. Init => Router!RouterInit
  BY InitIsRouterInit
<1>2. Inv /\ CutInv /\ ImmutableInCut /\ [Next]_vars
        => [Router!RouterNext]_<<Committed.facetOf, LoupeOf(Committed), owner>>
  BY StepIsRouterStep
<1>3. QED
  BY <1>1, <1>2, InvHolds, CutInvHolds, ImmutableStays, PTL
     DEF Spec, ImplementsRouter, Router!RouterSpec
------------------------------------------------------------------------------
(* The money of a swap *)

\* A fee is a whole amount, and no more than what it is a fee on.
LEMMA FeeBounds ==
    ASSUME NEW amount \in Int, NEW rate \in FeeRates
    PROVE  /\ Fee(amount, rate) \in Int
           /\ amount >= 0 => 0 <= Fee(amount, rate) /\ Fee(amount, rate) <= amount
           /\ rate = 0 => Fee(amount, rate) = 0
<1>1. FeeBase \in Nat \ {0} /\ rate \in Nat /\ rate < FeeBase
  BY SwapAssumption
<1>2. amount * rate \in Int
  BY <1>1
<1>3. Fee(amount, rate) \in Int
  BY <1>1, <1>2 DEF Fee
<1>4. ASSUME amount >= 0
      PROVE  0 <= Fee(amount, rate) /\ Fee(amount, rate) <= amount
  <2>1. 0 <= amount * rate /\ amount * rate <= amount * FeeBase
    BY <1>1, <1>4
  <2>2. amount * FeeBase = FeeBase * amount
    BY <1>1
  <2> DEFINE p == amount * rate
             q == p \div FeeBase
  <2>3. q \in Int /\ FeeBase * q <= p /\ p < FeeBase * q + FeeBase
    BY <1>1, <1>2
  <2>4. FeeBase * q <= FeeBase * amount /\ 0 < FeeBase * q + FeeBase
    BY <1>1, <1>2, <2>1, <2>2, <2>3
  <2>5. q <= amount
    BY <1>1, <2>3, <2>4
  <2>6. FeeBase * q + FeeBase = FeeBase * (q + 1)
    BY <1>1, <2>3
  <2>7. 0 <= q
    BY <1>1, <2>3, <2>4, <2>6
  <2>8. QED
    BY <2>5, <2>7 DEF Fee
<1>5. rate = 0 => Fee(amount, rate) = 0
  BY <1>1 DEF Fee
<1>6. QED
  BY <1>3, <1>4, <1>5

\* Balances in whole amounts; what is enough for the router's to add up.
Whole == [Holders -> [Currencies -> Int]]

\* A transfer changes the payer's and the payee's balance of one currency.
LEMMA MovedFacts ==
    ASSUME NEW b \in Whole, NEW payer \in Holders, NEW payee \in Holders, payer # payee,
           NEW currency \in Currencies, NEW amount \in Int
    PROVE  /\ Moved(b, payer, payee, currency, amount) \in Whole
           /\ \A h \in Holders, c \in Currencies :
                Moved(b, payer, payee, currency, amount)[h][c] =
                   IF c # currency THEN b[h][c]
                   ELSE IF h = payer THEN b[h][c] - amount
                   ELSE IF h = payee THEN b[h][c] + amount
                   ELSE b[h][c]
BY DEF Moved, Whole

\* Between two balances the router has gained, or lost, an amount of a currency.
Gains(b, m, currency, amount) ==
    /\ m \in Whole
    /\ \A c \in Currencies : /\ b["router"][c] \in Int
                           /\ m["router"][c] = b["router"][c] + (IF c = currency THEN amount ELSE 0)

Loses(b, m, currency, amount) ==
    /\ m \in Whole
    /\ \A c \in Currencies : /\ b["router"][c] \in Int
                           /\ m["router"][c] = b["router"][c] - (IF c = currency THEN amount ELSE 0)

LEMMA RouterHolds ==
    ASSUME NEW b \in Whole
    PROVE  \A c \in Currencies : b["router"][c] \in Int
BY DEF Whole, Holders

\* The router pays.
LEMMA RouterPays ==
    ASSUME NEW b \in Whole, NEW payee \in Holders, payee # "router",
           NEW currency \in Currencies, NEW amount \in Int
    PROVE  Loses(b, Moved(b, "router", payee, currency, amount), currency, amount)
<1> DEFINE m == Moved(b, "router", payee, currency, amount)
<1>1. "router" \in Holders /\ \A c \in Currencies : b["router"][c] \in Int
  BY RouterHolds DEF Holders
<1>2. m \in Whole
  BY <1>1, MovedFacts
<1>3. \A h \in Holders, c \in Currencies : m[h][c] =
         IF c # currency THEN b[h][c]
         ELSE IF h = "router" THEN b[h][c] - amount
         ELSE IF h = payee THEN b[h][c] + amount
         ELSE b[h][c]
  BY <1>1, MovedFacts
<1> HIDE DEF m
<1>4. Loses(b, m, currency, amount)
  BY <1>1, <1>2, <1>3 DEF Loses
<1>5. QED
  BY <1>4 DEF m

\* The router is paid.
LEMMA RouterIsPaid ==
    ASSUME NEW b \in Whole, NEW payer \in Holders, payer # "router",
           NEW currency \in Currencies, NEW amount \in Int
    PROVE  Gains(b, Moved(b, payer, "router", currency, amount), currency, amount)
<1> DEFINE m == Moved(b, payer, "router", currency, amount)
<1>1. "router" \in Holders /\ \A c \in Currencies : b["router"][c] \in Int
  BY RouterHolds DEF Holders
<1>2. m \in Whole
  BY <1>1, MovedFacts
<1>3. \A h \in Holders, c \in Currencies : m[h][c] =
         IF c # currency THEN b[h][c]
         ELSE IF h = payer THEN b[h][c] - amount
         ELSE IF h = "router" THEN b[h][c] + amount
         ELSE b[h][c]
  BY <1>1, MovedFacts
<1> HIDE DEF m
<1>4. Gains(b, m, currency, amount)
  BY <1>1, <1>2, <1>3 DEF Gains
<1>5. QED
  BY <1>4 DEF m

\* The parts of a swap and of the aggregator's deal.
LEMMA SwapParts ==
    /\ Native \in Currencies
    /\ \A s \in Swaps : /\ s.value \in Nat /\ s.amount \in Nat
                        /\ s.from \in Currencies /\ s.to \in Currencies
                        /\ s.fromFee \in FeeRates /\ s.toFee \in FeeRates
    /\ \A d \in Deals : d.taken \in Nat /\ \A c \in Currencies : d.back[c] \in Nat
<1>1. SwapAmounts \subseteq Nat /\ FeeRates \subseteq Nat
  BY SwapAssumption
<1>2. Native \in Currencies
  BY DEF Currencies
<1>3. QED
  BY <1>1, <1>2 DEF Swaps, Deals

\* What the router holds when the input is in: the input less the fee.
LEMMA TakenInFacts ==
    ASSUME NEW b \in Whole, NEW s \in Swaps
    PROVE  /\ TakenIn(b, s) \in Whole
           /\ \A c \in Currencies : TakenIn(b, s)["router"][c] =
                b["router"][c]
                + (IF c = Native THEN PassedOn(s)
                   ELSE IF c = s.from THEN s.amount - Fee(s.amount, s.fromFee) ELSE 0)
<1> DEFINE paid == Moved(b, "caller", "router", Native, s.value)
           fee == Fee(s.amount, s.fromFee)
<1>1. /\ s.value \in Int /\ s.amount \in Int /\ s.from \in Currencies /\ s.fromFee \in FeeRates
      /\ Native \in Currencies
  BY SwapParts
<1>2. {"caller", "router", "recipient"} \subseteq Holders
  BY DEF Holders
<1>3. fee \in Int
  BY <1>1, FeeBounds
<1>4. Gains(b, paid, Native, s.value)
  BY <1>1, <1>2, RouterIsPaid
<1> HIDE DEF paid, fee
<1>5. CASE s.from = Native
  <2> DEFINE m == Moved(paid, "router", "recipient", Native, fee)
  <2>1. Loses(paid, m, Native, fee)
    BY <1>1, <1>2, <1>3, <1>4, RouterPays DEF Gains
  <2>2. TakenIn(b, s) = m /\ PassedOn(s) = s.value - fee
    BY <1>5 DEF TakenIn, PassedOn, paid, fee
  <2> HIDE DEF m
  <2>3. QED
    BY <1>1, <1>3, <1>4, <1>5, <2>1, <2>2 DEF Gains, Loses
<1>6. CASE s.from # Native
  <2> DEFINE m == Moved(paid, "caller", "recipient", s.from, fee)
             n == Moved(m, "caller", "router", s.from, s.amount - fee)
  <2>1. m \in Whole /\ \A c \in Currencies : m["router"][c] = paid["router"][c]
    BY <1>1, <1>2, <1>3, <1>4, MovedFacts, SMTT(30) DEF Gains
  <2>2. TakenIn(b, s) = n /\ PassedOn(s) = s.value
    BY <1>6 DEF TakenIn, PassedOn, paid, fee
  <2> HIDE DEF m
  <2>3. s.amount - fee \in Int
    BY <1>1, <1>3
  <2>4. Gains(m, n, s.from, s.amount - fee)
    BY <1>1, <1>2, <2>1, <2>3, RouterIsPaid
  <2> HIDE DEF n
  <2>5. QED
    BY <1>1, <1>3, <1>4, <1>6, <2>1, <2>2, <2>4 DEF Gains, fee
<1>7. QED
  BY <1>5, <1>6

\* What the aggregator leaves the router of the value, of the input, and gives.
LEMMA DealtFacts ==
    ASSUME NEW b \in Whole, NEW s \in Swaps, NEW d \in Deals
    PROVE  /\ Dealt(b, s, d) \in Whole
           /\ \A c \in Currencies : Dealt(b, s, d)["router"][c] =
                b["router"][c] + d.back[c]
                - (IF c = Native THEN PassedOn(s) ELSE IF c = s.from THEN d.taken ELSE 0)
<1> DEFINE given == Moved(b, "router", "aggregator", Native, PassedOn(s))
           taken == IF s.from = Native THEN given
                    ELSE Moved(given, "router", "aggregator", s.from, d.taken)
<1>1. /\ s.value \in Int /\ s.amount \in Int /\ s.from \in Currencies /\ s.fromFee \in FeeRates
      /\ Native \in Currencies /\ d.taken \in Int /\ \A c \in Currencies : d.back[c] \in Int
  BY SwapParts
<1>2. "aggregator" \in Holders
  BY DEF Holders
<1>3. PassedOn(s) \in Int
  BY <1>1, FeeBounds DEF PassedOn
<1>4. Loses(b, given, Native, PassedOn(s))
  BY <1>1, <1>2, <1>3, RouterPays
<1> HIDE DEF given
<1>5. /\ taken \in Whole
      /\ \A c \in Currencies : taken["router"][c] = b["router"][c]
           - (IF c = Native THEN PassedOn(s) ELSE IF c = s.from THEN d.taken ELSE 0)
  <2>1. CASE s.from = Native
    BY <1>1, <1>3, <1>4, <2>1 DEF Loses
  <2>2. CASE s.from # Native
    <3> DEFINE m == Moved(given, "router", "aggregator", s.from, d.taken)
    <3>1. Loses(given, m, s.from, d.taken)
      BY <1>1, <1>2, <1>4, RouterPays, SMTT(30) DEF Loses
    <3> HIDE DEF m
    <3>2. taken = m
      BY <2>2 DEF m
    <3> HIDE DEF taken
    <3>3. QED
      BY <1>1, <1>3, <1>4, <2>2, <3>1, <3>2 DEF Loses
  <2>3. QED
    BY <2>1, <2>2
<1>6. Dealt(b, s, d) = [h \in Holders |-> [c \in Currencies |->
            IF h = "router" THEN taken[h][c] + d.back[c]
            ELSE IF h = "aggregator" THEN taken[h][c] - d.back[c] ELSE taken[h][c]]]
  BY DEF Dealt, given
<1> HIDE DEF taken
<1>7. /\ \A h \in Holders, c \in Currencies : taken[h][c] \in Int
      /\ \A c \in Currencies : b["router"][c] \in Int /\ "router" \in Holders
  BY <1>5, RouterHolds DEF Whole, Holders
<1> DEFINE e == Dealt(b, s, d)
<1>8. e \in Whole
  BY <1>1, <1>6, <1>7 DEF Whole
<1>9. \A c \in Currencies : e["router"][c] = taken["router"][c] + d.back[c]
  BY <1>6, <1>7
<1> HIDE DEF e
<1>10. \A c \in Currencies : e["router"][c] = b["router"][c] + d.back[c]
         - (IF c = Native THEN PassedOn(s) ELSE IF c = s.from THEN d.taken ELSE 0)
  BY <1>1, <1>3, <1>5, <1>7, <1>9
<1>11. QED
  BY <1>8, <1>10 DEF e

\* What a swap leaves the router, in the order of the calls.
LEMMA SwapLeaves ==
    ASSUME balance \in Whole, NEW s \in Swaps, NEW d \in Deals, Swap(s, d)
    PROVE  /\ balance' \in Whole
           /\ \A t \in {s.from, s.to} \ {Native} : balance'["router"][t] =
                IF t = s.to /\ s.toFee = 0 THEN 0 ELSE balance["router"][t]
           /\ balance'["router"][Native] >= balance["router"][Native]
           /\ s.to = Native => balance'["router"][Native] = balance["router"][Native]
<1> DEFINE in == TakenIn(balance, s)
           dealt == Dealt(in, s, d)
           back == Refunded(dealt, balance, s)
           excess == back["router"][s.to] - OutputBefore(balance, in, s)
           fee == Fee(excess, s.toFee)
           rest == s.amount - Fee(s.amount, s.fromFee)
           paid == Moved(back, "router", "caller", s.to, excess - fee)
<1>1. /\ s.value \in Int /\ s.amount \in Int /\ s.from \in Currencies /\ s.to \in Currencies
      /\ s.toFee \in FeeRates /\ Native \in Currencies /\ d.taken \in Int /\ d.taken >= 0
      /\ \A c \in Currencies : d.back[c] \in Int /\ d.back[c] >= 0
      /\ {"caller", "recipient"} \subseteq Holders
      /\ rest \in Int /\ PassedOn(s) \in Int
      /\ s.toFee \in Int /\ s.toFee >= 0
  <2>1. Fee(s.amount, s.fromFee) \in Int /\ s.value \in Int /\ s.amount \in Int
    BY SwapParts, FeeBounds
  <2>2. PassedOn(s) \in Int
    BY <2>1 DEF PassedOn
  <2>3. s.toFee \in Nat
    <3>1. FeeRates \subseteq Nat /\ s.toFee \in FeeRates
      BY SwapParts, SwapAssumption
    <3>2. QED
      BY <3>1
  <2>4. QED
    BY <2>1, <2>2, <2>3, SwapParts DEF Holders
<1>2. /\ in \in Whole
      /\ \A c \in Currencies : in["router"][c] = balance["router"][c]
           + (IF c = Native THEN PassedOn(s) ELSE IF c = s.from THEN rest ELSE 0)
  BY TakenInFacts
<1>3. balance' = PaidOut(back, s, excess) /\ (s.from # Native => d.taken <= rest)
  BY DEF Swap
<1> HIDE DEF in, rest
<1>4. /\ dealt \in Whole
      /\ \A c \in Currencies : dealt["router"][c] = in["router"][c] + d.back[c]
           - (IF c = Native THEN PassedOn(s) ELSE IF c = s.from THEN d.taken ELSE 0)
  BY <1>2, DealtFacts
<1>5. /\ back = IF s.from = Native THEN dealt
                ELSE Moved(dealt, "router", "caller", s.from,
                           dealt["router"][s.from] - balance["router"][s.from])
      /\ \A c \in Currencies : balance["router"][c] \in Int /\ in["router"][c] \in Int
                               /\ dealt["router"][c] \in Int
  BY <1>1, <1>2, <1>4, RouterHolds DEF Refunded
<1> HIDE DEF dealt
<1>6. /\ back \in Whole
      /\ \A c \in Currencies : back["router"][c] =
           IF c = s.from /\ c # Native THEN balance["router"][c] ELSE dealt["router"][c]
  <2>1. CASE s.from = Native
    BY <1>4, <1>5, <2>1
  <2>2. CASE s.from # Native
    <3> DEFINE over == dealt["router"][s.from] - balance["router"][s.from]
               m == Moved(dealt, "router", "caller", s.from, over)
    <3>1. over \in Int
      BY <1>1, <1>5
    <3> HIDE DEF over
    <3>2. Loses(dealt, m, s.from, over)
      BY <1>1, <1>4, <3>1, RouterPays
    <3>3. back = m
      BY <1>5, <2>2 DEF over
    <3> HIDE DEF m, back
    <3>4. QED
      BY <1>1, <1>5, <2>2, <3>2, <3>3 DEF over, Loses
  <2>3. QED
    BY <2>1, <2>2
<1> HIDE DEF back
<1>7. /\ excess \in Int /\ excess >= 0
      /\ OutputBefore(balance, in, s) =
            IF s.to = Native THEN balance["router"][Native]
            ELSE IF s.toFee > 0 THEN in["router"][s.to] ELSE 0
  <2>1. OutputBefore(balance, in, s) \in Int
    BY <1>1, <1>5 DEF OutputBefore
  <2>2. back["router"][s.to] \in Int
    BY <1>1, <1>6, RouterHolds
  <2>3. excess >= 0
    BY DEF Swap, back, dealt, in
  <2>4. QED
    BY <2>1, <2>2, <2>3 DEF OutputBefore
<1>8. back["router"][s.to] \in Int /\ excess = back["router"][s.to] - OutputBefore(balance, in, s)
  BY <1>1, <1>6, RouterHolds
<1> HIDE DEF excess
<1>9. fee \in Int
  BY <1>1, <1>7, FeeBounds
<1> HIDE DEF fee
<1>10. /\ balance' \in Whole
       /\ \A c \in Currencies : balance'["router"][c] =
            back["router"][c] - (IF c = s.to THEN excess ELSE 0)
  <2>1. excess - fee \in Int
    BY <1>7, <1>9
  <2>2. Loses(back, paid, s.to, excess - fee)
    BY <1>1, <1>6, <2>1, RouterPays
  <2>3. balance' = Moved(paid, "router", "recipient", s.to, fee)
    BY <1>3 DEF PaidOut, fee
  <2> DEFINE last == Moved(paid, "router", "recipient", s.to, fee)
  <2> HIDE DEF paid
  <2>4. paid \in Whole
    BY <2>2 DEF Loses
  <2>5. Loses(paid, last, s.to, fee)
    BY <1>1, <1>9, <2>4, RouterPays
  <2>6. balance' = last
    BY <2>3 DEF last
  <2> HIDE DEF last
  <2>7. \A c \in Currencies : back["router"][c] \in Int
    BY <1>6, RouterHolds
  <2>8. QED
    BY <1>1, <1>7, <1>9, <2>2, <2>5, <2>6, <2>7 DEF Loses
<1> DEFINE held == balance["router"]
           left == balance'["router"]
<1>11. ASSUME NEW t \in {s.from, s.to} \ {Native}
       PROVE  left[t] = IF t = s.to /\ s.toFee = 0 THEN 0 ELSE held[t]
  <2>1. t \in Currencies /\ held[t] \in Int /\ in["router"][t] \in Int /\ d.back[t] \in Int
    BY <1>1, <1>5, <1>11
  <2>2. CASE t # s.to
    <3>1. back["router"][t] = held[t]
      BY <1>6, <1>11, <2>1, <2>2
    <3>2. left[t] = back["router"][t] - 0
      BY <1>10, <2>1, <2>2
    <3>3. QED
      BY <2>1, <2>2, <3>1, <3>2
  <2>3. CASE t = s.to /\ s.toFee = 0
    <3>1. OutputBefore(balance, in, s) = 0
      BY <1>7, <1>11, <2>3
    <3>2. back["router"][t] \in Int /\ excess = back["router"][t]
      BY <1>8, <2>3, <3>1
    <3>3. left[t] = back["router"][t] - excess
      BY <1>10, <2>1, <2>3
    <3>4. QED
      BY <2>3, <3>2, <3>3
  <2>4. CASE t = s.to /\ s.toFee > 0 /\ t = s.from
    <3>1. back["router"][t] = held[t] /\ in["router"][t] = held[t] + rest /\ rest >= 0
      BY <1>1, <1>2, <1>3, <1>6, <1>11, <2>1, <2>4
    <3>2. OutputBefore(balance, in, s) = in["router"][t]
      BY <1>7, <1>11, <2>4
    <3>3. left[t] = back["router"][t] - excess /\ excess = back["router"][t] - in["router"][t]
      BY <1>8, <1>10, <2>1, <2>4, <3>2
    <3>4. left[t] = held[t]
      BY <1>1, <1>7, <2>1, <3>1, <3>3
    <3>5. s.toFee # 0
      BY <2>4
    <3>6. QED
      BY <3>4, <3>5
  <2>5. CASE t = s.to /\ s.toFee > 0 /\ t # s.from
    <3>1. in["router"][t] = held[t] /\ back["router"][t] = held[t] + d.back[t]
      BY <1>1, <1>2, <1>4, <1>6, <1>11, <2>1, <2>5
    <3>2. OutputBefore(balance, in, s) = in["router"][t]
      BY <1>7, <1>11, <2>5
    <3>3. left[t] = back["router"][t] - excess /\ excess = back["router"][t] - in["router"][t]
      BY <1>8, <1>10, <2>1, <2>5, <3>2
    <3>4. left[t] = held[t]
      BY <2>1, <3>1, <3>3
    <3>5. s.toFee # 0
      BY <2>5
    <3>6. QED
      BY <3>4, <3>5
  <2>6. QED
    BY <1>1, <2>2, <2>3, <2>4, <2>5
<1>12. back["router"][Native] = held[Native] + d.back[Native] /\ held[Native] \in Int
  BY <1>1, <1>2, <1>4, <1>5, <1>6
<1>13. /\ left[Native] >= held[Native]
       /\ s.to = Native => left[Native] = held[Native]
  BY <1>1, <1>7, <1>8, <1>10, <1>12
<1>14. QED
  BY <1>10, <1>11, <1>13

\* Balances are whole numbers.
Solid == balance \in Whole

\* What RouterKeepsItsOwn says of one step.
KeptBySwap ==
    swaps' # swaps =>
        /\ \A t \in {lastSwap'.from, lastSwap'.to} \ {Native} :
             balance'["router"][t] = balance["router"][t]
             \/ (t = lastSwap'.to /\ lastSwap'.toFee = 0)
        /\ balance'["router"][Native] >= balance["router"][Native]
        /\ lastSwap'.to = Native => balance'["router"][Native] = balance["router"][Native]

\* Whatever the aggregator takes of its allowance and gives back, in whatever
\* currency, for any fees below one hundred percent: a swap leaves the router
\* what it held before, except of an output token without a fee.
THEOREM RouterKeeps == SwapSpec => RouterKeepsItsOwn
<1>1. SwapInit => Solid
  <2> SUFFICES ASSUME SwapInit PROVE Solid
    OBVIOUS
  <2>1. balance \in [Holders -> [Currencies -> Nat]]
    BY SwapAssumption DEF SwapInit, Holders, Currencies
  <2>2. \A h \in Holders : balance[h] \in [Currencies -> Int]
    <3> SUFFICES ASSUME NEW h \in Holders PROVE balance[h] \in [Currencies -> Int]
      OBVIOUS
    <3>1. balance[h] \in [Currencies -> Nat]
      BY <2>1
    <3>2. QED
      BY <3>1
  <2>3. balance = [h \in Holders |-> balance[h]]
    BY <2>1
  <2>4. QED
    BY <2>2, <2>3 DEF Solid, Whole
<1>2. Solid /\ [SwapNext]_swapVars => Solid'
  BY SwapLeaves DEF Solid, SwapNext, swapVars
<1>3. Solid /\ [SwapNext]_swapVars => [KeptBySwap]_swapVars
  <2> SUFFICES ASSUME Solid, NEW s \in Swaps, NEW d \in Deals, Swap(s, d)
               PROVE  KeptBySwap
    BY DEF Solid, SwapNext
  <2>1. lastSwap' = s
    BY DEF Swap
  <2>2. QED
    BY <2>1, SwapLeaves DEF Solid, KeptBySwap
<1>4. SwapSpec => [][KeptBySwap]_swapVars
  BY <1>1, <1>2, <1>3, PTL DEF SwapSpec
<1>5. [][KeptBySwap]_swapVars => RouterKeepsItsOwn
  <2>1. [KeptBySwap]_swapVars =>
          [swaps' # swaps =>
            LET held == balance["router"]
                left == balance'["router"]
                s == lastSwap'
            IN /\ \A t \in {s.from, s.to} \ {Native} :
                     left[t] = held[t] \/ (t = s.to /\ s.toFee = 0)
               /\ left[Native] >= held[Native]
               /\ s.to = Native => left[Native] = held[Native]]_swapVars
    BY DEF KeptBySwap
  <2>2. QED
    BY <2>1, PTL DEF RouterKeepsItsOwn
<1>6. QED
  BY <1>4, <1>5
-----------------------------------------------------------------------------
(* The swap page.                                                          *)

\* What is asked for, and what is selected: a quote that was selected for other
\* inputs has their addresses, and goes when the quotes for the new ones come
\* without its id.
Quoted ==
    /\ Enabled => book[Key] # "none"
    /\ selected # NoQuote => Alike(selected.key.pair, shown.pair)
    /\ selected # NoQuote /\ HasData(book, Key) => selected.listed

PageQuotes ==
    /\ shown \in Inputs /\ debounced \in PageAmounts \cup {0}
    /\ book \in [QuoteKeys -> {"none", "asked", "failed", "data"}]
    /\ selected \in Selections \cup {NoQuote}
    /\ Quoted

\* The client follows the inputs, unless the switch failed.
PageWallet ==
    /\ pageClient \in PageChains /\ failedSwitch \subseteq PageChains
    /\ switching \in PageChains \cup {NoChain} /\ lastProcessed \in PageChains \cup {NoChain}
    /\ IF Mounted
       THEN /\ pageClient = ChainOf[shown.pair] \/ ChainOf[shown.pair] \in failedSwitch
            /\ pageClient = lastProcessed \/ lastProcessed \in failedSwitch
       ELSE switching = lastProcessed /\ switching = ChainOf[shown.pair]

\* What one attempt promises.
Faithful(a) ==
    /\ Alike(a.quote.pair, a.seen.inputs.pair)
    /\ a.quote.pair # a.seen.inputs.pair => a.seen.kept
    /\ a.quote.amount # a.seen.inputs.amount => a.seen.pending \/ a.seen.kept
    /\ a.client # ChainOf[a.seen.inputs.pair] => a.seen.unswitched

Reported(a) ==
    /\ a.pc \in {"approve", "send"} /\ a.attached => a.noted
    /\ a.told => a.reported \/ ~a.attached

GoodAttempts == {a \in Attempted : Faithful(a) /\ Reported(a)}

PageSwaps ==
    /\ executing \in BOOLEAN
    /\ attempt \in [Attempts -> GoodAttempts \cup {Unused, Spent}]
    /\ \A i \in Attempts : UnderWay(i) => executing
    /\ \A i, j \in Attempts : UnderWay(i) /\ UnderWay(j) => i = j

PageButton ==
    /\ swapStep \in {"idle", "approving", "success", "error", "cancelled"}
    /\ swapTimers \subseteq {"input", "auto"} /\ edits \in 0..MaxEdits

PageInv == PageQuotes /\ PageWallet /\ PageSwaps /\ PageButton

\* The invariant says what the runs check.
LEMMA PageInvIsEnough == PageInv => PageTypeOK /\ SentIsShown /\ SwapsAreReported
<1> SUFFICES ASSUME PageInv PROVE PageTypeOK /\ SentIsShown /\ SwapsAreReported
  OBVIOUS
<1>1. PageTypeOK
  BY DEF PageInv, PageQuotes, PageWallet, PageSwaps, PageButton, PageTypeOK, GoodAttempts
<1>2. ASSUME NEW i \in Tried PROVE attempt[i] \in GoodAttempts
  BY DEF PageInv, PageSwaps, Tried
<1>3. SentIsShown
  BY <1>2 DEF SentIsShown, GoodAttempts, Faithful
<1>4. SwapsAreReported
  BY <1>2 DEF PageInv, PageSwaps, SwapsAreReported, GoodAttempts, Reported
<1>5. QED
  BY <1>1, <1>3, <1>4

-----------------------------------------------------------------------------
(* The quotes.                                                             *)

LEMMA KeyTyped ==
    ASSUME NEW inputs \in Inputs, NEW a \in PageAmounts \cup {0}
    PROVE  /\ KeyOf(inputs, a).amount = a /\ KeyOf(inputs, a).pair = inputs.pair
           /\ a # 0 => KeyOf(inputs, a) \in QuoteKeys
BY DEF KeyOf, Inputs, QuoteKeys

\* A selection that is kept is for what it was for, and listed if it is looked for.
LEMMA CompareQuotes ==
    ASSUME NEW s \in Selections \cup {NoQuote}, NEW there \in BOOLEAN, NEW t \in Reselected(s, there)
    PROVE  /\ t \in Selections \cup {NoQuote}
           /\ t # NoQuote => s # NoQuote /\ t.key = s.key
           /\ t # NoQuote /\ there => t.listed
BY DEF Reselected, Selections

\* The query becomes another one.
LEMMA EnterQuotes ==
    ASSUME PageQuotes, shown' \in Inputs, debounced' \in PageAmounts \cup {0},
           NEW s \in Selections \cup {NoQuote}, s # NoQuote => Alike(s.key.pair, shown'.pair),
           Enter(KeyOf(shown', debounced'), s)
    PROVE  PageQuotes'
<1> DEFINE k == KeyOf(shown', debounced')
<1>1. k.amount = debounced' /\ (debounced' # 0 => k \in QuoteKeys)
  BY KeyTyped
<1>2. Key' = k /\ (Enabled' <=> debounced' # 0)
  BY DEF Key, KeyOf, Enabled
<1>3. book' = Wanted(k) /\ selected' \in Reselected(s, HasData(book, k))
  BY DEF Enter
<1> HIDE DEF k
<1>4. book' \in [QuoteKeys -> {"none", "asked", "failed", "data"}]
  BY <1>1, <1>3 DEF PageQuotes, Wanted
<1>5. debounced' # 0 => book'[k] = (IF book[k] \in {"none", "failed"} THEN "asked" ELSE book[k])
  BY <1>1, <1>3 DEF PageQuotes, Wanted
<1>6. /\ selected' \in Selections \cup {NoQuote}
      /\ selected' # NoQuote => s # NoQuote /\ selected'.key = s.key
      /\ selected' # NoQuote /\ HasData(book, k) => selected'.listed
  BY <1>3, CompareQuotes DEF HasData
<1>8. HasData(book', k) => HasData(book, k)
  BY <1>1, <1>5 DEF HasData
<1>9. Quoted'
  <2>1. Enabled' => book'[Key'] # "none"
    BY <1>1, <1>2, <1>5 DEF PageQuotes
  <2>2. selected' # NoQuote => Alike(selected'.key.pair, shown'.pair)
    BY <1>6
  <2>3. selected' # NoQuote /\ HasData(book', Key') => selected'.listed
    BY <1>2, <1>6, <1>8
  <2>4. QED
    BY <2>1, <2>2, <2>3 DEF Quoted
<1>10. QED
  BY <1>4, <1>6, <1>9 DEF PageQuotes

\* Only the amount in the input changes.
LEMMA AmountQuotes ==
    ASSUME PageQuotes, NEW a \in PageAmounts \cup {0}, AmountChanges(a)
    PROVE  PageQuotes' /\ shown'.pair = shown.pair /\ UNCHANGED walletState
<1>1. shown' \in Inputs /\ shown'.pair = shown.pair
  BY DEF PageQuotes, AmountChanges, Inputs
<1>2. selected' \in {selected, NoQuote} /\ UNCHANGED <<debounced, book, walletState>>
  BY DEF AmountChanges
<1>3. Key' = Key /\ Enabled' = Enabled
  BY <1>1, <1>2 DEF Key, KeyOf, Enabled
<1>4. Quoted'
  BY <1>1, <1>2, <1>3 DEF PageQuotes, Quoted, HasData
<1>5. QED
  BY <1>1, <1>2, <1>4 DEF PageQuotes

LEMMA AnsweredQuotes ==
    ASSUME PageQuotes, NEW k \in QuoteKeys, NEW ok \in BOOLEAN, QuoteAnswered(k, ok)
    PROVE  PageQuotes'
<1>1. /\ book[k] \in {"asked", "data"} /\ UNCHANGED <<shown, debounced>>
      /\ book' = [book EXCEPT ![k] = IF ok \/ book[k] = "data" THEN "data" ELSE "failed"]
  BY DEF QuoteAnswered
<1>2. selected' \in IF ok /\ k = Key THEN Reselected(selected, TRUE) ELSE {selected}
  BY DEF QuoteAnswered
<1>3. /\ book' \in [QuoteKeys -> {"none", "asked", "failed", "data"}]
      /\ book'[k] = IF ok \/ book[k] = "data" THEN "data" ELSE "failed"
      /\ \A h \in QuoteKeys : h # k => book'[h] = book[h]
  BY <1>1 DEF PageQuotes
<1>4. Key' = Key /\ Enabled' = Enabled /\ (Enabled => Key \in QuoteKeys /\ Key.amount # 0)
  BY <1>1, KeyTyped DEF Key, KeyOf, Enabled, PageQuotes
<1>5. /\ selected' \in Selections \cup {NoQuote}
      /\ selected' # NoQuote => selected # NoQuote /\ selected'.key = selected.key
      /\ selected' # NoQuote => selected'.listed \/ (selected' = selected /\ ~(ok /\ k = Key))
  BY <1>2, CompareQuotes DEF PageQuotes
<1>6. Key.amount = debounced
  BY DEF Key, KeyOf
<1>7. Quoted'
  <2>1. Enabled' => book'[Key'] # "none"
    BY <1>1, <1>3, <1>4 DEF PageQuotes, Quoted
  <2>2. selected' # NoQuote => Alike(selected'.key.pair, shown'.pair)
    BY <1>1, <1>5 DEF PageQuotes, Quoted
  <2>3. ~(ok /\ k = Key) /\ HasData(book', Key') => HasData(book, Key)
    BY <1>1, <1>3, <1>4, <1>6 DEF HasData, Enabled
  <2>4. selected' # NoQuote /\ HasData(book', Key') => selected'.listed
    BY <1>5, <2>3 DEF PageQuotes, Quoted
  <2>5. QED
    BY <2>1, <2>2, <2>4 DEF Quoted
<1>8. QED
  BY <1>1, <1>3, <1>5, <1>7 DEF PageQuotes

LEMMA AskedQuotes ==
    ASSUME PageQuotes, NEW b \in BOOLEAN, Refetch(b) \/ SelectQuote
    PROVE  PageQuotes'
<1>1. /\ UNCHANGED <<shown, debounced>> /\ Key' = Key /\ Enabled' = Enabled /\ debounced # 0
      /\ Key \in QuoteKeys /\ Key.amount = debounced /\ Key.pair = shown.pair
  BY KeyTyped DEF Refetch, SelectQuote, Key, KeyOf, Enabled, PageQuotes, HasData
<1>2. CASE Refetch(b)
  <2>1. book' = [book EXCEPT ![Key] = "asked"] /\ selected' \in {NoQuote, selected}
    BY <1>2 DEF Refetch
  <2>2. book' \in [QuoteKeys -> {"none", "asked", "failed", "data"}] /\ book'[Key] = "asked"
    BY <1>1, <2>1 DEF PageQuotes
  <2>3. QED
    BY <1>1, <2>1, <2>2 DEF PageQuotes, Quoted, HasData
<1>3. CASE SelectQuote
  <2>1. book' = book /\ selected' = [key |-> Key, listed |-> TRUE]
    BY <1>3 DEF SelectQuote
  <2>2. selected' \in Selections /\ selected'.key = Key /\ selected'.listed
    BY <1>1, <2>1 DEF Selections
  <2>3. QED
    BY <1>1, <2>1, <2>2 DEF PageQuotes, Quoted, Alike
<1>4. QED
  BY <1>2, <1>3

\* What leaves inputs, quotes and the wallet alone.
LEMMA SameQuotes == ASSUME PageQuotes, UNCHANGED <<shown, quoteState>> PROVE PageQuotes'
BY DEF PageQuotes, Quoted, HasData, Key, KeyOf, Enabled, quoteState

LEMMA SameWallet ==
    ASSUME PageWallet, shown'.pair = shown.pair, UNCHANGED walletState PROVE PageWallet'
BY DEF PageWallet, walletState, Mounted

-----------------------------------------------------------------------------
(* The tokens and the wallet.                                              *)

LEMMA SelectTokensQuotes ==
    ASSUME PageQuotes, NEW p \in TokenPairs, NEW a \in PageAmounts \cup {0}, SelectTokens(p, a)
    PROVE  PageQuotes'
<1> DEFINE s == IF Alike(p, shown.pair) /\ ~Far(shown.amount, a) THEN selected ELSE NoQuote
<1>1. /\ shown' = [pair |-> p, amount |-> a] /\ debounced' = debounced
      /\ Enter(KeyOf(shown', debounced'), s)
  BY DEF SelectTokens
<1>2. shown' \in Inputs /\ shown'.pair = p /\ debounced' \in PageAmounts \cup {0}
  BY <1>1 DEF Inputs, PageQuotes
<1>3. s \in Selections \cup {NoQuote} /\ (s # NoQuote => Alike(s.key.pair, shown'.pair))
  BY <1>2 DEF PageQuotes, Quoted, Alike
<1> HIDE DEF s
<1>4. QED
  BY <1>1, <1>2, <1>3, EnterQuotes

LEMMA SelectTokensWallet ==
    ASSUME PageWallet, NEW p \in TokenPairs, NEW a \in PageAmounts \cup {0}, SelectTokens(p, a)
    PROVE  PageWallet'
<1>1. /\ shown'.pair = p /\ UNCHANGED <<pageClient, failedSwitch>> /\ Mounted
      /\ lastProcessed' = ChainOf[p]
      /\ IF ChainOf[p] \in {pageClient, lastProcessed} THEN switching' = NoChain
         ELSE switching' = ChainOf[p]
  BY DEF SelectTokens
<1>2. ChainOf[p] \in PageChains
  BY DEF PageChains
<1>3. CASE ChainOf[p] \in {pageClient, lastProcessed}
  BY <1>1, <1>2, <1>3 DEF PageWallet, Mounted
<1>4. CASE ChainOf[p] \notin {pageClient, lastProcessed}
  BY <1>1, <1>2, <1>4, PageAssumption DEF PageWallet, Mounted
<1>5. QED
  BY <1>3, <1>4

LEMMA SwitchedWallet == ASSUME PageWallet, NEW ok \in BOOLEAN, Switched(ok) PROVE PageWallet'
<1>1. /\ UNCHANGED <<shown, lastProcessed>> /\ ~Mounted /\ switching' = NoChain
      /\ pageClient' = (IF ok THEN switching ELSE DefaultChain)
      /\ failedSwitch' = IF ok THEN failedSwitch \ {switching} ELSE failedSwitch \cup {switching}
  BY DEF Switched
<1>2. switching \in PageChains /\ DefaultChain \in PageChains
  BY <1>1 DEF PageWallet, Mounted, PageChains
<1>3. QED
  BY <1>1, <1>2 DEF PageWallet, Mounted

-----------------------------------------------------------------------------
(* The swaps.                                                              *)

\* What an attempt promises is about what it was started with.
LEMMA FaithfulStays ==
    ASSUME NEW a, NEW b, Faithful(a), b.quote = a.quote, b.client = a.client, b.seen = a.seen
    PROVE  Faithful(b)
BY DEF Faithful

\* The states of attempts that never were one, or are over.
LEMMA NotGood == \A a \in GoodAttempts : a # Unused /\ a # Spent
BY DEF GoodAttempts, Attempted, Unused, Spent

\* Some attempts lose their button, or what it noted.
LEMMA Forgotten ==
    ASSUME PageSwaps, attempt' = [i \in Attempts |-> attempt'[i]], executing' = executing,
           \A i \in Attempts :
              \/ attempt'[i] = attempt[i]
              \/ attempt'[i] = [attempt[i] EXCEPT !.attached = FALSE] /\ attempt[i] \notin {Unused, Spent}
              \/ /\ attempt'[i] = [attempt[i] EXCEPT !.noted = FALSE]
                 /\ attempt[i] \notin {Unused, Spent} /\ ~(UnderWay(i) /\ attempt[i].attached)
    PROVE  PageSwaps'
<1>1. ASSUME NEW i \in Attempts
      PROVE  attempt'[i] \in GoodAttempts \cup {Unused, Spent} /\ (UnderWay(i)' <=> UnderWay(i))
  <2>1. CASE attempt'[i] = attempt[i]
    BY <2>1 DEF PageSwaps, UnderWay
  <2>2. CASE attempt[i] \notin {Unused, Spent}
    <3>1. attempt[i] \in GoodAttempts /\ attempt[i] \in Attempted
      BY <2>2 DEF PageSwaps, GoodAttempts
    <3>2. /\ attempt'[i] \in Attempted /\ attempt'[i].pc = attempt[i].pc
          /\ attempt'[i].quote = attempt[i].quote /\ attempt'[i].client = attempt[i].client
          /\ attempt'[i].seen = attempt[i].seen /\ attempt'[i].told = attempt[i].told
          /\ attempt'[i].reported = attempt[i].reported
          /\ attempt'[i].attached => attempt[i].attached
          /\ UnderWay(i) /\ attempt'[i].attached => attempt'[i].noted = attempt[i].noted
      BY <3>1, ZenonT(60) DEF Attempted
    <3>3. Faithful(attempt'[i])
      BY <3>1, <3>2, FaithfulStays DEF GoodAttempts
    <3>4. Reported(attempt'[i])
      BY <3>1, <3>2 DEF Reported, GoodAttempts, UnderWay
    <3>5. QED
      BY <3>2, <3>3, <3>4 DEF GoodAttempts, UnderWay
  <2>3. QED
    BY <2>1, <2>2
<1>2. QED
  BY <1>1 DEF PageSwaps

LEMMA ResetSwaps ==
    ASSUME PageSwaps, NEW timers, ResetSwapState(timers), executing' = executing
    PROVE  PageSwaps'
<1>1. CASE Executing
  BY <1>1, Forgotten DEF ResetSwapState, PageSwaps
<1>2. CASE ~Executing
  <2>1. attempt' = [i \in Attempts |->
               IF attempt[i] \in {Unused, Spent} \/ ~attempt[i].attached THEN attempt[i]
               ELSE [attempt[i] EXCEPT !.noted = FALSE]]
    BY <1>2 DEF ResetSwapState
  <2>2. \A i \in Attempts : ~(UnderWay(i) /\ attempt[i].attached)
    BY <1>2 DEF Executing
  <2>3. QED
    BY <2>1, <2>2, Forgotten
<1>3. QED
  BY <1>1, <1>2

LEMMA ResetOnChangeSwaps ==
    ASSUME PageSwaps, NEW timers, ResetOnChange(timers), executing' = executing
    PROVE  PageSwaps'
<1>1. CASE attempt' = attempt
  BY <1>1, Forgotten DEF PageSwaps
<1>2. CASE ResetSwapState(timers)
  BY <1>2, ResetSwaps
<1>3. QED
  BY <1>1, <1>2 DEF ResetOnChange

LEMMA UnmountSwaps == ASSUME PageSwaps, Unmount, executing' = executing PROVE PageSwaps'
BY Forgotten DEF Unmount

\* One attempt goes on.
LEMMA OneGoesOn ==
    ASSUME PageSwaps, NEW i \in Attempts, NEW b \in GoodAttempts \cup {Unused, Spent},
           attempt' = [attempt EXCEPT ![i] = b], executing' \in BOOLEAN,
           b.pc \in {"approve", "send"} => executing' /\ (executing => UnderWay(i)),
           executing' \/ ~executing \/ UnderWay(i)
    PROVE  PageSwaps'
<1>1. attempt' \in [Attempts -> GoodAttempts \cup {Unused, Spent}]
  BY DEF PageSwaps
<1>2. attempt'[i] = b /\ \A j \in Attempts : j # i => attempt'[j] = attempt[j]
  BY DEF PageSwaps
<1>3. \A j \in Attempts : j # i => (UnderWay(j)' <=> UnderWay(j))
  BY <1>2 DEF UnderWay
<1>4. UnderWay(i)' => executing' /\ (executing => UnderWay(i))
  BY <1>2 DEF UnderWay
<1>5. \A j \in Attempts : UnderWay(j)' => executing'
  BY <1>3, <1>4 DEF PageSwaps
<1>6. \A j, h \in Attempts : UnderWay(j)' /\ UnderWay(h)' => j = h
  BY <1>3, <1>4 DEF PageSwaps
<1>7. QED
  BY <1>1, <1>5, <1>6 DEF PageSwaps

\* What is active is what is shown, or is kept.
LEMMA NewIsFaithful ==
    ASSUME PageQuotes, PageWallet, NEW i \in Attempts, Clickable(i), NEW stage \in {"pause", "approve"},
           swapStep # "idle" \/ ~IsLoading
    PROVE  /\ New(ActiveQuote, stage) \in Attempted /\ Faithful(New(ActiveQuote, stage))
           /\ New(ActiveQuote, stage).pc = stage /\ ~New(ActiveQuote, stage).told
<1> DEFINE q == ActiveQuote
           a == New(q, stage)
<1> SUFFICES a \in Attempted /\ Faithful(a) /\ a.pc = stage /\ ~a.told
  OBVIOUS
<1>1. Mounted /\ shown.amount # 0 /\ q # NoQuote
  BY DEF Clickable
<1>2. /\ Key.pair = shown.pair /\ Key.amount = debounced /\ shown.pair \in TokenPairs
      /\ debounced # 0 => Key \in QuoteKeys
  BY KeyTyped DEF PageQuotes, Key, Inputs
<1>3. q = IF selected # NoQuote THEN selected.key
          ELSE IF HasData(book, Key) THEN Key ELSE NoQuote
  BY DEF ActiveQuote
<1> HIDE DEF q
<1>4. q \in QuoteKeys
  BY <1>1, <1>2, <1>3 DEF PageQuotes, Selections, HasData
<1>5. /\ a.pc = stage /\ a.quote = q /\ a.client = pageClient /\ ~a.told
      /\ a.seen.inputs = shown /\ a.seen.pending = (debounced # shown.amount)
      /\ a.seen.kept = (/\ selected # NoQuote /\ selected.key # Key
                        /\ ~Enabled \/ book[Key] = "failed" \/ swapStep # "idle" \/ selected.listed)
      /\ a.seen.unswitched = (ChainOf[shown.pair] \in failedSwitch)
  BY DEF New
<1>6. a \in Attempted
  BY <1>4 DEF New, Attempted, Sights, PageQuotes, PageWallet
<1>7. pageClient # ChainOf[shown.pair] => ChainOf[shown.pair] \in failedSwitch
  BY <1>1 DEF PageWallet
<1>8. Alike(q.pair, shown.pair)
  BY <1>1, <1>2, <1>3 DEF PageQuotes, Quoted, Alike
<1>9. CASE q = Key
  BY <1>2, <1>5, <1>6, <1>7, <1>8, <1>9 DEF Faithful
<1>10. CASE q # Key
  <2>1. selected # NoQuote /\ selected.key # Key /\ (HasData(book, Key) => selected.listed)
    BY <1>1, <1>3, <1>10 DEF PageQuotes, Quoted
  <2>2. ~Enabled \/ book[Key] = "failed" \/ swapStep # "idle" \/ selected.listed
    <3> SUFFICES ASSUME Enabled, swapStep = "idle", ~HasData(book, Key) PROVE book[Key] = "failed"
      BY <2>1
    <3>1. book[Key] # "none" /\ book[Key] # "asked" /\ book[Key] # "data" /\ Key \in QuoteKeys
      BY <1>2, <2>1 DEF PageQuotes, Quoted, IsLoading, HasData, Enabled
    <3>2. QED
      BY <3>1 DEF PageQuotes
  <2>3. a.seen.kept
    BY <1>5, <2>1, <2>2
  <2>4. QED
    BY <1>5, <1>6, <1>7, <1>8, <2>3 DEF Faithful
<1>11. QED
  BY <1>9, <1>10

\* The executor takes it if it has none.
LEMMA StartSwapSwaps ==
    ASSUME PageSwaps, NEW i \in Attempts, NEW a \in Attempted, Faithful(a),
           a.told => a.reported \/ ~a.attached,
           StartSwap(i, a)
    PROVE  PageSwaps'
<1> DEFINE b == IF executing THEN Spent ELSE [a EXCEPT !.pc = "approve", !.noted = TRUE]
<1>1. attempt' = [attempt EXCEPT ![i] = b] /\ executing' = TRUE
  BY DEF StartSwap
<1>2. b \in GoodAttempts \cup {Spent} /\ (b.pc \in {"approve", "send"} => ~executing)
  <2>1. CASE executing
    BY <2>1 DEF Spent
  <2>2. CASE ~executing
    <3>1. /\ b \in Attempted /\ b.pc = "approve" /\ b.noted = TRUE /\ b.told = a.told
          /\ b.reported = a.reported /\ b.attached = a.attached
          /\ b.quote = a.quote /\ b.client = a.client /\ b.seen = a.seen
      BY <2>2 DEF Attempted
    <3>2. Faithful(b)
      BY <3>1, FaithfulStays
    <3>3. Reported(b)
      BY <3>1 DEF Reported
    <3>4. QED
      BY <2>2, <3>1, <3>2, <3>3 DEF GoodAttempts
  <2>3. QED
    BY <2>1, <2>2
<1> HIDE DEF b
<1>3. QED
  BY <1>1, <1>2, OneGoesOn

LEMMA HandleSwapSwaps ==
    ASSUME PageQuotes, PageWallet, PageSwaps, NEW i \in Attempts, HandleSwap(i) PROVE PageSwaps'
<1>1. /\ Clickable(i) /\ StartSwap(i, New(ActiveQuote, "approve"))
      /\ swapStep # "idle" \/ ~IsLoading
  BY DEF HandleSwap
<1>2. QED
  BY <1>1, NewIsFaithful, StartSwapSwaps

LEMMA RetrySwapSwaps ==
    ASSUME PageQuotes, PageWallet, PageSwaps, NEW i \in Attempts, RetrySwap(i) PROVE PageSwaps'
<1> DEFINE a == New(ActiveQuote, "pause")
<1>1. /\ Clickable(i) /\ swapStep # "idle" /\ executing' = executing
      /\ attempt' = [attempt EXCEPT ![i] = a]
  BY DEF RetrySwap
<1>2. a \in Attempted /\ Faithful(a) /\ a.pc = "pause" /\ ~a.told
  BY <1>1, NewIsFaithful
<1> HIDE DEF a
<1>3. a \in GoodAttempts
  BY <1>2 DEF GoodAttempts, Reported
<1>4. QED
  BY <1>1, <1>2, <1>3, OneGoesOn DEF PageSwaps

\* What an attempt under way, or about to be, is.
LEMMA TriedIsGood ==
    ASSUME PageSwaps, NEW i \in Attempts, attempt[i].pc \in {"pause", "approve", "send"}
    PROVE  attempt[i] \in GoodAttempts /\ attempt[i] \in Attempted
BY DEF PageSwaps, GoodAttempts, Unused, Spent

LEMMA RetryGoesOnSwaps ==
    ASSUME PageSwaps, NEW i \in Attempts, RetryGoesOn(i) PROVE PageSwaps'
<1>1. attempt[i].pc = "pause" /\ StartSwap(i, attempt[i])
  BY DEF RetryGoesOn
<1>2. attempt[i] \in GoodAttempts /\ attempt[i] \in Attempted
  BY <1>1, TriedIsGood
<1>3. Faithful(attempt[i]) /\ (attempt[i].told => attempt[i].reported \/ ~attempt[i].attached)
  BY <1>2 DEF GoodAttempts, Reported
<1>4. QED
  BY <1>1, <1>2, <1>3, StartSwapSwaps

LEMMA ApprovedSwaps == ASSUME PageSwaps, NEW i \in Attempts, Approved(i) PROVE PageSwaps'
<1> DEFINE a == attempt[i]
           b == [a EXCEPT !.pc = "send"]
<1>1. a.pc = "approve" /\ attempt' = [attempt EXCEPT ![i] = b] /\ executing' = executing
  BY DEF Approved
<1>2. a \in GoodAttempts /\ a \in Attempted
  BY <1>1, TriedIsGood
<1> HIDE DEF a
<1>3. /\ b \in Attempted /\ b.pc = "send" /\ b.noted = a.noted /\ b.told = a.told
      /\ b.reported = a.reported /\ b.attached = a.attached
      /\ b.quote = a.quote /\ b.client = a.client /\ b.seen = a.seen
  BY <1>2 DEF Attempted
<1> HIDE DEF b
<1>4. b \in GoodAttempts
  BY <1>1, <1>2, <1>3, FaithfulStays DEF GoodAttempts, Reported
<1>5. UnderWay(i)
  BY <1>1 DEF UnderWay, a
<1>6. QED
  BY <1>1, <1>4, <1>5, OneGoesOn DEF PageSwaps

LEMMA SwapFailsSwaps ==
    ASSUME PageSwaps, NEW i \in Attempts, NEW step, NEW sent \in BOOLEAN, SwapFails(i, step, sent)
    PROVE  PageSwaps'
<1> DEFINE a == attempt[i]
           c == [a EXCEPT !.pc = "ended", !.sent = TRUE, !.noted = FALSE]
           b == IF sent THEN c ELSE Spent
<1>1. UnderWay(i) /\ attempt' = [attempt EXCEPT ![i] = b] /\ executing' = FALSE
  BY DEF SwapFails
<1>2. a \in GoodAttempts /\ a \in Attempted
  BY <1>1, TriedIsGood DEF UnderWay
<1> HIDE DEF a
<1>3. /\ c \in Attempted /\ c.pc = "ended" /\ c.told = a.told
      /\ c.reported = a.reported /\ c.attached = a.attached
      /\ c.quote = a.quote /\ c.client = a.client /\ c.seen = a.seen
  BY <1>2 DEF Attempted
<1> HIDE DEF c
<1>4. c \in GoodAttempts
  BY <1>2, <1>3, FaithfulStays DEF GoodAttempts, Reported
<1>5. b \in GoodAttempts \cup {Spent} /\ b.pc \notin {"approve", "send"}
  BY <1>3, <1>4 DEF Spent
<1> HIDE DEF b
<1>6. QED
  BY <1>1, <1>5, OneGoesOn

LEMMA SwapSucceedsSwaps == ASSUME PageSwaps, NEW i \in Attempts, SwapSucceeds(i) PROVE PageSwaps'
<1> DEFINE a == attempt[i]
           b == [a EXCEPT !.pc = "ended", !.sent = TRUE, !.told = TRUE,
                          !.reported = a.attached /\ a.noted, !.noted = FALSE]
<1>1. a.pc = "send" /\ attempt' = [attempt EXCEPT ![i] = b] /\ executing' = FALSE
  BY DEF SwapSucceeds
<1>2. UnderWay(i) /\ a \in GoodAttempts /\ a \in Attempted
  BY <1>1, TriedIsGood DEF UnderWay
<1> HIDE DEF a
<1>3. /\ b \in Attempted /\ b.pc = "ended" /\ b.reported = (a.attached /\ a.noted)
      /\ b.attached = a.attached
      /\ b.quote = a.quote /\ b.client = a.client /\ b.seen = a.seen
  BY <1>2 DEF Attempted
<1> HIDE DEF b
<1>4. Reported(b) /\ Faithful(b)
  BY <1>1, <1>2, <1>3, FaithfulStays DEF GoodAttempts, Reported
<1>5. b \in GoodAttempts /\ b.pc \notin {"approve", "send"}
  BY <1>3, <1>4 DEF GoodAttempts
<1>6. QED
  BY <1>1, <1>2, <1>5, OneGoesOn

-----------------------------------------------------------------------------
(* The page as a whole.                                                    *)

LEMMA PageInitInv == PageInit => PageInv
<1> SUFFICES ASSUME PageInit PROVE PageInv
  OBVIOUS
<1>1. /\ shown \in Inputs /\ ChainOf[shown.pair] = DefaultChain /\ DefaultChain \in PageChains
      /\ debounced = 0 /\ selected = NoQuote /\ switching = NoChain
      /\ pageClient = DefaultChain /\ lastProcessed = DefaultChain /\ failedSwitch = {}
  BY DEF PageInit, Inputs, PageChains
<1>2. PageQuotes
  BY <1>1 DEF PageInit, PageQuotes, Quoted, Enabled
<1>3. PageWallet
  BY <1>1 DEF PageWallet, Mounted
<1>4. PageSwaps
  BY DEF PageInit, PageSwaps, UnderWay, Unused
<1>5. PageButton
  BY PageAssumption DEF PageInit, PageButton
<1>6. QED
  BY <1>2, <1>3, <1>4, <1>5 DEF PageInv

\* The button's own state is what it may be.
LEMMA ResetButton ==
    ASSUME PageButton, NEW timers, timers \subseteq {"input", "auto"},
           ResetSwapState(timers) \/ ResetOnChange(timers), edits' \in 0..MaxEdits
    PROVE  PageButton'
<1>1. CASE ResetSwapState(timers)
  BY <1>1 DEF ResetSwapState, PageButton
<1>2. CASE UNCHANGED swapStep /\ swapTimers' = timers
  BY <1>2 DEF PageButton
<1>3. QED
  BY <1>1, <1>2 DEF ResetOnChange

LEMMA SameButton == ASSUME PageButton, UNCHANGED <<buttonState, edits>> PROVE PageButton'
BY DEF PageButton, buttonState

LEMMA SameSwaps == ASSUME PageSwaps, UNCHANGED <<executing, attempt>> PROVE PageSwaps'
BY DEF PageSwaps, UnderWay

LEMMA EditedOnce == ASSUME PageButton, edits < MaxEdits, edits' = edits + 1 PROVE edits' \in 0..MaxEdits
BY PageAssumption DEF PageButton

\* The quotes arrive, and are asked for.
LEMMA QuotesInv ==
    ASSUME PageInv,
           \/ \E k \in QuoteKeys, ok \in BOOLEAN : QuoteAnswered(k, ok)
           \/ \E b \in BOOLEAN : Refetch(b)
           \/ SelectQuote \/ Debounce
    PROVE  PageInv'
<1>1. UNCHANGED <<walletState, buttonState, executing, attempt, edits>> /\ shown' = shown
  BY DEF QuoteAnswered, Refetch, SelectQuote, Debounce
<1>2. PageQuotes'
  <2>1. CASE Debounce
    <3>1. debounced' = shown'.amount /\ shown' \in Inputs /\ debounced' \in PageAmounts \cup {0}
      BY <1>1, <2>1 DEF Debounce, PageInv, PageQuotes, Inputs
    <3>2. Enter(KeyOf(shown', debounced'), selected)
      BY <1>1, <2>1, <3>1 DEF Debounce
    <3>3. /\ selected \in Selections \cup {NoQuote}
          /\ selected # NoQuote => Alike(selected.key.pair, shown'.pair)
      BY <1>1 DEF PageInv, PageQuotes, Quoted
    <3>4. QED
      BY <3>1, <3>2, <3>3, EnterQuotes DEF PageInv
  <2>2. QED
    BY <2>1, AnsweredQuotes, AskedQuotes DEF PageInv
<1>3. QED
  BY <1>1, <1>2, SameWallet, SameSwaps, SameButton DEF PageInv

\* The inputs change, by the user or by a timer.
LEMMA InputsInv ==
    ASSUME PageInv,
           \/ \E a \in PageAmounts \cup {0} : Type(a)
           \/ Dismiss \/ InputTimer
    PROVE  PageInv'
<1>1. PageButton /\ PageSwaps /\ PageQuotes /\ PageWallet
  BY DEF PageInv
<1>2. executing' = executing
  BY DEF Type, Dismiss, InputTimer
<1>3. PageQuotes' /\ PageWallet'
  <2>1. (\E a \in PageAmounts \cup {0} : AmountChanges(a)) \/ UNCHANGED <<shown, quoteState, walletState>>
    BY DEF Type, Dismiss, InputTimer
  <2>2. QED
    BY <1>1, <2>1, AmountQuotes, SameQuotes, SameWallet
<1>4. edits' \in 0..MaxEdits
  BY <1>1, EditedOnce DEF Type, Dismiss, InputTimer, PageButton
<1>5. \/ ResetOnChange(swapTimers) \/ ResetSwapState(swapTimers)
      \/ ResetOnChange(swapTimers \ {"input"})
      \/ swapTimers' = swapTimers \ {"input"} /\ UNCHANGED <<swapStep, attempt>>
  BY DEF Type, Dismiss, InputTimer
<1>6. PageSwaps'
  BY <1>1, <1>2, <1>5, ResetSwaps, ResetOnChangeSwaps, SameSwaps
<1>7. PageButton'
  <2>1. swapTimers \subseteq {"input", "auto"} /\ swapTimers \ {"input"} \subseteq {"input", "auto"}
    BY <1>1 DEF PageButton
  <2>2. CASE swapTimers' = swapTimers \ {"input"} /\ UNCHANGED <<swapStep, attempt>>
    BY <1>1, <1>4, <2>2 DEF PageButton
  <2>3. QED
    BY <1>1, <1>4, <1>5, <2>1, <2>2, ResetButton
<1>8. QED
  BY <1>3, <1>6, <1>7 DEF PageInv

LEMMA TokensInv ==
    ASSUME PageInv,
           \/ \E a \in PageAmounts \cup {0}, p \in TokenPairs : SelectTokens(p, a)
           \/ \E ok \in BOOLEAN : Switched(ok)
    PROVE  PageInv'
<1>1. PageButton /\ PageSwaps /\ PageQuotes /\ PageWallet
  BY DEF PageInv
<1>2. executing' = executing
  BY DEF SelectTokens, Switched
<1>3. PageQuotes' /\ PageWallet'
  BY <1>1, SelectTokensQuotes, SelectTokensWallet, SwitchedWallet, SameQuotes DEF Switched
<1>4. UNCHANGED <<buttonState, attempt>> \/ ResetOnChange(swapTimers) \/ Unmount
  BY DEF SelectTokens, Switched
<1>5. edits' \in 0..MaxEdits
  BY <1>1, EditedOnce DEF SelectTokens, Switched, PageButton
<1>6. PageSwaps'
  BY <1>1, <1>2, <1>4, ResetOnChangeSwaps, UnmountSwaps, SameSwaps
<1>7. PageButton'
  BY <1>1, <1>4, <1>5, ResetButton DEF PageButton, Unmount, buttonState
<1>8. QED
  BY <1>3, <1>6, <1>7 DEF PageInv

LEMMA SwapsInv ==
    ASSUME PageInv, NEW i \in Attempts,
           \/ HandleSwap(i) \/ RetrySwap(i) \/ RetryGoesOn(i) \/ Approved(i) \/ SwapSucceeds(i)
           \/ \E sent \in BOOLEAN, step \in {"error", "cancelled"} : SwapFails(i, step, sent)
    PROVE  PageInv'
<1>1. UNCHANGED <<shown, quoteState, walletState, edits>>
  BY DEF HandleSwap, RetrySwap, RetryGoesOn, Approved, SwapSucceeds, SwapFails
<1>2. PageSwaps'
  BY HandleSwapSwaps, RetrySwapSwaps, RetryGoesOnSwaps, ApprovedSwaps, SwapSucceedsSwaps,
     SwapFailsSwaps DEF PageInv
<1>3. /\ swapStep' \in {swapStep, "idle", "approving", "success", "error", "cancelled"}
      /\ swapTimers' \in {swapTimers, swapTimers \ {"auto"}, {"input", "auto"}}
  BY DEF HandleSwap, RetrySwap, RetryGoesOn, Approved, SwapSucceeds, SwapFails, StartSwap, buttonState
<1>4. PageButton'
  BY <1>1, <1>3 DEF PageInv, PageButton
<1>5. QED
  BY <1>1, <1>2, <1>4, SameQuotes, SameWallet DEF PageInv

LEMMA PageNextInv == PageInv /\ [PageNext]_pageVars => PageInv'
<1> SUFFICES ASSUME PageInv, [PageNext]_pageVars PROVE PageInv'
  OBVIOUS
<1>1. CASE AutoTimer \/ TimersPutOff \/ UNCHANGED pageVars
  <2>1. UNCHANGED <<shown, quoteState, walletState, executing, attempt, edits>>
    BY <1>1 DEF AutoTimer, TimersPutOff, pageVars
  <2>2. swapStep' \in {swapStep, "idle"} /\ swapTimers' \subseteq swapTimers
    BY <1>1 DEF AutoTimer, TimersPutOff, pageVars, buttonState
  <2>3. PageButton'
    BY <2>1, <2>2 DEF PageInv, PageButton
  <2>4. QED
    BY <2>1, <2>3, SameQuotes, SameWallet, SameSwaps DEF PageInv
<1>2. QED
  BY <1>1, QuotesInv, InputsInv, TokensInv, SwapsInv DEF PageNext

(* What is sent is what was shown when the button was clicked, or one of   *)
(* the named exceptions, for any pairs and chains, any number of edits and *)
(* attempts, and whatever arrives in between.                              *)
THEOREM PageSendsWhatItShows == PageSpec => []SentIsShown
BY PageInitInv, PageNextInv, PageInvIsEnough, PTL DEF PageSpec

(* One swap is under way at a time, and one that succeeded is reported,    *)
(* unless its button was replaced.                                         *)
THEOREM PageReportsItsSwaps == PageSpec => []SwapsAreReported
BY PageInitInv, PageNextInv, PageInvIsEnough, PTL DEF PageSpec

=============================================================================
