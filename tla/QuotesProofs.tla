----------------------------- MODULE QuotesProofs -----------------------------
(***************************************************************************)
(* The best quote is first, for any number of tools, any amounts and any    *)
(* MaxQuotes.                                                               *)
(*                                                                          *)
(* The library's induction theorems take the predicate as an operator,      *)
(* which the provers cannot instantiate.  SetInduction takes a set instead: *)
(* it follows from the fact that < is well founded on Nat, and is what      *)
(* unfolds the loops of the two sorts, and what their invariants are proved *)
(* with.  The state needs only what the sorts promise: the same quotes,     *)
(* none given twice, the best first.                                        *)
(***************************************************************************)
EXTENDS Quotes, FiniteSetTheorems, WellFoundedInduction, TLAPS

\* Induction, with a set for the predicate.
LEMMA SetInduction ==
    ASSUME NEW T, 0 \in T, \A n \in Nat : n \in T => n + 1 \in T
    PROVE  Nat \subseteq T
<1> DEFINE U == Nat \ T
           R == OpToRel(<, Nat)
<1> SUFFICES ASSUME U # {} PROVE FALSE
  OBVIOUS
<1>1. IsWellFoundedOn(R, Nat) /\ U \subseteq Nat
  BY NatLessThanWellFounded
<1>2. \A x, y \in Nat : y < x => <<y, x>> \in R
  BY DEF OpToRel
<1> HIDE DEF R, U
<1>3. PICK n \in U : \A m \in U : ~ (<<m, n>> \in R)
  BY <1>1, WFMin
<1>4. n \in Nat /\ n \notin T /\ n # 0
  BY <1>3 DEF U
<1>5. n - 1 \in Nat /\ n - 1 < n /\ (n - 1) + 1 = n
  BY <1>4
<1>6. n - 1 \in T
  BY <1>1, <1>2, <1>3, <1>4, <1>5 DEF U
<1>7. QED
  BY <1>4, <1>5, <1>6

\* From one index to the next.
LEMMA Upwards ==
    ASSUME NEW m \in Nat, NEW n \in Nat, NEW T,
           m \in T, \A j \in (m + 1)..n : j - 1 \in T => j \in T
    PROVE  m..n \subseteq T
<1> DEFINE U == {k \in Nat : m + k <= n => m + k \in T}
<1>1. 0 \in U
  OBVIOUS
<1>2. ASSUME NEW k \in Nat, k \in U PROVE k + 1 \in U
  <2> SUFFICES ASSUME m + (k + 1) <= n PROVE m + (k + 1) \in T
    OBVIOUS
  <2>1. m + k \in T /\ m + (k + 1) \in (m + 1)..n /\ (m + (k + 1)) - 1 = m + k
    BY <1>2
  <2>2. QED
    BY <2>1
<1> HIDE DEF U
<1>3. Nat \subseteq U
  BY <1>1, <1>2, SetInduction
<1>4. ASSUME NEW j \in m..n PROVE j \in T
  <2>1. j - m \in Nat /\ m + (j - m) = j
    OBVIOUS
  <2>2. QED
    BY <1>3, <2>1 DEF U
<1>5. QED
  BY <1>4

\* u is the run of a loop over m+1..n that starts at s.
IsRun(u, m, n, S, s, Step) ==
    /\ u \in [m..n -> S]
    /\ \A j \in m..n : u[j] = IF j = m THEN s ELSE Step[<<u[j - 1], j>>]

\* A loop has a run.
LEMMA LoopsRun ==
    ASSUME NEW m \in Nat, NEW n \in Nat, NEW S, NEW s \in S, NEW Step \in [S \X ((m + 1)..n) -> S]
    PROVE  \E u : IsRun(u, m, n, S, s, Step)
<1> USE DEF IsRun
<1> DEFINE Run(u, k) == \A j \in m..n : j <= k =>
                           u[j] = IF j = m THEN s ELSE Step[<<u[j - 1], j>>]
           T == {k \in Nat : \E u \in [m..n -> S] : Run(u, k)}
<1>1. m \in T
  <2>1. [j \in m..n |-> s] \in [m..n -> S] /\ Run([j \in m..n |-> s], m)
    OBVIOUS
  <2>2. QED
    BY <2>1
<1>2. ASSUME NEW k \in (m + 1)..n, k - 1 \in T PROVE k \in T
  <2>1. PICK u \in [m..n -> S] : Run(u, k - 1)
    BY <1>2
  <2> DEFINE x == Step[<<u[k - 1], k>>]
             v == [j \in m..n |-> IF j = k THEN x ELSE u[j]]
  <2>2. x \in S
    OBVIOUS
  <2> HIDE DEF x
  <2>3. v \in [m..n -> S]
    BY <2>2
  <2>4. ASSUME NEW j \in m..n, j <= k
        PROVE  v[j] = IF j = m THEN s ELSE Step[<<v[j - 1], j>>]
    <3>1. CASE j = k
      <4>1. j # m /\ v[j] = x /\ v[j - 1] = u[k - 1]
        BY <3>1
      <4>2. QED
        BY <3>1, <4>1 DEF x
    <3>2. CASE j # k
      <4>1. j <= k - 1 /\ v[j] = u[j] /\ (j # m => v[j - 1] = u[j - 1])
        BY <2>4, <3>2
      <4>2. QED
        BY <2>1, <4>1
    <3>3. QED
      BY <3>1, <3>2
  <2> HIDE DEF v
  <2>5. Run(v, k)
    BY <2>4
  <2>6. k \in Nat
    OBVIOUS
  <2>7. QED
    BY <2>3, <2>5, <2>6
<1> HIDE DEF T
<1>3. m..n \subseteq T
  BY <1>1, <1>2, Upwards
<1>4. CASE n \in m..n
  <2>1. n \in T
    BY <1>3, <1>4
  <2>2. PICK u \in [m..n -> S] : Run(u, n)
    BY <2>1 DEF T
  <2>3. QED
    BY <2>2
<1>5. CASE n \notin m..n
  <2>1. \A j : j \notin m..n
    BY <1>5
  <2>2. [j \in m..n |-> s] \in [m..n -> S]
    OBVIOUS
  <2>3. QED
    BY <2>1, <2>2
<1>6. QED
  BY <1>4, <1>5

------------------------------------------------------------------------------
(* Lists of quotes, and the loops of the two sorts *)

Lists(n) == {t \in Seq(Quote) : Len(t) = n}

LEMMA ListedAmounts ==
    ASSUME NEW n \in Nat, NEW t \in Lists(n), NEW k \in 1..n
    PROVE  t[k] \in Quote /\ t[k].source \in Sources /\ t[k].amount \in QuoteAmounts
             /\ t[k].amount \in Nat
<1>1. t[k] \in Quote
  BY DEF Lists
<1>2. t[k].source \in Sources /\ t[k].amount \in QuoteAmounts
  BY <1>1 DEF Quote
<1>3. QED
  BY <1>1, <1>2, QuotesAssumption

\* Exchanging two quotes.
LEMMA SwappedFacts ==
    ASSUME NEW n \in Nat, NEW t \in Lists(n), NEW i \in 1..n, NEW j \in 1..n
    PROVE  /\ Swapped(t, i, j) \in Lists(n)
           /\ Swapped(t, i, j)[i] = t[j] /\ Swapped(t, i, j)[j] = t[i]
           /\ \A k \in 1..n : k # i /\ k # j => Swapped(t, i, j)[k] = t[k]
BY DEF Swapped, Lists

LEMMA ExchangedFacts ==
    ASSUME NEW n \in Nat, NEW t \in Lists(n), NEW i \in 1..n, NEW j \in 1..n
    PROVE  Exchanged(t, i, j) \in Lists(n)
BY SwappedFacts DEF Exchanged

\* The inner loop of LiFi's sort, after it has compared s[i] with s[j].
ComparedTo(s, i) ==
    CHOOSE upTo : upTo = [j \in i..Len(s) |->
                            IF j = i THEN s ELSE Exchanged(upTo[j - 1], i, j)]

LEMMA ComparedUnfolds ==
    ASSUME NEW n \in Nat, NEW s \in Lists(n), NEW i \in 1..n
    PROVE  /\ Compared(s, i) = ComparedTo(s, i)[n]
           /\ ComparedTo(s, i)[i] = s
           /\ \A j \in (i + 1)..n :
                ComparedTo(s, i)[j] = Exchanged(ComparedTo(s, i)[j - 1], i, j)
<1> DEFINE S == Lists(n)
           Step == [x \in S \X ((i + 1)..n) |-> Exchanged(x[1], i, x[2])]
<1>1. Len(s) = n /\ i \in Nat
  BY DEF Lists
<1>2. Step \in [S \X ((i + 1)..n) -> S]
  BY ExchangedFacts
<1>3. \A t \in S, j \in (i + 1)..n : Step[<<t, j>>] = Exchanged(t, i, j)
  OBVIOUS
<1>0. s \in S
  OBVIOUS
<1> HIDE DEF S, Step
<1>4. PICK u : IsRun(u, i, n, S, s, Step)
  <2>1. i \in Nat /\ n \in Nat
    BY <1>1
  <2>2. QED
    BY <1>0, <1>2, <2>1, LoopsRun, Zenon
<1>5. u = [j \in i..n |-> IF j = i THEN s ELSE Exchanged(u[j - 1], i, j)]
  <2>1. \A j \in i..n : j # i => u[j - 1] \in S /\ j \in (i + 1)..n
    BY <1>1, <1>4 DEF IsRun
  <2>2. \A j \in i..n : u[j] = IF j = i THEN s ELSE Exchanged(u[j - 1], i, j)
    BY <1>3, <1>4, <2>1 DEF IsRun
  <2>3. QED
    BY <1>4, <2>2 DEF IsRun
<1>6. ComparedTo(s, i) = [j \in i..n |->
                            IF j = i THEN s ELSE Exchanged(ComparedTo(s, i)[j - 1], i, j)]
  BY <1>1, <1>5 DEF ComparedTo
<1>7. Compared(s, i) = ComparedTo(s, i)[n]
  BY <1>1 DEF Compared, ComparedTo
<1>8. i \in i..n /\ \A j \in (i + 1)..n : j \in i..n /\ j # i
  BY <1>1
<1>9. QED
  BY <1>6, <1>7, <1>8

------------------------------------------------------------------------------
(* What one place of a sort does to the list: from i on, quotes change      *)
(* their places                                                             *)

In(x, t) == \E k \in 1..Len(t) : t[k] = x
Distinct(t) == \A j, k \in 1..Len(t) : t[j].source = t[k].source => j = k

Moves(n, t, s, i) ==
    /\ t \in Lists(n) /\ s \in Lists(n)
    /\ \A k \in 1..(i - 1) : t[k] = s[k]
    /\ \A k \in i..n : \E l \in i..n : t[k] = s[l]
    /\ \A x : In(x, t) <=> In(x, s)
    /\ Distinct(s) => Distinct(t)

BestAt(n, t, i) == \A k \in i..n : t[k].amount <= t[i].amount
SortedTo(n, t, i) == \A j \in 1..i : BestAt(n, t, j)

LEMMA MovesReflexive ==
    ASSUME NEW n \in Nat, NEW t \in Lists(n), NEW i \in Nat
    PROVE  Moves(n, t, t, i)
BY DEF Moves

LEMMA MovesTransitive ==
    ASSUME NEW n \in Nat, NEW t, NEW u, NEW v, NEW i \in Nat, Moves(n, t, u, i), Moves(n, u, v, i)
    PROVE  Moves(n, t, v, i)
<1>1. \A x : In(x, t) <=> In(x, v)
  BY DEF Moves
<1>2. Distinct(v) => Distinct(t)
  BY DEF Moves
<1>3. \A k \in 1..(i - 1) : t[k] = v[k]
  BY DEF Moves
<1>4. \A k \in i..n : \E l \in i..n : t[k] = v[l]
  BY DEF Moves
<1>5. QED
  BY <1>1, <1>2, <1>3, <1>4 DEF Moves

\* What moves from i on moves from an earlier place on.
LEMMA MovesEarlier ==
    ASSUME NEW n \in Nat, NEW t, NEW u, NEW i \in 1..n, NEW h \in 1..i, Moves(n, t, u, i)
    PROVE  Moves(n, t, u, h)
<1>1. \A k \in 1..(h - 1) : t[k] = u[k]
  BY DEF Moves
<1>2. ASSUME NEW k \in h..n PROVE \E l \in h..n : t[k] = u[l]
  <2>1. CASE k < i
    BY <2>1 DEF Moves
  <2>2. CASE k >= i
    <3>1. PICK l \in i..n : t[k] = u[l]
      BY <2>2 DEF Moves
    <3>2. l \in h..n
      BY <3>1
    <3>3. QED
      BY <3>1, <3>2
  <2>3. QED
    BY <2>1, <2>2
<1>3. QED
  BY <1>1, <1>2 DEF Moves

LEMMA SwappedMoves ==
    ASSUME NEW n \in Nat, NEW t \in Lists(n), NEW i \in 1..n, NEW j \in i..n
    PROVE  Moves(n, Swapped(t, i, j), t, i)
<1> DEFINE u == Swapped(t, i, j)
           to == [k \in 1..n |-> IF k = i THEN j ELSE IF k = j THEN i ELSE k]
<1>1. j \in 1..n
  OBVIOUS
<1>2. u \in Lists(n) /\ u[i] = t[j] /\ u[j] = t[i] /\ \A k \in 1..n : k # i /\ k # j => u[k] = t[k]
  BY <1>1, SwappedFacts
<1> HIDE DEF u
<1>3. \A k \in 1..n : to[k] \in 1..n /\ to[to[k]] = k /\ u[k] = t[to[k]]
  BY <1>1, <1>2
<1>4. \A k \in i..n : to[k] \in i..n /\ k \in 1..n
  OBVIOUS
<1>5. \A k \in 1..(i - 1) : u[k] = t[k]
  BY <1>2
<1> HIDE DEF to
<1>6. Len(t) = n /\ Len(u) = n
  BY <1>2 DEF Lists
<1>7. \A x : In(x, u) <=> In(x, t)
  BY <1>3, <1>6 DEF In
<1>8. Distinct(t) => Distinct(u)
  <2> SUFFICES ASSUME Distinct(t), NEW k \in 1..n, NEW l \in 1..n, u[k].source = u[l].source
               PROVE  k = l
    BY <1>6 DEF Distinct
  <2>1. to[k] = to[l]
    BY <1>3, <1>6 DEF Distinct
  <2>2. QED
    BY <1>3, <2>1
<1>9. \A k \in i..n : \E l \in i..n : u[k] = t[l]
  BY <1>3, <1>4
<1>10. QED
  BY <1>2, <1>5, <1>7, <1>8, <1>9 DEF Moves, u

\* A place that holds the best of the rest extends what is sorted.
LEMMA PlaceSorts ==
    ASSUME NEW n \in Nat, NEW i \in 1..n, NEW t, NEW u,
           Moves(n, u, t, i), SortedTo(n, t, i - 1), BestAt(n, u, i)
    PROVE  SortedTo(n, u, i)
<1> SUFFICES ASSUME NEW j \in 1..i, NEW k \in j..n PROVE u[k].amount <= u[j].amount
  BY DEF SortedTo, BestAt
<1>1. CASE j = i
  BY <1>1 DEF BestAt
<1>2. CASE j # i
  <2>1. j \in 1..(i - 1) /\ u[j] = t[j]
    BY <1>2 DEF Moves
  <2>2. \A l \in j..n : t[l].amount <= t[j].amount
    BY <2>1 DEF SortedTo, BestAt
  <2>3. CASE k < i
    <3>1. k \in 1..(i - 1) /\ u[k] = t[k]
      BY <2>3 DEF Moves
    <3>2. QED
      BY <2>1, <2>2, <3>1
  <2>4. CASE k >= i
    <3>1. PICK l \in i..n : u[k] = t[l]
      BY <2>4 DEF Moves
    <3>2. l \in j..n
      BY <3>1
    <3>3. QED
      BY <2>1, <2>2, <3>1, <3>2
  <2>5. QED
    BY <2>3, <2>4
<1>3. QED
  BY <1>1, <1>2

\* A loop that puts the best of the rest at each place sorts.
LEMMA LoopSorts ==
    ASSUME NEW n \in Nat, NEW s \in Lists(n), NEW u, u[0] = s,
           \A i \in 1..n : u[i - 1] \in Lists(n) =>
              Moves(n, u[i], u[i - 1], i) /\ BestAt(n, u[i], i)
    PROVE  Moves(n, u[n], s, 1) /\ SortedTo(n, u[n], n)
<1> DEFINE T == {i \in Nat : Moves(n, u[i], s, 1) /\ SortedTo(n, u[i], i)}
<1>1. 0 \in T
  <2>1. Moves(n, u[0], s, 1)
    BY MovesReflexive
  <2>2. SortedTo(n, u[0], 0)
    BY DEF SortedTo
  <2>3. QED
    BY <2>1, <2>2
<1>2. ASSUME NEW i \in (0 + 1)..n, i - 1 \in T PROVE i \in T
  <2>1. i \in 1..n /\ i \in Nat /\ Moves(n, u[i - 1], s, 1) /\ SortedTo(n, u[i - 1], i - 1)
    BY <1>2
  <2>2. u[i - 1] \in Lists(n)
    BY <2>1 DEF Moves
  <2>3. Moves(n, u[i], u[i - 1], i) /\ BestAt(n, u[i], i)
    BY <2>1, <2>2
  <2>4. Moves(n, u[i], u[i - 1], 1)
    BY <2>1, <2>3, MovesEarlier
  <2>5. Moves(n, u[i], s, 1)
    BY <2>1, <2>4, MovesTransitive
  <2>6. SortedTo(n, u[i], i)
    BY <2>1, <2>3, PlaceSorts
  <2>7. QED
    BY <2>1, <2>5, <2>6
<1> HIDE DEF T
<1>3. 0 \in Nat
  OBVIOUS
<1>4. 0..n \subseteq T
  BY <1>1, <1>2, <1>3, Upwards
<1>5. n \in T
  BY <1>4
<1>6. QED
  BY <1>5 DEF T

------------------------------------------------------------------------------
(* LiFi's sort *)

\* A place compared with all later ones holds the best of the rest.
LEMMA ComparedFacts ==
    ASSUME NEW n \in Nat, NEW s \in Lists(n), NEW i \in 1..n
    PROVE  Moves(n, Compared(s, i), s, i) /\ BestAt(n, Compared(s, i), i)
<1> DEFINE u == ComparedTo(s, i)
           T == {j \in Nat : Moves(n, u[j], s, i)
                               /\ \A k \in i..j : u[j][k].amount <= u[j][i].amount}
<1>0. i \in Nat /\ s \in Lists(n)
  OBVIOUS
<1>a. \A t \in Lists(n), k \in 1..n : t[k].amount \in Nat
  BY ListedAmounts
<1>1. u[i] = s /\ (\A j \in (i + 1)..n : u[j] = Exchanged(u[j - 1], i, j)) /\ Compared(s, i) = u[n]
  BY ComparedUnfolds
<1> HIDE DEF u
<1>2. i \in T
  <2>1. Moves(n, u[i], s, i)
    BY <1>0, <1>1, MovesReflexive
  <2>2. u[i][i].amount \in Nat /\ \A k \in i..i : k = i
    BY <1>0, <1>a, <1>1
  <2>3. QED
    BY <1>0, <2>1, <2>2
<1>3. ASSUME NEW j \in (i + 1)..n, j - 1 \in T PROVE j \in T
  <2> DEFINE t == u[j - 1]
             v == u[j]
  <2>1. Moves(n, t, s, i) /\ (\A k \in i..(j - 1) : t[k].amount <= t[i].amount) /\ v = Exchanged(t, i, j)
    BY <1>1, <1>3
  <2>2. t \in Lists(n) /\ j \in 1..n /\ j \in i..n /\ j \in Nat
    BY <2>1 DEF Moves
  <2>a. v \in Lists(n)
    BY <2>1, <2>2, ExchangedFacts
  <2> HIDE DEF t, v
  <2>3. Moves(n, v, t, i)
    <3>1. CASE t[i].amount < t[j].amount
      BY <2>1, <2>2, <3>1, SwappedMoves DEF Exchanged
    <3>2. CASE ~ (t[i].amount < t[j].amount)
      BY <1>0, <2>1, <2>2, <3>2, MovesReflexive DEF Exchanged
    <3>3. QED
      BY <3>1, <3>2
  <2>4. Moves(n, v, s, i)
    BY <1>0, <2>1, <2>3, MovesTransitive
  <2>5. ASSUME NEW k \in i..j PROVE v[k].amount <= v[i].amount
    <3>0. /\ k \in 1..n /\ t[k].amount \in Nat /\ t[i].amount \in Nat /\ t[j].amount \in Nat
          /\ v[i].amount \in Nat
      BY <1>a, <2>2, <2>a
    <3>1. CASE t[i].amount < t[j].amount
      <4>1. v = Swapped(t, i, j)
        BY <2>1, <3>1 DEF Exchanged
      <4>2. /\ v[i] = t[j] /\ v[j] = t[i]
            /\ \A l \in 1..n : l # i /\ l # j => v[l] = t[l]
        BY <2>2, <4>1, SwappedFacts, SMTT(30)
      <4>3. CASE k = j
        BY <3>0, <3>1, <4>2, <4>3
      <4>4. CASE k = i
        BY <3>0, <4>4
      <4>5. CASE k # i /\ k # j
        <5>1. v[k] = t[k] /\ k \in i..(j - 1)
          BY <3>0, <4>2, <4>5
        <5>2. t[k].amount <= t[i].amount
          BY <2>1, <5>1
        <5>3. QED
          BY <3>0, <3>1, <4>2, <5>1, <5>2
      <4>6. QED
        BY <4>3, <4>4, <4>5
    <3>2. CASE ~ (t[i].amount < t[j].amount)
      <4>1. v = t
        BY <2>1, <3>2 DEF Exchanged
      <4>2. CASE k = j
        BY <3>0, <3>2, <4>1, <4>2
      <4>3. CASE k # j
        <5>1. k \in i..(j - 1)
          BY <4>3
        <5>2. QED
          BY <2>1, <4>1, <5>1
      <4>4. QED
        BY <4>2, <4>3
    <3>3. QED
      BY <3>1, <3>2
  <2>6. QED
    BY <2>2, <2>4, <2>5 DEF v
<1> HIDE DEF T
<1>4. i..n \subseteq T
  BY <1>0, <1>2, <1>3, Upwards
<1>5. n \in T /\ n \in i..n
  BY <1>4
<1>6. Moves(n, u[n], s, i) /\ \A k \in i..n : u[n][k].amount <= u[n][i].amount
  BY <1>5 DEF T
<1>7. QED
  BY <1>1, <1>6 DEF BestAt

\* LiFi's sort after it has settled the first i places.
ExchangeSortedTo(s) ==
    CHOOSE upTo : upTo = [i \in 0..Len(s) |-> IF i = 0 THEN s ELSE Compared(upTo[i - 1], i)]

LEMMA ExchangeSortedUnfolds ==
    ASSUME NEW n \in Nat, NEW s \in Lists(n)
    PROVE  /\ ExchangeSorted(s) = ExchangeSortedTo(s)[n]
           /\ ExchangeSortedTo(s)[0] = s
           /\ \A i \in 1..n : ExchangeSortedTo(s)[i] = Compared(ExchangeSortedTo(s)[i - 1], i)
<1> DEFINE S == Lists(n)
           Step == [x \in S \X ((0 + 1)..n) |-> Compared(x[1], x[2])]
<1>1. Len(s) = n /\ 0 \in Nat /\ (0 + 1)..n = 1..n
  BY DEF Lists
<1>2. Step \in [S \X ((0 + 1)..n) -> S]
  <2>1. \A t \in S, i \in (0 + 1)..n : Compared(t, i) \in S
    BY <1>1, ComparedFacts DEF Moves
  <2>2. QED
    BY <2>1
<1>3. \A t \in S, i \in 1..n : Step[<<t, i>>] = Compared(t, i)
  BY <1>1
<1>0. s \in S
  OBVIOUS
<1> HIDE DEF S, Step
<1>4. PICK u : IsRun(u, 0, n, S, s, Step)
  BY <1>0, <1>1, <1>2, LoopsRun, Zenon
<1>5. u = [i \in 0..n |-> IF i = 0 THEN s ELSE Compared(u[i - 1], i)]
  <2>1. \A i \in 0..n : i # 0 => u[i - 1] \in S /\ i \in 1..n
    BY <1>1, <1>4 DEF IsRun
  <2>2. \A i \in 0..n : u[i] = IF i = 0 THEN s ELSE Compared(u[i - 1], i)
    BY <1>3, <1>4, <2>1 DEF IsRun
  <2>3. QED
    BY <1>4, <2>2 DEF IsRun
<1>6. ExchangeSortedTo(s) = [i \in 0..n |->
                               IF i = 0 THEN s ELSE Compared(ExchangeSortedTo(s)[i - 1], i)]
  BY <1>1, <1>5 DEF ExchangeSortedTo
<1>7. ExchangeSorted(s) = ExchangeSortedTo(s)[n]
  BY <1>1 DEF ExchangeSorted, ExchangeSortedTo
<1>8. 0 \in 0..n /\ \A i \in 1..n : i \in 0..n /\ i # 0
  BY <1>1
<1>9. QED
  BY <1>6, <1>7, <1>8

LEMMA ExchangeSortedFacts ==
    ASSUME NEW n \in Nat, NEW s \in Lists(n)
    PROVE  Moves(n, ExchangeSorted(s), s, 1) /\ SortedTo(n, ExchangeSorted(s), n)
<1> DEFINE u == ExchangeSortedTo(s)
<1>1. u[0] = s /\ (\A i \in 1..n : u[i] = Compared(u[i - 1], i)) /\ ExchangeSorted(s) = u[n]
  BY ExchangeSortedUnfolds
<1> HIDE DEF u
<1>2. \A i \in 1..n : u[i - 1] \in Lists(n) => Moves(n, u[i], u[i - 1], i) /\ BestAt(n, u[i], i)
  BY <1>1, ComparedFacts
<1>3. Moves(n, u[n], s, 1) /\ SortedTo(n, u[n], n)
  BY <1>1, <1>2, LoopSorts
<1>4. QED
  BY <1>1, <1>3

------------------------------------------------------------------------------
(* The aggregator's sort *)

LEMMA FirstBestFacts ==
    ASSUME NEW n \in Nat, NEW s \in Lists(n), NEW i \in 1..n
    PROVE  /\ FirstBest(s, i) \in i..n
           /\ \A j \in i..n : s[j].amount <= s[FirstBest(s, i)].amount
<1> DEFINE First(k, m) == /\ \A j \in i..m : s[j].amount <= s[k].amount
                          /\ \A j \in i..(k - 1) : s[j].amount < s[k].amount
           T == {m \in Nat : \E k \in i..m : First(k, m)}
<1>1. Len(s) = n /\ i \in Nat /\ \A k \in 1..n : s[k].amount \in Nat
  BY ListedAmounts DEF Lists
<1>2. i \in T
  <2>1. First(i, i)
    BY <1>1
  <2>2. QED
    BY <1>1, <2>1
<1>3. ASSUME NEW m \in (i + 1)..n, m - 1 \in T PROVE m \in T
  <2>0. m \in Nat /\ m \in 1..n /\ m \in i..m /\ \A k \in i..m : k \in 1..n
    BY <1>1
  <2>1. PICK k \in i..(m - 1) : First(k, m - 1)
    BY <1>3
  <2>2. k \in 1..n /\ k \in i..m
    BY <1>1
  <2>3. CASE s[m].amount <= s[k].amount
    <3>1. \A j \in i..m : j = m \/ j \in i..(m - 1)
      BY <1>1
    <3>2. First(k, m)
      BY <2>1, <2>3, <3>1
    <3>3. QED
      BY <2>0, <2>2, <3>2
  <2>4. CASE ~ (s[m].amount <= s[k].amount)
    <3>1. s[k].amount < s[m].amount
      BY <1>1, <2>0, <2>2, <2>4
    <3>2. \A j \in i..(m - 1) : s[j].amount < s[m].amount
      <4> SUFFICES ASSUME NEW j \in i..(m - 1) PROVE s[j].amount < s[m].amount
        OBVIOUS
      <4>1. s[j].amount <= s[k].amount /\ j \in i..m
        BY <2>1
      <4>2. QED
        BY <1>1, <2>0, <2>2, <3>1, <4>1
    <3>3. \A j \in i..m : s[j].amount <= s[m].amount
      <4> SUFFICES ASSUME NEW j \in i..m PROVE s[j].amount <= s[m].amount
        OBVIOUS
      <4>1. j = m \/ j \in i..(m - 1)
        BY <1>1
      <4>2. QED
        BY <1>1, <2>0, <3>2, <4>1
    <3>4. QED
      BY <2>0, <3>2, <3>3
  <2>5. QED
    BY <2>3, <2>4
<1> HIDE DEF T
<1>4. i..n \subseteq T
  BY <1>1, <1>2, <1>3, Upwards
<1>5. n \in T
  BY <1>4
<1>6. \E k \in i..n : First(k, n)
  BY <1>5 DEF T
<1>7. FirstBest(s, i) \in i..n /\ First(FirstBest(s, i), n)
  BY <1>1, <1>6 DEF FirstBest
<1>8. QED
  BY <1>7

LEMMA SelectedFacts ==
    ASSUME NEW n \in Nat, NEW s \in Lists(n), NEW i \in 1..n
    PROVE  Moves(n, Selected(s, i), s, i) /\ BestAt(n, Selected(s, i), i)
<1> DEFINE k == FirstBest(s, i)
           u == Selected(s, i)
<1>1. k \in i..n /\ k \in 1..n /\ \A j \in i..n : s[j].amount <= s[k].amount
  BY FirstBestFacts
<1>2. u = Swapped(s, i, k)
  BY DEF Selected
<1> HIDE DEF k, u
<1>3. Moves(n, u, s, i)
  BY <1>1, <1>2, SwappedMoves
<1>4. u[i] = s[k]
  BY <1>1, <1>2, SwappedFacts
<1>5. ASSUME NEW j \in i..n PROVE u[j].amount <= u[i].amount
  <2>1. PICK l \in i..n : u[j] = s[l]
    BY <1>3 DEF Moves
  <2>2. QED
    BY <1>1, <1>4, <2>1
<1>6. QED
  BY <1>3, <1>5 DEF BestAt, u

\* The aggregator's sort after it has settled the first i places.
SelectionSortedTo(s) ==
    CHOOSE upTo : upTo = [i \in 0..Len(s) |-> IF i = 0 THEN s ELSE Selected(upTo[i - 1], i)]

LEMMA SelectionSortedUnfolds ==
    ASSUME NEW n \in Nat, NEW s \in Lists(n)
    PROVE  /\ SelectionSorted(s) = SelectionSortedTo(s)[n]
           /\ SelectionSortedTo(s)[0] = s
           /\ \A i \in 1..n : SelectionSortedTo(s)[i] = Selected(SelectionSortedTo(s)[i - 1], i)
<1> DEFINE S == Lists(n)
           Step == [x \in S \X ((0 + 1)..n) |-> Selected(x[1], x[2])]
<1>1. Len(s) = n /\ 0 \in Nat /\ (0 + 1)..n = 1..n
  BY DEF Lists
<1>2. Step \in [S \X ((0 + 1)..n) -> S]
  <2>1. \A t \in S, i \in (0 + 1)..n : Selected(t, i) \in S
    BY <1>1, SelectedFacts DEF Moves
  <2>2. QED
    BY <2>1
<1>3. \A t \in S, i \in 1..n : Step[<<t, i>>] = Selected(t, i)
  BY <1>1
<1>0. s \in S
  OBVIOUS
<1> HIDE DEF S, Step
<1>4. PICK u : IsRun(u, 0, n, S, s, Step)
  BY <1>0, <1>1, <1>2, LoopsRun, Zenon
<1>5. u = [i \in 0..n |-> IF i = 0 THEN s ELSE Selected(u[i - 1], i)]
  <2>1. \A i \in 0..n : i # 0 => u[i - 1] \in S /\ i \in 1..n
    BY <1>1, <1>4 DEF IsRun
  <2>2. \A i \in 0..n : u[i] = IF i = 0 THEN s ELSE Selected(u[i - 1], i)
    BY <1>3, <1>4, <2>1 DEF IsRun
  <2>3. QED
    BY <1>4, <2>2 DEF IsRun
<1>6. SelectionSortedTo(s) = [i \in 0..n |->
                               IF i = 0 THEN s ELSE Selected(SelectionSortedTo(s)[i - 1], i)]
  BY <1>1, <1>5 DEF SelectionSortedTo
<1>7. SelectionSorted(s) = SelectionSortedTo(s)[n]
  BY <1>1 DEF SelectionSorted, SelectionSortedTo
<1>8. 0 \in 0..n /\ \A i \in 1..n : i \in 0..n /\ i # 0
  BY <1>1
<1>9. QED
  BY <1>6, <1>7, <1>8

LEMMA SelectionSortedFacts ==
    ASSUME NEW n \in Nat, NEW s \in Lists(n)
    PROVE  Moves(n, SelectionSorted(s), s, 1) /\ SortedTo(n, SelectionSorted(s), n)
<1> DEFINE u == SelectionSortedTo(s)
<1>1. u[0] = s /\ (\A i \in 1..n : u[i] = Selected(u[i - 1], i)) /\ SelectionSorted(s) = u[n]
  BY SelectionSortedUnfolds
<1> HIDE DEF u
<1>2. \A i \in 1..n : u[i - 1] \in Lists(n) => Moves(n, u[i], u[i - 1], i) /\ BestAt(n, u[i], i)
  BY <1>1, SelectedFacts
<1>3. Moves(n, u[n], s, 1) /\ SortedTo(n, u[n], n)
  BY <1>1, <1>2, LoopSorts
<1>4. QED
  BY <1>1, <1>3

------------------------------------------------------------------------------
(* The quotes that promise something *)

\* What is left of the first i quotes.
PositiveTo(s) ==
    CHOOSE upTo : upTo = [i \in 0..Len(s) |->
                            IF i = 0 THEN <<>>
                            ELSE IF s[i].amount > 0 THEN Append(upTo[i - 1], s[i])
                                 ELSE upTo[i - 1]]

LEMMA PositiveUnfolds ==
    ASSUME NEW n \in Nat, NEW s \in Lists(n)
    PROVE  /\ Positive(s) = PositiveTo(s)[n]
           /\ PositiveTo(s)[0] = <<>>
           /\ \A i \in 1..n : PositiveTo(s)[i] =
                IF s[i].amount > 0 THEN Append(PositiveTo(s)[i - 1], s[i]) ELSE PositiveTo(s)[i - 1]
<1> DEFINE S == Seq(Quote)
           Kept(t, i) == IF s[i].amount > 0 THEN Append(t, s[i]) ELSE t
           Step == [x \in S \X ((0 + 1)..n) |-> Kept(x[1], x[2])]
<1>1. Len(s) = n /\ 0 \in Nat /\ n \in Nat /\ (0 + 1)..n = 1..n /\ <<>> \in S
  BY DEF Lists
<1>a. \A i \in 1..n : s[i] \in Quote
  BY ListedAmounts
<1>2. Step \in [S \X ((0 + 1)..n) -> S]
  <2>1. ASSUME NEW t \in S, NEW i \in (0 + 1)..n PROVE Kept(t, i) \in S
    <3>1. s[i] \in Quote
      BY <1>1, <1>a
    <3>2. Append(t, s[i]) \in S
      BY <3>1
    <3>3. QED
      BY <3>2
  <2> HIDE DEF Kept, S
  <2>2. QED
    BY <2>1
<1>3. \A t \in S, i \in 1..n : Step[<<t, i>>] = Kept(t, i)
  BY <1>1
<1> HIDE DEF S, Step, Kept
<1>4. PICK u : IsRun(u, 0, n, S, <<>>, Step)
  BY <1>1, <1>2, LoopsRun, Zenon
<1>5. u = [i \in 0..n |-> IF i = 0 THEN <<>> ELSE Kept(u[i - 1], i)]
  <2>1. \A i \in 0..n : i # 0 => u[i - 1] \in S /\ i \in 1..n
    BY <1>1, <1>4 DEF IsRun
  <2>2. \A i \in 0..n : u[i] = IF i = 0 THEN <<>> ELSE Kept(u[i - 1], i)
    BY <1>3, <1>4, <2>1 DEF IsRun
  <2>3. QED
    BY <1>4, <2>2 DEF IsRun
<1>6. PositiveTo(s) = [i \in 0..n |-> IF i = 0 THEN <<>> ELSE Kept(PositiveTo(s)[i - 1], i)]
  BY <1>1, <1>5 DEF PositiveTo, Kept
<1>7. Positive(s) = PositiveTo(s)[n]
  BY <1>1 DEF Positive, PositiveTo
<1>8. 0 \in 0..n /\ \A i \in 1..n : i \in 0..n /\ i # 0
  BY <1>1
<1>9. QED
  BY <1>6, <1>7, <1>8 DEF Kept

LEMMA PositiveFacts ==
    ASSUME NEW n \in Nat, NEW s \in Lists(n)
    PROVE  /\ Positive(s) \in Seq(Quote)
           /\ \A x : In(x, Positive(s)) <=> In(x, s) /\ x.amount > 0
           /\ Distinct(s) => Distinct(Positive(s))
<1> DEFINE u == PositiveTo(s)
           Good(t, i) == /\ t \in Seq(Quote)
                         /\ \A x : In(x, t) <=> \E k \in 1..i : s[k] = x /\ s[k].amount > 0
                         /\ Distinct(s) => Distinct(t)
           T == {i \in Nat : Good(u[i], i)}
<1>1. /\ u[0] = <<>> /\ Positive(s) = u[n]
      /\ \A i \in 1..n : u[i] = IF s[i].amount > 0 THEN Append(u[i - 1], s[i]) ELSE u[i - 1]
  BY PositiveUnfolds
<1>2. Len(s) = n /\ \A k \in 1..n : s[k] \in Quote
  BY ListedAmounts DEF Lists
<1> HIDE DEF u
<1>3. 0 \in T
  <2>1. u[0] \in Seq(Quote) /\ Len(u[0]) = 0 /\ 1..0 = {}
    BY <1>1
  <2>2. Distinct(u[0]) /\ \A x : ~ In(x, u[0])
    BY <2>1 DEF In, Distinct
  <2>3. QED
    BY <2>1, <2>2
<1>4. ASSUME NEW i \in (0 + 1)..n, i - 1 \in T PROVE i \in T
  <2> DEFINE t == u[i - 1]
             v == u[i]
  <2>1. i \in 1..n /\ i \in Nat
    OBVIOUS
  <2>2. Good(t, i - 1) /\ v = IF s[i].amount > 0 THEN Append(t, s[i]) ELSE t
    BY <1>1, <1>4
  <2> HIDE DEF t, v
  <2>3. \A k : k \in 1..i <=> k \in 1..(i - 1) \/ k = i
    OBVIOUS
  <2>4. CASE ~ (s[i].amount > 0)
    <3>1. v = t
      BY <2>2, <2>4
    <3>2. \A x : In(x, v) <=> \E k \in 1..i : s[k] = x /\ s[k].amount > 0
      BY <2>2, <2>3, <2>4, <3>1
    <3>3. QED
      BY <2>1, <2>2, <3>1, <3>2 DEF v
  <2>5. CASE s[i].amount > 0
    <3>1. v = Append(t, s[i]) /\ t \in Seq(Quote) /\ s[i] \in Quote
      BY <1>2, <2>2, <2>5
    <3>2. /\ v \in Seq(Quote) /\ Len(v) = Len(t) + 1 /\ v[Len(t) + 1] = s[i]
          /\ \A k \in 1..Len(t) : v[k] = t[k]
      BY <3>1
    <3>3. \A k : k \in 1..Len(v) <=> k \in 1..Len(t) \/ k = Len(t) + 1
      BY <3>1, <3>2
    <3>4. \A x : In(x, v) <=> In(x, t) \/ x = s[i]
      BY <3>2, <3>3 DEF In
    <3>5. \A x : In(x, v) <=> \E k \in 1..i : s[k] = x /\ s[k].amount > 0
      BY <2>2, <2>3, <2>5, <3>4
    <3>6. ASSUME Distinct(s) PROVE Distinct(v)
      <4>1. ASSUME NEW k \in 1..Len(t) PROVE v[k].source # s[i].source
        <5>1. In(t[k], t) /\ v[k] = t[k]
          BY <3>2 DEF In
        <5>2. PICK l \in 1..(i - 1) : s[l] = t[k]
          BY <2>2, <5>1
        <5>3. l # i /\ l \in 1..n
          BY <2>1
        <5>4. QED
          BY <1>2, <2>1, <3>6, <5>1, <5>2, <5>3 DEF Distinct
      <4>2. \A k, l \in 1..Len(t) : v[k].source = v[l].source => k = l
        BY <2>2, <3>2, <3>6 DEF Distinct
      <4>3. QED
        BY <3>2, <3>3, <4>1, <4>2 DEF Distinct
    <3>7. QED
      BY <2>1, <3>2, <3>5, <3>6 DEF v
  <2>6. QED
    BY <2>4, <2>5
<1> HIDE DEF T
<1>5. 0 \in Nat
  OBVIOUS
<1>6. 0..n \subseteq T
  BY <1>3, <1>4, <1>5, Upwards
<1>7. n \in T
  BY <1>6
<1>8. Good(u[n], n)
  BY <1>7 DEF T
<1>9. \A x : In(x, s) /\ x.amount > 0 <=> \E k \in 1..n : s[k] = x /\ s[k].amount > 0
  BY <1>2 DEF In
<1>10. QED
  BY <1>1, <1>8, <1>9

------------------------------------------------------------------------------
(* What the two answers promise *)

\* The aggregator answers the quotes that promise something, the best first.
LEMMA OrderedFacts ==
    ASSUME NEW s \in Seq(Quote)
    PROVE  /\ Ordered(s) \in Seq(Quote)
           /\ \A x : In(x, Ordered(s)) <=> In(x, s) /\ x.amount > 0
           /\ Distinct(s) => Distinct(Ordered(s))
           /\ \A i, j \in 1..Len(Ordered(s)) :
                 i < j => Ordered(s)[i].amount >= Ordered(s)[j].amount
<1> DEFINE t == Positive(s)
           u == Ordered(s)
           m == Len(t)
<1>1. Len(s) \in Nat /\ s \in Lists(Len(s))
  BY DEF Lists
<1>2. /\ t \in Seq(Quote)
      /\ \A x : In(x, t) <=> In(x, s) /\ x.amount > 0
      /\ Distinct(s) => Distinct(t)
  BY <1>1, PositiveFacts
<1> HIDE DEF t
<1>3. m \in Nat /\ t \in Lists(m) /\ u = SelectionSorted(t)
  BY <1>2 DEF Lists, Ordered, t
<1> HIDE DEF m, u
<1>4. Moves(m, u, t, 1) /\ SortedTo(m, u, m)
  BY <1>3, SelectionSortedFacts
<1>5. /\ u \in Seq(Quote) /\ Len(u) = m /\ u \in Lists(m)
      /\ \A x : In(x, u) <=> In(x, t)
      /\ Distinct(t) => Distinct(u)
  BY <1>4 DEF Moves, Lists
<1>6. ASSUME NEW i \in 1..m, NEW j \in 1..m, i < j PROVE u[i].amount >= u[j].amount
  <2>1. u[i].amount \in Nat /\ u[j].amount \in Nat
    BY <1>3, <1>5, ListedAmounts
  <2>2. j \in i..m /\ i \in 1..m
    BY <1>3, <1>6
  <2>3. u[j].amount <= u[i].amount
    BY <1>4, <2>2 DEF SortedTo, BestAt
  <2>4. QED
    BY <2>1, <2>3
<1>7. QED
  BY <1>2, <1>5, <1>6 DEF u

\* LiFi returns some of the quotes it got, and leaves out none that is
\* better than one it returns, and none at all before there are MaxQuotes.
LEMMA LiFiAnswerFacts ==
    ASSUME NEW s \in Seq(Quote)
    PROVE  /\ LiFiAnswer(s) \in Seq(Quote)
           /\ \A x : In(x, LiFiAnswer(s)) => In(x, s)
           /\ Distinct(s) => Distinct(LiFiAnswer(s))
           /\ \A x : In(x, s) /\ ~ In(x, LiFiAnswer(s)) =>
                /\ Len(LiFiAnswer(s)) = MaxQuotes
                /\ \A k \in 1..MaxQuotes : x.amount <= LiFiAnswer(s)[k].amount
<1> DEFINE n == Len(s)
           t == ExchangeSorted(s)
           m == IF n < MaxQuotes THEN n ELSE MaxQuotes
           u == LiFiAnswer(s)
<1>1. n \in Nat /\ s \in Lists(n)
  BY DEF Lists
<1>2. Moves(n, t, s, 1) /\ SortedTo(n, t, n)
  BY <1>1, ExchangeSortedFacts
<1>3. /\ t \in Seq(Quote) /\ Len(t) = n /\ t \in Lists(n)
      /\ \A x : In(x, t) <=> In(x, s)
      /\ Distinct(s) => Distinct(t)
  BY <1>2 DEF Moves, Lists
<1>4. u = SubSeq(t, 1, m)
  BY <1>3 DEF LiFiAnswer, FirstQuotes
<1>5. m \in Nat /\ m <= n /\ m <= MaxQuotes /\ (m < n => m = MaxQuotes) /\ 1..m \subseteq 1..n
  BY <1>1, QuotesAssumption
<1> HIDE DEF n, t, m, u
<1>6. u \in Seq(Quote) /\ Len(u) = m /\ \A k \in 1..m : u[k] = t[k]
  BY <1>3, <1>4, <1>5
<1>7. \A x : In(x, u) => In(x, t)
  BY <1>3, <1>5, <1>6 DEF In
<1>8. Distinct(t) => Distinct(u)
  BY <1>3, <1>5, <1>6 DEF Distinct
<1>9. ASSUME NEW x, In(x, t), ~ In(x, u)
      PROVE  Len(u) = MaxQuotes /\ \A k \in 1..MaxQuotes : x.amount <= u[k].amount
  <2>1. PICK l \in 1..n : t[l] = x
    BY <1>3, <1>9 DEF In
  <2>2. l \notin 1..m
    BY <1>6, <1>9, <2>1 DEF In
  <2>3. m < l /\ l <= n /\ m < n
    BY <1>1, <1>5, <2>2
  <2>4. m = MaxQuotes
    BY <1>5, <2>3
  <2>5. ASSUME NEW k \in 1..m PROVE x.amount <= u[k].amount
    <3>1. k \in 1..n /\ l \in k..n
      BY <1>1, <1>5, <2>3
    <3>2. QED
      BY <1>2, <1>6, <2>1, <3>1 DEF SortedTo, BestAt
  <2>6. QED
    BY <1>6, <2>4, <2>5
<1>10. QED
  BY <1>3, <1>6, <1>7, <1>8, <1>9 DEF u

------------------------------------------------------------------------------
(* The invariant of the request                                             *)

Replies == {<<>>} \cup {<<q>> : q \in Quote}

Typed ==
    /\ sameChain \in BOOLEAN /\ context \in {"live", "done"}
    /\ call \in [Sources -> {"idle", "calling", "replied", "taken"}]
    /\ reply \in [Sources -> Replies] /\ \A x \in Sources : reply[x] \in RepliesOf(x)
    /\ lifi \in [pc : {"idle", "collecting", "sent", "failed", "taken", "dropped"},
                 quotes : Seq(Quote), timer : {"ticking", "fired"}]
    /\ collection \in [pc : {"idle", "collecting", "answered", "refused"},
                       quotes : Seq(Quote), timer : {"ticking", "fired"}]

\* LiFi's list holds what the tools taken so far replied, each once.
Gathers(s, c, r) ==
    /\ Distinct(s)
    /\ \A q \in Quote : In(q, s) <=> \E t \in Tools : c[t] = "taken" /\ r[t] = <<q>>

\* What LiFi returns: replies of its tools, each once, and none better left out.
Serves(s, c, r) ==
    /\ \A t \in Tools : c[t] = "taken"
    /\ Distinct(s)
    /\ \A q \in Quote : In(q, s) => \E t \in Tools : r[t] = <<q>>
    /\ \A t \in Tools, q \in Quote : r[t] = <<q>> /\ ~ In(q, s) =>
          Len(s) = MaxQuotes /\ \A k \in 1..MaxQuotes : q.amount <= s[k].amount

\* The quotes that have reached the aggregator.
Held(q, pc, s, c, r) ==
    \/ pc = "taken" /\ In(q, s)
    \/ c[OneInch] = "taken" /\ r[OneInch] = <<q>>

LiFiKeeps(pc, s, c, r) ==
    /\ pc = "collecting" => Gathers(s, c, r)
    /\ pc \in {"sent", "taken"} => Serves(s, c, r)

Collects(s, pc, l, c, r) ==
    /\ Distinct(s)
    /\ \A q \in Quote : In(q, s) <=> Held(q, pc, l, c, r)

Answers(s, pc, l, c, r) ==
    /\ pc \in {"taken", "dropped"} /\ c[OneInch] \in {"idle", "taken"}
    /\ Distinct(s)
    /\ \A q \in Quote : In(q, s) <=> q.amount > 0 /\ Held(q, pc, l, c, r)
    /\ \A i, j \in 1..Len(s) : i < j => s[i].amount >= s[j].amount

QuotesInv ==
    /\ Typed
    /\ collection.pc = "idle" =>
          /\ lifi.pc = "idle" /\ lifi.quotes = <<>> /\ collection.quotes = <<>>
          /\ \A x \in Sources : call[x] = "idle"
    /\ LiFiKeeps(lifi.pc, lifi.quotes, call, reply)
    /\ collection.pc = "collecting" =>
          Collects(collection.quotes, lifi.pc, lifi.quotes, call, reply)
    /\ collection.pc = "answered" =>
          Answers(collection.quotes, lifi.pc, lifi.quotes, call, reply)

LEMMA Oneness ==
    /\ OneInch \in Sources /\ OneInch \notin Tools /\ Tools \subseteq Sources
    /\ \A x \in Sources : x = OneInch \/ x \in Tools
BY QuotesAssumption DEF Sources

\* What a call that is not taken replies concerns nobody yet.
LEMMA OnlyTakenCount ==
    ASSUME NEW c, NEW d, NEW r, NEW w, NEW pc, NEW s, NEW l,
           \A x \in Sources : /\ c[x] = "taken" <=> d[x] = "taken"
                              /\ c[x] = "taken" => w[x] = r[x]
                              /\ c[x] = "idle" => d[x] = "idle"
    PROVE  /\ LiFiKeeps(pc, l, c, r) => LiFiKeeps(pc, l, d, w)
           /\ Collects(s, pc, l, c, r) => Collects(s, pc, l, d, w)
           /\ Answers(s, pc, l, c, r) => Answers(s, pc, l, d, w)
<1>1. \A q : Held(q, pc, l, c, r) <=> Held(q, pc, l, d, w)
  BY Oneness DEF Held
<1>2. \A t \in Tools : (c[t] = "taken" <=> d[t] = "taken") /\ (c[t] = "taken" => w[t] = r[t])
  BY Oneness
<1>3. Gathers(l, c, r) => Gathers(l, d, w)
  BY <1>2 DEF Gathers
<1>4. Serves(l, c, r) => Serves(l, d, w)
  BY <1>2 DEF Serves
<1>5. QED
  BY <1>1, <1>3, <1>4, Oneness DEF LiFiKeeps, Collects, Answers

\* One more reply at the end of a list that did not have its source.
LEMMA AppendedReply ==
    ASSUME NEW s \in Seq(Quote), NEW x \in Sources, NEW r \in RepliesOf(x), Distinct(s),
           \A k \in 1..Len(s) : s[k].source # x
    PROVE  /\ s \o r \in Seq(Quote) /\ Distinct(s \o r)
           /\ \A q \in Quote : In(q, s \o r) <=> In(q, s) \/ r = <<q>>
<1>1. CASE r = <<>>
  <2>1. s \o r = s
    BY <1>1
  <2>2. \A q \in Quote : r # <<q>>
    BY <1>1
  <2>3. QED
    BY <2>1, <2>2
<1>2. CASE r # <<>>
  <2>1. PICK a \in QuoteAmounts : r = <<[source |-> x, amount |-> a]>>
    BY <1>2 DEF RepliesOf
  <2> DEFINE e == [source |-> x, amount |-> a]
             t == s \o r
             n == Len(s)
  <2>2. e \in Quote /\ r = <<e>> /\ e.source = x
    BY <2>1 DEF Quote
  <2> HIDE DEF e
  <2>3. t \in Seq(Quote) /\ Len(t) = n + 1 /\ t[n + 1] = e /\ n \in Nat
        /\ \A k \in 1..n : t[k] = s[k]
    BY <2>2
  <2> HIDE DEF t
  <2>4. \A k : k \in 1..Len(t) <=> k \in 1..n \/ k = n + 1
    BY <2>3
  <2>5. \A q : In(q, t) <=> In(q, s) \/ q = e
    BY <2>3, <2>4 DEF In
  <2>6. \A q : r = <<q>> <=> q = e
    BY <2>2
  <2>7. Distinct(t)
    <3>1. \A k \in 1..n : t[k].source # e.source
      BY <2>2, <2>3
    <3>2. \A j, k \in 1..n : t[j].source = t[k].source => j = k
      BY <2>3 DEF Distinct
    <3>3. QED
      BY <2>3, <2>4, <3>1, <3>2 DEF Distinct
  <2>8. QED
    BY <2>3, <2>5, <2>6, <2>7 DEF t
<1>3. QED
  BY <1>1, <1>2

\* A quote of a reply has the source that replied.
LEMMA RepliesSource ==
    ASSUME NEW x \in Sources, NEW r \in RepliesOf(x), NEW q, r = <<q>>
    PROVE  q \in Quote /\ q.source = x /\ q.amount \in Nat
<1>1. PICK a \in QuoteAmounts : r = <<[source |-> x, amount |-> a]>>
  BY DEF RepliesOf
<1>2. q = [source |-> x, amount |-> a]
  BY <1>1
<1>3. QED
  BY <1>2, QuotesAssumption DEF Quote

LEMMA QuotesInvInit == QuotesInit => QuotesInv
<1> SUFFICES ASSUME QuotesInit PROVE QuotesInv
  OBVIOUS
<1>1. lifi.pc = "idle" /\ lifi.quotes = <<>> /\ collection.pc = "idle" /\ collection.quotes = <<>>
  BY DEF QuotesInit, NewCollection
<1>2. Typed
  <2>1. <<>> \in Seq(Quote) /\ <<>> \in Replies
    BY DEF Replies
  <2>2. reply \in [Sources -> Replies] /\ \A x \in Sources : reply[x] \in RepliesOf(x)
    BY <2>1 DEF QuotesInit, RepliesOf
  <2>3. lifi \in [pc : {"idle", "collecting", "sent", "failed", "taken", "dropped"},
                  quotes : Seq(Quote), timer : {"ticking", "fired"}]
    BY <2>1 DEF QuotesInit, NewCollection
  <2>4. collection \in [pc : {"idle", "collecting", "answered", "refused"},
                        quotes : Seq(Quote), timer : {"ticking", "fired"}]
    BY <2>1 DEF QuotesInit, NewCollection
  <2>5. QED
    BY <2>2, <2>3, <2>4 DEF Typed, QuotesInit
<1>3. LiFiKeeps(lifi.pc, lifi.quotes, call, reply)
  BY <1>1 DEF LiFiKeeps
<1>4. QED
  BY <1>1, <1>2, <1>3 DEF QuotesInv, QuotesInit

\* The fields of the two collections.
LEMMA CollectionFields ==
    ASSUME Typed
    PROVE  /\ lifi.quotes \in Seq(Quote) /\ collection.quotes \in Seq(Quote)
           /\ lifi.timer \in {"ticking", "fired"} /\ collection.timer \in {"ticking", "fired"}
           /\ lifi.pc \in {"idle", "collecting", "sent", "failed", "taken", "dropped"}
           /\ collection.pc \in {"idle", "collecting", "answered", "refused"}
           /\ lifi = [pc |-> lifi.pc, quotes |-> lifi.quotes, timer |-> lifi.timer]
           /\ collection = [pc |-> collection.pc, quotes |-> collection.quotes,
                            timer |-> collection.timer]
BY DEF Typed

LEMMA AskProvidersKeeps == QuotesInv /\ AskProviders => QuotesInv'
<1> SUFFICES ASSUME QuotesInv, AskProviders PROVE QuotesInv'
  OBVIOUS
<1>1. Typed /\ collection.pc = "idle" /\ lifi.quotes = <<>> /\ collection.quotes = <<>>
  BY DEF QuotesInv, AskProviders
<1>2. /\ lifi' = [lifi EXCEPT !.pc = "collecting"]
      /\ collection' = [collection EXCEPT !.pc = "collecting"]
  BY DEF AskProviders
<1>3. /\ lifi' = [pc |-> "collecting", quotes |-> <<>>, timer |-> lifi.timer]
      /\ collection' = [pc |-> "collecting", quotes |-> <<>>, timer |-> collection.timer]
  BY <1>1, <1>2, CollectionFields
<1>4. /\ call' \in [Sources -> {"idle", "calling", "replied", "taken"}]
      /\ \A x \in Sources : call'[x] # "taken"
  BY DEF AskProviders
<1>5. Typed'
  <2>1. <<>> \in Seq(Quote)
    OBVIOUS
  <2>2. QED
    BY <1>1, <1>3, <1>4, <2>1, CollectionFields DEF Typed, AskProviders
<1>6. Distinct(<<>>) /\ \A q : ~ In(q, <<>>)
  BY DEF Distinct, In
<1>7. Gathers(<<>>, call', reply')
  BY <1>4, <1>6, Oneness DEF Gathers
<1>8. Collects(<<>>, "collecting", <<>>, call', reply')
  BY <1>4, <1>6, Oneness DEF Collects, Held
<1>9. QED
  BY <1>3, <1>5, <1>7, <1>8 DEF QuotesInv, LiFiKeeps

\* A call that replies, or is cancelled.
LEMMA CallKeeps ==
    ASSUME NEW x \in Sources
    PROVE  QuotesInv /\ (Reply(x) \/ Cancelled(x)) => QuotesInv'
<1> SUFFICES ASSUME QuotesInv, Reply(x) \/ Cancelled(x) PROVE QuotesInv'
  OBVIOUS
<1>1. /\ call[x] = "calling" /\ call' = [call EXCEPT ![x] = "replied"]
      /\ UNCHANGED <<sameChain, context, lifi, collection>>
  BY DEF Reply, Cancelled
<1>2. reply' = reply \/ \E r \in RepliesOf(x) : reply' = [reply EXCEPT ![x] = r]
  BY DEF Reply, Cancelled
<1>3. Typed
  BY DEF QuotesInv
<1>4. /\ reply' \in [Sources -> Replies] /\ \A y \in Sources : reply'[y] \in RepliesOf(y)
      /\ \A y \in Sources : y # x => reply'[y] = reply[y]
  <2>1. CASE reply' = reply
    BY <1>3, <2>1 DEF Typed
  <2>2. CASE reply' # reply
    <3>1. PICK r \in RepliesOf(x) : reply' = [reply EXCEPT ![x] = r]
      BY <1>2, <2>2
    <3>2. r \in Replies
      BY DEF RepliesOf, Replies, Quote
    <3>3. QED
      BY <1>3, <3>1, <3>2 DEF Typed
  <2>3. QED
    BY <2>1, <2>2
<1>5. /\ call' \in [Sources -> {"idle", "calling", "replied", "taken"}]
      /\ call'[x] = "replied" /\ \A y \in Sources : y # x => call'[y] = call[y]
  BY <1>1, <1>3 DEF Typed
<1>6. Typed'
  BY <1>1, <1>3, <1>4, <1>5 DEF Typed
<1>7. \A y \in Sources : /\ call[y] = "taken" <=> call'[y] = "taken"
                         /\ call[y] = "taken" => reply'[y] = reply[y]
                         /\ call[y] = "idle" => call'[y] = "idle"
  BY <1>1, <1>4, <1>5
<1> DEFINE s == collection.quotes
           pc == lifi.pc
           l == lifi.quotes
<1>8. s' = s /\ pc' = pc /\ l' = l /\ collection'.pc = collection.pc
  BY <1>1
<1>9. /\ LiFiKeeps(pc, l, call, reply) => LiFiKeeps(pc, l, call', reply')
      /\ Collects(s, pc, l, call, reply) => Collects(s, pc, l, call', reply')
      /\ Answers(s, pc, l, call, reply) => Answers(s, pc, l, call', reply')
  <2> HIDE DEF s, pc, l
  <2>1. QED
    BY <1>7, OnlyTakenCount
<1>10. collection.pc # "idle"
  BY <1>1 DEF QuotesInv
<1>11. QED
  BY <1>6, <1>8, <1>9, <1>10 DEF QuotesInv

\* Steps that change no call, no reply and no list.
LEMMA TimersKeep == QuotesInv /\ (ContextDone \/ LiFiTimer \/ CollectionTimer) => QuotesInv'
<1> SUFFICES ASSUME QuotesInv, ContextDone \/ LiFiTimer \/ CollectionTimer PROVE QuotesInv'
  OBVIOUS
<1>1. Typed
  BY DEF QuotesInv
<1>2. /\ lifi'.pc = lifi.pc /\ lifi'.quotes = lifi.quotes
      /\ collection'.pc = collection.pc /\ collection'.quotes = collection.quotes
      /\ call' = call /\ reply' = reply
  <2>1. CASE ContextDone
    BY <2>1 DEF ContextDone
  <2>2. CASE LiFiTimer
    BY <1>1, <2>2 DEF LiFiTimer, Typed
  <2>3. CASE CollectionTimer
    BY <1>1, <2>3 DEF CollectionTimer, Typed
  <2>4. QED
    BY <2>1, <2>2, <2>3
<1>3. Typed'
  <2>1. CASE ContextDone
    BY <1>1, <2>1 DEF ContextDone, Typed
  <2>2. CASE LiFiTimer
    BY <1>1, <2>2 DEF LiFiTimer, Typed
  <2>3. CASE CollectionTimer
    BY <1>1, <2>3 DEF CollectionTimer, Typed
  <2>4. QED
    BY <2>1, <2>2, <2>3
<1>4. QED
  BY <1>2, <1>3 DEF QuotesInv

LEMMA TakeToolKeeps ==
    ASSUME NEW t \in Tools
    PROVE  QuotesInv /\ TakeTool(t) => QuotesInv'
<1> SUFFICES ASSUME QuotesInv, TakeTool(t) PROVE QuotesInv'
  OBVIOUS
<1> DEFINE l == lifi.quotes
           m == l \o reply[t]
<1>1. Typed /\ t \in Sources /\ t # OneInch
  BY Oneness DEF QuotesInv
<1>2. /\ lifi.pc = "collecting" /\ call[t] = "replied"
      /\ call' = [call EXCEPT ![t] = "taken"]
      /\ lifi' = [lifi EXCEPT !.quotes = m]
      /\ UNCHANGED <<sameChain, context, reply, collection>>
  BY DEF TakeTool
<1>3. /\ call' \in [Sources -> {"idle", "calling", "replied", "taken"}]
      /\ call'[t] = "taken" /\ \A y \in Sources : y # t => call'[y] = call[y]
  BY <1>1, <1>2 DEF Typed
<1>4. Gathers(l, call, reply) /\ l \in Seq(Quote) /\ reply[t] \in RepliesOf(t)
  BY <1>1, <1>2, CollectionFields DEF QuotesInv, LiFiKeeps, Typed
<1>5. \A k \in 1..Len(l) : l[k].source # t
  <2> SUFFICES ASSUME NEW k \in 1..Len(l), l[k].source = t PROVE FALSE
    OBVIOUS
  <2>1. l[k] \in Quote /\ In(l[k], l)
    BY <1>4 DEF In
  <2>2. PICK y \in Tools : call[y] = "taken" /\ reply[y] = <<l[k]>>
    BY <1>4, <2>1 DEF Gathers
  <2>3. l[k].source = y
    <3>1. y \in Sources /\ reply[y] \in RepliesOf(y)
      BY <1>1, <2>2, Oneness DEF Typed
    <3>2. QED
      BY <2>2, <3>1, RepliesSource
  <2>4. QED
    BY <1>2, <2>2, <2>3
<1>6. /\ m \in Seq(Quote) /\ Distinct(m)
      /\ \A q \in Quote : In(q, m) <=> In(q, l) \/ reply[t] = <<q>>
  <2>1. Distinct(l)
    BY <1>4 DEF Gathers
  <2> HIDE DEF l
  <2>2. QED
    BY <1>1, <1>4, <1>5, <2>1, AppendedReply
<1>7. Gathers(m, call', reply)
  <2>1. \A q \in Quote : In(q, m) <=> \E y \in Tools : call'[y] = "taken" /\ reply[y] = <<q>>
    <3> SUFFICES ASSUME NEW q \in Quote
                 PROVE  In(q, m) <=> \E y \in Tools : call'[y] = "taken" /\ reply[y] = <<q>>
      OBVIOUS
    <3>1. In(q, l) <=> \E y \in Tools : call[y] = "taken" /\ reply[y] = <<q>>
      BY <1>4 DEF Gathers
    <3>2. \A y \in Tools : call'[y] = "taken" <=> call[y] = "taken" \/ y = t
      BY <1>3, Oneness
    <3>3. QED
      BY <1>6, <3>1, <3>2
  <2>2. QED
    BY <1>6, <2>1 DEF Gathers
<1> HIDE DEF l, m
<1>8. lifi' = [pc |-> "collecting", quotes |-> m, timer |-> lifi.timer]
  BY <1>1, <1>2, CollectionFields
<1>9. Typed'
  BY <1>1, <1>2, <1>3, <1>6, <1>8, CollectionFields DEF Typed
<1>10. LiFiKeeps(lifi.pc, lifi.quotes, call, reply)'
  BY <1>2, <1>7, <1>8 DEF LiFiKeeps
<1>11. \A q : Held(q, "collecting", lifi.quotes, call, reply)
                <=> Held(q, "collecting", m, call', reply)
  BY <1>1, <1>3, Oneness DEF Held
<1>12. collection.pc = "collecting" =>
          Collects(collection.quotes, "collecting", m, call', reply)
  BY <1>2, <1>11 DEF QuotesInv, Collects
<1>13. collection.pc # "answered" /\ collection.pc # "idle"
  BY <1>2 DEF QuotesInv, Answers
<1>14. QED
  BY <1>2, <1>8, <1>9, <1>10, <1>12, <1>13 DEF QuotesInv

LEMMA LiFiSendsKeeps == QuotesInv /\ LiFiSends => QuotesInv'
<1> SUFFICES ASSUME QuotesInv, LiFiSends PROVE QuotesInv'
  OBVIOUS
<1> DEFINE l == lifi.quotes
           m == LiFiAnswer(l)
<1>1. Typed
  BY DEF QuotesInv
<1>2. /\ lifi.pc = "collecting" /\ \A t \in Tools : call[t] = "taken"
      /\ lifi' = [lifi EXCEPT !.pc = "sent", !.quotes = m]
      /\ UNCHANGED <<sameChain, context, call, reply, collection>>
  BY DEF LiFiSends
<1>3. Gathers(l, call, reply) /\ l \in Seq(Quote)
  BY <1>1, <1>2, CollectionFields DEF QuotesInv, LiFiKeeps
<1>4. /\ m \in Seq(Quote) /\ Distinct(m)
      /\ \A q : In(q, m) => In(q, l)
      /\ \A q : In(q, l) /\ ~ In(q, m) =>
            Len(m) = MaxQuotes /\ \A k \in 1..MaxQuotes : q.amount <= m[k].amount
  <2>1. Distinct(l)
    BY <1>3 DEF Gathers
  <2> HIDE DEF l
  <2>2. QED
    BY <1>3, <2>1, LiFiAnswerFacts
<1> HIDE DEF l, m
<1>5. lifi' = [pc |-> "sent", quotes |-> m, timer |-> lifi.timer]
  BY <1>1, <1>2, CollectionFields
<1>6. Typed'
  BY <1>1, <1>2, <1>4, <1>5, CollectionFields DEF Typed
<1>7. \A q \in Quote : In(q, l) <=> \E t \in Tools : reply[t] = <<q>>
  BY <1>2, <1>3 DEF Gathers
<1>8. Serves(m, call, reply)
  BY <1>2, <1>4, <1>7 DEF Serves
<1>9. \A q : Held(q, "collecting", lifi.quotes, call, reply) <=> Held(q, "sent", m, call, reply)
  BY DEF Held
<1>10. collection.pc = "collecting" => Collects(collection.quotes, "sent", m, call, reply)
  BY <1>2, <1>9 DEF QuotesInv, Collects
<1>11. collection.pc # "answered" /\ collection.pc # "idle"
  BY <1>2 DEF QuotesInv, Answers
<1>12. QED
  BY <1>2, <1>5, <1>6, <1>8, <1>10, <1>11 DEF QuotesInv, LiFiKeeps

LEMMA LiFiGivesUpKeeps == QuotesInv /\ LiFiGivesUp => QuotesInv'
<1> SUFFICES ASSUME QuotesInv, LiFiGivesUp PROVE QuotesInv'
  OBVIOUS
<1>1. Typed
  BY DEF QuotesInv
<1>2. /\ lifi.pc = "collecting" /\ lifi' = [lifi EXCEPT !.pc = "failed"]
      /\ UNCHANGED <<sameChain, context, call, reply, collection>>
  BY DEF LiFiGivesUp
<1>3. lifi' = [pc |-> "failed", quotes |-> lifi.quotes, timer |-> lifi.timer]
  BY <1>1, <1>2, CollectionFields
<1>4. Typed'
  BY <1>1, <1>2, <1>3, CollectionFields DEF Typed
<1>5. \A q : Held(q, "collecting", lifi.quotes, call, reply)
               <=> Held(q, "failed", lifi.quotes, call, reply)
  BY DEF Held
<1>6. collection.pc = "collecting" =>
         Collects(collection.quotes, "failed", lifi.quotes, call, reply)
  BY <1>2, <1>5 DEF QuotesInv, Collects
<1>7. collection.pc # "answered" /\ collection.pc # "idle"
  BY <1>2 DEF QuotesInv, Answers
<1>8. QED
  BY <1>2, <1>3, <1>4, <1>6, <1>7 DEF QuotesInv, LiFiKeeps

\* Two lists with no source in common, one after the other.
LEMMA ListsJoined ==
    ASSUME NEW s \in Seq(Quote), NEW l \in Seq(Quote), Distinct(s), Distinct(l),
           \A i \in 1..Len(s), j \in 1..Len(l) : s[i].source # l[j].source
    PROVE  /\ s \o l \in Seq(Quote) /\ Distinct(s \o l)
           /\ \A q : In(q, s \o l) <=> In(q, s) \/ In(q, l)
<1> DEFINE t == s \o l
           m == Len(s)
           n == Len(l)
<1>1. /\ t \in Seq(Quote) /\ Len(t) = m + n /\ m \in Nat /\ n \in Nat
      /\ \A k \in 1..m : t[k] = s[k]
      /\ \A k \in 1..n : t[m + k] = l[k]
  OBVIOUS
<1> HIDE DEF t
<1>2. \A k : k \in 1..Len(t) <=> k \in 1..m \/ \E j \in 1..n : k = m + j
  <2> SUFFICES ASSUME NEW k, k \in 1..(m + n), k \notin 1..m PROVE \E j \in 1..n : k = m + j
    BY <1>1
  <2>1. k - m \in 1..n /\ k = m + (k - m)
    BY <1>1
  <2>2. QED
    BY <2>1
<1>3. \A q : In(q, t) <=> In(q, s) \/ In(q, l)
  <2>1. \A j \in 1..n : m + j \in 1..Len(t)
    BY <1>1
  <2>2. \A k \in 1..m : k \in 1..Len(t)
    BY <1>1
  <2>3. ASSUME NEW q, In(q, t) PROVE In(q, s) \/ In(q, l)
    <3>1. PICK k \in 1..Len(t) : t[k] = q
      BY <2>3 DEF In
    <3>2. CASE k \in 1..m
      BY <1>1, <3>1, <3>2 DEF In
    <3>3. CASE k \notin 1..m
      <4>1. PICK j \in 1..n : k = m + j
        BY <1>2, <3>3
      <4>2. l[j] = q
        BY <1>1, <3>1, <4>1
      <4>3. QED
        BY <4>2 DEF In
    <3>4. QED
      BY <3>2, <3>3
  <2>4. ASSUME NEW q, In(q, s) PROVE In(q, t)
    BY <1>1, <2>2, <2>4 DEF In
  <2>5. ASSUME NEW q, In(q, l) PROVE In(q, t)
    <3>1. PICK j \in 1..n : l[j] = q
      BY <2>5 DEF In
    <3>2. t[m + j] = q
      BY <1>1, <3>1
    <3>3. QED
      BY <2>1, <3>2 DEF In
  <2>6. QED
    BY <2>3, <2>4, <2>5
<1>4. Distinct(t)
  <2> SUFFICES ASSUME NEW i \in 1..Len(t), NEW j \in 1..Len(t), t[i].source = t[j].source
               PROVE  i = j
    BY DEF Distinct
  <2>1. CASE i \in 1..m /\ j \in 1..m
    BY <1>1, <2>1 DEF Distinct
  <2>2. CASE i \in 1..m /\ j \notin 1..m
    <3>1. PICK k \in 1..n : j = m + k
      BY <1>2, <2>2
    <3>2. QED
      BY <1>1, <2>2, <3>1
  <2>3. CASE i \notin 1..m /\ j \in 1..m
    <3>1. PICK k \in 1..n : i = m + k
      BY <1>2, <2>3
    <3>2. QED
      BY <1>1, <2>3, <3>1
  <2>4. CASE i \notin 1..m /\ j \notin 1..m
    <3>1. PICK h \in 1..n : i = m + h
      BY <1>2, <2>4
    <3>2. PICK k \in 1..n : j = m + k
      BY <1>2, <2>4
    <3>3. h = k
      BY <1>1, <3>1, <3>2 DEF Distinct
    <3>4. QED
      BY <3>1, <3>2, <3>3
  <2>5. QED
    BY <2>1, <2>2, <2>3, <2>4
<1>5. QED
  BY <1>1, <1>3, <1>4 DEF t

\* What LiFi returns comes from its tools.
LEMMA ServedByTools ==
    ASSUME Typed, NEW l \in Seq(Quote), Serves(l, call, reply), NEW k \in 1..Len(l)
    PROVE  l[k] \in Quote /\ In(l[k], l) /\ l[k].source \in Tools
             /\ reply[l[k].source] = <<l[k]>>
<1>1. l[k] \in Quote /\ In(l[k], l)
  BY DEF In
<1>2. PICK t \in Tools : reply[t] = <<l[k]>>
  BY <1>1 DEF Serves
<1>3. t \in Sources /\ reply[t] \in RepliesOf(t)
  BY Oneness DEF Typed
<1>4. l[k].source = t
  BY <1>2, <1>3, RepliesSource
<1>5. QED
  BY <1>1, <1>2, <1>4

\* A quote of 1inch is from 1inch.
LEMMA OneInchReplies ==
    ASSUME Typed, NEW q, reply[OneInch] = <<q>>
    PROVE  q \in Quote /\ q.source = OneInch /\ q.amount \in Nat
<1>1. OneInch \in Sources /\ reply[OneInch] \in RepliesOf(OneInch)
  BY Oneness DEF Typed
<1>2. QED
  BY <1>1, RepliesSource

LEMMA TakeLiFiKeeps == QuotesInv /\ TakeLiFi => QuotesInv'
<1> SUFFICES ASSUME QuotesInv, TakeLiFi PROVE QuotesInv'
  OBVIOUS
<1> DEFINE s == collection.quotes
           l == lifi.quotes
<1>1. Typed /\ collection.pc = "collecting"
  BY DEF QuotesInv, TakeLiFi
<1>2. Collects(s, lifi.pc, l, call, reply) /\ s \in Seq(Quote) /\ l \in Seq(Quote)
  BY <1>1, CollectionFields DEF QuotesInv
<1>3. CASE lifi.pc = "sent"
  <2> DEFINE m == s \o l
  <2>1. /\ lifi' = [lifi EXCEPT !.pc = "taken"]
        /\ collection' = [collection EXCEPT !.quotes = m]
        /\ UNCHANGED <<sameChain, context, call, reply>>
    BY <1>3 DEF TakeLiFi
  <2>2. Serves(l, call, reply)
    BY <1>3 DEF QuotesInv, LiFiKeeps
  <2>3. Distinct(s) /\ \A q \in Quote : In(q, s) <=> call[OneInch] = "taken" /\ reply[OneInch] = <<q>>
    BY <1>2, <1>3 DEF Collects, Held
  <2>4. Distinct(l)
    BY <2>2 DEF Serves
  <2>a. \A i \in 1..Len(s) : s[i].source = OneInch
    <3> SUFFICES ASSUME NEW i \in 1..Len(s) PROVE s[i].source = OneInch
      OBVIOUS
    <3>1. s[i] \in Quote /\ In(s[i], s)
      BY <1>2 DEF In
    <3>2. QED
      BY <1>1, <2>3, <3>1, OneInchReplies
  <2>b. \A j \in 1..Len(l) : l[j].source \in Tools
    BY <1>1, <1>2, <2>2, ServedByTools
  <2> HIDE DEF s, l
  <2>5. \A i \in 1..Len(s), j \in 1..Len(l) : s[i].source # l[j].source
    BY <2>a, <2>b, Oneness
  <2>6. m \in Seq(Quote) /\ Distinct(m) /\ \A q : In(q, m) <=> In(q, s) \/ In(q, l)
    BY <1>2, <2>3, <2>4, <2>5, ListsJoined
  <2> HIDE DEF m
  <2>7. /\ lifi' = [pc |-> "taken", quotes |-> l, timer |-> lifi.timer]
        /\ collection' = [pc |-> "collecting", quotes |-> m, timer |-> collection.timer]
    BY <1>1, <2>1, CollectionFields DEF l
  <2>8. Typed'
    BY <1>1, <1>2, <2>1, <2>6, <2>7, CollectionFields DEF Typed
  <2>9. Collects(m, "taken", l, call, reply)
    BY <2>3, <2>6 DEF Collects, Held
  <2>10. QED
    BY <2>1, <2>2, <2>7, <2>8, <2>9 DEF QuotesInv, LiFiKeeps
<1>4. CASE lifi.pc # "sent"
  <2>1. /\ lifi.pc = "failed" /\ lifi' = [lifi EXCEPT !.pc = "dropped"]
        /\ UNCHANGED <<sameChain, context, call, reply, collection>>
    BY <1>4 DEF TakeLiFi
  <2>2. lifi' = [pc |-> "dropped", quotes |-> l, timer |-> lifi.timer]
    BY <1>1, <2>1, CollectionFields
  <2>3. Typed'
    BY <1>1, <2>1, <2>2, CollectionFields DEF Typed
  <2>4. Collects(s, "dropped", l, call, reply)
    BY <1>2, <2>1 DEF Collects, Held
  <2>5. QED
    BY <1>1, <2>1, <2>2, <2>3, <2>4 DEF QuotesInv, LiFiKeeps
<1>5. QED
  BY <1>3, <1>4

LEMMA TakeOneInchKeeps == QuotesInv /\ TakeOneInch => QuotesInv'
<1> SUFFICES ASSUME QuotesInv, TakeOneInch PROVE QuotesInv'
  OBVIOUS
<1> DEFINE s == collection.quotes
           l == lifi.quotes
           m == s \o reply[OneInch]
<1>1. Typed
  BY DEF QuotesInv
<1>2. /\ collection.pc = "collecting" /\ call[OneInch] = "replied"
      /\ call' = [call EXCEPT ![OneInch] = "taken"]
      /\ collection' = [collection EXCEPT !.quotes = m]
      /\ UNCHANGED <<sameChain, context, reply, lifi>>
  BY DEF TakeOneInch
<1>3. Collects(s, lifi.pc, l, call, reply) /\ s \in Seq(Quote) /\ l \in Seq(Quote)
  BY <1>1, <1>2, CollectionFields DEF QuotesInv
<1>4. /\ call' \in [Sources -> {"idle", "calling", "replied", "taken"}]
      /\ call'[OneInch] = "taken" /\ \A t \in Tools : call'[t] = call[t]
      /\ reply[OneInch] \in RepliesOf(OneInch)
  BY <1>1, <1>2, Oneness DEF Typed
<1>5. Distinct(s) /\ \A q \in Quote : In(q, s) <=> lifi.pc = "taken" /\ In(q, l)
  BY <1>2, <1>3 DEF Collects, Held
<1>6. \A k \in 1..Len(s) : s[k].source # OneInch
  <2> SUFFICES ASSUME NEW k \in 1..Len(s) PROVE s[k].source # OneInch
    OBVIOUS
  <2>1. s[k] \in Quote /\ In(s[k], s)
    BY <1>3 DEF In
  <2>2. lifi.pc = "taken" /\ In(s[k], l)
    BY <1>5, <2>1
  <2>3. Serves(l, call, reply)
    BY <2>2 DEF QuotesInv, LiFiKeeps
  <2>4. PICK j \in 1..Len(l) : l[j] = s[k]
    BY <2>2 DEF In
  <2>5. l[j].source \in Tools
    BY <1>1, <1>3, <2>3, ServedByTools
  <2>6. QED
    BY <2>4, <2>5, Oneness
<1>7. /\ m \in Seq(Quote) /\ Distinct(m)
      /\ \A q \in Quote : In(q, m) <=> In(q, s) \/ reply[OneInch] = <<q>>
  <2> HIDE DEF s
  <2>1. QED
    BY <1>3, <1>4, <1>5, <1>6, AppendedReply, Oneness
<1> HIDE DEF s, m
<1>8. collection' = [pc |-> "collecting", quotes |-> m, timer |-> collection.timer]
  BY <1>1, <1>2, CollectionFields
<1>9. Typed'
  BY <1>1, <1>2, <1>4, <1>7, <1>8, CollectionFields DEF Typed
<1>10. Collects(m, lifi.pc, l, call', reply)
  BY <1>4, <1>5, <1>7 DEF Collects, Held
<1>11. LiFiKeeps(lifi.pc, l, call', reply)
  <2>1. LiFiKeeps(lifi.pc, l, call, reply)
    BY DEF QuotesInv
  <2>2. QED
    BY <1>4, <2>1 DEF LiFiKeeps, Gathers, Serves
<1>12. QED
  BY <1>2, <1>8, <1>9, <1>10, <1>11 DEF QuotesInv

LEMMA AnswerKeeps == QuotesInv /\ Answer => QuotesInv'
<1> SUFFICES ASSUME QuotesInv, Answer PROVE QuotesInv'
  OBVIOUS
<1> DEFINE s == collection.quotes
           m == Ordered(s)
           pc == IF s = <<>> THEN "refused" ELSE "answered"
<1>1. Typed
  BY DEF QuotesInv
<1>2. /\ collection.pc = "collecting"
      /\ lifi.pc \in {"taken", "dropped"} /\ call[OneInch] \in {"idle", "taken"}
      /\ collection' = [collection EXCEPT !.quotes = m, !.pc = pc]
      /\ context' = "done"
      /\ UNCHANGED <<sameChain, call, reply, lifi>>
  BY DEF Answer
<1>3. Collects(s, lifi.pc, lifi.quotes, call, reply) /\ s \in Seq(Quote)
  BY <1>1, <1>2, CollectionFields DEF QuotesInv
<1>4. pc \in {"refused", "answered"}
  OBVIOUS
<1> HIDE DEF s, pc
<1>5. /\ m \in Seq(Quote)
      /\ \A q : In(q, m) <=> In(q, s) /\ q.amount > 0
      /\ Distinct(s) => Distinct(m)
      /\ \A i, j \in 1..Len(m) : i < j => m[i].amount >= m[j].amount
  BY <1>3, OrderedFacts
<1> HIDE DEF m
<1>6. collection' = [pc |-> pc, quotes |-> m, timer |-> collection.timer]
  BY <1>1, <1>2, CollectionFields
<1>7. Typed'
  BY <1>1, <1>2, <1>4, <1>5, <1>6, CollectionFields DEF Typed
<1>8. Answers(m, lifi.pc, lifi.quotes, call, reply)
  BY <1>2, <1>3, <1>5 DEF Collects, Answers
<1>9. LiFiKeeps(lifi.pc, lifi.quotes, call, reply)
  BY DEF QuotesInv
<1>10. QED
  BY <1>2, <1>4, <1>6, <1>7, <1>8, <1>9 DEF QuotesInv

LEMMA QuotesInvNext == QuotesInv /\ [QuotesNext]_quoteVars => QuotesInv'
<1> SUFFICES ASSUME QuotesInv, [QuotesNext]_quoteVars PROVE QuotesInv'
  OBVIOUS
<1>1. CASE UNCHANGED quoteVars
  BY <1>1 DEF QuotesInv, Typed, quoteVars
<1>2. CASE QuotesNext
  BY <1>2, ZenonT(90), AskProvidersKeeps, CallKeeps, TimersKeep, TakeToolKeeps, LiFiSendsKeeps,
     LiFiGivesUpKeeps, TakeLiFiKeeps, TakeOneInchKeeps, AnswerKeeps DEF QuotesNext
<1>3. QED
  BY <1>1, <1>2

------------------------------------------------------------------------------
(* The property                                                             *)

\* The sources of a list whose quotes have different sources.
LEMMA SourcesCounted ==
    ASSUME NEW s \in Seq(Quote), Distinct(s)
    PROVE  Cardinality({s[k].source : k \in 1..Len(s)}) = Len(s)
<1> DEFINE n == Len(s)
           S == {s[k].source : k \in 1..n}
           f == [k \in 1..n |-> s[k].source]
<1>1. f \in Bijection(1..n, S)
  BY DEF Distinct, Bijection, Injection, Surjection, IsInjective
<1>2. ExistsBijection(1..n, S)
  BY <1>1 DEF ExistsBijection
<1>3. n \in Nat
  OBVIOUS
<1> HIDE DEF n, S, f
<1>4. Cardinality(S) = n
  BY <1>2, <1>3, FS_CountingElements
<1>5. QED
  BY <1>4 DEF n, S

LEMMA BestQuoteIsFirst == QuotesInv => BestQuoteFirst
<1> DEFINE s == collection.quotes
           l == lifi.quotes
<1> SUFFICES ASSUME QuotesInv, QuotesAnswered
             PROVE  /\ \A i, j \in 1..Len(s) : i < j => s[i].amount >= s[j].amount
                    /\ \A x \in Offered \ (IF lifi.pc = "dropped" THEN Tools ELSE {}) :
                          s # <<>> /\ reply[x][1].amount <= s[1].amount
                    /\ lifi.pc = "taken" =>
                          /\ \A x \in Sources : call[x] \in {"idle", "taken"}
                          /\ \A x \in Offered \ QuotesListed :
                                x \in Tools /\ Cardinality(QuotesListed \cap Tools) = MaxQuotes
  BY DEF BestQuoteFirst
<1>1. Typed /\ Answers(s, lifi.pc, l, call, reply) /\ s \in Seq(Quote) /\ l \in Seq(Quote)
  BY CollectionFields DEF QuotesInv, QuotesAnswered
<1>2. lifi.pc = "taken" => Serves(l, call, reply)
  BY DEF QuotesInv, LiFiKeeps
<1>3. lifi.pc \in {"taken", "dropped"} /\ call[OneInch] \in {"idle", "taken"}
  BY <1>1 DEF Answers
<1>4. \A i, j \in 1..Len(s) : i < j => s[i].amount >= s[j].amount
  BY <1>1 DEF Answers
<1>5. \A q \in Quote : In(q, s) <=> q.amount > 0 /\ Held(q, lifi.pc, l, call, reply)
  BY <1>1 DEF Answers
<1>6. ASSUME NEW x \in Offered
      PROVE  \E q \in Quote : /\ reply[x] = <<q>> /\ q.source = x /\ q.amount > 0
                              /\ reply[x][1] = q /\ x \in Sources /\ call[x] = "taken"
  <2>1. x \in Sources /\ call[x] = "taken" /\ reply[x] # <<>> /\ reply[x][1].amount > 0
    BY DEF Offered
  <2>2. reply[x] \in RepliesOf(x)
    BY <1>1, <2>1 DEF Typed
  <2>3. PICK a \in QuoteAmounts : reply[x] = <<[source |-> x, amount |-> a]>>
    BY <2>1, <2>2 DEF RepliesOf
  <2>4. [source |-> x, amount |-> a] \in Quote
    BY <2>1 DEF Quote
  <2>5. QED
    BY <2>1, <2>3, <2>4
<1> HIDE DEF s, l
\* The first is at least as good as any other listed.
<1>7. ASSUME NEW q, In(q, s) PROVE s # <<>> /\ q.amount <= s[1].amount
  <2>1. PICK k \in 1..Len(s) : s[k] = q
    BY <1>7 DEF In
  <2>2. Len(s) \in Nat /\ s \in Lists(Len(s)) /\ 1 \in 1..Len(s)
    BY <1>1 DEF Lists
  <2>3. s[1].amount \in Nat /\ s[k].amount \in Nat
    BY <2>2, ListedAmounts
  <2>4. k = 1 \/ s[1].amount >= s[k].amount
    BY <1>4, <2>2
  <2>5. s # <<>>
    BY <2>2
  <2>6. QED
    BY <2>1, <2>3, <2>4, <2>5
\* A tool's quote that LiFi has is listed, or LiFi has MaxQuotes that are.
<1>8. ASSUME lifi.pc = "taken", NEW q \in Quote, NEW t \in Tools, reply[t] = <<q>>, q.amount > 0,
             ~ In(q, s)
      PROVE  /\ Len(l) = MaxQuotes
             /\ \A k \in 1..MaxQuotes : In(l[k], s) /\ q.amount <= l[k].amount
  <2>1. ~ In(q, l)
    BY <1>5, <1>8 DEF Held
  <2>2. Len(l) = MaxQuotes /\ \A k \in 1..MaxQuotes : q.amount <= l[k].amount
    BY <1>2, <1>8, <2>1 DEF Serves
  <2>3. ASSUME NEW k \in 1..MaxQuotes PROVE In(l[k], s)
    <3>1. l[k] \in Quote /\ In(l[k], l)
      BY <1>1, <2>2 DEF In
    <3>2. q.amount \in Nat /\ l[k].amount \in Nat
      BY <3>1, QuotesAssumption DEF Quote
    <3>3. l[k].amount > 0
      BY <1>8, <2>2, <3>2
    <3>4. QED
      BY <1>5, <1>8, <3>1, <3>3 DEF Held
  <2>4. QED
    BY <2>2, <2>3
<1>9. ASSUME NEW x \in Offered, lifi.pc = "dropped" => x \notin Tools
      PROVE  s # <<>> /\ reply[x][1].amount <= s[1].amount
  <2>1. PICK q \in Quote : /\ reply[x] = <<q>> /\ q.source = x /\ q.amount > 0
                           /\ reply[x][1] = q /\ x \in Sources /\ call[x] = "taken"
    BY <1>6
  <2>2. CASE In(q, s)
    BY <1>7, <2>1, <2>2
  <2>3. CASE ~ In(q, s)
    <3>1. x # OneInch
      BY <1>5, <2>1, <2>3 DEF Held
    <3>2. x \in Tools /\ lifi.pc = "taken"
      BY <1>3, <1>9, <2>1, <3>1, Oneness
    <3>3. Len(l) = MaxQuotes /\ \A k \in 1..MaxQuotes : In(l[k], s) /\ q.amount <= l[k].amount
      BY <1>8, <2>1, <2>3, <3>2
    <3>4. 1 \in 1..MaxQuotes
      BY QuotesAssumption
    <3>5. In(l[1], s) /\ q.amount <= l[1].amount
      BY <3>3, <3>4
    <3>6. s # <<>> /\ l[1].amount <= s[1].amount
      BY <1>7, <3>5
    <3>7. l[1] \in Quote /\ s[1] \in Quote
      BY <1>1, <3>3, <3>4, <3>6
    <3>8. q.amount \in Nat /\ l[1].amount \in Nat /\ s[1].amount \in Nat
      BY <3>7, QuotesAssumption DEF Quote
    <3>9. QED
      BY <2>1, <3>5, <3>6, <3>8
  <2>4. QED
    BY <2>2, <2>3
<1>10. ASSUME lifi.pc = "taken", NEW x \in Sources PROVE call[x] \in {"idle", "taken"}
  BY <1>2, <1>3, <1>10, Oneness DEF Serves
<1>11. ASSUME lifi.pc = "taken", NEW x \in Offered, x \notin QuotesListed
       PROVE  x \in Tools /\ Cardinality(QuotesListed \cap Tools) = MaxQuotes
  <2>1. PICK q \in Quote : /\ reply[x] = <<q>> /\ q.source = x /\ q.amount > 0
                           /\ reply[x][1] = q /\ x \in Sources /\ call[x] = "taken"
    BY <1>6
  <2>2. ~ In(q, s)
    BY <1>11, <2>1 DEF In, QuotesListed, s
  <2>3. x # OneInch
    BY <1>5, <2>1, <2>2 DEF Held
  <2>4. x \in Tools
    BY <2>1, <2>3, Oneness
  <2>5. Len(l) = MaxQuotes /\ \A k \in 1..MaxQuotes : In(l[k], s)
    BY <1>8, <1>11, <2>1, <2>2, <2>4
  <2> DEFINE S == {l[k].source : k \in 1..Len(l)}
  <2>6. ASSUME NEW k \in 1..Len(l) PROVE l[k].source \in QuotesListed \cap Tools
    <3>1. l[k].source \in Tools
      BY <1>1, <1>2, <1>11, ServedByTools
    <3>2. PICK j \in 1..Len(s) : s[j] = l[k]
      BY <2>5 DEF In
    <3>3. QED
      BY <3>1, <3>2 DEF QuotesListed, s
  <2>7. ASSUME NEW y \in QuotesListed \cap Tools PROVE y \in S
    <3>1. PICK j \in 1..Len(s) : s[j].source = y
      BY DEF QuotesListed, s
    <3>2. s[j] \in Quote /\ In(s[j], s)
      BY <1>1 DEF In
    <3>3. Held(s[j], lifi.pc, l, call, reply)
      BY <1>5, <3>2
    <3>4. reply[OneInch] # <<s[j]>>
      BY <1>1, <3>1, OneInchReplies, Oneness
    <3>5. In(s[j], l)
      BY <3>3, <3>4 DEF Held
    <3>6. QED
      BY <3>1, <3>5 DEF In
  <2>8. QuotesListed \cap Tools = S
    BY <2>6, <2>7
  <2>9. Distinct(l)
    BY <1>2, <1>11 DEF Serves
  <2>10. Cardinality(S) = Len(l)
    BY <1>1, <2>9, SourcesCounted
  <2>11. QED
    BY <2>4, <2>5, <2>8, <2>10
<1>12. QED
  BY <1>4, <1>9, <1>10, <1>11 DEF s

LEMMA QuotesTyped == QuotesInv => QuotesTypeOK
<1> SUFFICES ASSUME QuotesInv PROVE QuotesTypeOK
  OBVIOUS
<1>1. Typed
  BY DEF QuotesInv
<1>2. /\ \A i \in 1..Len(lifi.quotes) : lifi.quotes[i] \in Quote
      /\ \A i \in 1..Len(collection.quotes) : collection.quotes[i] \in Quote
  BY <1>1, CollectionFields
<1>3. QED
  BY <1>1, <1>2, CollectionFields DEF QuotesTypeOK, Typed

(* The list GetQuotes answers is ordered from the best; the first quote is  *)
(* at least as good as every quote that reached its collector, unless LiFi  *)
(* gave up; and the answer waited for every call and lists each positive    *)
(* reply, except for those beyond LiFi's MaxQuotes, when there are as many. *)
THEOREM BestQuotesAnswered == QuotesSpec => []BestQuoteFirst
<1>1. QuotesInit => QuotesInv
  BY QuotesInvInit
<1>2. QuotesInv /\ [QuotesNext]_quoteVars => QuotesInv'
  BY QuotesInvNext
<1>3. QuotesInv => BestQuoteFirst
  BY BestQuoteIsFirst
<1>4. QED
  BY <1>1, <1>2, <1>3, PTL DEF QuotesSpec

(* The types of a request's state.                                          *)
THEOREM QuotesTypes == QuotesSpec => []QuotesTypeOK
<1>1. QuotesInit => QuotesInv
  BY QuotesInvInit
<1>2. QuotesInv /\ [QuotesNext]_quoteVars => QuotesInv'
  BY QuotesInvNext
<1>3. QuotesInv => QuotesTypeOK
  BY QuotesTyped
<1>4. QED
  BY <1>1, <1>2, <1>3, PTL DEF QuotesSpec
===============================================================================
