---------------------------- MODULE ServiceProofs ----------------------------
(***************************************************************************)
(* What the handlers of the core service and of the wallet registry keep   *)
(* in spite of what runs between their awaits, for any number of requests; *)
(* and the sums over finite sets that one of the invariants is about.      *)
(*                                                                         *)
(* A lemma named after an action says that the action keeps the invariant  *)
(* the lemma's name ends in; those named ...Is unfold a call's type.       *)
(***************************************************************************)
EXTENDS Orders, Trades, WalletRegistry, FiniteSetTheorems, WellFoundedInduction, TLAPS

------------------------------------------------------------------------------
(* Least numbers, and sums over finite sets                                *)

\* The least-number principle, for sets.
Less == {ss \in Nat \X Nat : ss[1] < ss[2]}

LEMMA LessWellFounded == IsWellFoundedOn(Less, Nat)
BY NatLessThanWellFounded DEF OpToRel, Less

LEMMA Smallest ==
    ASSUME NEW T \in SUBSET Nat, T # {}
    PROVE  \E x \in T : \A y \in T : x <= y
<1>1. \E x \in T : \A y \in T : ~(<<y, x>> \in Less)
  BY LessWellFounded, WFMin, Zenon
<1>2. PICK x \in T : \A y \in T : ~(<<y, x>> \in Less)
  BY <1>1
<1>3. ASSUME NEW y \in T PROVE x <= y
  <2>1. x \in Nat /\ y \in Nat
    OBVIOUS
  <2>2. y < x => <<y, x>> \in Less
    BY <2>1 DEF Less
  <2>3. QED
    BY <1>2, <2>1, <2>2
<1>4. QED
  BY <1>3

\* Induction over the subsets of a finite set, with a set for the predicate.
LEMMA SubsetInduction ==
    ASSUME NEW S, IsFiniteSet(S), NEW P,
           \A s \in SUBSET S : (\A x \in s : s \ {x} \in P) => s \in P
    PROVE  SUBSET S \subseteq P
<1> SUFFICES ASSUME NEW r \in SUBSET S, r \notin P PROVE FALSE
  OBVIOUS
<1> DEFINE T == {n \in Nat : \E s \in SUBSET S : s \notin P /\ Cardinality(s) = n}
<1>1. \A s \in SUBSET S : IsFiniteSet(s) /\ Cardinality(s) \in Nat
  BY FS_Subset, FS_CardinalityType
<1>2. Cardinality(r) \in T
  BY <1>1
<1>3. T \in SUBSET Nat /\ T # {}
  BY <1>2
<1>4. PICK n \in T : \A m \in T : n <= m
  <2> HIDE DEF T
  <2>1. QED
    BY <1>3, Smallest
<1>5. PICK s \in SUBSET S : s \notin P /\ Cardinality(s) = n
  OBVIOUS
<1>6. PICK x \in s : s \ {x} \notin P
  BY <1>5
<1>7. s \ {x} \in SUBSET S /\ Cardinality(s \ {x}) = n - 1
  BY <1>1, <1>5, FS_RemoveElement
<1>8. n - 1 \in T
  BY <1>1, <1>6, <1>7
<1>9. QED
  BY <1>4, <1>8

\* The sums of a set of numbers: each of them may be the one added last.
AddedLast(f, g, s, i) == {FloatSum(x, f[i]) : x \in g[s \ {i}]}
Added(f, g, s) == IF s = {} THEN {0} ELSE UNION {AddedLast(f, g, s, i) : i \in s}
Sums(f, S) == CHOOSE g : g = [s \in SUBSET S |-> Added(f, g, s)]

LEMMA FloatSumsAre == \A f, S : FloatSums(f, S) = Sums(f, S)[S]
BY DEF FloatSums, Sums, Added, AddedLast

\* Two functions that agree below s have the same sums there.
LEMMA AddedAgrees ==
    ASSUME NEW s, NEW f, NEW e, NEW g, NEW h,
           \A i \in s : f[i] = e[i] /\ g[s \ {i}] = h[s \ {i}]
    PROVE  Added(f, g, s) = Added(e, h, s)
<1>1. \A i \in s : AddedLast(f, g, s, i) = AddedLast(e, h, s, i)
  BY DEF AddedLast
<1>2. QED
  BY <1>1 DEF Added

LEMMA SumsUnfold ==
    ASSUME NEW S, IsFiniteSet(S), NEW f
    PROVE  \A s \in SUBSET S : Sums(f, S)[s] = Added(f, Sums(f, S), s)
<1> DEFINE Good(g, n) == \A s \in SUBSET S : Cardinality(s) <= n => g[s] = Added(f, g, s)
           Domain == SUBSET S
           T == {n \in Nat : ~ \E h : Good([s \in SUBSET S |-> h[s]], n)}
<1>1. \A s \in SUBSET S : IsFiniteSet(s) /\ Cardinality(s) \in Nat /\ Cardinality(s) <= Cardinality(S)
  BY FS_Subset, FS_CardinalityType
<1>2. Cardinality(S) \in Nat
  BY FS_CardinalityType
<1>3. 0 \notin T
  <2> DEFINE h == [s \in SUBSET S |-> {0}]
             g == [s \in SUBSET S |-> h[s]]
  <2>1. ASSUME NEW s \in SUBSET S, Cardinality(s) <= 0 PROVE g[s] = Added(f, g, s)
    <3>1. s = {}
      BY <1>1, <2>1, FS_EmptySet
    <3>2. QED
      BY <3>1 DEF Added
  <2>2. Good(g, 0)
    BY <2>1
  <2> HIDE DEF h
  <2>3. QED
    BY <2>2
<1>4. ASSUME NEW n \in Nat, n \notin T PROVE n + 1 \notin T
  <2>1. PICK k : Good([s \in SUBSET S |-> k[s]], n)
    BY <1>4
  <2> DEFINE g == [s \in SUBSET S |-> k[s]]
             h == [s \in SUBSET S |-> IF Cardinality(s) <= n THEN g[s] ELSE Added(f, g, s)]
             u == [s \in SUBSET S |-> h[s]]
  <2>2. ASSUME NEW s \in SUBSET S, Cardinality(s) <= n + 1 PROVE u[s] = Added(f, u, s)
    <3>1. u[s] = IF Cardinality(s) <= n THEN g[s] ELSE Added(f, g, s)
      OBVIOUS
    <3>2. u[s] = Added(f, g, s)
      BY <2>1, <3>1
    <3>3. ASSUME NEW i \in s PROVE u[s \ {i}] = g[s \ {i}]
      <4>1. s \ {i} \in SUBSET S /\ Cardinality(s \ {i}) <= n
        BY <1>1, <2>2, FS_RemoveElement
      <4>2. QED
        BY <4>1
    <3> HIDE DEF u, g
    <3>4. Added(f, g, s) = Added(f, u, s)
      BY <3>3, AddedAgrees
    <3>5. QED
      BY <3>2, <3>4
  <2>3. Good(u, n + 1)
    BY <2>2
  <2> HIDE DEF h
  <2>4. QED
    BY <2>3
<1>5. T = {}
  <2> SUFFICES ASSUME T # {} PROVE FALSE
    OBVIOUS
  <2>1. T \in SUBSET Nat
    OBVIOUS
  <2> HIDE DEF T
  <2>2. PICK n \in T : \A m \in T : n <= m
    BY <2>1, Smallest
  <2>3. n \in Nat /\ n # 0 /\ n - 1 \in Nat /\ (n - 1) + 1 = n
    BY <1>3, <2>1
  <2>4. n - 1 \notin T
    BY <2>1, <2>2, <2>3
  <2>5. QED
    BY <1>4, <2>3, <2>4
<1>6. PICK h : Good([s \in SUBSET S |-> h[s]], Cardinality(S))
  BY <1>2, <1>5
<1> DEFINE g == [s \in SUBSET S |-> h[s]]
<1>7. \A s \in SUBSET S : g[s] = Added(f, g, s)
  BY <1>1, <1>6
<1>8. g = [s \in SUBSET S |-> Added(f, g, s)]
  <2>1. g = [s \in SUBSET S |-> g[s]]
    OBVIOUS
  <2> HIDE DEF g
  <2>2. QED
    BY <1>7, <2>1
<1> HIDE DEF g
<1>9. Sums(f, S) = [s \in SUBSET S |-> Added(f, Sums(f, S), s)]
  BY <1>8 DEF Sums
<1>10. QED
  BY <1>9

\* Where two functions agree, so do their sums.
LEMMA SumsAgree ==
    ASSUME NEW S, IsFiniteSet(S), NEW T, IsFiniteSet(T), NEW f, NEW g,
           NEW r \in SUBSET (S \cap T), \A x \in r : f[x] = g[x]
    PROVE  Sums(f, S)[r] = Sums(g, T)[r]
<1> DEFINE P == {s \in SUBSET r : Sums(f, S)[s] = Sums(g, T)[s]}
<1>1. IsFiniteSet(r)
  BY FS_Subset
<1>2. ASSUME NEW s \in SUBSET r, \A x \in s : s \ {x} \in P PROVE s \in P
  <2>1. s \in SUBSET S /\ s \in SUBSET T
    OBVIOUS
  <2>2. Sums(f, S)[s] = Added(f, Sums(f, S), s) /\ Sums(g, T)[s] = Added(g, Sums(g, T), s)
    BY <2>1, SumsUnfold
  <2>3. \A i \in s : f[i] = g[i] /\ Sums(f, S)[s \ {i}] = Sums(g, T)[s \ {i}]
    BY <1>2
  <2>4. Added(f, Sums(f, S), s) = Added(g, Sums(g, T), s)
    BY <2>3, AddedAgrees
  <2>5. QED
    BY <2>2, <2>4
<1> HIDE DEF P
<1>3. SUBSET r \subseteq P
  BY <1>1, <1>2, SubsetInduction
<1>4. r \in P
  BY <1>3
<1>5. QED
  BY <1>4 DEF P

LEMMA NoSum == \A f : FloatSums(f, {}) = {0}
<1> SUFFICES ASSUME NEW f PROVE FloatSums(f, {}) = {0}
  OBVIOUS
<1>1. IsFiniteSet({}) /\ {} \in SUBSET {}
  BY FS_EmptySet
<1>2. Sums(f, {})[{}] = Added(f, Sums(f, {}), {})
  BY <1>1, SumsUnfold
<1>3. QED
  BY <1>2, FloatSumsAre DEF Added

\* A sum of some of the numbers, and one number more: a sum of them all.
LEMMA OneMore ==
    ASSUME NEW S, IsFiniteSet(S), NEW f, NEW i \in S, NEW x \in FloatSums(f, S \ {i})
    PROVE  FloatSum(x, f[i]) \in FloatSums(f, S)
<1> DEFINE T == S \ {i}
<1>1. Sums(f, S)[S] = Added(f, Sums(f, S), S)
  BY SumsUnfold
<1>2. IsFiniteSet(T) /\ T \in SUBSET (S \cap T)
  BY FS_Subset
<1>3. Sums(f, S)[T] = Sums(f, T)[T]
  <2> HIDE DEF T
  <2>1. QED
    BY <1>2, SumsAgree
<1>4. x \in Sums(f, S)[T]
  BY <1>3, FloatSumsAre
<1>5. FloatSum(x, f[i]) \in Added(f, Sums(f, S), S)
  <2>1. FloatSum(x, f[i]) \in AddedLast(f, Sums(f, S), S, i)
    BY <1>4 DEF AddedLast
  <2>2. AddedLast(f, Sums(f, S), S, i) \subseteq Added(f, Sums(f, S), S)
    BY DEF Added
  <2>3. QED
    BY <2>1, <2>2
<1>6. QED
  BY <1>1, <1>5, FloatSumsAre

LEMMA SameSums ==
    ASSUME NEW S, IsFiniteSet(S), NEW f, NEW g, \A x \in S : f[x] = g[x]
    PROVE  FloatSums(f, S) = FloatSums(g, S)
<1>1. S \in SUBSET (S \cap S)
  OBVIOUS
<1>2. Sums(f, S)[S] = Sums(g, S)[S]
  BY <1>1, SumsAgree
<1>3. QED
  BY <1>2, FloatSumsAre

\* There is a nearest float, and where two are as near one of them is taken.
LEMMA RoundedType == \A x \in Nat : Rounded(x) \in Nat
<1> SUFFICES ASSUME NEW x \in Nat PROVE Rounded(x) \in Nat
  OBVIOUS
<1> DEFINE far(f) == IF f < x THEN x - f ELSE f - x
           T == {far(f) : f \in Floats}
           nearest == {f \in Floats : \A g \in Floats : far(f) <= far(g)}
<1>1. T \in SUBSET Nat /\ T # {}
  <2>1. \A f \in Floats : f \in Nat
    BY OrdersAssumption
  <2>2. \A f \in Floats : far(f) \in Nat
    BY <2>1
  <2> HIDE DEF far
  <2>3. QED
    BY <2>2, OrdersAssumption
<1>2. PICK n \in T : \A m \in T : n <= m
  <2> HIDE DEF T
  <2>1. QED
    BY <1>1, Smallest
<1>3. PICK f \in Floats : n = far(f)
  BY <1>2
<1>4. \A g \in Floats : far(g) \in T
  OBVIOUS
<1>5. f \in nearest
  BY <1>2, <1>3, <1>4
<1>6. nearest \subseteq Nat
  BY OrdersAssumption
<1> DEFINE chosen == CHOOSE g \in nearest : g \in EvenFloats \/ nearest \cap EvenFloats = {}
<1>7. Rounded(x) = x \/ Rounded(x) = chosen
  BY DEF Rounded
<1> HIDE DEF nearest
<1>8. \E g \in nearest : g \in EvenFloats \/ nearest \cap EvenFloats = {}
  BY <1>5
<1>9. chosen \in nearest
  BY <1>8
<1> HIDE DEF chosen
<1>10. QED
  BY <1>6, <1>7, <1>9

LEMMA FloatSumType == \A x \in Nat, y \in Nat : FloatSum(x, y) \in Nat
<1> SUFFICES ASSUME NEW x \in Nat, NEW y \in Nat PROVE FloatSum(x, y) \in Nat
  OBVIOUS
<1>1. Rounded(x) + Rounded(y) \in Nat
  BY RoundedType
<1>2. QED
  BY <1>1, RoundedType DEF FloatSum

------------------------------------------------------------------------------
(* Orders: what a read answers                                             *)

\* A read has a row that is no older than the request, and its list of
\* executions no fewer than the row counts; recordExecution writes of an
\* execution that is in the table, to an order that was there.
Agrees(r, o, recorded) ==
    /\ r.since <= o.version
    /\ r.op \in Reads => r.pc \notin {"read", "insert", "write", "touch", "invalidate"}
    /\ r.op \in Reads /\ r.pc \in {"executions", "set", "expire", "done"} =>
          r.since <= r.seen.version
    /\ r.op = "details" /\ r.pc \in {"set", "expire", "done"} => r.seen.parts \subseteq r.listed
    /\ r.seen.parts \subseteq recorded
    /\ r.op = "record" =>
          /\ r.amount # 0
          /\ r.pc \in {"insert", "write"} => r.seen.status # Absent
          /\ r.pc = "write" => r.ix \in recorded
    /\ r.op = "cancel" /\ r.pc = "write" => o.status # Absent

OrdersInv ==
    /\ order \in Row /\ executions \in [Indices -> Amounts \cup {0}]
    /\ orderCall \in [OrderCalls -> Request]
    /\ order.parts \subseteq Recorded
    /\ \A c \in OrderCalls : Agrees(orderCall[c], order, Recorded)
    /\ order.status = Absent => order = NoRow

LEMMA CallIs ==
    ASSUME OrdersInv, NEW c \in OrderCalls
    PROVE  /\ orderCall[c] \in Request /\ Agrees(orderCall[c], order, Recorded)
           /\ orderCall[c].seen \in Row /\ order \in Row /\ NoRow \in Row /\ NewRow \in Row
<1>1. NoRow \in Row /\ NewRow \in Row
  BY DEF NoRow, NewRow, Row, Statuses
<1>2. QED
  BY <1>1 DEF OrdersInv, Request

\* A step of one call: rows and executions only come and grow.
LEMMA OneOrderCall ==
    ASSUME OrdersInv, NEW c \in OrderCalls, NEW r \in Request,
           orderCall' = [orderCall EXCEPT ![c] = r],
           order' \in Row, order'.version >= order.version, order'.parts \subseteq Recorded',
           order'.status = Absent => order.status = Absent /\ order' = NoRow,
           executions' \in [Indices -> Amounts \cup {0}],
           Recorded \subseteq Recorded', Agrees(r, order', Recorded')
    PROVE  OrdersInv'
<1>1. \A d \in OrderCalls : orderCall'[d] = IF d = c THEN r ELSE orderCall[d]
  BY DEF OrdersInv
<1>2. orderCall' \in [OrderCalls -> Request]
  BY DEF OrdersInv
<1>3. ASSUME NEW d \in OrderCalls PROVE Agrees(orderCall'[d], order', Recorded')
  <2>1. CASE d = c
    BY <1>1, <2>1
  <2>2. CASE d # c
    <3> DEFINE q == orderCall[d]
    <3>1. /\ Agrees(q, order, Recorded) /\ q.since \in Nat
          /\ order.version \in Nat /\ order'.version \in Nat
      BY CallIs DEF Request, Row
    <3> HIDE DEF q
    <3>2. Agrees(q, order', Recorded')
      BY <3>1 DEF Agrees
    <3>3. QED
      BY <1>1, <2>2, <3>2 DEF q
  <2>3. QED
    BY <2>1, <2>2
<1>4. QED
  BY <1>2, <1>3 DEF OrdersInv

\* The same of a step that leaves the tables alone.
LEMMA TablesAlone ==
    ASSUME OrdersInv, NEW c \in OrderCalls, NEW r \in Request,
           orderCall' = [orderCall EXCEPT ![c] = r], UNCHANGED <<order, executions>>,
           Agrees(r, order, Recorded)
    PROVE  OrdersInv'
<1>1. order' = order /\ Recorded' = Recorded /\ executions' = executions
  BY DEF Recorded
<1>2. /\ order \in Row /\ order.version \in Nat /\ order.parts \subseteq Recorded
      /\ executions \in [Indices -> Amounts \cup {0}]
      /\ order.status = Absent => order = NoRow
  BY DEF OrdersInv, Row
<1>3. Agrees(r, order', Recorded') /\ Recorded \subseteq Recorded'
  BY <1>1, Zenon
<1>4. order'.version >= order.version /\ order'.parts \subseteq Recorded'
  BY <1>1, <1>2
<1>5. order'.status = Absent => order.status = Absent /\ order' = NoRow
  BY <1>1, <1>2
<1>6. QED
  BY <1>1, <1>2, <1>3, <1>4, <1>5, OneOrderCall

\* A call that goes on: pc is all that changes of its request.
LEMMA GoesToFacts ==
    ASSUME OrdersInv, NEW c \in OrderCalls, NEW pc, GoesTo(c, pc),
           pc \in {"drop", "query", "executions", "set", "expire", "insert", "write", "touch",
                   "invalidate", "done", "failed", "aborted"},
           NEW r, r = [orderCall[c] EXCEPT !.pc = pc]
    PROVE  /\ r \in Request /\ orderCall' = [orderCall EXCEPT ![c] = r]
           /\ r.pc = pc /\ r.op = orderCall[c].op /\ r.since = orderCall[c].since
           /\ r.seen = orderCall[c].seen /\ r.listed = orderCall[c].listed
           /\ r.amount = orderCall[c].amount /\ r.ix = orderCall[c].ix
<1>1. orderCall[c] \in Request
  BY CallIs
<1>2. QED
  BY <1>1 DEF GoesTo, Request

\* Where nothing more is said of a call than before.
LEMMA QuietGoes ==
    ASSUME OrdersInv, NEW c \in OrderCalls, NEW pc, GoesTo(c, pc),
           \/ pc \in {"drop", "query", "failed", "aborted"}
           \/ orderCall[c].op \in Reads /\ orderCall[c].pc \in {"set", "expire"}
              /\ pc \in {"expire", "done"}
           \/ orderCall[c].op \notin Reads /\ pc \in {"touch", "invalidate", "done"},
           UNCHANGED <<order, executions>>
    PROVE  OrdersInv'
<1> DEFINE q == orderCall[c]
<1> SUFFICES ASSUME NEW r, r = [orderCall[c] EXCEPT !.pc = pc] PROVE OrdersInv'
  OBVIOUS
<1>1. /\ r \in Request /\ orderCall' = [orderCall EXCEPT ![c] = r]
      /\ r.pc = pc /\ r.op = q.op /\ r.since = q.since
      /\ r.seen = q.seen /\ r.listed = q.listed
      /\ r.amount = q.amount /\ r.ix = q.ix
  BY GoesToFacts
<1>2. Agrees(q, order, Recorded) /\ "details" \in Reads
  BY CallIs DEF Reads, CachedViews
<1> DEFINE reading == q.op \in Reads
<1>3. reading => q.op \notin {"record", "cancel"}
  BY DEF Reads, CachedViews
<1>4. \/ pc \in {"drop", "query", "failed", "aborted"}
      \/ reading /\ q.pc \in {"set", "expire"} /\ pc \in {"expire", "done"}
      \/ ~reading /\ pc \in {"touch", "invalidate", "done"}
  OBVIOUS
<1> HIDE DEF q
<1>5. Agrees(r, order, Recorded)
  BY <1>1, <1>2, <1>3, <1>4 DEF Agrees
<1>6. QED
  BY <1>1, <1>5, TablesAlone

\* What a request is when it arrives.
ArrivedAs(c, r) ==
    /\ orderCall' = [orderCall EXCEPT ![c] = r] /\ r \in Request
    /\ r.since = order.version /\ r.seen = NoRow
    /\ r.pc \in {"query", "get", "write", "read"}
    /\ r.op \in Reads => r.pc \in {"query", "get"}
    /\ r.op = "record" => r.amount # 0 /\ r.pc = "read"
    /\ r.op = "cancel" => r.pc = "read"

LEMMA ArriveOrdersInv == ASSUME OrdersInv, NEW c \in OrderCalls, ArriveAny(c) PROVE OrdersInv'
<1>1. PICK r : ArrivedAs(c, r)
  <2> SUFFICES ASSUME NEW op \in Reads \cup {"create", "update", "cancel", "record"},
                      NEW ix \in Indices, NEW amount \in Amounts \cup {0},
                      NEW status \in Statuses \cup {Keep}, Arrive(c, op, ix, amount, status),
                      op = "record" => amount # 0
               PROVE  \E r : ArrivedAs(c, r)
    <3>1. /\ NoRequest.ix \in Indices /\ 0 \in Amounts \cup {0} /\ Amounts \subseteq Nat \ {0}
          /\ SetStatuses \subseteq Statuses
      BY OrdersAssumption DEF NoRequest
    <3>2. "record" \notin Reads \cup {"create", "cancel"}
      BY DEF Reads, CachedViews
    <3>3. QED
      BY <3>1, <3>2 DEF ArriveAny
  <2>1. PICK first \in FirstSteps(op) :
          orderCall' = [orderCall EXCEPT ![c] =
            [op |-> op, pc |-> first, ix |-> ix, amount |-> amount, status |-> status,
             seen |-> NoRow, listed |-> {}, since |-> order.version]]
    BY DEF Arrive
  <2>2. /\ first \in {"query", "get", "write", "read"}
        /\ op \in Reads => first \in {"query", "get"}
        /\ op \in {"record", "cancel"} => first = "read"
    BY DEF FirstSteps, Reads, CachedViews
  <2> DEFINE r == [op |-> op, pc |-> first, ix |-> ix, amount |-> amount, status |-> status,
                   seen |-> NoRow, listed |-> {}, since |-> order.version]
  <2>3. order.version \in Nat /\ NoRow \in Row
    BY CallIs DEF Row
  <2>4. r \in Request
    BY <2>2, <2>3 DEF Request
  <2>5. ArrivedAs(c, r)
    BY <2>1, <2>2, <2>4 DEF ArrivedAs
  <2>6. QED
    BY <2>5
<1>2. order.version \in Nat /\ NoRow.parts = {}
  BY CallIs DEF Row, NoRow
<1>3. "details" \in Reads
  BY DEF Reads, CachedViews
<1>4. Agrees(r, order, Recorded)
  BY <1>1, <1>2, <1>3 DEF Agrees, ArrivedAs
<1>5. UNCHANGED <<order, executions>>
  BY DEF ArriveAny, Arrive
<1>6. QED
  BY <1>1, <1>4, <1>5, TablesAlone DEF ArrivedAs
\* Steps after which a call has read and written nothing more.
LEMMA PassingOrdersInv ==
    ASSUME OrdersInv, NEW c \in OrderCalls,
           \/ \E v \in CachedViews :
                 GetView(c, v) \/ DropView(c, v) \/ SetView(c, v) \/ ExpireView(c, v)
           \/ CacheOrder(c) \/ Invalidate(c) \/ Abort(c)
    PROVE  OrdersInv'
<1>1. Agrees(orderCall[c], order, Recorded)
  BY CallIs
<1>2. CASE \E v \in CachedViews :
             GetView(c, v) \/ DropView(c, v) \/ SetView(c, v) \/ ExpireView(c, v)
  <2>1. PICK v \in CachedViews :
          GetView(c, v) \/ DropView(c, v) \/ SetView(c, v) \/ ExpireView(c, v)
    BY <1>2
  <2>2. v \in Reads
    BY DEF Reads
  <2>3. CASE GetView(c, v)
    BY <2>3, QuietGoes DEF GetView, Unparsable
  <2>4. CASE DropView(c, v)
    BY <2>4, QuietGoes DEF DropView
  <2>5. CASE SetView(c, v)
    BY <2>2, <2>5, QuietGoes DEF SetView, At
  <2>6. CASE ExpireView(c, v)
    BY <2>2, <2>6, QuietGoes DEF ExpireView, At
  <2>7. QED
    BY <2>1, <2>3, <2>4, <2>5, <2>6
<1>3. CASE CacheOrder(c)
  BY <1>1, <1>3, QuietGoes DEF CacheOrder, Agrees
<1>4. CASE Invalidate(c)
  BY <1>1, <1>4, QuietGoes DEF Invalidate, Agrees
<1>5. CASE Abort(c)
  BY <1>5, QuietGoes DEF Abort
<1>6. QED
  BY <1>2, <1>3, <1>4, <1>5

\* The row goes to the request that asked for it, which goes on to pc.
ReadsRow(c, pc) ==
    /\ orderCall' = [orderCall EXCEPT ![c] = [@ EXCEPT !.seen = order, !.pc = pc]]
    /\ UNCHANGED <<order, executions>>
    /\ orderCall[c].op \in Reads => pc \in {"done", "failed", "executions", "set"}
    /\ orderCall[c].op = "details" => pc \in {"failed", "executions"}
    /\ orderCall[c].op \notin Reads =>
          /\ pc \in {"failed", IF orderCall[c].op = "record" THEN "insert" ELSE "write"}
          /\ pc # "failed" /\ orderCall[c].op \in {"record", "cancel"} => order.status # Absent

\* What is read of the order is the order as it is.
LEMMA QueryOrdersInv ==
    ASSUME OrdersInv, NEW c \in OrderCalls,
           \/ \E v \in Reads : QueryOrder(c, v)
           \/ \E op \in {"create", "cancel", "record"} : ReadBefore(c, op)
    PROVE  OrdersInv'
<1> DEFINE q == orderCall[c]
<1>1. PICK pc : ReadsRow(c, pc)
  <2>1. ASSUME NEW v \in Reads, QueryOrder(c, v)
        PROVE  ReadsRow(c, AfterQuery(v))
    <3>1. /\ AfterQuery(v) \in {"done", "failed", "executions", "set"}
          /\ v = "details" => AfterQuery(v) \in {"failed", "executions"}
      BY DEF AfterQuery
    <3>2. /\ orderCall' = [orderCall EXCEPT ![c] = [@ EXCEPT !.seen = order, !.pc = AfterQuery(v)]]
          /\ UNCHANGED <<order, executions>> /\ orderCall[c].op = v
      BY <2>1 DEF QueryOrder, At
    <3>3. QED
      BY <3>1, <3>2, Zenon DEF ReadsRow
  <2>2. ASSUME NEW op \in {"create", "cancel", "record"}, ReadBefore(c, op)
        PROVE  \E pc : ReadsRow(c, pc)
    <3> DEFINE pc == IF ~Allowed(op) THEN "failed"
                     ELSE IF op = "record" THEN "insert" ELSE "write"
    <3>1. /\ orderCall' = [orderCall EXCEPT ![c] = [@ EXCEPT !.seen = order, !.pc = pc]]
          /\ UNCHANGED <<order, executions>> /\ orderCall[c].op = op
      BY <2>2 DEF ReadBefore, At
    <3>2. /\ op \notin Reads /\ "details" \in Reads
          /\ pc \in {"failed", IF op = "record" THEN "insert" ELSE "write"}
          /\ pc # "failed" /\ op \in {"record", "cancel"} => order.status # Absent
      BY DEF Allowed, Reads, CachedViews
    <3> HIDE DEF pc
    <3>3. ReadsRow(c, pc)
      BY <3>1, <3>2 DEF ReadsRow
    <3>4. QED
      BY <3>3
  <2>3. QED
    BY <2>1, <2>2
<1> SUFFICES ASSUME NEW r, r = [orderCall[c] EXCEPT !.seen = order, !.pc = pc] PROVE OrdersInv'
  OBVIOUS
<1>2. orderCall' = [orderCall EXCEPT ![c] = r] /\ UNCHANGED <<order, executions>>
  BY <1>1 DEF ReadsRow
<1>3. /\ q \in Request /\ Agrees(q, order, Recorded) /\ order \in Row
      /\ order.parts \subseteq Recorded
      /\ "details" \in Reads /\ "record" \notin Reads /\ "cancel" \notin Reads
  BY CallIs DEF OrdersInv, Reads, CachedViews
<1>4. /\ pc \in {"done", "failed", "executions", "set", "insert", "write"}
      /\ q.op \in Reads => pc \in {"done", "failed", "executions", "set"}
      /\ q.op = "details" => pc \in {"failed", "executions"}
      /\ q.op = "record" => pc \in {"failed", "insert"}
      /\ pc # "failed" /\ q.op \in {"record", "cancel"} => order.status # Absent
  BY <1>1, <1>3 DEF ReadsRow
<1>5. /\ r \in Request /\ r.pc = pc /\ r.seen = order /\ r.op = q.op /\ r.since = q.since
      /\ r.amount = q.amount
  BY <1>3, <1>4 DEF Request
<1> HIDE DEF q
<1>6. Agrees(r, order, Recorded)
  BY <1>3, <1>4, <1>5 DEF Agrees
<1>7. QED
  BY <1>2, <1>5, <1>6, TablesAlone

\* The second query of getOrderDetails finds every execution the first one's row counts.
LEMMA QueryExecutionsInv ==
    ASSUME OrdersInv, NEW c \in OrderCalls, QueryExecutions(c)
    PROVE  OrdersInv'
<1> DEFINE q == orderCall[c]
<1> SUFFICES ASSUME NEW r, r = [orderCall[c] EXCEPT !.listed = Recorded, !.pc = "set"]
             PROVE  OrdersInv'
  OBVIOUS
<1>1. /\ orderCall' = [orderCall EXCEPT ![c] = r] /\ UNCHANGED <<order, executions>>
      /\ q.op = "details" /\ q.pc = "executions"
  BY DEF QueryExecutions, At
<1>2. /\ q \in Request /\ Agrees(q, order, Recorded) /\ Recorded \subseteq Indices
      /\ "details" \in Reads
  BY CallIs DEF Recorded, Reads, CachedViews
<1>3. /\ r \in Request /\ r.pc = "set" /\ r.seen = q.seen /\ r.op = q.op /\ r.since = q.since
      /\ r.listed = Recorded
  BY <1>2 DEF Request
<1> HIDE DEF q
<1>4. Agrees(r, order, Recorded)
  BY <1>1, <1>2, <1>3 DEF Agrees
<1>5. QED
  BY <1>1, <1>3, <1>4, TablesAlone
\* A write makes the next version of the row.
LEMMA WrittenFacts ==
    ASSUME OrdersInv, NEW new \in Row, Written(new)
    PROVE  /\ order' \in Row /\ order'.version = order.version + 1
           /\ order'.version >= order.version
           /\ order'.status = new.status /\ order'.parts = new.parts
<1>1. order.version \in Nat
  BY CallIs DEF Row, OrdersInv
<1>2. QED
  BY <1>1 DEF Written, Row

\* A write of an order that is there, or is created, and whose parts stay true.
LEMMA WriteOrdersInv ==
    ASSUME OrdersInv, NEW c \in OrderCalls, NEW new \in Row, Written(new), GoesTo(c, "touch"),
           new.parts \subseteq Recorded, new.status # Absent, executions' = executions,
           orderCall[c].op \notin Reads
    PROVE  OrdersInv'
<1> DEFINE q == orderCall[c]
<1> SUFFICES ASSUME NEW r, r = [orderCall[c] EXCEPT !.pc = "touch"] PROVE OrdersInv'
  OBVIOUS
<1>1. /\ r \in Request /\ orderCall' = [orderCall EXCEPT ![c] = r]
      /\ r.pc = "touch" /\ r.op = q.op /\ r.since = q.since
      /\ r.seen = q.seen /\ r.listed = q.listed
      /\ r.amount = q.amount /\ r.ix = q.ix
  BY GoesToFacts
<1>2. /\ order' \in Row /\ order'.version >= order.version /\ order'.status # Absent
      /\ order'.parts \subseteq Recorded
      /\ order.version \in Nat /\ order'.version \in Nat
  BY WrittenFacts DEF OrdersInv, Row
<1>3. Recorded' = Recorded /\ executions' \in [Indices -> Amounts \cup {0}]
  BY DEF OrdersInv, Recorded
<1>4. /\ Agrees(q, order, Recorded) /\ q.since \in Nat /\ q.op \notin Reads
      /\ "details" \in Reads
  BY CallIs DEF Request, Reads, CachedViews
<1> HIDE DEF q
<1>5. Agrees(r, order', Recorded)
  BY <1>1, <1>2, <1>4 DEF Agrees
<1>6. QED
  BY <1>1, <1>2, <1>3, <1>5, OneOrderCall

LEMMA ChangeOrdersInv ==
    ASSUME OrdersInv, NEW c \in OrderCalls, CreateOrder(c) \/ UpdateOrder(c) \/ CancelOrder(c)
    PROVE  OrdersInv'
<1>1. /\ executions' = executions /\ orderCall[c].op \in {"create", "update", "cancel"}
      /\ orderCall[c].op \notin Reads
  BY DEF CreateOrder, UpdateOrder, CancelOrder, At, Reads, CachedViews
<1>2. /\ order \in Row /\ NewRow \in Row /\ orderCall[c] \in Request
      /\ Agrees(orderCall[c], order, Recorded) /\ order.parts \subseteq Recorded
  BY CallIs DEF OrdersInv
<1>3. CASE GoesTo(c, "failed") /\ order' = order
  BY <1>1, <1>3, QuietGoes
<1>4. CASE CreateOrder(c) /\ ~GoesTo(c, "failed")
  <2>1. Written(NewRow) /\ GoesTo(c, "touch")
    BY <1>4 DEF CreateOrder
  <2>2. NewRow.parts = {} /\ NewRow.status # Absent
    BY DEF NewRow, NoRow, Absent
  <2>3. QED
    BY <1>1, <1>2, <2>1, <2>2, WriteOrdersInv
<1>5. CASE CancelOrder(c)
  <2> DEFINE new == [order EXCEPT !.status = "CANCELLED"]
  <2>1. Written(new) /\ GoesTo(c, "touch")
    BY <1>5 DEF CancelOrder
  <2>2. new \in Row /\ new.parts = order.parts /\ new.status # Absent
    BY <1>2 DEF Row, Statuses, Absent
  <2> HIDE DEF new
  <2>3. QED
    BY <1>1, <1>2, <2>1, <2>2, WriteOrdersInv
<1>6. CASE UpdateOrder(c) /\ order.status # Absent
  <2> DEFINE q == orderCall[c]
             s == IF q.status = Keep THEN order.status ELSE q.status
             e == IF q.amount = 0 THEN order.executed ELSE q.amount
             new == [order EXCEPT !.status = s, !.executed = e]
  <2>1. Written(new) /\ GoesTo(c, "touch")
    BY <1>6 DEF UpdateOrder
  <2>2. s \in Statuses /\ s # Absent /\ e \in Nat
    <3>1. q.status \in Statuses \cup {Keep} /\ q.amount \in Amounts \cup {0}
      BY <1>2 DEF Request
    <3>2. order.status \in Statuses /\ order.executed \in Nat /\ Amounts \subseteq Nat
      BY <1>2, <1>6, OrdersAssumption DEF Row
    <3>3. Absent \notin Statuses
      BY DEF Absent, Statuses
    <3> HIDE DEF q
    <3>4. QED
      BY <3>1, <3>2, <3>3
  <2> HIDE DEF s, e
  <2>3. new \in Row /\ new.parts = order.parts /\ new.status = s
    BY <1>2, <2>2 DEF Row
  <2> HIDE DEF new
  <2>4. QED
    BY <1>1, <1>2, <2>1, <2>2, <2>3, WriteOrdersInv
<1>7. ASSUME UpdateOrder(c), ~(order.status # Absent)
      PROVE  GoesTo(c, "failed") /\ order' = order
  BY <1>7 DEF UpdateOrder
<1>8. ASSUME CreateOrder(c), GoesTo(c, "failed") PROVE order' = order
  <2>1. CASE order.status = Absent
    <3>1. GoesTo(c, "touch") /\ GoesTo(c, "failed")
      BY <1>8, <2>1 DEF CreateOrder
    <3>2. orderCall \in [OrderCalls -> Request]
      BY DEF OrdersInv
    <3>3. orderCall'[c].pc = "touch" /\ orderCall'[c].pc = "failed"
      BY <1>2, <3>1, <3>2 DEF GoesTo, Request
    <3>4. QED
      BY <3>3
  <2>2. CASE order.status # Absent
    BY <1>8, <2>2 DEF CreateOrder
  <2>3. QED
    BY <2>1, <2>2
<1>9. QED
  BY <1>3, <1>4, <1>5, <1>6, <1>7, <1>8, Zenon

\* The execution is in the table before the order is written.
LEMMA InsertExecutionInv ==
    ASSUME OrdersInv, NEW c \in OrderCalls, InsertExecution(c)
    PROVE  OrdersInv'
<1> DEFINE q == orderCall[c]
<1>1. q.op = "record" /\ order' = order /\ q.pc = "insert"
  BY DEF InsertExecution, At
<1>2. CASE executions[q.ix] # 0
  BY <1>1, <1>2, QuietGoes DEF InsertExecution
<1>3. CASE executions[q.ix] = 0
  <2> SUFFICES ASSUME NEW r, r = [orderCall[c] EXCEPT !.pc = "write"] PROVE OrdersInv'
    OBVIOUS
  <2>1. executions' = [executions EXCEPT ![q.ix] = q.amount] /\ GoesTo(c, "write")
    BY <1>3 DEF InsertExecution
  <2>2. /\ r \in Request /\ orderCall' = [orderCall EXCEPT ![c] = r]
        /\ r.pc = "write" /\ r.op = q.op /\ r.since = q.since
        /\ r.seen = q.seen /\ r.listed = q.listed
        /\ r.amount = q.amount /\ r.ix = q.ix
    BY <2>1, GoesToFacts
  <2>3. /\ q.ix \in Indices /\ q.amount \in Amounts /\ q.amount # 0
        /\ Agrees(q, order, Recorded) /\ executions \in [Indices -> Amounts \cup {0}]
        /\ "record" \notin Reads
    BY <1>1, CallIs DEF Request, Agrees, OrdersInv, Reads, CachedViews
  <2>4. /\ executions' \in [Indices -> Amounts \cup {0}] /\ q.ix \in Recorded'
        /\ Recorded \subseteq Recorded'
    BY <2>1, <2>3 DEF Recorded
  <2>5. /\ order' \in Row /\ order'.version >= order.version
        /\ order'.parts \subseteq Recorded'
        /\ order'.status = Absent => order.status = Absent /\ order' = NoRow
    BY <1>1, <2>4 DEF OrdersInv, Row
  <2> HIDE DEF q
  <2>6. Agrees(r, order', Recorded')
    BY <1>1, <2>2, <2>3, <2>4 DEF Agrees
  <2>7. QED
    BY <2>2, <2>4, <2>5, <2>6, OneOrderCall
<1>4. QED
  BY <1>2, <1>3

\* The row an execution makes of the one its call had read.
LEMMA ExecutedFacts ==
    ASSUME NEW old \in Row, NEW ix \in Indices, NEW amount \in Nat \ {0}
    PROVE  /\ Executed(old, ix, amount) \in Row
           /\ Executed(old, ix, amount).parts = old.parts \cup {ix}
           /\ Executed(old, ix, amount).executed = FloatSum(old.executed, amount)
           /\ Executed(old, ix, amount).status \in {"FILLED", "PARTIALLY_FILLED", old.status}
<1> DEFINE sum == FloatSum(old.executed, amount)
           status == IF sum >= FilledFrom THEN "FILLED"
                     ELSE IF sum > 0 THEN "PARTIALLY_FILLED" ELSE old.status
<1>1. sum \in Nat
  BY FloatSumType DEF Row
<1>2. /\ status \in {"FILLED", "PARTIALLY_FILLED", old.status}
      /\ status \in Statuses \cup {Absent}
  BY DEF Row, Statuses
<1>3. Executed(old, ix, amount) =
        [old EXCEPT !.executed = sum, !.parts = old.parts \cup {ix},
                    !.counted = old.executionCount + 1, !.status = status]
  BY DEF Executed, Row
<1> DEFINE e1 == [old EXCEPT !.executed = sum]
           e2 == [e1 EXCEPT !.parts = old.parts \cup {ix}]
           e3 == [e2 EXCEPT !.counted = old.executionCount + 1]
           e4 == [e3 EXCEPT !.status = status]
<1> HIDE DEF sum, status
<1>4. /\ e1 \in Row /\ e1.parts = old.parts /\ e1.executionCount = 0 /\ old.executionCount = 0
      /\ e1.executed = sum
  BY <1>1 DEF Row
<1>5. e2 \in Row /\ e2.parts = old.parts \cup {ix} /\ e2.executed = sum
  <2> HIDE DEF e1
  <2>1. old.parts \cup {ix} \in SUBSET Indices
    BY DEF Row
  <2>2. QED
    BY <1>4, <2>1 DEF Row
<1>6. e3 \in Row /\ e3.parts = e2.parts /\ e3.executed = sum
  <2> HIDE DEF e2
  <2>1. QED
    BY <1>4, <1>5 DEF Row
<1>7. e4 \in Row /\ e4.parts = e3.parts /\ e4.status = status /\ e4.executed = sum
  <2> HIDE DEF e3
  <2>1. QED
    BY <1>2, <1>6 DEF Row, Statuses
<1>8. Executed(old, ix, amount) = e4
  BY <1>3
<1> HIDE DEF e1, e2, e3, e4
<1>9. QED
  BY <1>2, <1>5, <1>6, <1>7, <1>8 DEF sum

LEMMA WriteExecutionInv ==
    ASSUME OrdersInv, NEW c \in OrderCalls, WriteExecution(c)
    PROVE  OrdersInv'
<1> DEFINE q == orderCall[c]
           new == Executed(q.seen, q.ix, q.amount)
<1> SUFFICES ASSUME NEW r, r = [orderCall[c] EXCEPT !.pc = "invalidate"] PROVE OrdersInv'
  OBVIOUS
<1>1. /\ q.op = "record" /\ q.pc = "write" /\ Written(new) /\ GoesTo(c, "invalidate")
      /\ executions' = executions
  BY DEF WriteExecution, At
<1>2. /\ r \in Request /\ orderCall' = [orderCall EXCEPT ![c] = r]
      /\ r.pc = "invalidate" /\ r.op = q.op /\ r.since = q.since
      /\ r.seen = q.seen /\ r.listed = q.listed
      /\ r.amount = q.amount /\ r.ix = q.ix
  BY <1>1, GoesToFacts
<1>3. /\ Agrees(q, order, Recorded) /\ q.seen \in Row /\ q.ix \in Indices /\ q.since \in Nat
      /\ q.amount \in Nat \ {0} /\ q.ix \in Recorded /\ q.seen.parts \subseteq Recorded
      /\ "record" \notin Reads /\ q.seen.status # Absent
  BY <1>1, CallIs, OrdersAssumption DEF Request, Agrees, Reads, CachedViews
<1>4. new \in Row /\ new.parts \subseteq Recorded /\ new.status # Absent
  BY <1>3, ExecutedFacts DEF Absent
<1> HIDE DEF q, new
<1>5. /\ order' \in Row /\ order'.version >= order.version /\ order'.status # Absent
      /\ order'.parts \subseteq Recorded
      /\ order.version \in Nat /\ order'.version \in Nat
  BY <1>1, <1>4, WrittenFacts DEF OrdersInv, Row
<1>6. Recorded' = Recorded /\ executions' \in [Indices -> Amounts \cup {0}]
  BY <1>1 DEF OrdersInv, Recorded
<1>7. Agrees(r, order', Recorded)
  BY <1>1, <1>2, <1>3, <1>5 DEF Agrees
<1>8. QED
  BY <1>2, <1>5, <1>6, <1>7, OneOrderCall

LEMMA OrdersInitInv == ASSUME OrdersInit PROVE OrdersInv
<1>1. NoRow \in Row /\ NewRow \in Row /\ NoRow.parts = {} /\ NewRow.parts = {}
      /\ NoRow.version = 0 /\ NewRow.version = 0 /\ NewRow.status # Absent
  BY DEF NoRow, NewRow, Row, Statuses, Absent
<1>2. NoRequest \in Request
  <2>1. NoRequest.ix \in Indices
    BY OrdersAssumption DEF NoRequest
  <2>2. QED
    BY <1>1, <2>1 DEF NoRequest, Request
<1>3. Agrees(NoRequest, order, Recorded)
  BY <1>1 DEF Agrees, NoRequest, OrdersInit, Reads, CachedViews
<1>4. QED
  BY <1>1, <1>2, <1>3 DEF OrdersInit, OrdersInv

LEMMA OrdersNextInv == ASSUME OrdersInv, [OrdersNext]_orderVars PROVE OrdersInv'
<1>1. ASSUME UNCHANGED <<order, executions, orderCall>> PROVE OrdersInv'
  BY <1>1 DEF OrdersInv, Recorded
<1>2. CASE UNCHANGED orderVars \/ \E v \in CachedViews : Evict(v)
  BY <1>1, <1>2 DEF orderVars, Evict
<1>3. ASSUME NEW c \in OrderCalls, ReadStep(c) PROVE OrdersInv'
  BY <1>3, PassingOrdersInv, QueryOrdersInv, QueryExecutionsInv DEF ReadStep, Reads
<1>4. ASSUME NEW c \in OrderCalls, WriteStep(c) PROVE OrdersInv'
  BY <1>4, PassingOrdersInv, QueryOrdersInv, ChangeOrdersInv, InsertExecutionInv,
     WriteExecutionInv DEF WriteStep
<1>5. QED
  BY <1>2, <1>3, <1>4, ArriveOrdersInv, PassingOrdersInv DEF OrdersNext

\* No answer is older than its request, and no detailed one counts an execution
\* its list lacks: whatever is read, written, cached and dropped meanwhile.
THEOREM OrderAnswersAreCurrent == OrdersSpec => []AnswersAreCurrent
<1>1. OrdersInit => OrdersInv
  BY OrdersInitInv
<1>2. OrdersInv /\ [OrdersNext]_orderVars => OrdersInv'
  BY OrdersNextInv
<1>3. OrdersInv => AnswersAreCurrent
  BY DEF OrdersInv, Agrees, AnswersAreCurrent, Finished
<1>4. QED
  BY <1>1, <1>2, <1>3, PTL DEF OrdersSpec

------------------------------------------------------------------------------
(* Orders: executions that succeeded stay in the order                     *)

Going(r) == r.op = "record" /\ r.pc \notin {"idle", "done", "failed", "aborted"}
Early(r) == r.op = "record" /\ r.pc \in {"insert", "write"}
Late(r) == r.op = "record" /\ r.pc \in {"invalidate", "done"}

\* A recording that ran alone is in the order; k says that it did not.
Held(r, k, o) ==
    /\ r.op = "record" => r.pc # "touch"
    /\ o.status = Absent => ~Early(r) /\ ~Late(r)
    /\ Late(r) /\ ~k => r.ix \in o.parts

\* Two recordings at once know of each other; what one wrote that ran alone, a
\* later one has read.
Apart(r, k, q) ==
    /\ Going(r) /\ Going(q) => k
    /\ Late(r) /\ ~k /\ Early(q) => r.ix \in q.seen.parts

KeptInv ==
    /\ collided \in [OrderCalls -> BOOLEAN]
    /\ \A c \in OrderCalls : Held(orderCall[c], collided[c], order)
    /\ \A c, d \in OrderCalls : c # d => Apart(orderCall[c], collided[c], orderCall[d])

\* A step of one call is checked against every other call, in both directions.
LEMMA OneKept ==
    ASSUME OrdersInv, KeptInv, NEW c \in OrderCalls, NEW r,
           orderCall' = [orderCall EXCEPT ![c] = r], collided' = collided,
           Held(r, collided[c], order'),
           \A d \in OrderCalls \ {c} :
              /\ Held(orderCall[d], collided[d], order')
              /\ Apart(r, collided[c], orderCall[d]) /\ Apart(orderCall[d], collided[d], r)
    PROVE  KeptInv'
<1>1. \A d \in OrderCalls : orderCall'[d] = IF d = c THEN r ELSE orderCall[d]
  BY DEF OrdersInv
<1>2. ASSUME NEW d \in OrderCalls PROVE Held(orderCall'[d], collided'[d], order')
  <2>1. CASE d = c
    BY <1>1, <2>1
  <2>2. CASE d # c
    BY <1>1, <2>2
  <2>3. QED
    BY <2>1, <2>2
<1>3. ASSUME NEW d \in OrderCalls, NEW e \in OrderCalls, d # e
      PROVE  Apart(orderCall'[d], collided'[d], orderCall'[e])
  <2>1. CASE d = c
    BY <1>1, <1>3, <2>1
  <2>2. CASE e = c
    BY <1>1, <1>3, <2>2
  <2>3. CASE d # c /\ e # c
    <3>1. Apart(orderCall[d], collided[d], orderCall[e])
      BY <1>3 DEF KeptInv
    <3>2. QED
      BY <1>1, <2>3, <3>1
  <2>4. QED
    BY <2>1, <2>2, <2>3
<1>4. collided' \in [OrderCalls -> BOOLEAN]
  BY DEF KeptInv
<1>5. QED
  BY <1>2, <1>3, <1>4 DEF KeptInv

\* A call that is no further in a recording than it was.
LEMMA FadesKept ==
    ASSUME OrdersInv, KeptInv, NEW c \in OrderCalls, NEW r,
           orderCall' = [orderCall EXCEPT ![c] = r], collided' = collided,
           order.parts \subseteq order'.parts,
           order'.status = Absent => order.status = Absent,
           r.op = "record" =>
              /\ r.pc # "touch" /\ r.ix = orderCall[c].ix /\ r.seen = orderCall[c].seen,
           Going(r) => Going(orderCall[c]), Early(r) => Early(orderCall[c]),
           Late(r) => Late(orderCall[c])
    PROVE  KeptInv'
<1>1. ASSUME NEW d \in OrderCalls PROVE Held(orderCall[d], collided[d], order')
  <2>1. Held(orderCall[d], collided[d], order)
    BY DEF KeptInv
  <2>2. QED
    BY <2>1 DEF Held
<1>2. Held(r, collided[c], order')
  <2>1. Held(orderCall[c], collided[c], order')
    BY <1>1
  <2> DEFINE q == orderCall[c]
  <2>2. /\ Late(r) => r.op = "record" /\ Late(q)
        /\ Early(r) => Early(q)
    BY DEF Late
  <2> HIDE DEF q
  <2>3. QED
    BY <2>1, <2>2 DEF Held, q
<1>3. ASSUME NEW d \in OrderCalls \ {c}
      PROVE  Apart(r, collided[c], orderCall[d]) /\ Apart(orderCall[d], collided[d], r)
  <2>1. Apart(orderCall[c], collided[c], orderCall[d]) /\ Apart(orderCall[d], collided[d], orderCall[c])
    BY DEF KeptInv
  <2>2. (Late(r) => r.op = "record") /\ (Early(r) => r.op = "record")
    BY DEF Late, Early
  <2>3. QED
    BY <2>1, <2>2 DEF Apart
<1>4. QED
  BY <1>1, <1>2, <1>3, OneKept

\* What a call does that records nothing.
LEMMA OtherKept ==
    ASSUME OrdersInv, KeptInv, NEW c \in OrderCalls, NEW r,
           orderCall' = [orderCall EXCEPT ![c] = r], collided' = collided,
           order.parts \subseteq order'.parts,
           order'.status = Absent => order.status = Absent, r.op # "record"
    PROVE  KeptInv'
BY FadesKept DEF Going, Early, Late

\* The steps that leave the order alone and take no recording further.
LEMMA GoesKept ==
    ASSUME OrdersInv, KeptInv, NEW c \in OrderCalls, NEW pc, GoesTo(c, pc),
           UNCHANGED <<order, collided>>,
           \/ pc \in {"drop", "query", "set", "expire", "failed", "aborted"}
           \/ orderCall[c].op # "record" /\ pc \in {"touch", "invalidate", "done", "executions"}
           \/ At(c, "record", "insert") /\ pc = "write"
           \/ At(c, "record", "invalidate") /\ pc = "done",
           pc \in {"drop", "query", "set", "expire"} => orderCall[c].op # "record"
    PROVE  KeptInv'
<1> DEFINE q == orderCall[c]
<1> SUFFICES ASSUME NEW r, r = [orderCall[c] EXCEPT !.pc = pc] PROVE KeptInv'
  OBVIOUS
<1>1. /\ orderCall' = [orderCall EXCEPT ![c] = r]
      /\ r.pc = pc /\ r.op = q.op /\ r.seen = q.seen /\ r.ix = q.ix
  BY GoesToFacts
<1>2. CASE q.op # "record"
  BY <1>1, <1>2, OtherKept
<1>3. CASE q.op = "record"
  <2>1. /\ pc \in {"failed", "aborted", "write", "done"}
        /\ pc = "write" => q.pc = "insert"
        /\ pc = "done" => q.pc = "invalidate"
    BY <1>3 DEF At
  <2> HIDE DEF q
  <2>2. (Going(r) => Going(q)) /\ (Early(r) => Early(q)) /\ (Late(r) => Late(q)) /\ r.pc # "touch"
    BY <1>1, <1>3, <2>1 DEF Going, Early, Late
  <2>3. QED
    BY <1>1, <2>2, FadesKept DEF q
<1>4. QED
  BY <1>2, <1>3

LEMMA PassingKept ==
    ASSUME OrdersInv, KeptInv, NEW c \in OrderCalls,
           \/ \E v \in CachedViews :
                 GetView(c, v) \/ DropView(c, v) \/ SetView(c, v) \/ ExpireView(c, v)
           \/ CacheOrder(c) \/ Invalidate(c) \/ Abort(c) \/ InsertExecution(c)
    PROVE  KeptInv'
<1>1. "record" \notin CachedViews
  BY DEF CachedViews
<1>2. CASE \E v \in CachedViews :
             GetView(c, v) \/ DropView(c, v) \/ SetView(c, v) \/ ExpireView(c, v)
  <2>1. PICK v \in CachedViews :
             GetView(c, v) \/ DropView(c, v) \/ SetView(c, v) \/ ExpireView(c, v)
    BY <1>2
  <2>2. orderCall[c].op # "record" /\ UNCHANGED <<order, collided>>
    BY <1>1, <2>1 DEF GetView, DropView, SetView, ExpireView, At, orderHistory
  <2>3. GoesTo(c, "query") \/ GoesTo(c, "drop") \/ GoesTo(c, "failed") \/ GoesTo(c, "expire")
        \/ GoesTo(c, "done")
    BY <2>1 DEF GetView, Unparsable, DropView, SetView, ExpireView
  <2>4. QED
    BY <2>2, <2>3, GoesKept
<1>3. CASE CacheOrder(c)
  <2>1. orderCall[c].op # "record"
    BY <1>3 DEF CacheOrder, KeptInv, Held
  <2>2. QED
    BY <1>3, <2>1, GoesKept DEF CacheOrder, orderHistory
<1>4. CASE Invalidate(c)
  BY <1>4, GoesKept DEF Invalidate, orderHistory, At
<1>5. CASE Abort(c)
  BY <1>5, GoesKept DEF Abort, orderHistory
<1>6. CASE InsertExecution(c)
  BY <1>6, GoesKept DEF InsertExecution, orderHistory
<1>7. QED
  BY <1>2, <1>3, <1>4, <1>5, <1>6

\* What a read or a write that records nothing does to its call and the order.
LEMMA OtherWrites ==
    ASSUME OrdersInv, NEW c \in OrderCalls,
           CreateOrder(c) \/ UpdateOrder(c) \/ CancelOrder(c)
    PROVE  /\ orderCall[c].op # "record" /\ collided' = collided
           /\ GoesTo(c, "failed") \/ GoesTo(c, "touch")
           /\ order.parts \subseteq order'.parts
           /\ order'.status = Absent => order.status = Absent
<1>1. orderCall[c].op # "record" /\ collided' = collided
  BY DEF CreateOrder, UpdateOrder, CancelOrder, At, orderHistory
<1>2. /\ order \in Row /\ NewRow \in Row /\ orderCall[c] \in Request
      /\ order.status = Absent => order.parts = {}
  BY CallIs DEF OrdersInv, NoRow
<1>3. CASE CreateOrder(c)
  <2>1. CASE order.status = Absent
    BY <1>1, <1>2, <1>3, <2>1 DEF CreateOrder
  <2>2. CASE order.status # Absent
    BY <1>1, <1>3, <2>2 DEF CreateOrder
  <2>3. QED
    BY <2>1, <2>2
<1>4. CASE CancelOrder(c)
  <2>1. order'.parts = order.parts /\ order'.status = "CANCELLED" /\ GoesTo(c, "touch")
    BY <1>2, <1>4 DEF CancelOrder, Written, Row
  <2>2. QED
    BY <1>1, <2>1 DEF Absent
<1>5. CASE UpdateOrder(c)
  <2>1. CASE order.status = Absent
    BY <1>1, <1>5, <2>1 DEF UpdateOrder
  <2>2. CASE order.status # Absent
    <3> DEFINE q == orderCall[c]
               s == IF q.status = Keep THEN order.status ELSE q.status
               e == IF q.amount = 0 THEN order.executed ELSE q.amount
    <3>1. Written([order EXCEPT !.status = s, !.executed = e]) /\ GoesTo(c, "touch")
      BY <1>5, <2>2 DEF UpdateOrder
    <3>2. s # Absent
      <4>1. q.status \in Statuses \cup {Keep}
        BY <1>2 DEF Request
      <4>2. QED
        BY <2>2, <4>1 DEF Statuses, Absent
    <3> HIDE DEF s, e
    <3>3. order'.parts = order.parts /\ order'.status = s
      BY <1>2, <3>1 DEF Written, Row
    <3>4. QED
      BY <1>1, <3>1, <3>2, <3>3
  <2>3. QED
    BY <2>1, <2>2
<1>6. QED
  BY <1>3, <1>4, <1>5

LEMMA OtherWritesKept ==
    ASSUME OrdersInv, KeptInv, NEW c \in OrderCalls,
           CreateOrder(c) \/ UpdateOrder(c) \/ CancelOrder(c)
    PROVE  KeptInv'
<1>1. PICK pc \in {"failed", "touch"} : GoesTo(c, pc)
  BY OtherWrites
<1> SUFFICES ASSUME NEW r, r = [orderCall[c] EXCEPT !.pc = pc] PROVE KeptInv'
  OBVIOUS
<1>2. orderCall' = [orderCall EXCEPT ![c] = r] /\ r.op = orderCall[c].op
  BY <1>1, GoesToFacts
<1>3. QED
  BY <1>2, OtherWrites, OtherKept

\* A query: what the call has seen changes, and pc.
LEMMA QueriesKept ==
    ASSUME OrdersInv, KeptInv, NEW c \in OrderCalls,
           \/ \E v \in Reads : QueryOrder(c, v)
           \/ QueryExecutions(c)
           \/ ReadBefore(c, "create") \/ ReadBefore(c, "cancel")
    PROVE  KeptInv'
<1>1. "record" \notin Reads /\ "details" \in Reads
  BY DEF Reads, CachedViews
<1>2. orderCall[c].op # "record" /\ UNCHANGED <<order, collided>>
  BY <1>1 DEF QueryOrder, QueryExecutions, ReadBefore, At, orderHistory
<1>3. \E r : orderCall' = [orderCall EXCEPT ![c] = r] /\ r.op = orderCall[c].op
  <2>1. orderCall[c] \in Request
    BY CallIs
  <2>2. ASSUME NEW pc, NEW seen,
               orderCall' = [orderCall EXCEPT ![c].seen = seen, ![c].pc = pc]
        PROVE  \E r : orderCall' = [orderCall EXCEPT ![c] = r] /\ r.op = orderCall[c].op
    <3> DEFINE r == [orderCall[c] EXCEPT !.seen = seen, !.pc = pc]
    <3>1. r.op = orderCall[c].op
      BY <2>1 DEF Request
    <3>2. orderCall' = [orderCall EXCEPT ![c] = r]
      BY <2>2, Zenon
    <3>3. QED
      BY <3>1, <3>2
  <2>3. ASSUME NEW pc, NEW listed,
               orderCall' = [orderCall EXCEPT ![c].listed = listed, ![c].pc = pc]
        PROVE  \E r : orderCall' = [orderCall EXCEPT ![c] = r] /\ r.op = orderCall[c].op
    <3> DEFINE r == [orderCall[c] EXCEPT !.listed = listed, !.pc = pc]
    <3>1. r.op = orderCall[c].op
      BY <2>1 DEF Request
    <3>2. orderCall' = [orderCall EXCEPT ![c] = r]
      BY <2>3, Zenon
    <3>3. QED
      BY <3>1, <3>2
  <2>4. CASE QueryExecutions(c)
    BY <2>3, <2>4 DEF QueryExecutions
  <2>5. CASE \E v \in Reads : QueryOrder(c, v)
    BY <2>2, <2>5 DEF QueryOrder
  <2>6. CASE ReadBefore(c, "create") \/ ReadBefore(c, "cancel")
    BY <2>2, <2>6 DEF ReadBefore
  <2>7. QED
    BY <2>4, <2>5, <2>6
<1>4. QED
  BY <1>2, <1>3, OtherKept

\* A recording reads the order: what every earlier one left there is in it.
LEMMA ReadRecordKept ==
    ASSUME OrdersInv, KeptInv, NEW c \in OrderCalls, ReadBefore(c, "record")
    PROVE  KeptInv'
<1> DEFINE q == orderCall[c]
           next == IF ~Allowed("record") THEN "failed" ELSE "insert"
<1>1. /\ q.op = "record" /\ q.pc = "read" /\ order' = order /\ collided' = collided
      /\ orderCall' = [orderCall EXCEPT ![c].seen = order, ![c].pc = next]
  BY DEF ReadBefore, At, orderHistory
<1>2. next = "insert" => order.status # Absent
  BY DEF Allowed
<1>3. next \in {"insert", "failed"}
  OBVIOUS
<1> SUFFICES ASSUME NEW r, r = [orderCall[c] EXCEPT !.seen = order, !.pc = next] PROVE KeptInv'
  OBVIOUS
<1> HIDE DEF next
<1>4. orderCall' = [orderCall EXCEPT ![c] = r]
  BY <1>1, Zenon
<1>5. q \in Request
  BY CallIs
<1>6. r.op = "record" /\ r.pc = next /\ r.seen = order
  BY <1>1, <1>5 DEF Request
<1>7. Going(q) /\ ~Early(q) /\ ~Late(q) /\ ~Late(r) /\ (Early(r) => next = "insert")
  BY <1>1, <1>3, <1>6 DEF Going, Early, Late
<1> HIDE DEF q
<1>8. Held(r, collided[c], order')
  BY <1>1, <1>2, <1>3, <1>6, <1>7 DEF Held
<1>9. ASSUME NEW d \in OrderCalls \ {c}
      PROVE  /\ Held(orderCall[d], collided[d], order')
             /\ Apart(r, collided[c], orderCall[d]) /\ Apart(orderCall[d], collided[d], r)
  <2>1. /\ Held(orderCall[d], collided[d], order)
        /\ Apart(q, collided[c], orderCall[d]) /\ Apart(orderCall[d], collided[d], q)
    BY DEF KeptInv, q
  <2>2. Held(orderCall[d], collided[d], order')
    BY <1>1, <2>1, Zenon
  <2>3. Apart(r, collided[c], orderCall[d])
    BY <1>7, <2>1 DEF Apart
  <2>4. Apart(orderCall[d], collided[d], r)
    BY <1>6, <1>7, <2>1 DEF Apart, Held
  <2>5. QED
    BY <2>2, <2>3, <2>4
<1>10. QED
  BY <1>1, <1>4, <1>8, <1>9, OneKept

\* A recording writes the order it had read: the others' executions are in what
\* it read, or they ran at the same time.
LEMMA WriteRecordKept ==
    ASSUME OrdersInv, KeptInv, NEW c \in OrderCalls, WriteExecution(c)
    PROVE  KeptInv'
<1> DEFINE q == orderCall[c]
           new == Executed(q.seen, q.ix, q.amount)
<1> SUFFICES ASSUME NEW r, r = [orderCall[c] EXCEPT !.pc = "invalidate"] PROVE KeptInv'
  OBVIOUS
<1>1. /\ q.op = "record" /\ q.pc = "write" /\ Written(new) /\ GoesTo(c, "invalidate")
      /\ collided' = collided
  BY DEF WriteExecution, At, orderHistory
<1>2. /\ orderCall' = [orderCall EXCEPT ![c] = r]
      /\ r.pc = "invalidate" /\ r.op = q.op /\ r.ix = q.ix
  BY <1>1, GoesToFacts
<1>3. /\ q.seen \in Row /\ q.ix \in Indices /\ q.amount \in Nat \ {0} /\ q.seen.status # Absent
  BY <1>1, CallIs, OrdersAssumption DEF Request, Agrees
<1>4. new \in Row /\ new.parts = q.seen.parts \cup {q.ix} /\ new.status # Absent
  BY <1>3, ExecutedFacts DEF Absent
<1> HIDE DEF q, new
<1>5. order'.parts = q.seen.parts \cup {q.ix} /\ order'.status # Absent
  BY <1>1, <1>4, WrittenFacts
<1>6. Going(q) /\ Early(q) /\ Going(r) /\ Late(r) /\ ~Early(r) /\ r.pc # "touch"
  BY <1>1, <1>2 DEF Going, Early, Late
<1>7. Held(r, collided[c], order')
  BY <1>2, <1>5, <1>6 DEF Held
<1>8. ASSUME NEW d \in OrderCalls \ {c}
      PROVE  /\ Held(orderCall[d], collided[d], order')
             /\ Apart(r, collided[c], orderCall[d]) /\ Apart(orderCall[d], collided[d], r)
  <2>1. /\ Held(orderCall[d], collided[d], order)
        /\ Apart(q, collided[c], orderCall[d]) /\ Apart(orderCall[d], collided[d], q)
    BY DEF KeptInv, q
  <2>2. Held(orderCall[d], collided[d], order')
    BY <1>5, <1>6, <2>1 DEF Held, Apart
  <2>3. Apart(r, collided[c], orderCall[d])
    <3>1. Early(orderCall[d]) => Going(orderCall[d])
      BY DEF Early, Going
    <3>2. QED
      BY <1>6, <2>1, <3>1 DEF Apart
  <2>4. Apart(orderCall[d], collided[d], r)
    BY <1>6, <2>1 DEF Apart
  <2>5. QED
    BY <2>2, <2>3, <2>4
<1>9. QED
  BY <1>1, <1>2, <1>7, <1>8, OneKept

\* A request that arrives is marked, and marks, if recordings overlap.
LEMMA ArriveKept ==
    ASSUME OrdersInv, KeptInv, NEW c \in OrderCalls, ArriveAny(c)
    PROVE  KeptInv'
<1>1. PICK op, ix, amount, status : Arrive(c, op, ix, amount, status)
  BY DEF ArriveAny
<1> DEFINE others == {d \in Running : op = "record" /\ orderCall[d].op = "record"}
<1>2. PICK first \in FirstSteps(op) :
         orderCall' = [orderCall EXCEPT ![c] =
           [op |-> op, pc |-> first, ix |-> ix, amount |-> amount, status |-> status,
            seen |-> NoRow, listed |-> {}, since |-> order.version]]
  BY <1>1 DEF Arrive
<1>3. /\ collided' = [d \in OrderCalls |-> IF d = c THEN others # {}
                                           ELSE collided[d] \/ d \in others]
      /\ order' = order /\ orderCall[c].pc \in {"idle", "done", "failed"}
  BY <1>1 DEF Arrive
<1>4. op = "record" => first = "read"
  BY DEF FirstSteps, CachedViews
<1> SUFFICES ASSUME NEW r,
                    r = [op |-> op, pc |-> first, ix |-> ix, amount |-> amount, status |-> status,
                         seen |-> NoRow, listed |-> {}, since |-> order.version]
             PROVE  KeptInv'
  OBVIOUS
<1>5. r.op = op /\ r.pc = first
  OBVIOUS
<1>6. orderCall' = [orderCall EXCEPT ![c] = r]
  BY <1>2
<1>7. \A d \in OrderCalls : orderCall'[d] = IF d = c THEN r ELSE orderCall[d]
  BY <1>6 DEF OrdersInv
<1>8. ~Early(r) /\ ~Late(r) /\ (r.op = "record" => r.pc # "touch") /\ (Going(r) => op = "record")
  BY <1>4, <1>5 DEF Early, Late, Going
<1>9. ASSUME NEW d \in OrderCalls \ {c}, op = "record", Going(orderCall[d]) PROVE d \in others
  BY <1>9 DEF Going, Running, Ended
<1>10. c \notin others
  BY <1>3 DEF Running, Ended
<1> HIDE DEF others
<1>11. collided' \in [OrderCalls -> BOOLEAN]
  BY <1>3 DEF KeptInv
<1>12. /\ \A d \in OrderCalls : (d # c /\ collided[d]) => collided'[d]
       /\ \A d \in OrderCalls : (d # c /\ d \in others) => collided'[d]
       /\ (others # {}) => collided'[c]
  BY <1>3, Zenon
<1>13. ASSUME NEW d \in OrderCalls PROVE Held(orderCall'[d], collided'[d], order')
  <2>1. CASE d = c
    <3>1. Held(r, collided'[c], order')
      BY <1>8 DEF Held
    <3>2. QED
      BY <1>7, <2>1, <3>1
  <2>2. CASE d # c
    <3>1. Held(orderCall[d], collided[d], order)
      BY DEF KeptInv
    <3>2. Held(orderCall[d], collided'[d], order)
      BY <1>12, <2>2, <3>1 DEF Held
    <3>3. QED
      BY <1>3, <1>7, <2>2, <3>2
  <2>3. QED
    BY <2>1, <2>2
<1>14. ASSUME NEW d \in OrderCalls, NEW e \in OrderCalls, d # e
       PROVE  Apart(orderCall'[d], collided'[d], orderCall'[e])
  <2>1. CASE d = c
    <3>1. Going(r) /\ Going(orderCall[e]) => collided'[c]
      BY <1>8, <1>9, <1>12, <1>14, <2>1
    <3>2. Apart(r, collided'[c], orderCall[e])
      BY <1>8, <3>1 DEF Apart
    <3>3. QED
      BY <1>7, <1>14, <2>1, <3>2
  <2>2. CASE e = c
    <3>1. Going(r) /\ Going(orderCall[d]) => collided'[d]
      BY <1>8, <1>9, <1>12, <1>14, <2>2
    <3>2. Apart(orderCall[d], collided'[d], r)
      BY <1>8, <3>1 DEF Apart
    <3>3. QED
      BY <1>7, <1>14, <2>2, <3>2
  <2>3. CASE d # c /\ e # c
    <3>1. Apart(orderCall[d], collided[d], orderCall[e])
      BY <1>14 DEF KeptInv
    <3>2. Apart(orderCall[d], collided'[d], orderCall[e])
      BY <1>12, <2>3, <3>1 DEF Apart
    <3>3. QED
      BY <1>7, <2>3, <3>2
  <2>4. QED
    BY <2>1, <2>2, <2>3
<1>15. QED
  BY <1>11, <1>13, <1>14 DEF KeptInv

LEMMA KeptInitInv == ASSUME OrdersInit PROVE KeptInv
BY DEF OrdersInit, KeptInv, Held, Apart, Going, Early, Late, NoRequest

LEMMA KeptNextInv == ASSUME OrdersInv, KeptInv, [OrdersNext]_orderVars PROVE KeptInv'
<1>1. CASE UNCHANGED orderVars \/ \E v \in CachedViews : Evict(v)
  <2>1. UNCHANGED <<order, orderCall, collided>>
    BY <1>1 DEF orderVars, orderHistory, Evict
  <2>2. QED
    BY <2>1 DEF KeptInv
<1>2. ASSUME NEW c \in OrderCalls, ReadStep(c) PROVE KeptInv'
  BY <1>2, PassingKept, QueriesKept DEF ReadStep, Reads
<1>3. ASSUME NEW c \in OrderCalls, WriteStep(c) PROVE KeptInv'
  BY <1>3, PassingKept, QueriesKept, ReadRecordKept, OtherWritesKept, WriteRecordKept
     DEF WriteStep
<1>4. QED
  BY <1>1, <1>2, <1>3, ArriveKept, PassingKept DEF OrdersNext

\* An execution whose recording succeeded is in the order for good, unless the
\* recording overlapped with another.
THEOREM ExecutionsKept == OrdersSpec => []ExecutionsAreKept
<1>1. OrdersInit => OrdersInv /\ KeptInv
  BY OrdersInitInv, KeptInitInv
<1>2. OrdersInv /\ KeptInv /\ [OrdersNext]_orderVars => OrdersInv' /\ KeptInv'
  BY OrdersNextInv, KeptNextInv
<1>3. KeptInv => ExecutionsAreKept
  BY DEF KeptInv, Held, Late, ExecutionsAreKept, Finished
<1>4. QED
  BY <1>1, <1>2, <1>3, PTL DEF OrdersSpec

------------------------------------------------------------------------------
(* Orders: the executed amount is a sum of what was recorded               *)

\* A row's executed amount is a sum of its executions, unless a client has set it.
Covered(o, table, e) == e \/ o.executed \in FloatSums(table, o.parts)

\* A recording has read such a row; its own execution is in the table, and not
\* yet in the row.
Adds(r, table, e) ==
    Early(r) => /\ Covered(r.seen, table, e)
                /\ r.pc = "write" => r.ix \notin r.seen.parts /\ table[r.ix] = r.amount

SumInv ==
    /\ IsFiniteSet(Recorded) /\ edited \in BOOLEAN
    /\ Covered(order, executions, edited)
    /\ \A c \in OrderCalls : Adds(orderCall[c], executions, edited)

\* A step of one call that leaves the executions alone.
LEMMA OneSum ==
    ASSUME OrdersInv, SumInv, NEW c \in OrderCalls, NEW r,
           orderCall' = [orderCall EXCEPT ![c] = r], executions' = executions,
           edited' \in BOOLEAN, edited => edited',
           Covered(order', executions, edited'), Adds(r, executions, edited')
    PROVE  SumInv'
<1>1. \A d \in OrderCalls : orderCall'[d] = IF d = c THEN r ELSE orderCall[d]
  BY DEF OrdersInv
<1>2. ASSUME NEW d \in OrderCalls PROVE Adds(orderCall'[d], executions', edited')
  <2>1. CASE d = c
    BY <1>1, <2>1
  <2>2. CASE d # c
    <3>1. Adds(orderCall[d], executions, edited)
      BY DEF SumInv
    <3>2. Adds(orderCall[d], executions, edited')
      BY <3>1 DEF Adds, Covered
    <3>3. QED
      BY <1>1, <2>2, <3>2
  <2>3. QED
    BY <2>1, <2>2
<1>3. Recorded' = Recorded
  BY DEF Recorded
<1>4. QED
  BY <1>2, <1>3 DEF SumInv

\* A step that changes neither the order's amount nor takes a recording further.
LEMMA QuietSum ==
    ASSUME OrdersInv, SumInv, NEW c \in OrderCalls, NEW r,
           orderCall' = [orderCall EXCEPT ![c] = r], executions' = executions, edited' = edited,
           order'.executed = order.executed, order'.parts = order.parts, ~Early(r)
    PROVE  SumInv'
<1>1. Covered(order', executions, edited)
  BY DEF SumInv, Covered
<1>2. Adds(r, executions, edited)
  BY DEF Adds
<1>3. edited' \in BOOLEAN /\ (edited => edited')
  BY DEF SumInv
<1>4. QED
  BY <1>1, <1>2, <1>3, OneSum

LEMMA GoesSum ==
    ASSUME OrdersInv, SumInv, NEW c \in OrderCalls, NEW pc, GoesTo(c, pc),
           pc \in {"drop", "query", "expire", "set", "touch", "invalidate", "done", "failed",
                   "aborted"},
           UNCHANGED <<order, executions, edited>>
    PROVE  SumInv'
<1> SUFFICES ASSUME NEW r, r = [orderCall[c] EXCEPT !.pc = pc] PROVE SumInv'
  OBVIOUS
<1>1. orderCall' = [orderCall EXCEPT ![c] = r] /\ r.pc = pc
  BY GoesToFacts
<1>2. ~Early(r)
  BY <1>1 DEF Early
<1>3. QED
  BY <1>1, <1>2, QuietSum

LEMMA PassingSum ==
    ASSUME OrdersInv, SumInv, NEW c \in OrderCalls,
           \/ \E v \in CachedViews :
                 GetView(c, v) \/ DropView(c, v) \/ SetView(c, v) \/ ExpireView(c, v)
           \/ CacheOrder(c) \/ Invalidate(c) \/ Abort(c)
    PROVE  SumInv'
<1>1. CASE \E v \in CachedViews : GetView(c, v) \/ DropView(c, v) \/ SetView(c, v) \/ ExpireView(c, v)
  <2>1. PICK v \in CachedViews : GetView(c, v) \/ DropView(c, v) \/ SetView(c, v) \/ ExpireView(c, v)
    BY <1>1
  <2>2. UNCHANGED <<order, executions, edited>>
    BY <2>1 DEF GetView, DropView, SetView, ExpireView, orderHistory
  <2>3. GoesTo(c, "query") \/ GoesTo(c, "drop") \/ GoesTo(c, "failed") \/ GoesTo(c, "expire")
        \/ GoesTo(c, "done")
    BY <2>1 DEF GetView, Unparsable, DropView, SetView, ExpireView
  <2>4. QED
    BY <2>2, <2>3, GoesSum
<1>2. CASE CacheOrder(c) \/ Invalidate(c) \/ Abort(c)
  BY <1>2, GoesSum DEF CacheOrder, Invalidate, Abort, orderHistory
<1>3. QED
  BY <1>1, <1>2

\* What a read or a refused request makes of a call; a recording starts from
\* the row as it is.
LEMMA QueriesSum ==
    ASSUME OrdersInv, SumInv, NEW c \in OrderCalls,
           \/ \E v \in CachedViews \cup {"filtered"} : QueryOrder(c, v)
           \/ QueryExecutions(c)
           \/ ReadBefore(c, "create") \/ ReadBefore(c, "cancel") \/ ReadBefore(c, "record")
    PROVE  SumInv'
<1> DEFINE q == orderCall[c]
<1>0. q \in Request /\ "record" \notin CachedViews \cup {"filtered"}
  BY CallIs DEF CachedViews
<1>1. ASSUME NEW v \in CachedViews \cup {"filtered"}, QueryOrder(c, v) PROVE SumInv'
  <2> DEFINE to == AfterQuery(v)
             r == [q EXCEPT !.seen = order, !.pc = to]
  <2>1. orderCall' = [orderCall EXCEPT ![c] = r] /\ q.op = v /\ UNCHANGED <<order, executions, edited>>
    BY <1>1 DEF QueryOrder, At, orderHistory
  <2> HIDE DEF to
  <2>2. r.op = v
    BY <1>0, <2>1 DEF Request
  <2>3. ~Early(r)
    BY <1>0, <2>2 DEF Early
  <2> HIDE DEF r
  <2>4. QED
    BY <2>1, <2>3, QuietSum
<1>2. CASE QueryExecutions(c)
  <2> DEFINE r == [q EXCEPT !.listed = Recorded, !.pc = "set"]
  <2>1. orderCall' = [orderCall EXCEPT ![c] = r] /\ UNCHANGED <<order, executions, edited>>
    BY <1>2 DEF QueryExecutions, orderHistory
  <2>2. ~Early(r)
    BY <1>0 DEF Early, Request
  <2> HIDE DEF r
  <2>3. QED
    BY <2>1, <2>2, QuietSum
<1>3. ASSUME NEW op \in {"create", "cancel", "record"}, ReadBefore(c, op) PROVE SumInv'
  <2> DEFINE to == IF ~Allowed(op) THEN "failed" ELSE IF op = "record" THEN "insert" ELSE "write"
             r == [q EXCEPT !.seen = order, !.pc = to]
  <2>1. orderCall' = [orderCall EXCEPT ![c] = r] /\ q.op = op /\ UNCHANGED <<order, executions, edited>>
    BY <1>3 DEF ReadBefore, At, orderHistory
  <2>2. to \in {"failed", "insert", "write"} /\ (op = "record" => to # "write")
    OBVIOUS
  <2> HIDE DEF to
  <2>3. r.op = op /\ r.pc = to /\ r.seen = order
    BY <1>0, <2>1 DEF Request
  <2> HIDE DEF r
  <2>4. Covered(order, executions, edited) /\ edited \in BOOLEAN
    BY DEF SumInv
  <2>5. Adds(r, executions, edited)
    BY <2>2, <2>3, <2>4 DEF Adds, Early
  <2>6. /\ edited' \in BOOLEAN /\ (edited => edited')
        /\ Covered(order', executions, edited') /\ Adds(r, executions, edited')
    BY <2>1, <2>4, <2>5
  <2>7. QED
    BY <2>1, <2>6, OneSum
<1>4. QED
  BY <1>1, <1>2, <1>3

LEMMA ArriveSum ==
    ASSUME OrdersInv, SumInv, NEW c \in OrderCalls, ArriveAny(c)
    PROVE  SumInv'
<1>1. PICK op, ix, amount, status : Arrive(c, op, ix, amount, status)
  BY DEF ArriveAny
<1>2. PICK first \in FirstSteps(op) :
         orderCall' = [orderCall EXCEPT ![c] =
           [op |-> op, pc |-> first, ix |-> ix, amount |-> amount, status |-> status,
            seen |-> NoRow, listed |-> {}, since |-> order.version]]
  BY <1>1 DEF Arrive
<1>3. op = "record" => first = "read"
  BY DEF FirstSteps, CachedViews
<1> DEFINE r == [op |-> op, pc |-> first, ix |-> ix, amount |-> amount, status |-> status,
                 seen |-> NoRow, listed |-> {}, since |-> order.version]
<1>4. ~Early(r)
  BY <1>3 DEF Early
<1>5. UNCHANGED <<order, executions, edited>>
  BY <1>1 DEF Arrive
<1> HIDE DEF r
<1>6. orderCall' = [orderCall EXCEPT ![c] = r]
  BY <1>2 DEF r
<1>7. QED
  BY <1>4, <1>5, <1>6, QuietSum

\* The executed amount of a row that is written.
LEMMA WrittenAmount ==
    ASSUME OrdersInv, NEW new \in Row, Written(new)
    PROVE  order'.executed = new.executed /\ order'.parts = new.parts
BY DEF Written, Row

\* A write that records nothing, or is refused.
LEMMA WritesSum ==
    ASSUME OrdersInv, SumInv, NEW c \in OrderCalls,
           CreateOrder(c) \/ UpdateOrder(c) \/ CancelOrder(c)
    PROVE  SumInv'
<1>1. /\ order \in Row /\ NewRow \in Row /\ orderCall[c] \in Request
      /\ Covered(order, executions, edited) /\ edited \in BOOLEAN
  BY CallIs DEF SumInv
<1>2. executions' = executions /\ edited' \in BOOLEAN /\ (edited => edited')
  <2>1. CASE CreateOrder(c) \/ CancelOrder(c)
    BY <1>1, <2>1 DEF CreateOrder, CancelOrder, orderHistory
  <2>2. CASE UpdateOrder(c)
    BY <1>1, <2>2 DEF UpdateOrder
  <2>3. QED
    BY <2>1, <2>2
<1>3. Covered(order', executions, edited')
  <2>1. CASE order' = order
    BY <1>1, <1>2, <2>1 DEF Covered
  <2>2. CASE CreateOrder(c) /\ order' # order
    <3>1. Written(NewRow)
      BY <2>2 DEF CreateOrder
    <3>2. NewRow.executed = 0 /\ NewRow.parts = {}
      BY DEF NewRow, NoRow
    <3>3. order'.executed = 0 /\ order'.parts = {}
      BY <1>1, <3>1, <3>2, WrittenAmount
    <3>4. QED
      BY <3>3, NoSum DEF Covered
  <2>3. CASE CancelOrder(c)
    <3> DEFINE new == [order EXCEPT !.status = "CANCELLED"]
    <3>1. Written(new) /\ edited' = edited
      BY <2>3 DEF CancelOrder, orderHistory
    <3>2. new \in Row /\ new.executed = order.executed /\ new.parts = order.parts
      BY <1>1 DEF Row, Statuses
    <3> HIDE DEF new
    <3>3. order'.executed = order.executed /\ order'.parts = order.parts
      BY <3>1, <3>2, WrittenAmount
    <3>4. QED
      BY <1>1, <3>1, <3>3 DEF Covered
  <2>4. CASE UpdateOrder(c) /\ order' # order
    <3> DEFINE q == orderCall[c]
               s == IF q.status = Keep THEN order.status ELSE q.status
               e == IF q.amount = 0 THEN order.executed ELSE q.amount
               new == [order EXCEPT !.status = s, !.executed = e]
    <3>1. Written(new) /\ edited' = (edited \/ q.amount # 0)
      BY <2>4 DEF UpdateOrder
    <3>2. CASE q.amount # 0
      BY <3>1, <3>2 DEF Covered
    <3>3. CASE q.amount = 0
      <4>1. e = order.executed /\ edited' = edited
        BY <1>1, <3>1, <3>3
      <4> HIDE DEF s, e
      <4>2. order'.executed = e /\ order'.parts = order.parts
        BY <1>1, <3>1 DEF Written, Row
      <4>3. QED
        BY <1>1, <4>1, <4>2 DEF Covered
    <3>4. QED
      BY <3>2, <3>3
  <2>5. QED
    BY <2>1, <2>2, <2>3, <2>4
<1>4. PICK pc \in {"failed", "touch"} : GoesTo(c, pc)
  BY OtherWrites
<1> SUFFICES ASSUME NEW r, r = [orderCall[c] EXCEPT !.pc = pc] PROVE SumInv'
  OBVIOUS
<1>5. orderCall' = [orderCall EXCEPT ![c] = r] /\ r.pc = pc
  BY <1>4, GoesToFacts
<1>6. Adds(r, executions, edited')
  BY <1>4, <1>5 DEF Adds, Early
<1>7. QED
  BY <1>2, <1>3, <1>5, <1>6, OneSum

\* A new row of the table changes no sum of earlier ones.
LEMMA InsertSum ==
    ASSUME OrdersInv, SumInv, NEW c \in OrderCalls, InsertExecution(c)
    PROVE  SumInv'
<1> DEFINE q == orderCall[c]
<1> SUFFICES ASSUME NEW r, r = [orderCall[c] EXCEPT !.pc = "write"] PROVE SumInv'
  OBVIOUS
<1>1. q.op = "record" /\ q.pc = "insert" /\ order' = order /\ edited' = edited
  BY DEF InsertExecution, At, orderHistory
<1>2. CASE executions[q.ix] # 0
  BY <1>1, <1>2, GoesSum DEF InsertExecution
<1>3. CASE executions[q.ix] = 0
  <2>1. executions' = [executions EXCEPT ![q.ix] = q.amount] /\ GoesTo(c, "write")
    BY <1>3 DEF InsertExecution
  <2>2. /\ orderCall' = [orderCall EXCEPT ![c] = r]
        /\ r.pc = "write" /\ r.op = q.op /\ r.seen = q.seen
        /\ r.amount = q.amount /\ r.ix = q.ix
    BY <2>1, GoesToFacts
  <2>3. /\ q.ix \in Indices /\ q.amount \in Nat /\ Agrees(q, order, Recorded)
        /\ executions \in [Indices -> Amounts \cup {0}] /\ order.parts \subseteq Recorded
    BY <1>1, CallIs, OrdersAssumption DEF Request, OrdersInv
  <2> DEFINE i == q.ix
  <2>4. /\ executions'[i] = q.amount
        /\ \A j \in Indices : j # i => executions'[j] = executions[j]
        /\ i \notin Recorded /\ Recorded' \subseteq Recorded \cup {i}
    BY <1>3, <2>1, <2>3 DEF Recorded
  <2>5. IsFiniteSet(Recorded')
    <3>1. IsFiniteSet(Recorded \cup {i})
      BY FS_AddElement DEF SumInv
    <3>2. QED
      BY <2>4, <3>1, FS_Subset
  <2> HIDE DEF i
  <2>6. ASSUME NEW parts \in SUBSET Recorded
        PROVE  FloatSums(executions', parts) = FloatSums(executions, parts)
    <3>1. IsFiniteSet(parts)
      BY FS_Subset DEF SumInv
    <3>2. \A j \in parts : executions'[j] = executions[j]
      BY <2>4 DEF Recorded
    <3>3. QED
      BY <3>1, <3>2, SameSums
  <2>7. Covered(order', executions', edited')
    <3>1. Covered(order, executions, edited)
      BY DEF SumInv
    <3>2. FloatSums(executions', order.parts) = FloatSums(executions, order.parts)
      BY <2>3, <2>6
    <3>3. QED
      BY <1>1, <3>1, <3>2 DEF Covered
  <2>8. ASSUME NEW d \in OrderCalls, Early(orderCall[d])
        PROVE  Covered(orderCall[d].seen, executions', edited')
    <3>1. Covered(orderCall[d].seen, executions, edited)
      BY <2>8 DEF SumInv, Adds
    <3>2. orderCall[d].seen.parts \subseteq Recorded
      BY CallIs DEF Agrees
    <3>3. FloatSums(executions', orderCall[d].seen.parts)
          = FloatSums(executions, orderCall[d].seen.parts)
      BY <2>6, <3>2
    <3>4. QED
      BY <1>1, <3>1, <3>3 DEF Covered
  <2>9. \A d \in OrderCalls : orderCall'[d] = IF d = c THEN r ELSE orderCall[d]
    BY <2>2 DEF OrdersInv
  <2>10. ASSUME NEW d \in OrderCalls PROVE Adds(orderCall'[d], executions', edited')
    <3>1. CASE d = c
      <4>1. Covered(q.seen, executions', edited')
        BY <1>1, <2>8 DEF Early
      <4>2. i \notin q.seen.parts
        BY <2>3, <2>4 DEF Agrees
      <4>3. Adds(r, executions', edited')
        BY <2>2, <2>4, <4>1, <4>2 DEF Adds, i
      <4>4. QED
        BY <2>9, <3>1, <4>3
    <3>2. CASE d # c
      <4>1. orderCall[d].op = "record" /\ orderCall[d].pc = "write" =>
              /\ orderCall[d].ix \notin orderCall[d].seen.parts
              /\ executions[orderCall[d].ix] = orderCall[d].amount
              /\ orderCall[d].ix \in Recorded
        BY CallIs DEF SumInv, Adds, Early, Agrees
      <4>2. orderCall[d].ix \in Recorded =>
              executions'[orderCall[d].ix] = executions[orderCall[d].ix]
        BY <2>4 DEF Recorded
      <4>3. Adds(orderCall[d], executions', edited')
        BY <2>8, <4>1, <4>2 DEF Adds, Early
      <4>4. QED
        BY <2>9, <3>2, <4>3
    <3>3. QED
      BY <3>1, <3>2
  <2>11. edited' \in BOOLEAN
    BY <1>1 DEF SumInv
  <2>12. QED
    BY <2>5, <2>7, <2>10, <2>11 DEF SumInv
<1>4. QED
  BY <1>2, <1>3

\* The row gets one execution more, which it did not have.
LEMMA WriteExecutionSum ==
    ASSUME OrdersInv, SumInv, NEW c \in OrderCalls, WriteExecution(c)
    PROVE  SumInv'
<1> DEFINE q == orderCall[c]
           new == Executed(q.seen, q.ix, q.amount)
           P == q.seen.parts \cup {q.ix}
<1> SUFFICES ASSUME NEW r, r = [orderCall[c] EXCEPT !.pc = "invalidate"] PROVE SumInv'
  OBVIOUS
<1>1. /\ q.op = "record" /\ q.pc = "write" /\ Written(new) /\ GoesTo(c, "invalidate")
      /\ executions' = executions /\ edited' = edited
  BY DEF WriteExecution, At, orderHistory
<1>2. orderCall' = [orderCall EXCEPT ![c] = r] /\ r.pc = "invalidate"
  BY <1>1, GoesToFacts
<1>3. /\ q.seen \in Row /\ q.ix \in Indices /\ q.amount \in Nat \ {0}
      /\ q.ix \in Recorded /\ q.seen.parts \subseteq Recorded
  BY <1>1, CallIs, OrdersAssumption DEF Request, Agrees
<1>4. /\ Covered(q.seen, executions, edited) /\ q.ix \notin q.seen.parts
      /\ executions[q.ix] = q.amount
  BY <1>1 DEF SumInv, Adds, Early
<1> DEFINE sum == FloatSum(q.seen.executed, q.amount)
<1>5. new \in Row /\ new.parts = P /\ new.executed = sum
  BY <1>3, ExecutedFacts
<1> HIDE DEF new
<1>6. order'.executed = sum /\ order'.parts = P
  BY <1>1, <1>5, WrittenAmount
<1>7. IsFiniteSet(P) /\ P \ {q.ix} = q.seen.parts /\ q.ix \in P
  <2>1. IsFiniteSet(P)
    BY <1>3, FS_Subset DEF SumInv
  <2>2. P \ {q.ix} = q.seen.parts
    BY <1>4
  <2>3. QED
    BY <2>1, <2>2
<1>8. ASSUME ~edited PROVE sum \in FloatSums(executions, P)
  <2>1. q.seen.executed \in FloatSums(executions, P \ {q.ix})
    BY <1>4, <1>7, <1>8 DEF Covered
  <2> HIDE DEF P
  <2>2. FloatSum(q.seen.executed, executions[q.ix]) \in FloatSums(executions, P)
    BY <1>7, <2>1, OneMore
  <2>3. QED
    BY <1>4, <2>2
<1>9. Covered(order', executions, edited)
  BY <1>6, <1>8 DEF Covered
<1>10. Adds(r, executions, edited)
  BY <1>2 DEF Adds, Early
<1>11. edited' \in BOOLEAN /\ (edited => edited') /\ Covered(order', executions, edited')
       /\ Adds(r, executions, edited')
  BY <1>1, <1>9, <1>10 DEF SumInv
<1>12. QED
  BY <1>1, <1>2, <1>11, OneSum

LEMMA SumInitInv == ASSUME OrdersInit PROVE SumInv
<1>1. Recorded = {} /\ edited = FALSE
  BY DEF OrdersInit, Recorded
<1>2. order.executed = 0 /\ order.parts = {}
  BY DEF OrdersInit, NewRow, NoRow
<1>3. IsFiniteSet({})
  BY FS_EmptySet
<1>4. \A c \in OrderCalls : ~Early(orderCall[c])
  BY DEF OrdersInit, NoRequest, Early
<1>5. Covered(order, executions, edited)
  <2>1. order.executed \in FloatSums(executions, order.parts)
    BY <1>2, NoSum
  <2>2. QED
    BY <2>1 DEF Covered
<1>6. \A c \in OrderCalls : Adds(orderCall[c], executions, edited)
  BY <1>4 DEF Adds
<1>7. IsFiniteSet(Recorded) /\ edited \in BOOLEAN
  BY <1>1, <1>3
<1>8. QED
  BY <1>5, <1>6, <1>7 DEF SumInv

LEMMA SumNextInv == ASSUME OrdersInv, SumInv, [OrdersNext]_orderVars PROVE SumInv'
<1>1. CASE UNCHANGED orderVars \/ \E v \in CachedViews : Evict(v)
  <2>1. UNCHANGED <<order, executions, orderCall, edited>>
    BY <1>1 DEF orderVars, orderHistory, Evict
  <2>2. Recorded' = Recorded
    BY <2>1 DEF Recorded
  <2>3. QED
    BY <2>1, <2>2 DEF SumInv
<1>2. ASSUME NEW c \in OrderCalls, ReadStep(c) PROVE SumInv'
  BY <1>2, PassingSum, QueriesSum DEF ReadStep
<1>3. ASSUME NEW c \in OrderCalls, WriteStep(c) PROVE SumInv'
  BY <1>3, PassingSum, QueriesSum, WritesSum, InsertSum, WriteExecutionSum DEF WriteStep
<1>4. QED
  BY <1>1, <1>2, <1>3, ArriveSum, PassingSum DEF OrdersNext

\* Unless a client sets it, an order's executed amount is what executions in the
\* table add up to as floats, each taken once; and executions that succeeded are
\* among them: whatever is retried, refused, or recorded at once, however the
\* floats round, and however many executions there are.
THEOREM ExecutionsCounted == OrdersSpec => []ExecutionsAddUp
<1>1. OrdersInit => OrdersInv /\ KeptInv /\ SumInv
  BY OrdersInitInv, KeptInitInv, SumInitInv
<1>2. OrdersInv /\ KeptInv /\ SumInv /\ [OrdersNext]_orderVars => OrdersInv' /\ KeptInv' /\ SumInv'
  BY OrdersNextInv, KeptNextInv, SumNextInv
<1>3. OrdersInv /\ KeptInv /\ SumInv => ExecutionsAddUp
  <2> SUFFICES ASSUME OrdersInv, KeptInv, SumInv PROVE ExecutionsAddUp
    OBVIOUS
  <2>1. ExecutionsAreKept
    BY DEF KeptInv, Held, Late, ExecutionsAreKept, Finished
  <2>2. /\ order.parts \subseteq Recorded
        /\ edited \/ order.executed \in FloatSums(executions, order.parts)
    BY DEF OrdersInv, SumInv, Covered
  <2>3. QED
    BY <2>1, <2>2 DEF ExecutionsAddUp
<1>4. QED
  BY <1>1, <1>2, <1>3, PTL DEF OrdersSpec

------------------------------------------------------------------------------
(* Trades: what a list or a P&L shows                                      *)

Rows == [TradeHashes -> Nat]
AnyView == [rows : Rows, met : SUBSET TradeHashes, faulty : BOOLEAN,
            young : BOOLEAN, expires : BOOLEAN]
AnyRequest == [op : {"none", "list", "pnl", "add", "update"},
               pc : {"idle", "get", "query", "set", "expire", "again",
                     "check", "look", "write", "clear", "done", "failed"},
               key : Keys, hash : TradeHashes, view : AnyView, due : Rows]

Reader(r) == r.pc \in {"get", "query", "set", "expire", "again"}
Writer(r) == r.pc \in {"check", "look", "write", "clear"}

\* A view without a fault shows every acknowledged write, or met its writer.
Faithful(v, told) == v.faulty \/ \A h \in TradeHashes : h \in v.met \/ told[h] <= v.rows[h]

Excused(r) ==
    \A h \in TradeHashes : r.view.rows[h] < r.due[h] =>
       \/ r.view.faulty
       \/ r.key \in ClearedKeys /\ h \in r.view.met
       \/ r.key \notin ClearedKeys /\ (r.view.young \/ (r.key # PnLKey /\ ~r.view.expires))

\* What holds of a request r, given the table, what was acknowledged, the views.
RequestKeeps(r, table, told, kept) ==
    /\ \A h \in TradeHashes : r.due[h] <= told[h]
    /\ Reader(r) => r.op \in {"list", "pnl"} /\ r.view.young
    /\ Writer(r) => r.op \in {"add", "update"}
    /\ r.pc = "set" => Faithful(r.view, told)
    /\ r.op \in {"list", "pnl"} /\ r.pc \in {"set", "expire", "done"} => Excused(r)
    /\ r.pc = "clear" => r.view.rows[r.hash] <= table[r.hash]
    /\ r.pc = "expire" => kept[r.key] = NoView \/ kept[r.key].young

ViewKeeps(k, v, told) ==
    v = NoView \/ ((k \in ClearedKeys => Faithful(v, told)) /\ (v.young \/ ~v.expires))

\* A reader has met every writer that is under way.
Meets(r, w) == Reader(r) /\ Writer(w) => w.hash \in r.view.met

TradesInv ==
    /\ trades \in Rows /\ acknowledged \in Rows
    /\ \A h \in TradeHashes : acknowledged[h] <= trades[h]
    /\ cached \in [Keys -> AnyView \cup {NoView}]
    /\ tradeCall \in [TradeCalls -> AnyRequest]
    /\ \A c \in TradeCalls : RequestKeeps(tradeCall[c], trades, acknowledged, cached)
    /\ \A k \in Keys : ViewKeeps(k, cached[k], acknowledged)
    /\ \A c, d \in TradeCalls : Meets(tradeCall[c], tradeCall[d])

LEMMA TradeIs ==
    ASSUME TradesInv, NEW c \in TradeCalls
    PROVE  /\ tradeCall[c] \in AnyRequest /\ tradeCall[c].view \in AnyView
           /\ tradeCall[c].key \in Keys /\ tradeCall[c].hash \in TradeHashes
           /\ RequestKeeps(tradeCall[c], trades, acknowledged, cached)
           /\ tradeCall[c].view.rows \in Rows
<1>1. tradeCall[c] \in AnyRequest
  BY DEF TradesInv
<1>2. QED
  BY <1>1 DEF TradesInv, AnyRequest, AnyView

\* What later writes and other views do to a request that takes no step.
LEMMA RequestStays ==
    ASSUME NEW r \in AnyRequest, NEW table \in Rows, NEW told \in Rows,
           NEW kept \in [Keys -> AnyView \cup {NoView}],
           NEW table2 \in Rows, NEW kept2 \in [Keys -> AnyView \cup {NoView}],
           RequestKeeps(r, table, told, kept),
           \A h \in TradeHashes : table[h] <= table2[h],
           \A k \in Keys : kept[k] = NoView \/ kept[k].young => kept2[k] = NoView \/ kept2[k].young
    PROVE  RequestKeeps(r, table2, told, kept2)
<1>1. r.key \in Keys /\ r.hash \in TradeHashes /\ r.view.rows \in Rows
  BY DEF AnyRequest, AnyView
<1>2. r.pc = "clear" => r.view.rows[r.hash] <= table2[r.hash]
  <2>1. /\ r.view.rows[r.hash] \in Nat /\ table[r.hash] \in Nat /\ table2[r.hash] \in Nat
        /\ table[r.hash] <= table2[r.hash]
    BY <1>1 DEF Rows
  <2>2. r.pc = "clear" => r.view.rows[r.hash] <= table[r.hash]
    BY DEF RequestKeeps
  <2>3. QED
    BY <2>1, <2>2
<1>3. r.pc = "expire" => kept2[r.key] = NoView \/ kept2[r.key].young
  BY <1>1 DEF RequestKeeps
<1>4. QED
  BY <1>2, <1>3 DEF RequestKeeps

\* A step of one call that acknowledges nothing, or of none.
LEMMA OneTradeCall ==
    ASSUME TradesInv, NEW c \in TradeCalls, NEW r \in AnyRequest,
           tradeCall' = [tradeCall EXCEPT ![c] = r], acknowledged' = acknowledged,
           trades' \in Rows, \A h \in TradeHashes : trades[h] <= trades'[h],
           cached' \in [Keys -> AnyView \cup {NoView}],
           \A k \in Keys : ViewKeeps(k, cached'[k], acknowledged),
           \A k \in Keys : cached[k] = NoView \/ cached[k].young =>
                              cached'[k] = NoView \/ cached'[k].young,
           RequestKeeps(r, trades', acknowledged, cached'),
           Reader(r) => Reader(tradeCall[c]) /\ r.view.met = tradeCall[c].view.met,
           Writer(r) => Writer(tradeCall[c]) /\ r.hash = tradeCall[c].hash
    PROVE  TradesInv'
<1>1. \A d \in TradeCalls : tradeCall'[d] = IF d = c THEN r ELSE tradeCall[d]
  BY DEF TradesInv
<1>2. tradeCall' \in [TradeCalls -> AnyRequest]
  BY DEF TradesInv
<1>3. ASSUME NEW h \in TradeHashes PROVE acknowledged'[h] <= trades'[h]
  <2>1. /\ acknowledged[h] \in Nat /\ trades[h] \in Nat /\ trades'[h] \in Nat
        /\ acknowledged[h] <= trades[h] /\ trades[h] <= trades'[h]
    BY DEF TradesInv, Rows
  <2>2. QED
    BY <2>1
<1>4. ASSUME NEW d \in TradeCalls
      PROVE  RequestKeeps(tradeCall'[d], trades', acknowledged', cached')
  <2>1. CASE d = c
    BY <1>1, <2>1
  <2>2. CASE d # c
    <3>1. RequestKeeps(tradeCall[d], trades', acknowledged, cached')
      BY TradeIs, RequestStays DEF TradesInv
    <3>2. QED
      BY <1>1, <2>2, <3>1
  <2>3. QED
    BY <2>1, <2>2
<1>5. ASSUME NEW d \in TradeCalls, NEW e \in TradeCalls
      PROVE  Meets(tradeCall'[d], tradeCall'[e])
  <2>1. /\ Meets(tradeCall[d], tradeCall[e])
        /\ Meets(tradeCall[c], tradeCall[e]) /\ Meets(tradeCall[d], tradeCall[c])
        /\ Meets(tradeCall[c], tradeCall[c])
    BY DEF TradesInv
  <2>2. QED
    BY <1>1, <2>1 DEF Meets
<1>6. \A k \in Keys : ViewKeeps(k, cached'[k], acknowledged')
  BY Zenon
<1>7. acknowledged' \in Rows
  BY DEF TradesInv
<1>8. QED
  BY <1>2, <1>3, <1>4, <1>5, <1>6, <1>7 DEF TradesInv

\* A call that goes on, whatever became of the views.
LEMMA StepInv ==
    ASSUME TradesInv, NEW c \in TradeCalls, NEW pc, Step(c, pc), acknowledged' = acknowledged,
           trades' \in Rows, \A h \in TradeHashes : trades[h] <= trades'[h],
           cached' \in [Keys -> AnyView \cup {NoView}],
           \A k \in Keys : ViewKeeps(k, cached'[k], acknowledged),
           \A k \in Keys : cached[k] = NoView \/ cached[k].young =>
                              cached'[k] = NoView \/ cached'[k].young,
           \/ pc = "failed"
           \/ pc \in {"query", "again"} /\ Reader(tradeCall[c])
           \/ pc \in {"look", "write"} /\ Writer(tradeCall[c])
           \/ pc = "done" /\ (tradeCall[c].pc \in {"set", "expire"} \/ Writer(tradeCall[c]))
           \/ /\ pc = "expire" /\ tradeCall[c].pc = "set"
              /\ cached'[tradeCall[c].key] = NoView \/ cached'[tradeCall[c].key].young
    PROVE  TradesInv'
<1> DEFINE q == tradeCall[c]
<1> SUFFICES ASSUME NEW r, r = [tradeCall[c] EXCEPT !.pc = pc] PROVE TradesInv'
  OBVIOUS
<1>1. /\ q \in AnyRequest /\ RequestKeeps(q, trades, acknowledged, cached)
  BY TradeIs
<1>2. tradeCall' = [tradeCall EXCEPT ![c] = r]
  BY DEF Step
<1>3. /\ r \in AnyRequest /\ r.pc = pc /\ r.op = q.op /\ r.key = q.key /\ r.hash = q.hash
      /\ r.view = q.view /\ r.due = q.due
  BY <1>1 DEF AnyRequest
<1>4. /\ Reader(r) => Reader(q)
      /\ Writer(r) => Writer(q) /\ r.pc # "clear"
      /\ r.pc # "set"
      /\ r.pc \in {"expire", "done"} => q.pc \in {"set", "expire"} \/ Writer(q)
      /\ r.pc = "expire" => cached'[r.key] = NoView \/ cached'[r.key].young
  BY <1>3 DEF Reader, Writer
<1>5. Writer(q) => q.op \notin {"list", "pnl"}
  BY <1>1 DEF RequestKeeps
<1>6. r.pc # "clear"
  BY <1>3
<1> HIDE DEF q
<1>7. Excused(q) => Excused(r)
  BY <1>3 DEF Excused
<1>8. RequestKeeps(r, trades', acknowledged, cached')
  <2>1. \A h \in TradeHashes : r.due[h] <= acknowledged[h]
    BY <1>1, <1>3 DEF RequestKeeps
  <2>2. Reader(r) => r.op \in {"list", "pnl"} /\ r.view.young
    BY <1>1, <1>3, <1>4 DEF RequestKeeps
  <2>3. Writer(r) => r.op \in {"add", "update"}
    BY <1>1, <1>3, <1>4 DEF RequestKeeps
  <2>4. r.op \in {"list", "pnl"} /\ r.pc \in {"set", "expire", "done"} => Excused(r)
    BY <1>1, <1>3, <1>4, <1>5, <1>7 DEF RequestKeeps
  <2>5. QED
    BY <1>4, <1>6, <2>1, <2>2, <2>3, <2>4 DEF RequestKeeps
<1>9. /\ Reader(r) => Reader(tradeCall[c]) /\ r.view.met = tradeCall[c].view.met
      /\ Writer(r) => Writer(tradeCall[c]) /\ r.hash = tradeCall[c].hash
  BY <1>3, <1>4 DEF q
<1>10. QED
  BY <1>2, <1>3, <1>8, <1>9, OneTradeCall

\* The same where tables and views stay.
LEMMA StepAlone ==
    ASSUME TradesInv, NEW c \in TradeCalls, NEW pc, Step(c, pc),
           UNCHANGED <<trades, acknowledged, cached>>,
           \/ pc = "failed"
           \/ pc \in {"query", "again"} /\ Reader(tradeCall[c])
           \/ pc \in {"look", "write"} /\ Writer(tradeCall[c])
           \/ pc = "done" /\ (tradeCall[c].pc \in {"set", "expire"} \/ Writer(tradeCall[c]))
    PROVE  TradesInv'
<1>1. /\ trades' \in Rows /\ \A h \in TradeHashes : trades[h] <= trades'[h]
      /\ cached' \in [Keys -> AnyView \cup {NoView}]
      /\ \A k \in Keys : ViewKeeps(k, cached[k], acknowledged)
  BY DEF TradesInv, Rows
<1>2. \A k \in Keys : ViewKeeps(k, cached'[k], acknowledged)
  BY <1>1, Zenon
<1>3. QED
  BY <1>1, <1>2, StepInv

\* A view that is served is recent, was met, or explains why it is not.
LEMMA HitInv ==
    ASSUME TradesInv, NEW c \in TradeCalls, Hit(c), UsableView(tradeCall[c].key),
           tradeCall[c].pc \in {"get", "again"}, UNCHANGED <<trades, acknowledged, cached>>
    PROVE  TradesInv'
<1> DEFINE q == tradeCall[c]
           v == cached[q.key]
<1> SUFFICES ASSUME NEW r, r = [tradeCall[c] EXCEPT !.view = cached[tradeCall[c].key], !.pc = "done"]
             PROVE  TradesInv'
  OBVIOUS
<1>1. /\ q \in AnyRequest /\ RequestKeeps(q, trades, acknowledged, cached) /\ q.key \in Keys
      /\ q.due \in Rows
  BY TradeIs DEF AnyRequest
<1>2. tradeCall' = [tradeCall EXCEPT ![c] = r]
  BY Zenon DEF Hit
<1>3. v \in AnyView /\ (q.key = PnLKey => v.young) /\ v # NoView
  BY <1>1 DEF TradesInv, UsableView
<1>4. ViewKeeps(q.key, v, acknowledged) /\ acknowledged \in Rows
  BY <1>1 DEF TradesInv
<1> HIDE DEF v
<1>5. /\ r \in AnyRequest /\ r.pc = "done" /\ r.op = q.op /\ r.key = q.key
      /\ r.view = v /\ r.due = q.due
  BY <1>1, <1>3 DEF AnyRequest, v
<1> HIDE DEF q
<1>6. Excused(r)
  <2> SUFFICES ASSUME NEW h \in TradeHashes, v.rows[h] < q.due[h]
               PROVE  \/ v.faulty
                      \/ q.key \in ClearedKeys /\ h \in v.met
                      \/ q.key \notin ClearedKeys /\ (v.young \/ (q.key # PnLKey /\ ~v.expires))
    BY <1>5 DEF Excused
  <2>1. /\ v.rows[h] \in Nat /\ q.due[h] \in Nat /\ acknowledged[h] \in Nat
        /\ q.due[h] <= acknowledged[h]
    BY <1>1, <1>3, <1>4 DEF AnyView, Rows, RequestKeeps
  <2>2. ~(acknowledged[h] <= v.rows[h])
    BY <2>1
  <2>3. CASE q.key \in ClearedKeys
    BY <1>3, <1>4, <2>2, <2>3 DEF ViewKeeps, Faithful
  <2>4. CASE q.key \notin ClearedKeys
    BY <1>3, <1>4, <2>4 DEF ViewKeeps
  <2>5. QED
    BY <2>3, <2>4
<1>7. RequestKeeps(r, trades', acknowledged, cached')
  BY <1>1, <1>5, <1>6 DEF RequestKeeps, Reader, Writer
<1>8. /\ trades' \in Rows /\ \A h \in TradeHashes : trades[h] <= trades'[h]
      /\ cached' \in [Keys -> AnyView \cup {NoView}]
      /\ \A k \in Keys : ViewKeeps(k, cached[k], acknowledged)
  BY DEF TradesInv, Rows
<1>9. \A k \in Keys : ViewKeeps(k, cached'[k], acknowledged)
  BY <1>8, Zenon
<1>10. ~Reader(r) /\ ~Writer(r)
  BY <1>5 DEF Reader, Writer
<1>11. QED
  BY <1>2, <1>5, <1>7, <1>8, <1>9, <1>10, OneTradeCall

LEMMA GetInv ==
    ASSUME TradesInv, NEW c \in TradeCalls, Get(c) \/ GetAgain(c)
    PROVE  TradesInv'
<1>1. Reader(tradeCall[c]) /\ tradeCall[c].pc \in {"get", "again"}
      /\ UNCHANGED <<trades, acknowledged, cached>>
  BY DEF Get, GetAgain, Is, Reader
<1>2. \/ Hit(c) /\ UsableView(tradeCall[c].key)
      \/ Step(c, "query") \/ Step(c, "failed")
  BY DEF Get, GetAgain
<1>3. QED
  BY <1>1, <1>2, HitInv, StepAlone

LEMMA LookupInv == ASSUME TradesInv, NEW c \in TradeCalls, Lookup(c) PROVE TradesInv'
<1>1. Writer(tradeCall[c]) /\ UNCHANGED <<trades, acknowledged, cached>>
  BY DEF Lookup, Writer
<1>2. Step(c, "failed") \/ Step(c, "look") \/ Step(c, "write")
  BY DEF Lookup
<1>3. QED
  BY <1>1, <1>2, StepAlone

\* What a reader takes to the cache: the table as it is, or a fault.
LEMMA QueryInv == ASSUME TradesInv, NEW c \in TradeCalls, Query(c) PROVE TradesInv'
<1> DEFINE q == tradeCall[c]
<1>1. /\ q.pc = "query" /\ Reader(q) /\ UNCHANGED <<trades, acknowledged, cached>>
  BY DEF Query, Is, Reader
<1>2. /\ q \in AnyRequest /\ RequestKeeps(q, trades, acknowledged, cached)
      /\ trades \in Rows /\ acknowledged \in Rows
      /\ \A h \in TradeHashes : acknowledged[h] <= trades[h]
  BY TradeIs DEF TradesInv
<1>3. CASE Step(c, "again")
  BY <1>1, <1>3, StepAlone
<1>4. ASSUME NEW r, r.pc = "set", r \in AnyRequest, r.due = q.due, r.op = q.op,
             r.view.met = q.view.met, r.view.young = q.view.young,
             r.view.faulty \/ r.view.rows = trades,
             tradeCall' = [tradeCall EXCEPT ![c] = r]
      PROVE  TradesInv'
  <2> HIDE DEF q
  <2>1. Faithful(r.view, acknowledged)
    BY <1>2, <1>4 DEF Faithful
  <2>2. Excused(r)
    <3> SUFFICES ASSUME NEW h \in TradeHashes, r.view.rows[h] < r.due[h]
                 PROVE  r.view.faulty
      BY DEF Excused
    <3>1. CASE r.view.rows = trades
      <4>1. /\ trades[h] \in Nat /\ q.due[h] \in Nat /\ acknowledged[h] \in Nat
            /\ q.due[h] <= acknowledged[h] /\ acknowledged[h] <= trades[h]
        BY <1>2 DEF AnyRequest, Rows, RequestKeeps
      <4>2. QED
        BY <1>4, <3>1, <4>1
    <3>2. QED
      BY <1>4, <3>1
  <2>3. Reader(r) /\ ~Writer(r)
    BY <1>4 DEF Reader, Writer
  <2>4. RequestKeeps(r, trades, acknowledged, cached)
    <3>1. Reader(r) => r.op \in {"list", "pnl"} /\ r.view.young
      BY <1>1, <1>2, <1>4 DEF RequestKeeps
    <3>2. \A h \in TradeHashes : r.due[h] <= acknowledged[h]
      BY <1>2, <1>4 DEF RequestKeeps
    <3>3. QED
      BY <1>4, <2>1, <2>2, <2>3, <3>1, <3>2 DEF RequestKeeps
  <2>5. /\ trades' \in Rows /\ \A h \in TradeHashes : trades[h] <= trades'[h]
        /\ cached' \in [Keys -> AnyView \cup {NoView}]
        /\ \A k \in Keys : ViewKeeps(k, cached[k], acknowledged)
    BY <1>1 DEF TradesInv, Rows
  <2>6. \A k \in Keys : ViewKeeps(k, cached'[k], acknowledged)
    BY <1>1, <2>5, Zenon
  <2>7. RequestKeeps(r, trades', acknowledged, cached')
    BY <1>1, <2>4, Zenon
  <2>8. Reader(tradeCall[c]) /\ r.view.met = tradeCall[c].view.met
    BY <1>1, <1>4 DEF q
  <2>9. acknowledged' = acknowledged
    BY <1>1
  <2>10. \A k \in Keys : cached[k] = NoView \/ cached[k].young =>
                              cached'[k] = NoView \/ cached'[k].young
    BY <1>1
  <2> HIDE DEF Reader, Writer
  <2>11. QED
    BY <1>4, <2>3, <2>5, <2>6, <2>7, <2>8, <2>9, <2>10, OneTradeCall
<1>5. CASE tradeCall' = [tradeCall EXCEPT ![c].view.rows = trades, ![c].pc = "set"]
  <2> SUFFICES ASSUME NEW v, v = [tradeCall[c].view EXCEPT !.rows = trades] PROVE TradesInv'
    OBVIOUS
  <2> SUFFICES ASSUME NEW r, r = [tradeCall[c] EXCEPT !.view = v, !.pc = "set"]
               PROVE  TradesInv'
    OBVIOUS
  <2>1. /\ v \in AnyView /\ v.rows = trades /\ v.met = q.view.met /\ v.young = q.view.young
    BY <1>2, TradeIs DEF AnyView
  <2>2. /\ r \in AnyRequest /\ r.pc = "set" /\ r.view = v /\ r.due = q.due /\ r.op = q.op
    BY <1>2, <2>1 DEF AnyRequest
  <2>3. tradeCall' = [tradeCall EXCEPT ![c] = r]
    BY <1>5, Zenon
  <2> HIDE DEF q
  <2>4. QED
    BY <1>4, <2>1, <2>2, <2>3
<1>6. CASE tradeCall' = [tradeCall EXCEPT ![c].view.faulty = TRUE, ![c].pc = "set"]
  <2> SUFFICES ASSUME NEW v, v = [tradeCall[c].view EXCEPT !.faulty = TRUE] PROVE TradesInv'
    OBVIOUS
  <2> SUFFICES ASSUME NEW r, r = [tradeCall[c] EXCEPT !.view = v, !.pc = "set"]
               PROVE  TradesInv'
    OBVIOUS
  <2>1. /\ v \in AnyView /\ v.faulty /\ v.met = q.view.met /\ v.young = q.view.young
    BY <1>2, TradeIs DEF AnyView
  <2>2. /\ r \in AnyRequest /\ r.pc = "set" /\ r.view = v /\ r.due = q.due /\ r.op = q.op
    BY <1>2, <2>1 DEF AnyRequest
  <2>3. tradeCall' = [tradeCall EXCEPT ![c] = r]
    BY <1>6, Zenon
  <2> HIDE DEF q
  <2>4. QED
    BY <1>4, <2>1, <2>2, <2>3
<1>7. QED
  BY <1>3, <1>5, <1>6 DEF Query

\* A view that is set is young; whoever is to give it its expiry finds it so.
LEMMA SetInv == ASSUME TradesInv, NEW c \in TradeCalls, Set(c) PROVE TradesInv'
<1> DEFINE q == tradeCall[c]
<1>1. /\ q.pc = "set" /\ Reader(q) /\ UNCHANGED <<trades, acknowledged>>
      /\ q.view \in AnyView /\ q.key \in Keys
      /\ RequestKeeps(q, trades, acknowledged, cached)
  BY TradeIs DEF Set, Is, Reader
<1>2. q.view.young /\ Faithful(q.view, acknowledged)
  BY <1>1 DEF RequestKeeps
<1>3. \/ cached' = [cached EXCEPT ![q.key] = q.view] /\ (Step(c, "expire") \/ Step(c, "done"))
      \/ cached' = cached /\ Step(c, "done")
  BY DEF Set
<1>4. /\ trades' \in Rows /\ \A h \in TradeHashes : trades[h] <= trades'[h]
      /\ cached \in [Keys -> AnyView \cup {NoView}]
      /\ \A k \in Keys : ViewKeeps(k, cached[k], acknowledged)
  BY <1>1 DEF TradesInv, Rows
<1>5. CASE cached' = cached /\ Step(c, "done")
  BY <1>1, <1>5, StepAlone
<1>6. CASE cached' = [cached EXCEPT ![q.key] = q.view] /\ (Step(c, "expire") \/ Step(c, "done"))
  <2>1. \A k \in Keys : cached'[k] = IF k = q.key THEN q.view ELSE cached[k]
    BY <1>4, <1>6
  <2>2. cached' \in [Keys -> AnyView \cup {NoView}]
    BY <1>1, <1>4, <1>6
  <2>3. \A k \in Keys : cached[k] = NoView \/ cached[k].young =>
                              cached'[k] = NoView \/ cached'[k].young
    BY <1>2, <2>1
  <2>4. ASSUME NEW k \in Keys PROVE ViewKeeps(k, cached'[k], acknowledged)
    <3>1. ViewKeeps(k, q.view, acknowledged)
      BY <1>2 DEF ViewKeeps
    <3>2. ViewKeeps(k, cached[k], acknowledged)
      BY <1>4
    <3>3. CASE k = q.key
      BY <2>1, <3>1, <3>3
    <3>4. CASE k # q.key
      BY <2>1, <3>2, <3>4
    <3>5. QED
      BY <3>3, <3>4
  <2>5. cached'[tradeCall[c].key].young
    BY <1>1, <1>2, <2>1
  <2>6. QED
    BY <1>1, <1>4, <1>6, <2>2, <2>3, <2>4, <2>5, StepInv
<1>7. QED
  BY <1>3, <1>5, <1>6

\* EXPIRE meets a young view, or none.
LEMMA ExpireInv == ASSUME TradesInv, NEW c \in TradeCalls, Expire(c) PROVE TradesInv'
<1> DEFINE k == tradeCall[c].key
<1>1. /\ tradeCall[c].pc = "expire" /\ UNCHANGED <<trades, acknowledged>> /\ Step(c, "done")
      /\ k \in Keys /\ (cached[k] = NoView \/ cached[k].young)
  BY TradeIs DEF Expire, Is, RequestKeeps
<1>2. \/ cached' = cached
      \/ cached[k] # NoView /\ cached' = [cached EXCEPT ![k].expires = TRUE]
  BY DEF Expire
<1>3. /\ trades' \in Rows /\ \A h \in TradeHashes : trades[h] <= trades'[h]
      /\ cached \in [Keys -> AnyView \cup {NoView}]
      /\ \A j \in Keys : ViewKeeps(j, cached[j], acknowledged)
  BY <1>1 DEF TradesInv, Rows
<1>4. CASE cached' = cached
  BY <1>1, <1>4, StepAlone
<1>5. CASE cached[k] # NoView /\ cached' = [cached EXCEPT ![k].expires = TRUE]
  <2> SUFFICES ASSUME NEW v, v = [cached[k] EXCEPT !.expires = TRUE] PROVE TradesInv'
    OBVIOUS
  <2>1. cached[k] \in AnyView /\ cached[k].young /\ ViewKeeps(k, cached[k], acknowledged)
    BY <1>1, <1>3, <1>5
  <2>2. /\ v \in AnyView /\ v.young /\ v.rows = cached[k].rows /\ v.met = cached[k].met
        /\ v.faulty = cached[k].faulty
    BY <2>1 DEF AnyView
  <2>3. ViewKeeps(k, v, acknowledged)
    BY <1>5, <2>1, <2>2 DEF ViewKeeps, Faithful
  <2>4. cached' = [cached EXCEPT ![k] = v]
    BY <1>5, Zenon
  <2>5. \A j \in Keys : cached'[j] = IF j = k THEN v ELSE cached[j]
    BY <1>3, <2>4
  <2>6. cached' \in [Keys -> AnyView \cup {NoView}]
    BY <1>1, <1>3, <2>2, <2>4
  <2>7. \A j \in Keys : cached[j] = NoView \/ cached[j].young =>
                              cached'[j] = NoView \/ cached'[j].young
    BY <2>2, <2>5
  <2>8. ASSUME NEW j \in Keys PROVE ViewKeeps(j, cached'[j], acknowledged)
    <3>1. CASE j = k
      BY <2>3, <2>5, <3>1
    <3>2. CASE j # k
      BY <1>3, <2>5, <3>2
    <3>3. QED
      BY <3>1, <3>2
  <2>9. QED
    BY <1>1, <1>3, <2>6, <2>7, <2>8, StepInv
<1>6. QED
  BY <1>2, <1>4, <1>5

LEMMA LifeEndsInv == ASSUME TradesInv, NEW k \in Keys, LifeEnds(k) PROVE TradesInv'
<1>1. /\ UNCHANGED <<trades, acknowledged, tradeCall>>
      /\ cached[k] # NoView
      /\ \A c \in TradeCalls : tradeCall[c].pc = "expire" => tradeCall[c].key # k
  BY DEF LifeEnds, Is
<1>2. cached \in [Keys -> AnyView \cup {NoView}]
  BY DEF TradesInv
<1>3. \E v : v \in AnyView \cup {NoView} /\ ViewKeeps(k, v, acknowledged)
             /\ cached' = [cached EXCEPT ![k] = v]
  <2>1. CASE cached[k].expires
    <3>1. cached' = [cached EXCEPT ![k] = NoView]
      BY <2>1 DEF LifeEnds
    <3>2. QED
      BY <3>1 DEF ViewKeeps
  <2>2. CASE ~cached[k].expires
    <3> DEFINE v == [cached[k] EXCEPT !.young = FALSE]
    <3>1. cached[k] \in AnyView /\ ViewKeeps(k, cached[k], acknowledged)
      BY <1>1, <1>2 DEF TradesInv
    <3>2. /\ v \in AnyView /\ v.rows = cached[k].rows /\ v.met = cached[k].met
          /\ v.faulty = cached[k].faulty /\ v.expires = cached[k].expires
      BY <3>1 DEF AnyView
    <3>3. cached' = [cached EXCEPT ![k] = v]
      BY <2>2 DEF LifeEnds
    <3> HIDE DEF v
    <3>4. ViewKeeps(k, v, acknowledged)
      BY <1>1, <2>2, <3>1, <3>2 DEF ViewKeeps, Faithful
    <3>5. QED
      BY <3>2, <3>3, <3>4
  <2>3. QED
    BY <2>1, <2>2
<1>4. PICK v : v \in AnyView \cup {NoView} /\ ViewKeeps(k, v, acknowledged)
               /\ cached' = [cached EXCEPT ![k] = v]
  BY <1>3
<1>5. /\ cached' \in [Keys -> AnyView \cup {NoView}]
      /\ \A j \in Keys : cached'[j] = IF j = k THEN v ELSE cached[j]
  BY <1>2, <1>4
<1>6. ASSUME NEW j \in Keys PROVE ViewKeeps(j, cached'[j], acknowledged)
  <2>1. ViewKeeps(j, cached[j], acknowledged)
    BY DEF TradesInv
  <2>2. CASE j = k
    BY <1>4, <1>5, <2>2
  <2>3. CASE j # k
    BY <1>5, <2>1, <2>3
  <2>4. QED
    BY <2>2, <2>3
<1>7. ASSUME NEW c \in TradeCalls
      PROVE  RequestKeeps(tradeCall[c], trades, acknowledged, cached')
  <2>1. RequestKeeps(tradeCall[c], trades, acknowledged, cached) /\ tradeCall[c].key \in Keys
    BY TradeIs
  <2>2. tradeCall[c].pc = "expire" => cached'[tradeCall[c].key] = cached[tradeCall[c].key]
    BY <1>1, <1>5, <2>1
  <2>3. QED
    BY <2>1, <2>2 DEF RequestKeeps
<1>8. trades' = trades /\ acknowledged' = acknowledged /\ tradeCall' = tradeCall
  BY <1>1
<1>9. /\ trades \in Rows /\ acknowledged \in Rows
      /\ \A h \in TradeHashes : acknowledged[h] <= trades[h]
      /\ tradeCall \in [TradeCalls -> AnyRequest]
      /\ \A c, d \in TradeCalls : Meets(tradeCall[c], tradeCall[d])
  BY DEF TradesInv
<1>10. QED
  BY <1>5, <1>6, <1>7, <1>8, <1>9 DEF TradesInv

\* A write: the table grows, and the call takes the table along.
LEMMA WriteInv == ASSUME TradesInv, NEW c \in TradeCalls, Write(c) PROVE TradesInv'
<1> DEFINE q == tradeCall[c]
<1>1. /\ q.pc = "write" /\ Writer(q) /\ UNCHANGED <<acknowledged, cached>>
      /\ q \in AnyRequest /\ q.hash \in TradeHashes
      /\ RequestKeeps(q, trades, acknowledged, cached)
  BY TradeIs DEF Write, Is, Writer
<1>2. \/ trades' = trades \/ trades' = [trades EXCEPT ![q.hash] = @ + 1]
  BY DEF Write
<1>3. /\ trades \in Rows /\ cached \in [Keys -> AnyView \cup {NoView}]
      /\ \A k \in Keys : ViewKeeps(k, cached[k], acknowledged)
  BY DEF TradesInv
<1>4. trades' \in Rows /\ \A h \in TradeHashes : trades[h] <= trades'[h]
  BY <1>1, <1>2, <1>3 DEF Rows
<1>5. /\ cached' \in [Keys -> AnyView \cup {NoView}]
      /\ \A k \in Keys : ViewKeeps(k, cached'[k], acknowledged)
      /\ \A k \in Keys : cached[k] = NoView \/ cached[k].young =>
                              cached'[k] = NoView \/ cached'[k].young
  <2>1. cached' = cached
    BY <1>1
  <2>2. QED
    BY <1>3, <2>1, Zenon
<1>6. CASE Step(c, "failed")
  BY <1>1, <1>4, <1>5, <1>6, StepInv
<1>7. CASE tradeCall' = [tradeCall EXCEPT ![c].view.rows = trades', ![c].pc = "clear"]
  <2> SUFFICES ASSUME NEW w, w = trades' PROVE TradesInv'
    OBVIOUS
  <2> SUFFICES ASSUME NEW v, v = [tradeCall[c].view EXCEPT !.rows = w] PROVE TradesInv'
    OBVIOUS
  <2> SUFFICES ASSUME NEW r, r = [tradeCall[c] EXCEPT !.view = v, !.pc = "clear"]
               PROVE  TradesInv'
    OBVIOUS
  <2>1. v \in AnyView /\ v.rows = w
    BY <1>1, <1>4, TradeIs DEF AnyView
  <2>2. /\ r \in AnyRequest /\ r.pc = "clear" /\ r.view = v /\ r.due = q.due /\ r.op = q.op
        /\ r.hash = q.hash
    BY <1>1, <2>1 DEF AnyRequest
  <2>3. tradeCall' = [tradeCall EXCEPT ![c] = r]
    BY <1>7, Zenon
  <2> HIDE DEF q
  <2>4. r.view.rows[r.hash] <= w[r.hash]
    <3>1. w[r.hash] \in Nat
      BY <1>1, <1>4, <2>2 DEF Rows
    <3>2. r.view.rows = w
      BY <2>1, <2>2
    <3>3. w[r.hash] <= w[r.hash]
      BY <3>1
    <3>4. QED
      BY <3>2, <3>3, Zenon
  <2>5. ~Reader(r) /\ (Writer(r) => Writer(tradeCall[c]) /\ r.hash = tradeCall[c].hash)
    BY <1>1, <2>2 DEF Reader, Writer, q
  <2>6. RequestKeeps(r, w, acknowledged, cached')
    <3>1. r.op \in {"add", "update"}
      BY <1>1, <2>2 DEF RequestKeeps
    <3>2. \A h \in TradeHashes : r.due[h] <= acknowledged[h]
      BY <1>1, <2>2 DEF RequestKeeps
    <3>3. QED
      BY <2>2, <2>4, <2>5, <3>1, <3>2 DEF RequestKeeps
  <2>7. acknowledged' = acknowledged
    BY <1>1
  <2>8. QED
    BY <1>4, <1>5, <2>2, <2>3, <2>5, <2>6, <2>7, OneTradeCall
<1>8. QED
  BY <1>6, <1>7 DEF Write

\* A request that arrives meets the writers under way, and a writer meets the
\* readers under way.
LEMMA AskInv ==
    ASSUME TradesInv, NEW c \in TradeCalls, NEW op \in {"list", "pnl", "add", "update"},
           NEW key \in Keys, NEW hash \in TradeHashes, Ask(c, op, key, hash)
    PROVE  TradesInv'
<1> DEFINE written == IF op \in {"add", "update"} THEN {hash} ELSE {}
           met == {tradeCall[w].hash : w \in Writing}
           first == FirstStep(op)
<1> SUFFICES ASSUME NEW v, v = [Empty EXCEPT !.met = met] PROVE TradesInv'
  OBVIOUS
<1> SUFFICES ASSUME NEW r, r = [op |-> op, pc |-> first, key |-> key, hash |-> hash,
                                view |-> v, due |-> acknowledged]
             PROVE  TradesInv'
  OBVIOUS
<1>1. /\ tradeCall' = [d \in TradeCalls |->
            IF d = c THEN r
            ELSE IF d \in Busy THEN [tradeCall[d] EXCEPT !.view.met = @ \cup written]
            ELSE tradeCall[d]]
      /\ trades' = trades /\ acknowledged' = acknowledged /\ cached' = cached
  BY DEF Ask
<1>2. \A d \in TradeCalls : tradeCall'[d] =
         IF d = c THEN r
         ELSE IF d \in Busy THEN [tradeCall[d] EXCEPT !.view.met = @ \cup written]
         ELSE tradeCall[d]
  BY <1>1, Zenon
<1>3. /\ trades \in Rows /\ acknowledged \in Rows
      /\ \A h \in TradeHashes : acknowledged[h] <= trades[h]
      /\ cached \in [Keys -> AnyView \cup {NoView}]
      /\ \A k \in Keys : ViewKeeps(k, cached[k], acknowledged)
  BY DEF TradesInv
<1>4. met \subseteq TradeHashes /\ written \subseteq TradeHashes
  BY TradeIs DEF Writing, Busy
<1>5. first \in {"check", "write", "get"}
      /\ (first = "get" <=> op \in {"list", "pnl"})
  BY DEF FirstStep
<1>6. /\ v \in AnyView /\ v.young /\ v.met = met
  BY <1>4 DEF Empty, AnyView, Rows, NoTrades
<1>7. /\ r \in AnyRequest /\ r.op = op /\ r.pc = first /\ r.hash = hash /\ r.view = v
      /\ r.due = acknowledged
  BY <1>3, <1>5, <1>6 DEF AnyRequest
<1>8. /\ \A d \in TradeCalls : Writer(tradeCall[d]) => tradeCall[d].hash \in met
      /\ Writer(r) => r.hash \in written
  <2>1. ASSUME NEW d \in TradeCalls, Writer(tradeCall[d]) PROVE d \in Writing
    BY <2>1, TradeIs DEF Writing, Busy, Writer, RequestKeeps
  <2>2. Writer(r) => op \in {"add", "update"}
    BY <1>5, <1>7 DEF Writer
  <2>3. QED
    BY <1>7, <2>1, <2>2
<1> HIDE DEF written, met, first
<1>9. ASSUME NEW d \in TradeCalls, d # c, NEW q, q = tradeCall'[d]
      PROVE  /\ q \in AnyRequest /\ RequestKeeps(q, trades, acknowledged, cached)
             /\ q.pc = tradeCall[d].pc /\ q.hash = tradeCall[d].hash
             /\ tradeCall[d].view.met \subseteq q.view.met
             /\ Reader(q) => written \subseteq q.view.met
  <2>1. /\ tradeCall[d] \in AnyRequest /\ tradeCall[d].view \in AnyView
        /\ RequestKeeps(tradeCall[d], trades, acknowledged, cached)
    BY TradeIs
  <2>2. CASE d \notin Busy
    <3>1. q = tradeCall[d] /\ ~Reader(q)
      BY <1>2, <1>9, <2>2 DEF Reader, Busy
    <3>2. QED
      BY <2>1, <3>1
  <2>3. CASE d \in Busy
    <3> DEFINE p == tradeCall[d]
    <3>1. q = [p EXCEPT !.view = [p.view EXCEPT !.met = p.view.met \cup written]]
      BY <1>2, <1>9, <2>3
    <3> DEFINE u == [p.view EXCEPT !.met = p.view.met \cup written]
    <3>2. /\ u \in AnyView /\ u.met = p.view.met \cup written /\ u.rows = p.view.rows
          /\ u.faulty = p.view.faulty /\ u.young = p.view.young /\ u.expires = p.view.expires
      BY <1>4, <2>1 DEF AnyView
    <3>3. q = [p EXCEPT !.view = u]
      BY <3>1
    <3> HIDE DEF u
    <3>4. /\ q \in AnyRequest /\ q.view = u /\ q.pc = p.pc /\ q.op = p.op /\ q.key = p.key
          /\ q.hash = p.hash /\ q.due = p.due
      BY <2>1, <3>2, <3>3 DEF AnyRequest
    <3> HIDE DEF p
    <3>5. RequestKeeps(p, trades, acknowledged, cached)
      BY <2>1 DEF p
    <3>6. Faithful(p.view, acknowledged) => Faithful(q.view, acknowledged)
      BY <3>2, <3>4 DEF Faithful
    <3>7. Excused(p) => Excused(q)
      BY <3>2, <3>4 DEF Excused
    <3>8. (Reader(q) <=> Reader(p)) /\ (Writer(q) <=> Writer(p))
      BY <3>4 DEF Reader, Writer
    <3>9. q.view.young = p.view.young /\ q.view.rows = p.view.rows
      BY <3>2, <3>4
    <3>10. RequestKeeps(q, trades, acknowledged, cached)
      BY <3>4, <3>5, <3>6, <3>7, <3>8, <3>9 DEF RequestKeeps
    <3>11. QED
      BY <3>2, <3>4, <3>10 DEF p
  <2>4. QED
    BY <2>2, <2>3
<1>10. RequestKeeps(r, trades, acknowledged, cached)
  <2>1. /\ Reader(r) => op \in {"list", "pnl"}
        /\ Writer(r) => op \in {"add", "update"}
    BY <1>5, <1>7 DEF Reader, Writer
  <2>2. \A h \in TradeHashes : acknowledged[h] <= acknowledged[h]
    BY <1>3 DEF Rows
  <2>3. r.pc \notin {"set", "expire", "done", "clear"}
    BY <1>5, <1>7
  <2>4. QED
    BY <1>6, <1>7, <2>1, <2>2, <2>3 DEF RequestKeeps
<1>11. ASSUME NEW d \in TradeCalls
       PROVE  tradeCall'[d] \in AnyRequest
              /\ RequestKeeps(tradeCall'[d], trades, acknowledged, cached)
  <2>1. CASE d = c
    BY <1>2, <1>7, <1>10, <2>1
  <2>2. CASE d # c
    BY <1>9, <2>2
  <2>3. QED
    BY <2>1, <2>2
<1>12. ASSUME NEW d \in TradeCalls, NEW e \in TradeCalls
       PROVE  Meets(tradeCall'[d], tradeCall'[e])
  <2>1. Meets(tradeCall[d], tradeCall[e])
    BY DEF TradesInv
  <2>2. CASE d = c /\ e = c
    <3>1. tradeCall'[d] = r /\ tradeCall'[e] = r
      BY <1>2, <2>2
    <3>2. ~(Reader(r) /\ Writer(r))
      BY DEF Reader, Writer
    <3>3. QED
      BY <3>1, <3>2 DEF Meets
  <2>3. CASE d = c /\ e # c
    <3>1. tradeCall'[d] = r
      BY <1>2, <2>3
    <3>2. /\ tradeCall'[e].pc = tradeCall[e].pc /\ tradeCall'[e].hash = tradeCall[e].hash
      BY <1>9, <2>3
    <3>3. Writer(tradeCall'[e]) => tradeCall'[e].hash \in met
      BY <1>8, <3>2 DEF Writer
    <3>4. QED
      BY <1>6, <1>7, <3>1, <3>3 DEF Meets
  <2>4. CASE d # c /\ e = c
    <3>1. tradeCall'[e] = r
      BY <1>2, <2>4
    <3>2. Reader(tradeCall'[d]) => written \subseteq tradeCall'[d].view.met
      BY <1>9, <2>4
    <3>3. QED
      BY <1>8, <3>1, <3>2 DEF Meets
  <2>5. CASE d # c /\ e # c
    <3>1. /\ tradeCall'[e].pc = tradeCall[e].pc /\ tradeCall'[e].hash = tradeCall[e].hash
          /\ tradeCall'[d].pc = tradeCall[d].pc
          /\ tradeCall[d].view.met \subseteq tradeCall'[d].view.met
      BY <1>9, <2>5
    <3>2. QED
      BY <2>1, <3>1 DEF Meets, Reader, Writer
  <2>6. QED
    BY <2>2, <2>3, <2>4, <2>5
<1>13. tradeCall' \in [TradeCalls -> AnyRequest]
  <2>1. tradeCall' = [d \in TradeCalls |-> tradeCall'[d]]
    BY <1>1
  <2>2. QED
    BY <1>11, <2>1
<1>14. QED
  BY <1>1, <1>3, <1>11, <1>12, <1>13 DEF TradesInv

\* An acknowledgement comes with the deletion of the lists it makes old; the
\* readers under way have met the writer.
LEMMA ClearInv == ASSUME TradesInv, NEW c \in TradeCalls, Clear(c) PROVE TradesInv'
<1> DEFINE q == tradeCall[c]
           n == q.view.rows[q.hash]
           most == IF acknowledged[q.hash] < n THEN n ELSE acknowledged[q.hash]
<1>1. /\ q.pc = "clear" /\ Writer(q) /\ trades' = trades /\ Step(c, "done")
      /\ q \in AnyRequest /\ q.hash \in TradeHashes /\ q.view.rows \in Rows
      /\ RequestKeeps(q, trades, acknowledged, cached)
  BY TradeIs DEF Clear, Is, Writer
<1>2. acknowledged' = [acknowledged EXCEPT ![q.hash] = most]
  BY DEF Clear, Acknowledge
<1>3. PICK lost \in SUBSET ClearedKeys :
         cached' = [k \in Keys |->
              IF k \notin ClearedKeys \/ cached[k] = NoView THEN cached[k]
              ELSE IF k \in lost THEN [cached[k] EXCEPT !.faulty = TRUE]
              ELSE NoView]
  BY DEF Clear
<1>4. /\ trades \in Rows /\ acknowledged \in Rows
      /\ \A h \in TradeHashes : acknowledged[h] <= trades[h]
      /\ cached \in [Keys -> AnyView \cup {NoView}]
      /\ \A k \in Keys : ViewKeeps(k, cached[k], acknowledged)
  BY DEF TradesInv
<1>5. most \in Nat /\ most <= trades[q.hash] /\ acknowledged[q.hash] <= most
  <2>1. n <= trades[q.hash]
    BY <1>1 DEF RequestKeeps
  <2>2. n \in Nat /\ trades[q.hash] \in Nat /\ acknowledged[q.hash] \in Nat
        /\ acknowledged[q.hash] <= trades[q.hash]
    BY <1>1, <1>4 DEF Rows
  <2> HIDE DEF n
  <2>3. QED
    BY <2>1, <2>2
<1> HIDE DEF most, n
<1>6. /\ acknowledged' \in Rows
      /\ \A h \in TradeHashes : acknowledged'[h] <= trades[h]
      /\ \A h \in TradeHashes : acknowledged[h] <= acknowledged'[h]
      /\ \A h \in TradeHashes : h # q.hash => acknowledged'[h] = acknowledged[h]
  BY <1>1, <1>2, <1>4, <1>5 DEF Rows
<1>7. ASSUME NEW k \in Keys
      PROVE  /\ cached'[k] \in AnyView \cup {NoView} /\ ViewKeeps(k, cached'[k], acknowledged')
             /\ cached[k] = NoView \/ cached[k].young =>
                    cached'[k] = NoView \/ cached'[k].young
  <2> DEFINE v == [cached[k] EXCEPT !.faulty = TRUE]
  <2>1. cached'[k] = IF k \notin ClearedKeys \/ cached[k] = NoView THEN cached[k]
                     ELSE IF k \in lost THEN v ELSE NoView
    BY <1>3, Zenon
  <2>2. ViewKeeps(k, cached[k], acknowledged) /\ cached[k] \in AnyView \cup {NoView}
    BY <1>4
  <2>3. CASE cached'[k] = NoView
    BY <2>3 DEF ViewKeeps
  <2>4. CASE k \notin ClearedKeys /\ cached'[k] = cached[k]
    <3>1. ViewKeeps(k, cached[k], acknowledged')
      BY <2>2, <2>4 DEF ViewKeeps
    <3>2. QED
      BY <2>2, <2>4, <3>1
  <2>5. CASE cached[k] # NoView /\ cached'[k] = v
    <3>1. cached[k] \in AnyView
      BY <2>2, <2>5
    <3>2. v \in AnyView /\ v.faulty /\ v.young = cached[k].young /\ v.expires = cached[k].expires
      BY <3>1 DEF AnyView
    <3> HIDE DEF v
    <3>3. ViewKeeps(k, v, acknowledged')
      BY <2>2, <2>5, <3>2 DEF ViewKeeps, Faithful
    <3>4. QED
      BY <2>5, <3>2, <3>3
  <2>6. QED
    BY <2>1, <2>3, <2>4, <2>5
<1>8. cached' \in [Keys -> AnyView \cup {NoView}]
  <2>1. cached' = [k \in Keys |-> cached'[k]]
    BY <1>3
  <2>2. QED
    BY <1>7, <2>1
<1> SUFFICES ASSUME NEW r, r = [tradeCall[c] EXCEPT !.pc = "done"] PROVE TradesInv'
  OBVIOUS
<1>9. /\ r \in AnyRequest /\ r.pc = "done" /\ r.op = q.op /\ r.due = q.due
      /\ tradeCall' = [tradeCall EXCEPT ![c] = r]
  BY <1>1 DEF Step, AnyRequest
<1>10. /\ \A d \in TradeCalls : tradeCall'[d] = IF d = c THEN r ELSE tradeCall[d]
       /\ tradeCall' \in [TradeCalls -> AnyRequest]
  BY <1>9 DEF TradesInv
<1>11. ~Reader(r) /\ ~Writer(r)
  BY <1>9 DEF Reader, Writer
<1>12. ASSUME NEW p \in AnyRequest, \A h \in TradeHashes : p.due[h] <= acknowledged[h]
       PROVE  \A h \in TradeHashes : p.due[h] <= acknowledged'[h]
  <2> SUFFICES ASSUME NEW h \in TradeHashes PROVE p.due[h] <= acknowledged'[h]
    OBVIOUS
  <2>1. /\ p.due[h] \in Nat /\ acknowledged[h] \in Nat /\ acknowledged'[h] \in Nat
        /\ p.due[h] <= acknowledged[h] /\ acknowledged[h] <= acknowledged'[h]
    BY <1>4, <1>6, <1>12 DEF AnyRequest, Rows
  <2>2. QED
    BY <2>1
<1>13. RequestKeeps(r, trades, acknowledged', cached')
  <2>1. \A h \in TradeHashes : r.due[h] <= acknowledged[h]
    BY <1>1, <1>9 DEF RequestKeeps
  <2>2. r.op \notin {"list", "pnl"}
    BY <1>1, <1>9 DEF RequestKeeps
  <2>3. \A h \in TradeHashes : r.due[h] <= acknowledged'[h]
    BY <1>9, <1>12, <2>1
  <2>4. QED
    BY <1>9, <1>11, <2>2, <2>3 DEF RequestKeeps
<1>14. ASSUME NEW d \in TradeCalls, d # c
       PROVE  RequestKeeps(tradeCall[d], trades, acknowledged', cached')
  <2> DEFINE p == tradeCall[d]
  <2>1. /\ p \in AnyRequest /\ RequestKeeps(p, trades, acknowledged, cached) /\ p.key \in Keys
        /\ Meets(p, q)
    BY TradeIs DEF TradesInv
  <2> HIDE DEF p, q
  <2>2. p.pc = "set" => Faithful(p.view, acknowledged')
    <3>1. p.pc = "set" => q.hash \in p.view.met
      BY <1>1, <2>1 DEF Meets, Reader
    <3>2. p.pc = "set" => Faithful(p.view, acknowledged)
      BY <2>1 DEF RequestKeeps
    <3>3. QED
      BY <1>6, <3>1, <3>2 DEF Faithful
  <2>3. \A h \in TradeHashes : p.due[h] <= acknowledged'[h]
    BY <1>12, <2>1 DEF RequestKeeps
  <2>4. p.pc = "expire" => cached'[p.key] = NoView \/ cached'[p.key].young
    BY <1>7, <2>1 DEF RequestKeeps
  <2>5. RequestKeeps(p, trades, acknowledged', cached')
    BY <2>1, <2>2, <2>3, <2>4 DEF RequestKeeps
  <2>6. QED
    BY <2>5 DEF p
<1>15. ASSUME NEW d \in TradeCalls
       PROVE  RequestKeeps(tradeCall'[d], trades, acknowledged', cached')
  BY <1>10, <1>13, <1>14
<1>16. ASSUME NEW d \in TradeCalls, NEW e \in TradeCalls
       PROVE  Meets(tradeCall'[d], tradeCall'[e])
  <2>1. Meets(tradeCall[d], tradeCall[e])
    BY DEF TradesInv
  <2>2. QED
    BY <1>10, <1>11, <2>1 DEF Meets
<1>17. \A k \in Keys : ViewKeeps(k, cached'[k], acknowledged')
  BY <1>7
<1>18. trades' = trades
  BY <1>1
<1>19. QED
  BY <1>4, <1>6, <1>8, <1>10, <1>15, <1>16, <1>17, <1>18 DEF TradesInv

LEMMA TradesInitInv == ASSUME TradesInit PROVE TradesInv
<1> DEFINE first == CHOOSE h \in TradeHashes : TRUE
           r == [op |-> "none", pc |-> "idle", key |-> PnLKey, hash |-> first,
                 view |-> Empty, due |-> NoTrades]
<1>1. /\ trades \in [TradeHashes -> {0, 1}] /\ acknowledged = trades
      /\ cached = [k \in Keys |-> NoView]
      /\ tradeCall = [c \in TradeCalls |-> r]
  BY DEF TradesInit
<1>2. /\ trades \in Rows /\ acknowledged \in Rows
      /\ \A h \in TradeHashes : acknowledged[h] <= trades[h]
      /\ \A h \in TradeHashes : NoTrades[h] <= acknowledged[h]
  BY <1>1 DEF Rows, NoTrades
<1>3. first \in TradeHashes
  BY TradesAssumption
<1>4. Empty \in AnyView /\ NoTrades \in Rows
  BY DEF Empty, AnyView, Rows, NoTrades
<1> HIDE DEF first
<1>5. r \in AnyRequest /\ r.pc = "idle" /\ r.op = "none" /\ r.due = NoTrades
  BY <1>3, <1>4 DEF AnyRequest, Keys
<1> HIDE DEF r
<1>6. ~Reader(r) /\ ~Writer(r)
  BY <1>5 DEF Reader, Writer
<1>7. RequestKeeps(r, trades, acknowledged, cached)
  BY <1>2, <1>5, <1>6 DEF RequestKeeps
<1>8. \A c \in TradeCalls : tradeCall[c] = r
  BY <1>1
<1>9. \A k \in Keys : ViewKeeps(k, cached[k], acknowledged)
  BY <1>1 DEF ViewKeeps
<1>10. \A c, d \in TradeCalls : Meets(tradeCall[c], tradeCall[d])
  BY <1>6, <1>8 DEF Meets
<1>11. /\ \A c \in TradeCalls : RequestKeeps(tradeCall[c], trades, acknowledged, cached)
       /\ tradeCall \in [TradeCalls -> AnyRequest]
       /\ cached \in [Keys -> AnyView \cup {NoView}]
  BY <1>1, <1>5, <1>7, <1>8
<1>12. QED
  BY <1>2, <1>9, <1>10, <1>11 DEF TradesInv

LEMMA TradesNextInv == ASSUME TradesInv, [TradesNext]_tradeVars PROVE TradesInv'
<1>1. ASSUME UNCHANGED tradeVars PROVE TradesInv'
  <2>1. /\ trades' = trades /\ acknowledged' = acknowledged /\ cached' = cached
        /\ tradeCall' = tradeCall
    BY <1>1 DEF tradeVars
  <2>2. QED
    BY <2>1 DEF TradesInv
<1>2. ASSUME NEW c \in TradeCalls, NEW k \in ListKeys, NEW h \in TradeHashes, Ask(c, "list", k, h)
      PROVE  TradesInv'
  BY <1>2, AskInv DEF Keys
<1>3. ASSUME NEW c \in TradeCalls, NEW h \in TradeHashes, NEW op \in {"pnl", "add", "update"},
             Ask(c, op, PnLKey, h)
      PROVE  TradesInv'
  BY <1>3, AskInv DEF Keys
<1>4. QED
  BY <1>1, <1>2, <1>3, GetInv, QueryInv, SetInv, ExpireInv, LookupInv, WriteInv, ClearInv,
     LifeEndsInv DEF TradesNext

\* Whoever asks after a caller was told its trade is stored is shown it, or one of
\* the named reasons applies: for any requests, keys, transactions and failures.
THEOREM LateReadsAreExplained == TradesSpec => []LateReadsSeeWrites
<1>1. TradesInit => TradesInv
  BY TradesInitInv
<1>2. TradesInv /\ [TradesNext]_tradeVars => TradesInv'
  BY TradesNextInv
<1>3. TradesInv => LateReadsSeeWrites
  <2> SUFFICES ASSUME TradesInv, NEW c \in TradeCalls PROVE
        tradeCall[c].op \in {"list", "pnl"} /\ tradeCall[c].pc = "done" => Excused(tradeCall[c])
    BY DEF LateReadsSeeWrites, Excused
  <2>1. QED
    BY TradeIs DEF RequestKeeps
<1>4. QED
  BY <1>1, <1>2, <1>3, PTL DEF TradesSpec

------------------------------------------------------------------------------
(* Wallet registry: duplicates, and answers about what was sent            *)

Underway(r) == r.pc # "done"
Old(key, t) == key.expires <= t
Within(p, limits) ==
    /\ p.contracts \subseteq limits.contracts /\ p.methods \subseteq limits.methods
    /\ p.gas <= limits.gas /\ p.amount <= limits.amount
\* A usable key for what r, a request or another key, asks, at the time t.
Covers(key, r, t) ==
    /\ key # NoKey /\ key.wallet = r.wallet /\ key.active /\ ~Old(key, t)
    /\ Within(r.permissions, key.permissions)
    /\ r.until <= key.until /\ t + Hour <= key.until

\* What holds of a request r, given the tables of wallets and of keys and the time.
Fits(r, rows, ks, t) ==
    /\ r.pc \in {"saveKey", "deploy", "note", "chain", "find", "private", "insert"} =>
          r.wallet \in WalletIds /\ rows[r.wallet] # NoWallet
    /\ r.pc \in {"find", "private", "insert"} => r.op \in {"auto", "create"}
    /\ r.pc \in {"validate", "send", "again", "receipt", "retire"} \/ r.sent =>
          r.key \in KeyIds /\ ks[r.key] # NoKey
    /\ r.pc = "save" /\ (\E w \in WalletIds : rows[w] # NoWallet) => r.overlapped
    /\ r.pc \in {"private", "insert"} /\ r.op = "auto" /\ (\E k \in KeyIds : Covers(ks[k], r, t)) =>
          r.overlapped
    /\ r.pc = "retire" => Old(ks[r.key], t)
    /\ r.sent => r.pc = "done" \/ (r.wait /\ r.pc \in {"again", "receipt", "retire"})
    /\ r.sent /\ r.pc = "done" /\ r.outcome # "ok" => r.broken \/ (r.wait /\ Old(ks[r.key], t))

Together(r, q) == Underway(r) /\ Underway(q) => r.overlapped

\* Rows are added in order; one added beside another was added by a request that
\* overlapped.
WalletsKeep(rows) ==
    \A v, w \in WalletIds : v < w /\ rows[w] # NoWallet =>
        rows[v] # NoWallet /\ rows[w].overlapped

KeysKeep(ks, t) ==
    /\ \A k \in KeyIds : ks[k] # NoKey /\ ~ks[k].active => Old(ks[k], t)
    /\ \A j, k \in KeyIds : j < k /\ ks[k] # NoKey =>
          /\ ks[j] # NoKey
          /\ ks[k].auto /\ Covers(ks[j], ks[k], t) => ks[k].overlapped

RegistryInv ==
    /\ RegistryTypeOK
    /\ WalletsKeep(wallets) /\ KeysKeep(keys, registryTime)
    /\ \A c \in RegistryCalls : Fits(registryCall[c], wallets, keys, registryTime)
    /\ \A c, d \in RegistryCalls : c # d => Together(registryCall[c], registryCall[d])

\* What the tables keep in a step: nothing saved goes, no key's end is put off.
TablesKeep ==
    /\ wallets' \in [WalletIds -> WalletRow \cup {NoWallet}]
    /\ keys' \in [KeyIds -> KeyRow \cup {NoKey}]
    /\ privateKeys' \subseteq WalletIds /\ onChain' \subseteq WalletIds
    /\ registryTime' = registryTime
    /\ \A w \in WalletIds : wallets[w] # NoWallet => wallets'[w] # NoWallet
    /\ \A k \in KeyIds : keys[k] # NoKey =>
          keys'[k] # NoKey /\ keys'[k].expires = keys[k].expires
    /\ WalletsKeep(wallets') /\ KeysKeep(keys', registryTime)

LEMMA RegistryIs ==
    ASSUME RegistryInv, NEW c \in RegistryCalls
    PROVE  /\ registryCall[c] \in RegistryRequest
           /\ Fits(registryCall[c], wallets, keys, registryTime)
BY DEF RegistryInv, RegistryTypeOK

\* What the step of another call does to a request: both overlap.
LEMMA FitsStays ==
    ASSUME NEW r \in RegistryRequest, NEW rows, NEW rows2, NEW ks, NEW ks2, NEW t,
           Fits(r, rows, ks, t), Underway(r) => r.overlapped,
           \A w \in WalletIds : rows[w] # NoWallet => rows2[w] # NoWallet,
           \A k \in KeyIds : ks[k] # NoKey =>
              ks2[k] # NoKey /\ ks2[k].expires = ks[k].expires
    PROVE  Fits(r, rows2, ks2, t)
<1>1. r.pc \in {"save", "private", "insert"} => r.overlapped
  BY DEF Underway
<1>2. r.pc = "retire" \/ r.sent => r.key \in KeyIds /\ ks[r.key] # NoKey
  BY DEF Fits
<1>3. r.pc = "retire" => Old(ks2[r.key], t)
  BY <1>2 DEF Fits, Old
<1>4. r.sent /\ r.pc = "done" /\ r.outcome # "ok" => r.broken \/ (r.wait /\ Old(ks2[r.key], t))
  BY <1>2 DEF Fits, Old
<1>5. QED
  BY <1>1, <1>3, <1>4 DEF Fits

LEMMA OneRegistryCall ==
    ASSUME RegistryInv, NEW c \in RegistryCalls, NEW r \in RegistryRequest,
           registryCall' = [registryCall EXCEPT ![c] = r], Underway(registryCall[c]),
           Underway(r) => r.overlapped = registryCall[c].overlapped,
           TablesKeep, RegistryWorks \/ RegistryFails, registryRequests' = registryRequests,
           Fits(r, wallets', keys', registryTime')
    PROVE  RegistryInv'
<1>1. \A d \in RegistryCalls : registryCall'[d] = IF d = c THEN r ELSE registryCall[d]
  BY DEF RegistryInv, RegistryTypeOK
<1>2. registryFaults' \in 0..MaxRegistryFaults /\ registryTime' = registryTime
  BY RegistryAssumption
     DEF RegistryInv, RegistryTypeOK, RegistryWorks, RegistryFails, TablesKeep
<1>3. RegistryTypeOK'
  BY <1>2 DEF RegistryInv, RegistryTypeOK, TablesKeep
<1>4. ASSUME NEW d \in RegistryCalls
      PROVE  Fits(registryCall'[d], wallets', keys', registryTime')
  <2>1. CASE d = c
    BY <1>1, <2>1
  <2>2. CASE d # c
    <3>1. Together(registryCall[d], registryCall[c])
      BY <2>2 DEF RegistryInv
    <3>2. Underway(registryCall[d]) => registryCall[d].overlapped
      BY <3>1 DEF Together
    <3> DEFINE p == registryCall[d]
    <3>3. p \in RegistryRequest /\ Fits(p, wallets, keys, registryTime)
      BY RegistryIs
    <3> HIDE DEF p
    <3>4. Fits(p, wallets', keys', registryTime')
      BY <1>2, <3>2, <3>3, FitsStays DEF TablesKeep, p
    <3>5. QED
      BY <1>1, <2>2, <3>4 DEF p
  <2>3. QED
    BY <2>1, <2>2
<1>5. ASSUME NEW d \in RegistryCalls, NEW e \in RegistryCalls, d # e
      PROVE  Together(registryCall'[d], registryCall'[e])
  <2>1. /\ Together(registryCall[d], registryCall[e])
        /\ d # c => Together(registryCall[d], registryCall[c])
        /\ e # c => Together(registryCall[c], registryCall[e])
    BY <1>5 DEF RegistryInv
  <2>2. QED
    BY <1>1, <1>5, <2>1 DEF Together
<1>6. QED
  BY <1>3, <1>4, <1>5 DEF RegistryInv, TablesKeep

LEMMA TablesSame ==
    ASSUME RegistryInv, UNCHANGED registryTables, registryTime' = registryTime
    PROVE  TablesKeep
<1>1. wallets' = wallets /\ keys' = keys /\ privateKeys' = privateKeys /\ onChain' = onChain
  BY DEF registryTables
<1>2. WalletsKeep(wallets') /\ KeysKeep(keys', registryTime)
  BY <1>1, Zenon DEF RegistryInv
<1>3. QED
  BY <1>1, <1>2 DEF TablesKeep, RegistryInv, RegistryTypeOK

\* A request is answered: of one whose operation was sent, the answer is true, or
\* a call it made failed, or it waited and the key has expired.
LEMMA AnswerInv ==
    ASSUME RegistryInv, NEW c \in RegistryCalls, NEW outcome, NEW broken \in BOOLEAN,
           NEW sent \in BOOLEAN, NEW r,
           r = [AnsweredWith(registryCall[c], outcome) EXCEPT !.broken = broken, !.sent = sent],
           registryCall' = [registryCall EXCEPT ![c] = r],
           outcome \in {"ok", "failed", "rejected", "notFound"}, Underway(registryCall[c]),
           TablesKeep, RegistryWorks \/ RegistryFails, registryRequests' = registryRequests,
           sent => registryCall[c].key \in KeyIds /\ keys[registryCall[c].key] # NoKey,
           outcome # "ok" /\ sent =>
              broken \/ (registryCall[c].wait /\ Old(keys'[registryCall[c].key], registryTime))
    PROVE  RegistryInv'
<1> DEFINE q == registryCall[c]
<1>1. q \in RegistryRequest
  BY RegistryIs
<1>2. NoTarget \in Contracts
  BY RegistryAssumption DEF NoTarget
<1>3. 0 \in 0..MaxWallets /\ NoLimits \in Limits
  BY RegistryAssumption DEF NoLimits, Limits
<1>4. /\ r \in RegistryRequest /\ r.pc = "done" /\ r.outcome = outcome /\ r.key = q.key
      /\ r.sent = sent /\ r.wait = q.wait /\ r.broken = broken
  BY <1>1, <1>2, <1>3 DEF RegistryRequest, AnsweredWith
<1>5. sent => r.key \in KeyIds /\ keys'[r.key] # NoKey
  BY <1>4 DEF TablesKeep
<1>6. outcome # "ok" /\ sent => broken \/ (r.wait /\ Old(keys'[r.key], registryTime'))
  BY <1>4 DEF TablesKeep
<1>7. ~Underway(r)
  BY <1>4 DEF Underway
<1> HIDE DEF q
<1>8. Fits(r, wallets', keys', registryTime')
  BY <1>4, <1>5, <1>6 DEF Fits
<1>9. QED
  BY <1>4, <1>7, <1>8, OneRegistryCall

LEMMA EndInv ==
    ASSUME RegistryInv, NEW c \in RegistryCalls, NEW outcome, RegistryEnded(c, outcome),
           outcome \in {"ok", "failed", "rejected", "notFound"}, Underway(registryCall[c]),
           TablesKeep, RegistryWorks \/ RegistryFails, registryRequests' = registryRequests,
           outcome # "ok" /\ registryCall[c].sent =>
              Old(keys'[registryCall[c].key], registryTime)
    PROVE  RegistryInv'
<1> DEFINE q == registryCall[c]
<1>1. /\ q \in RegistryRequest /\ Fits(q, wallets, keys, registryTime)
  BY RegistryIs
<1>2. q.sent => q.wait /\ q.key \in KeyIds /\ keys[q.key] # NoKey
  BY <1>1 DEF Fits, Underway
<1>3. AnsweredWith(q, outcome) =
        [AnsweredWith(q, outcome) EXCEPT !.broken = q.broken, !.sent = q.sent]
  BY <1>1 DEF RegistryRequest, AnsweredWith
<1>4. q.broken \in BOOLEAN /\ q.sent \in BOOLEAN
  BY <1>1 DEF RegistryRequest
<1>5. registryCall' = [registryCall EXCEPT ![c] = AnsweredWith(q, outcome)]
  BY DEF RegistryEnded
<1>6. outcome # "ok" /\ q.sent =>
        q.broken \/ (q.wait /\ Old(keys'[q.key], registryTime))
  BY <1>2
<1> HIDE DEF q
<1>7. QED
  BY <1>2, <1>3, <1>4, <1>5, <1>6, AnswerInv DEF q

\* A call failed: the answer is an error, even if the operation was sent.
LEMMA BreakInv ==
    ASSUME RegistryInv, NEW c \in RegistryCalls, NEW sent, RegistryBreaks(c, sent),
           sent \in BOOLEAN, sent => registryCall[c].sent \/ registryCall[c].pc = "send",
           Underway(registryCall[c]), TablesKeep, registryRequests' = registryRequests
    PROVE  RegistryInv'
<1> DEFINE q == registryCall[c]
<1>1. Fits(q, wallets, keys, registryTime)
  BY RegistryIs
<1>2. sent => q.key \in KeyIds /\ keys[q.key] # NoKey
  BY <1>1 DEF Fits
<1>3. RegistryFails /\ registryCall' = [registryCall EXCEPT ![c] =
         [AnsweredWith(q, "failed") EXCEPT !.broken = TRUE, !.sent = sent]]
  BY DEF RegistryBreaks
<1> HIDE DEF q
<1>4. QED
  BY <1>2, <1>3, AnswerInv DEF q

\* A set of numbers that is bounded has a greatest one: the newest key exists.
LEMMA Largest ==
    ASSUME NEW n \in Nat, NEW S \in SUBSET (1..n), S # {}
    PROVE  \E k \in S : \A j \in S : j <= k
<1> DEFINE T == {m \in Nat : \E k \in S : m = n - k}
<1>1. PICK k \in S : TRUE
  OBVIOUS
<1>2. n - k \in T
  BY <1>1
<1>3. PICK x \in T : \A y \in T : x <= y
  <2>1. T \in SUBSET Nat /\ T # {}
    BY <1>2
  <2> HIDE DEF T
  <2>2. QED
    BY <2>1, Smallest
<1>4. PICK l \in S : x = n - l
  OBVIOUS
<1>5. ASSUME NEW j \in S PROVE j <= l
  <2>1. n - j \in T
    OBVIOUS
  <2>2. x <= n - j
    BY <1>3, <2>1
  <2>3. QED
    BY <1>4, <2>2
<1>6. QED
  BY <1>5

\* A call that goes on and has not sent anything new.
LEMMA GoInv ==
    ASSUME RegistryInv, NEW c \in RegistryCalls, NEW pc,
           \/ RegistryGoesTo(c, pc)
           \/ \E e \in Nat :
                registryCall' = [registryCall EXCEPT ![c].pc = pc, ![c].expires = e],
           Underway(registryCall[c]), TablesKeep, RegistryWorks \/ RegistryFails,
           registryRequests' = registryRequests,
           \/ pc = "save" /\ wallets' = wallets /\ (\A w \in WalletIds : wallets[w] = NoWallet)
              /\ ~registryCall[c].sent
           \/ /\ pc \in {"deploy", "note"} /\ registryCall[c].pc \in {"saveKey", "deploy", "chain"}
           \/ /\ pc \in {"private", "insert"} /\ registryCall[c].pc \in {"find", "private"}
              /\ registryCall[c].pc = "find" =>
                    \A k \in KeyIds : ~Covers(keys[k], registryCall[c], registryTime)
              /\ UNCHANGED <<wallets, keys>>
           \/ pc \in {"send"} /\ registryCall[c].pc = "validate"
           \/ pc = "receipt" /\ registryCall[c].pc = "again"
           \/ pc = "retire" /\ registryCall[c].pc \in {"validate", "again"}
              /\ Old(keys'[registryCall[c].key], registryTime)
    PROVE  RegistryInv'
<1> DEFINE q == registryCall[c]
<1>1. /\ q \in RegistryRequest /\ Fits(q, wallets, keys, registryTime)
  BY RegistryIs
<1>0. \E e \in Nat :
        registryCall' = [registryCall EXCEPT ![c] = [q EXCEPT !.pc = pc, !.expires = e]]
  <2>1. CASE RegistryGoesTo(c, pc)
    <3>1. q.expires \in Nat /\ [q EXCEPT !.pc = pc] = [q EXCEPT !.pc = pc, !.expires = q.expires]
      BY <1>1 DEF RegistryRequest
    <3>2. registryCall' = [registryCall EXCEPT ![c] = [q EXCEPT !.pc = pc]]
      BY <2>1, Zenon DEF RegistryGoesTo
    <3>3. QED
      BY <3>1, <3>2
  <2>2. ASSUME NEW e \in Nat,
               registryCall' = [registryCall EXCEPT ![c].pc = pc, ![c].expires = e]
        PROVE  registryCall' = [registryCall EXCEPT ![c] = [q EXCEPT !.pc = pc, !.expires = e]]
    BY <2>2, Zenon
  <2>3. QED
    BY <2>1, <2>2
<1> SUFFICES ASSUME NEW e \in Nat, NEW r, r = [registryCall[c] EXCEPT !.pc = pc, !.expires = e],
                    registryCall' = [registryCall EXCEPT ![c] = r]
             PROVE  RegistryInv'
  BY <1>0
<1>2. registryCall' = [registryCall EXCEPT ![c] = r]
  OBVIOUS
<1>3. pc \in {"save", "deploy", "note", "private", "insert", "send", "receipt", "retire"}
  OBVIOUS
<1>4. /\ r \in RegistryRequest /\ r.pc = pc /\ r.op = q.op /\ r.key = q.key /\ r.wallet = q.wallet
      /\ r.sent = q.sent /\ r.wait = q.wait /\ r.overlapped = q.overlapped
      /\ r.permissions = q.permissions /\ r.until = q.until
      /\ registryTime' = registryTime
  BY <1>1, <1>3 DEF RegistryRequest, TablesKeep
<1> DEFINE waits == pc = "save" /\ (\A w \in WalletIds : wallets[w] = NoWallet) /\ wallets' = wallets
           made == pc \in {"deploy", "note"} /\ q.pc \in {"saveKey", "deploy", "chain"}
           asks == /\ pc \in {"private", "insert"} /\ q.pc \in {"find", "private"}
                   /\ q.pc = "find" => \A k \in KeyIds : ~Covers(keys[k], q, registryTime)
                   /\ wallets' = wallets /\ keys' = keys
           uses == \/ pc = "send" /\ q.pc = "validate"
                   \/ pc = "receipt" /\ q.pc = "again"
                   \/ pc = "retire" /\ q.pc \in {"validate", "again"}
                      /\ Old(keys'[q.key], registryTime)
<1>5. (waits /\ ~q.sent) \/ made \/ asks \/ uses
  OBVIOUS
<1> HIDE DEF q
<1>7. CASE made
  <2>1. r.wallet \in WalletIds /\ wallets'[r.wallet] # NoWallet /\ ~r.sent
    BY <1>1, <1>4, <1>7 DEF Fits, TablesKeep
  <2>2. Fits(r, wallets', keys', registryTime')
    BY <1>4, <1>7, <2>1 DEF Fits
  <2>3. QED
    BY <1>2, <1>4, <2>2, OneRegistryCall DEF q
<1>8. CASE asks
  <2>1. /\ r.wallet \in WalletIds /\ wallets'[r.wallet] # NoWallet /\ ~r.sent
        /\ r.op \in {"auto", "create"}
    BY <1>1, <1>4, <1>8 DEF Fits
  <2>2. \A k \in KeyIds : Covers(keys[k], r, registryTime) <=> Covers(keys[k], q, registryTime)
    BY <1>4 DEF Covers
  <2>3. r.op = "auto" /\ (\E k \in KeyIds : Covers(keys[k], r, registryTime)) => r.overlapped
    BY <1>1, <1>4, <1>8, <2>2 DEF Fits
  <2>4. r.op = "auto" /\ (\E k \in KeyIds : Covers(keys'[k], r, registryTime')) => r.overlapped
    BY <1>4, <1>8, <2>3
  <2>5. Fits(r, wallets', keys', registryTime')
    BY <1>4, <1>8, <2>1, <2>4 DEF Fits
  <2>6. QED
    BY <1>2, <1>4, <2>5, OneRegistryCall DEF q
<1>9. CASE uses
  <2>1. /\ r.key \in KeyIds /\ keys'[r.key] # NoKey
        /\ r.sent => r.wait /\ pc \in {"receipt", "retire"}
    BY <1>1, <1>4, <1>9 DEF Fits, TablesKeep
  <2>2. r.pc = "retire" => Old(keys'[r.key], registryTime')
    BY <1>4, <1>9
  <2>3. Fits(r, wallets', keys', registryTime')
    BY <1>4, <1>9, <2>1, <2>2 DEF Fits
  <2>4. QED
    BY <1>2, <1>4, <2>3, OneRegistryCall DEF q
<1>10. ASSUME waits, ~q.sent PROVE Fits(r, wallets', keys', registryTime')
  BY <1>4, <1>10 DEF Fits
<1>11. QED
  BY <1>2, <1>4, <1>5, <1>7, <1>8, <1>9, <1>10, OneRegistryCall DEF q

\* The steps that change no table.
LEMMA PlainRegistryInv ==
    ASSUME RegistryInv, NEW c \in RegistryCalls, registryTime' = registryTime,
           \/ LookUpWallet(c) \/ CheckOnChain(c) \/ ReadPrivateKey(c) \/ Receipt(c) \/ RevokeKey(c)
    PROVE  RegistryInv'
<1> DEFINE q == registryCall[c]
<1>1. /\ Underway(q) /\ UNCHANGED registryTables /\ registryRequests' = registryRequests
      /\ q.pc \in {"lookup", "chain", "private", "receipt", "search"}
  BY DEF LookUpWallet, CheckOnChain, ReadPrivateKey, Receipt, RevokeKey, Reached, Underway
<1>2. TablesKeep /\ wallets' = wallets /\ keys' = keys
  BY <1>1, TablesSame DEF registryTables
<1>3. RegistryWorks \/ RegistryFails
  BY DEF LookUpWallet, CheckOnChain, ReadPrivateKey, Receipt, RevokeKey, RegistryBreaks
<1>4. q \in RegistryRequest /\ Fits(q, wallets, keys, registryTime)
  BY RegistryIs
<1>5. q.sent \in BOOLEAN
  BY <1>4 DEF RegistryRequest
<1>6. q.sent => q.pc = "receipt"
  BY <1>1, <1>4 DEF Fits
<1>7. ASSUME NEW outcome \in {"ok", "failed", "rejected", "notFound"}, RegistryEnded(c, outcome),
             outcome = "ok" \/ q.pc # "receipt"
      PROVE  RegistryInv'
  BY <1>1, <1>2, <1>3, <1>6, <1>7, EndInv
<1>8. ASSUME RegistryBreaks(c, q.sent) PROVE RegistryInv'
  BY <1>1, <1>2, <1>5, <1>8, BreakInv
<1>9. CASE LookUpWallet(c)
  <2>1. SavedWallets = {} => \A w \in WalletIds : wallets[w] = NoWallet
    BY DEF SavedWallets
  <2>2. q.pc = "lookup"
    BY <1>9 DEF LookUpWallet, Reached
  <2>3. (SavedWallets = {} /\ RegistryGoesTo(c, "save"))
        \/ RegistryEnded(c, "ok") \/ RegistryBreaks(c, q.sent)
    BY <1>9 DEF LookUpWallet
  <2>4. QED
    BY <1>1, <1>2, <1>3, <1>6, <1>7, <1>8, <2>1, <2>2, <2>3, GoInv
<1>10. CASE CheckOnChain(c)
  <2>1. RegistryGoesTo(c, "note") \/ RegistryEnded(c, "ok")
    BY <1>10 DEF CheckOnChain
  <2>2. q.pc = "chain"
    BY <1>10 DEF CheckOnChain, Reached
  <2>3. QED
    BY <1>1, <1>2, <1>3, <1>7, <2>1, <2>2, GoInv
<1>11. CASE ReadPrivateKey(c)
  <2>1. \/ registryCall' = [registryCall EXCEPT ![c].pc = "insert",
                                               ![c].expires = registryTime + q.expires]
        \/ RegistryEnded(c, "failed") \/ RegistryBreaks(c, q.sent)
    BY <1>11, Zenon DEF ReadPrivateKey
  <2>2. q.pc = "private" /\ registryTime + q.expires \in Nat
    BY <1>4, <1>11, RegistryAssumption
       DEF ReadPrivateKey, Reached, RegistryInv, RegistryTypeOK, RegistryRequest
  <2>3. ASSUME NEW e \in Nat,
               registryCall' = [registryCall EXCEPT ![c].pc = "insert", ![c].expires = e]
        PROVE  RegistryInv'
    BY <1>1, <1>2, <1>3, <2>2, <2>3, GoInv
  <2>4. QED
    BY <1>7, <1>8, <2>1, <2>2, <2>3
<1>12. CASE Receipt(c)
  <2>1. RegistryEnded(c, "ok") \/ RegistryBreaks(c, q.sent)
    BY <1>12 DEF Receipt
  <2>2. QED
    BY <1>7, <1>8, <2>1
<1>13. CASE RevokeKey(c)
  <2>1. Searched = {}
    BY DEF Searched, SavedKeys, RegistryInv, RegistryTypeOK, KeyRow
  <2>2. RegistryEnded(c, "notFound") \/ RegistryBreaks(c, q.sent)
    BY <1>13, <2>1 DEF RevokeKey
  <2>3. q.pc = "search"
    BY <1>13 DEF RevokeKey, Reached
  <2>4. QED
    BY <1>7, <1>8, <2>2, <2>3
<1>14. QED
  BY <1>9, <1>10, <1>11, <1>12, <1>13

\* Wallet steps that save no wallet.
LEMMA DeployInv ==
    ASSUME RegistryInv, NEW c \in RegistryCalls, registryTime' = registryTime,
           SavePrivateKey(c) \/ Deploy(c) \/ NoteDeployed(c)
    PROVE  RegistryInv'
<1> DEFINE q == registryCall[c]
<1>1. /\ Underway(q) /\ keys' = keys /\ registryRequests' = registryRequests
      /\ q.pc \in {"saveKey", "deploy", "note"} /\ (RegistryWorks \/ RegistryFails)
  BY DEF SavePrivateKey, Deploy, NoteDeployed, Reached, Underway, RegistryBreaks
<1>2. /\ q \in RegistryRequest /\ Fits(q, wallets, keys, registryTime)
      /\ wallets \in [WalletIds -> WalletRow \cup {NoWallet}]
      /\ keys \in [KeyIds -> KeyRow \cup {NoKey}]
      /\ privateKeys \subseteq WalletIds /\ onChain \subseteq WalletIds
      /\ WalletsKeep(wallets) /\ KeysKeep(keys, registryTime)
  BY RegistryIs DEF RegistryInv, RegistryTypeOK
<1>3. ~q.sent /\ q.wallet \in WalletIds /\ wallets[q.wallet] # NoWallet
  BY <1>1, <1>2 DEF Fits
<1>4. privateKeys' \subseteq WalletIds /\ onChain' \subseteq WalletIds
  BY <1>2, <1>3 DEF SavePrivateKey, Deploy, NoteDeployed
<1>5. /\ wallets' \in [WalletIds -> WalletRow \cup {NoWallet}]
      /\ \A w \in WalletIds : wallets[w] # NoWallet => wallets'[w] # NoWallet
      /\ WalletsKeep(wallets')
  <2>1. CASE wallets' = wallets
    <3>1. WalletsKeep(wallets')
      BY <1>2, <2>1, Zenon
    <3>2. QED
      BY <1>2, <2>1, <3>1
  <2>2. CASE wallets' = [wallets EXCEPT ![q.wallet].deployed = TRUE]
    <3> DEFINE row == [wallets[q.wallet] EXCEPT !.deployed = TRUE]
    <3>1. row \in WalletRow /\ row.overlapped = wallets[q.wallet].overlapped
      BY <1>2, <1>3 DEF WalletRow
    <3>2. wallets' = [wallets EXCEPT ![q.wallet] = row]
      BY <2>2, Zenon
    <3>3. row # NoWallet
      BY <3>1 DEF WalletRow, NoWallet
    <3> HIDE DEF row
    <3>4. \A w \in WalletIds : wallets'[w] = IF w = q.wallet THEN row ELSE wallets[w]
      BY <1>2, <3>2
    <3>5. /\ wallets' \in [WalletIds -> WalletRow \cup {NoWallet}]
          /\ \A w \in WalletIds : (wallets[w] # NoWallet) <=> (wallets'[w] # NoWallet)
      BY <1>2, <1>3, <3>1, <3>2, <3>3, <3>4
    <3>6. \A w \in WalletIds : wallets[w] # NoWallet => wallets'[w].overlapped = wallets[w].overlapped
      BY <3>1, <3>4
    <3>7. WalletsKeep(wallets')
      BY <1>2, <3>5, <3>6 DEF WalletsKeep
    <3>8. QED
      BY <3>5, <3>7
  <2>3. QED
    BY <2>1, <2>2 DEF SavePrivateKey, Deploy, NoteDeployed
<1>6. KeysKeep(keys', registryTime)
  BY <1>1, <1>2, Zenon
<1>7. TablesKeep
  BY <1>1, <1>2, <1>4, <1>5, <1>6 DEF TablesKeep
<1>8. ASSUME NEW outcome \in {"ok", "failed"}, RegistryEnded(c, outcome) PROVE RegistryInv'
  BY <1>1, <1>3, <1>7, <1>8, EndInv
<1>9. ASSUME NEW pc \in {"deploy", "note"}, RegistryGoesTo(c, pc), q.pc \in {"saveKey", "deploy"}
      PROVE  RegistryInv'
  BY <1>1, <1>7, <1>9, GoInv
<1>10. CASE SavePrivateKey(c)
  <2>1. q.sent = FALSE /\ (RegistryBreaks(c, q.sent) => RegistryBreaks(c, FALSE))
    BY <1>2, <1>3 DEF RegistryRequest
  <2>2. RegistryBreaks(c, FALSE) => RegistryInv'
    BY <1>1, <1>7, BreakInv
  <2>3. QED
    BY <1>9, <1>10, <2>1, <2>2 DEF SavePrivateKey, Reached
<1>11. CASE Deploy(c)
  BY <1>8, <1>9, <1>11 DEF Deploy, Reached
<1>12. CASE NoteDeployed(c)
  BY <1>8, <1>12 DEF NoteDeployed
<1>13. QED
  BY <1>10, <1>11, <1>12

\* A wallet is saved: one beside another only by a request that overlapped.
LEMMA SaveWalletInv ==
    ASSUME RegistryInv, NEW c \in RegistryCalls, SaveWallet(c), registryTime' = registryTime
    PROVE  RegistryInv'
<1> DEFINE q == registryCall[c]
<1>1. /\ Underway(q) /\ UNCHANGED <<privateKeys, onChain, keys, registryRequests>>
      /\ q.pc = "save" /\ (RegistryWorks \/ RegistryFails)
  BY DEF SaveWallet, Reached, Underway, RegistryBreaks
<1>2. /\ q \in RegistryRequest /\ Fits(q, wallets, keys, registryTime)
      /\ wallets \in [WalletIds -> WalletRow \cup {NoWallet}]
      /\ keys \in [KeyIds -> KeyRow \cup {NoKey}]
      /\ privateKeys \subseteq WalletIds /\ onChain \subseteq WalletIds
      /\ WalletsKeep(wallets) /\ KeysKeep(keys, registryTime)
  BY RegistryIs DEF RegistryInv, RegistryTypeOK
<1>3. ~q.sent
  BY <1>1, <1>2 DEF Fits
<1>4. CASE RegistryBreaks(c, q.sent) /\ UNCHANGED wallets
  <2>1. TablesKeep
    BY <1>1, <1>4, TablesSame DEF registryTables
  <2>2. q.sent \in BOOLEAN
    BY <1>2 DEF RegistryRequest
  <2>3. QED
    BY <1>1, <1>3, <1>4, <2>1, <2>2, BreakInv
<1>5. CASE ~(RegistryBreaks(c, q.sent) /\ UNCHANGED wallets)
  <2>1. PICK w \in WalletIds \ SavedWallets :
            /\ \A v \in 1..(w - 1) : v \in SavedWallets
            /\ wallets' = [wallets EXCEPT
                 ![w] = [deployed |-> FALSE, overlapped |-> registryCall[c].overlapped]]
            /\ registryCall' = [registryCall EXCEPT ![c].pc = "saveKey", ![c].wallet = w]
    BY <1>5 DEF SaveWallet
  <2> DEFINE row == [deployed |-> FALSE, overlapped |-> q.overlapped]
  <2>2. row \in WalletRow /\ row # NoWallet /\ row.overlapped = q.overlapped
    BY <1>2 DEF WalletRow, RegistryRequest, NoWallet
  <2>3. wallets' = [wallets EXCEPT ![w] = row] /\ wallets[w] = NoWallet
    BY <2>1 DEF SavedWallets
  <2>4. \A v \in WalletIds : v < w => wallets[v] # NoWallet
    BY <2>1, RegistryAssumption DEF SavedWallets, WalletIds
  <2>5. (\E v \in WalletIds : wallets[v] # NoWallet) => q.overlapped
    BY <1>1, <1>2 DEF Fits
  <2> HIDE DEF row
  <2>6. \A v \in WalletIds : wallets'[v] = IF v = w THEN row ELSE wallets[v]
    BY <1>2, <2>3
  <2>7. /\ wallets' \in [WalletIds -> WalletRow \cup {NoWallet}]
        /\ \A v \in WalletIds : wallets[v] # NoWallet => wallets'[v] # NoWallet
    BY <1>2, <2>2, <2>3, <2>6
  <2>8. ASSUME NEW u \in WalletIds, NEW v \in WalletIds, u < v, wallets'[v] # NoWallet
        PROVE  wallets'[u] # NoWallet /\ wallets'[v].overlapped
    <3>1. CASE v = w
      BY <2>2, <2>4, <2>5, <2>6, <2>8, <3>1
    <3>2. CASE v # w
      <4>1. wallets[v] # NoWallet /\ wallets[u] # NoWallet /\ wallets[v].overlapped
        BY <1>2, <2>6, <2>8, <3>2 DEF WalletsKeep
      <4>2. QED
        BY <2>6, <2>7, <3>2, <4>1
    <3>3. QED
      BY <3>1, <3>2
  <2>9. WalletsKeep(wallets')
    BY <2>8 DEF WalletsKeep
  <2>10. KeysKeep(keys', registryTime) /\ keys' = keys
    BY <1>1, <1>2, Zenon
  <2>11. TablesKeep
    BY <1>1, <1>2, <2>7, <2>9, <2>10 DEF TablesKeep
  <2> SUFFICES ASSUME NEW r, r = [registryCall[c] EXCEPT !.pc = "saveKey", !.wallet = w]
               PROVE  RegistryInv'
    OBVIOUS
  <2>12. registryCall' = [registryCall EXCEPT ![c] = r]
    BY <2>1, Zenon
  <2>13. w \in 0..MaxWallets
    BY RegistryAssumption DEF WalletIds
  <2>14. /\ r \in RegistryRequest /\ r.pc = "saveKey" /\ r.wallet = w /\ ~r.sent
         /\ r.overlapped = q.overlapped
    BY <1>2, <1>3, <2>13 DEF RegistryRequest
  <2>15. Fits(r, wallets', keys', registryTime')
    <3>1. wallets'[r.wallet] # NoWallet /\ r.wallet \in WalletIds
      BY <2>2, <2>6, <2>14
    <3>2. QED
      BY <2>14, <3>1 DEF Fits
  <2>16. registryRequests' = registryRequests
    BY <1>1
  <2>17. QED
    BY <1>1, <2>11, <2>12, <2>14, <2>15, <2>16, OneRegistryCall
<1>6. QED
  BY <1>4, <1>5

\* A key that is retired covers no more than before.
LEMMA KeyFades ==
    ASSUME RegistryInv, NEW k \in KeyIds, keys[k] # NoKey, NEW row \in KeyRow,
           row.wallet = keys[k].wallet, row.permissions = keys[k].permissions,
           row.auto = keys[k].auto, row.overlapped = keys[k].overlapped,
           row.until = keys[k].until, row.expires = keys[k].expires,
           row.active => keys[k].active, ~row.active => Old(row, registryTime),
           keys' = [keys EXCEPT ![k] = row],
           UNCHANGED <<wallets, privateKeys, onChain, registryTime>>
    PROVE  /\ TablesKeep
           /\ \A j \in KeyIds : keys'[j] = IF j = k THEN row ELSE keys[j]
<1>1. /\ wallets \in [WalletIds -> WalletRow \cup {NoWallet}]
      /\ keys \in [KeyIds -> KeyRow \cup {NoKey}]
      /\ privateKeys \subseteq WalletIds /\ onChain \subseteq WalletIds
      /\ WalletsKeep(wallets) /\ KeysKeep(keys, registryTime)
  BY DEF RegistryInv, RegistryTypeOK
<1>2. \A j \in KeyIds : keys'[j] = IF j = k THEN row ELSE keys[j]
  BY <1>1
<1>3. row # NoKey
  BY DEF KeyRow, NoKey
<1>4. /\ keys' \in [KeyIds -> KeyRow \cup {NoKey}]
      /\ \A j \in KeyIds : (keys[j] # NoKey) <=> (keys'[j] # NoKey)
      /\ \A j \in KeyIds : keys[j] # NoKey => keys'[j].expires = keys[j].expires
  BY <1>1, <1>2, <1>3
<1>5. ASSUME NEW j \in KeyIds, NEW r, Covers(keys'[j], r, registryTime)
      PROVE  Covers(keys[j], r, registryTime)
  <2>1. CASE j = k
    BY <1>2, <1>5, <2>1 DEF Covers, Old
  <2>2. CASE j # k
    BY <1>2, <1>5, <2>2
  <2>3. QED
    BY <2>1, <2>2
<1>6. \A j \in KeyIds : keys'[j] # NoKey /\ ~keys'[j].active => Old(keys'[j], registryTime)
  BY <1>1, <1>2 DEF KeysKeep
<1>7. ASSUME NEW j \in KeyIds, NEW l \in KeyIds, j < l, keys'[l] # NoKey
      PROVE  /\ keys'[j] # NoKey
             /\ keys'[l].auto /\ Covers(keys'[j], keys'[l], registryTime) => keys'[l].overlapped
  <2>1. /\ keys[l] # NoKey /\ keys[j] # NoKey
        /\ keys[l].auto /\ Covers(keys[j], keys[l], registryTime) => keys[l].overlapped
    BY <1>1, <1>4, <1>7 DEF KeysKeep
  <2>2. /\ keys'[l].wallet = keys[l].wallet /\ keys'[l].permissions = keys[l].permissions
        /\ keys'[l].auto = keys[l].auto /\ keys'[l].overlapped = keys[l].overlapped
        /\ keys'[l].until = keys[l].until
    BY <1>2
  <2>3. Covers(keys'[j], keys'[l], registryTime) => Covers(keys[j], keys[l], registryTime)
    BY <1>5, <2>2 DEF Covers
  <2>4. QED
    BY <1>4, <2>1, <2>2, <2>3
<1>8. KeysKeep(keys', registryTime)
  BY <1>6, <1>7 DEF KeysKeep
<1>9. WalletsKeep(wallets')
  BY <1>1, Zenon
<1>10. QED
  BY <1>1, <1>2, <1>4, <1>5, <1>8, <1>9 DEF TablesKeep

LEMMA RetireInv ==
    ASSUME RegistryInv, NEW c \in RegistryCalls, Retire(c), registryTime' = registryTime
    PROVE  RegistryInv'
<1> DEFINE q == registryCall[c]
           outcome == IF q.op = "revoke" THEN "ok" ELSE "failed"
<1>1. /\ Underway(q) /\ UNCHANGED <<wallets, privateKeys, onChain, registryRequests>>
      /\ q.pc = "retire" /\ (RegistryWorks \/ RegistryFails) /\ RegistryEnded(c, outcome)
  BY DEF Retire, Reached, Underway
<1>2. q.key \in KeyIds /\ keys[q.key] # NoKey /\ Old(keys[q.key], registryTime)
  BY <1>1, RegistryIs DEF Fits
<1>3. CASE keys' = keys
  <2>1. TablesKeep
    BY <1>1, <1>3, TablesSame DEF registryTables
  <2>2. Old(keys'[q.key], registryTime)
    BY <1>2, <1>3
  <2>3. QED
    BY <1>1, <2>1, <2>2, EndInv
<1>4. CASE keys' = [keys EXCEPT ![q.key].active = FALSE]
  <2> DEFINE row == [keys[q.key] EXCEPT !.active = FALSE]
  <2>1. keys[q.key] \in KeyRow
    BY <1>2 DEF RegistryInv, RegistryTypeOK
  <2>2. /\ row \in KeyRow /\ row.wallet = keys[q.key].wallet
        /\ row.permissions = keys[q.key].permissions /\ row.auto = keys[q.key].auto
        /\ row.overlapped = keys[q.key].overlapped /\ ~row.active
        /\ row.until = keys[q.key].until /\ row.expires = keys[q.key].expires
    BY <2>1 DEF KeyRow
  <2>3. keys' = [keys EXCEPT ![q.key] = row]
    BY <1>4, Zenon
  <2>4. Old(row, registryTime)
    BY <1>2, <2>2 DEF Old
  <2> HIDE DEF row
  <2>5. TablesKeep /\ \A j \in KeyIds : keys'[j] = IF j = q.key THEN row ELSE keys[j]
    BY <1>1, <1>2, <2>2, <2>3, <2>4, KeyFades
  <2>6. Old(keys'[q.key], registryTime)
    BY <1>2, <2>4, <2>5
  <2> HIDE DEF outcome
  <2>7. outcome \in {"ok", "failed"}
    BY DEF outcome
  <2>8. QED
    BY <1>1, <2>5, <2>6, <2>7, EndInv
<1>5. QED
  BY <1>3, <1>4 DEF Retire

\* Time only takes away: who had found a key in its way may find it no more.
LEMMA LaterLess ==
    ASSUME NEW t \in Nat, NEW key \in KeyRow \cup {NoKey}
    PROVE  /\ Old(key, t) /\ key # NoKey => Old(key, t + 1)
           /\ \A r : Covers(key, r, t + 1) => Covers(key, r, t)
<1>1. CASE key # NoKey
  <2>1. key.expires \in Nat /\ key.until \in Nat
    BY <1>1 DEF KeyRow
  <2>2. Old(key, t) => Old(key, t + 1)
    BY <2>1 DEF Old
  <2>3. ASSUME NEW u \in Nat, t + 1 + Hour <= u PROVE t + Hour <= u
    BY <2>3, RegistryAssumption
  <2>4. QED
    BY <2>1, <2>2, <2>3 DEF Covers
<1>2. CASE key = NoKey
  BY <1>2 DEF Covers
<1>3. QED
  BY <1>1, <1>2

LEMMA RegistryTimeInv == ASSUME RegistryInv, RegistryTimePasses PROVE RegistryInv'
<1> DEFINE t == registryTime
<1>1. /\ UNCHANGED <<wallets, privateKeys, onChain, keys, registryCall, registryRequests,
                     registryFaults>>
      /\ registryTime' = t + 1 /\ t \in Nat /\ t + 1 \in 0..MaxRegistryTime
  BY RegistryAssumption
     DEF RegistryTimePasses, RegistryInv, RegistryTypeOK, registryTables
<1>2. /\ WalletsKeep(wallets) /\ KeysKeep(keys, t)
      /\ keys \in [KeyIds -> KeyRow \cup {NoKey}]
  BY DEF RegistryInv, RegistryTypeOK
<1>3. RegistryTypeOK'
  BY <1>1 DEF RegistryInv, RegistryTypeOK
<1> HIDE DEF t
<1>4. /\ \A k \in KeyIds : Old(keys[k], t) /\ keys[k] # NoKey => Old(keys[k], t + 1)
      /\ \A k \in KeyIds : \A r : Covers(keys[k], r, t + 1) => Covers(keys[k], r, t)
  BY <1>1, <1>2, LaterLess
<1>5. KeysKeep(keys, t + 1)
  <2>1. \A j, k \in KeyIds : Covers(keys[j], keys[k], t + 1) => Covers(keys[j], keys[k], t)
    BY <1>4
  <2>2. \A k \in KeyIds : keys[k] # NoKey /\ ~keys[k].active => Old(keys[k], t + 1)
    BY <1>2, <1>4 DEF KeysKeep
  <2>3. QED
    BY <1>2, <2>1, <2>2 DEF KeysKeep
<1>6. ASSUME NEW r, Fits(r, wallets, keys, t) PROVE Fits(r, wallets, keys, t + 1)
  <2>1. r.pc = "retire" \/ r.sent => r.key \in KeyIds /\ keys[r.key] # NoKey
    BY <1>6 DEF Fits
  <2>2. r.pc = "retire" => Old(keys[r.key], t + 1)
    BY <1>4, <1>6, <2>1 DEF Fits
  <2>3. r.sent /\ r.pc = "done" /\ r.outcome # "ok" =>
          r.broken \/ (r.wait /\ Old(keys[r.key], t + 1))
    BY <1>4, <1>6, <2>1 DEF Fits
  <2>4. \A k \in KeyIds : Covers(keys[k], r, t + 1) => Covers(keys[k], r, t)
    BY <1>4
  <2>5. QED
    BY <1>6, <2>2, <2>3, <2>4 DEF Fits
<1>7. \A c \in RegistryCalls : Fits(registryCall[c], wallets, keys, t)
  BY DEF RegistryInv, t
<1>8. /\ wallets' = wallets /\ registryCall' = registryCall /\ keys' = keys
      /\ registryTime' = t + 1
  BY <1>1
<1>9. \A c \in RegistryCalls : Fits(registryCall'[c], wallets', keys', registryTime')
  BY <1>6, <1>7, <1>8, Zenon
<1>10. \A c, d \in RegistryCalls : c # d => Together(registryCall'[c], registryCall'[d])
  BY <1>8, Zenon DEF RegistryInv
<1>11. WalletsKeep(wallets') /\ KeysKeep(keys', registryTime')
  BY <1>2, <1>5, <1>8, Zenon
<1>12. QED
  BY <1>3, <1>9, <1>10, <1>11 DEF RegistryInv

LEMMA UseInv ==
    ASSUME RegistryInv, NEW c \in RegistryCalls, Validate(c) \/ Send(c), registryTime' = registryTime
    PROVE  RegistryInv'
<1> DEFINE q == registryCall[c]
           k == keys[q.key]
<1>1. /\ Underway(q) /\ UNCHANGED registryTables /\ registryRequests' = registryRequests
      /\ q.pc \in {"validate", "again", "send"} /\ (RegistryWorks \/ RegistryFails)
  BY DEF Validate, Send, Reached, Underway, RegistryBreaks
<1>2. /\ TablesKeep /\ keys' = keys /\ wallets' = wallets
  BY <1>1, TablesSame DEF registryTables
<1>3. /\ q \in RegistryRequest /\ Fits(q, wallets, keys, registryTime)
      /\ KeysKeep(keys, registryTime)
  BY RegistryIs DEF RegistryInv
<1>4. /\ q.key \in KeyIds /\ k # NoKey /\ (~k.active => Old(k, registryTime))
      /\ q.sent => q.pc = "again" /\ q.wait
      /\ q.sent \in BOOLEAN
  BY <1>1, <1>3 DEF Fits, KeysKeep, RegistryRequest
<1>5. ASSUME NEW sent \in BOOLEAN, RegistryBreaks(c, sent), sent => q.sent \/ q.pc = "send"
      PROVE  RegistryInv'
  BY <1>1, <1>2, <1>5, BreakInv
<1>6. CASE Validate(c)
  <2>1. q.pc \in {"validate", "again"}
    BY <1>6 DEF Validate, Reached
  <2>2. \/ q.pc = "validate" /\ RegistryGoesTo(c, "send")
        \/ q.pc = "again" /\ RegistryGoesTo(c, "receipt")
        \/ Old(k, registryTime) /\ RegistryGoesTo(c, "retire")
        \/ RegistryEnded(c, "failed") /\ ~k.active
        \/ RegistryBreaks(c, q.sent)
    BY <1>6, <2>1 DEF Validate, Reached, Expired, Old
  <2>3. keys'[registryCall[c].key] = k
    BY <1>2
  <2>4. CASE RegistryEnded(c, "failed") /\ ~k.active
    BY <1>1, <1>2, <1>4, <2>4, EndInv
  <2>5. CASE q.pc = "validate" /\ RegistryGoesTo(c, "send")
    BY <1>1, <1>2, <2>5, GoInv
  <2>6. CASE q.pc = "again" /\ RegistryGoesTo(c, "receipt")
    BY <1>1, <1>2, <2>6, GoInv
  <2>7. CASE Old(k, registryTime) /\ RegistryGoesTo(c, "retire")
    BY <1>1, <1>2, <2>1, <2>3, <2>7, GoInv
  <2>8. CASE RegistryBreaks(c, q.sent)
    BY <1>4, <1>5, <2>8
  <2>9. QED
    BY <2>2, <2>4, <2>5, <2>6, <2>7, <2>8
<1>7. CASE Send(c)
  <2>1. q.pc = "send" /\ ~q.sent
    BY <1>4, <1>7 DEF Send, Reached
  <2>2. \/ RegistryEnded(c, "rejected")
        \/ RegistryBreaks(c, FALSE) \/ RegistryBreaks(c, TRUE)
        \/ RegistryWorks /\ Sent(c)
    BY <1>7 DEF Send
  <2>3. CASE RegistryEnded(c, "rejected")
    BY <1>1, <1>2, <2>1, <2>3, EndInv
  <2>4. CASE RegistryBreaks(c, FALSE) \/ RegistryBreaks(c, TRUE)
    BY <1>5, <2>1, <2>4
  <2>5. CASE RegistryWorks /\ Sent(c)
    <3>1. CASE q.wait
      <4> SUFFICES ASSUME NEW r, r = [registryCall[c] EXCEPT !.pc = "again", !.sent = TRUE]
                   PROVE  RegistryInv'
        OBVIOUS
      <4>1. registryCall' = [registryCall EXCEPT ![c] = r]
        BY <2>5, <3>1 DEF Sent
      <4>2. /\ r \in RegistryRequest /\ r.pc = "again" /\ r.key = q.key /\ r.wait = q.wait
            /\ r.overlapped = q.overlapped
        BY <1>3 DEF RegistryRequest
      <4>3. Fits(r, wallets', keys', registryTime')
        <5>1. keys'[r.key] # NoKey /\ r.key \in KeyIds
          BY <1>2, <1>4, <4>2
        <5>2. QED
          BY <3>1, <4>2, <5>1 DEF Fits
      <4>4. QED
        BY <1>1, <1>2, <4>1, <4>2, <4>3, OneRegistryCall
    <3>2. CASE ~q.wait
      <4>1. registryCall' = [registryCall EXCEPT ![c] = [AnsweredWith(q, "ok") EXCEPT !.sent = TRUE]]
        BY <2>5, <3>2 DEF Sent
      <4>2. /\ q.broken \in BOOLEAN
            /\ [AnsweredWith(q, "ok") EXCEPT !.sent = TRUE] =
                 [AnsweredWith(q, "ok") EXCEPT !.broken = q.broken, !.sent = TRUE]
        BY <1>3 DEF RegistryRequest, AnsweredWith
      <4> HIDE DEF q
      <4>3. q.key \in KeyIds /\ keys[q.key] # NoKey
        BY <1>4
      <4>4. QED
        BY <1>1, <1>2, <4>1, <4>2, <4>3, AnswerInv DEF q
    <3>3. QED
      BY <3>1, <3>2
  <2>6. QED
    BY <2>2, <2>3, <2>4, <2>5
<1>8. QED
  BY <1>6, <1>7

\* The search finds the newest key that covers the request, or leaves none.
LEMMA FindKeyInv ==
    ASSUME RegistryInv, NEW c \in RegistryCalls, FindKey(c), registryTime' = registryTime
    PROVE  RegistryInv'
<1> DEFINE q == registryCall[c]
           found == {k \in SavedKeys : /\ keys[k].wallet = q.wallet /\ Usable(k)
                                       /\ Compatible(keys[k], q)}
           newest == CHOOSE k \in found : \A j \in found : j <= k
<1>1. /\ Underway(q) /\ UNCHANGED registryTables /\ registryRequests' = registryRequests
      /\ q.pc = "find" /\ (RegistryWorks \/ RegistryFails)
  BY DEF FindKey, Reached, Underway, RegistryBreaks
<1>2. /\ TablesKeep /\ keys' = keys /\ wallets' = wallets
  BY <1>1, TablesSame DEF registryTables
<1>3. /\ q \in RegistryRequest /\ Fits(q, wallets, keys, registryTime)
  BY RegistryIs
<1>4. ~q.sent
  BY <1>1, <1>3 DEF Fits
<1>5. \/ found = {} /\ RegistryGoesTo(c, "private")
      \/ /\ found # {}
         /\ registryCall' = [registryCall EXCEPT ![c].pc = "validate", ![c].key = newest]
      \/ RegistryBreaks(c, q.sent)
  BY DEF FindKey
<1>6. CASE RegistryBreaks(c, q.sent)
  <2>1. q.sent \in BOOLEAN
    BY <1>3 DEF RegistryRequest
  <2>2. QED
    BY <1>1, <1>2, <1>4, <1>6, <2>1, BreakInv
<1>7. CASE found = {} /\ RegistryGoesTo(c, "private")
  <2>1. ASSUME NEW k \in KeyIds, Covers(keys[k], q, registryTime) PROVE k \in found
    <3>1. keys[k] \in KeyRow
      BY <2>1 DEF Covers, RegistryInv, RegistryTypeOK
    <3>2. Compatible(keys[k], q)
      BY <2>1, <3>1, RegistryAssumption
         DEF Covers, Within, Compatible, LastsFor, KeyRow, RegistryInv, RegistryTypeOK
    <3>3. Usable(k) /\ k \in SavedKeys /\ keys[k].wallet = q.wallet
      BY <2>1 DEF Covers, SavedKeys, Usable, Expired, Old
    <3>4. QED
      BY <3>2, <3>3
  <2>2. \A k \in KeyIds : ~Covers(keys[k], q, registryTime)
    BY <1>7, <2>1
  <2>3. QED
    BY <1>1, <1>2, <1>7, <2>2, GoInv
<1>8. CASE found # {} /\ registryCall' = [registryCall EXCEPT ![c].pc = "validate", ![c].key = newest]
  <2>1. found \in SUBSET (1..MaxKeys)
    BY DEF SavedKeys, KeyIds
  <2>2. newest \in found
    <3> HIDE DEF found
    <3>1. \E k \in found : \A j \in found : j <= k
      BY <1>8, <2>1, Largest, RegistryAssumption
    <3>2. QED
      BY <3>1
  <2>3. newest \in KeyIds /\ keys[newest] # NoKey
    BY <2>2 DEF SavedKeys
  <2> HIDE DEF newest
  <2> SUFFICES ASSUME NEW r, r = [registryCall[c] EXCEPT !.pc = "validate", !.key = newest]
               PROVE  RegistryInv'
    OBVIOUS
  <2>4. registryCall' = [registryCall EXCEPT ![c] = r]
    BY <1>8, Zenon
  <2>5. newest \in 0..MaxKeys
    BY <2>3, RegistryAssumption DEF KeyIds
  <2>6. /\ r \in RegistryRequest /\ r.pc = "validate" /\ r.key = newest /\ ~r.sent
        /\ r.overlapped = q.overlapped
    BY <1>3, <1>4, <2>5 DEF RegistryRequest
  <2>7. Fits(r, wallets', keys', registryTime')
    BY <1>2, <2>3, <2>6 DEF Fits
  <2>8. QED
    BY <1>1, <1>2, <2>4, <2>6, <2>7, OneRegistryCall
<1>9. QED
  BY <1>5, <1>6, <1>7, <1>8

\* A key is added: beside one that covers it, only by a request that overlapped, or
\* that asked for it.
LEMMA InsertKeyInv ==
    ASSUME RegistryInv, NEW c \in RegistryCalls, InsertKey(c), registryTime' = registryTime
    PROVE  RegistryInv'
<1> DEFINE q == registryCall[c]
<1>1. /\ Underway(q) /\ UNCHANGED <<wallets, privateKeys, onChain, registryRequests>>
      /\ q.pc = "insert" /\ (RegistryWorks \/ RegistryFails)
  BY DEF InsertKey, Reached, Underway, RegistryBreaks
<1>2. /\ q \in RegistryRequest /\ Fits(q, wallets, keys, registryTime)
      /\ wallets \in [WalletIds -> WalletRow \cup {NoWallet}]
      /\ keys \in [KeyIds -> KeyRow \cup {NoKey}]
      /\ privateKeys \subseteq WalletIds /\ onChain \subseteq WalletIds
      /\ WalletsKeep(wallets) /\ KeysKeep(keys, registryTime)
  BY RegistryIs DEF RegistryInv, RegistryTypeOK
<1>3. ~q.sent /\ q.wallet \in WalletIds
  BY <1>1, <1>2 DEF Fits
<1>4. CASE RegistryBreaks(c, q.sent) /\ UNCHANGED keys
  <2>1. TablesKeep
    BY <1>1, <1>4, TablesSame DEF registryTables
  <2>2. q.sent \in BOOLEAN
    BY <1>2 DEF RegistryRequest
  <2>3. QED
    BY <1>1, <1>3, <1>4, <2>1, <2>2, BreakInv
<1>5. CASE ~(RegistryBreaks(c, q.sent) /\ UNCHANGED keys)
  <2> DEFINE row == [wallet |-> q.wallet, permissions |-> q.permissions, until |-> q.until,
                     active |-> TRUE, expires |-> q.expires, auto |-> q.op = "auto",
                     overlapped |-> q.overlapped]
  <2>1. PICK k \in KeyIds \ SavedKeys :
            /\ \A j \in 1..(k - 1) : j \in SavedKeys
            /\ keys' = [keys EXCEPT ![k] = row]
            /\ IF q.op = "auto"
                 THEN registryCall' = [registryCall EXCEPT ![c].pc = "validate", ![c].key = k]
                 ELSE RegistryEnded(c, "ok")
    BY <1>5 DEF InsertKey
  <2>2. /\ row \in KeyRow /\ row # NoKey /\ row.active /\ row.wallet = q.wallet
        /\ row.permissions = q.permissions /\ row.overlapped = q.overlapped
        /\ (row.auto <=> q.op = "auto") /\ row.until = q.until
    BY <1>2, <1>3 DEF KeyRow, RegistryRequest, NoKey
  <2>3. keys' = [keys EXCEPT ![k] = row] /\ keys[k] = NoKey
    BY <2>1 DEF SavedKeys
  <2>4. \A j \in KeyIds : j < k => keys[j] # NoKey
    BY <2>1, RegistryAssumption DEF SavedKeys, KeyIds
  <2> HIDE DEF row
  <2>5. \A j \in KeyIds : keys'[j] = IF j = k THEN row ELSE keys[j]
    BY <1>2, <2>3
  <2>6. /\ keys' \in [KeyIds -> KeyRow \cup {NoKey}]
        /\ \A j \in KeyIds : keys[j] # NoKey => keys'[j] = keys[j]
    BY <1>2, <2>2, <2>3, <2>5
  <2>7. \A j \in KeyIds : Covers(keys[j], row, registryTime) <=> Covers(keys[j], q, registryTime)
    BY <2>2 DEF Covers
  <2>8. q.op = "auto" /\ (\E j \in KeyIds : Covers(keys[j], q, registryTime)) => q.overlapped
    BY <1>1, <1>2 DEF Fits
  <2>9. ASSUME NEW i \in KeyIds, NEW j \in KeyIds, i < j, keys'[j] # NoKey
        PROVE  /\ keys'[i] # NoKey
               /\ keys'[j].auto /\ Covers(keys'[i], keys'[j], registryTime) => keys'[j].overlapped
    <3>1. CASE j = k
      <4>1. i # k /\ keys'[i] = keys[i] /\ keys[i] # NoKey /\ keys'[j] = row
        BY <2>4, <2>5, <2>9, <3>1 DEF KeyIds
      <4>2. row.auto /\ Covers(keys[i], row, registryTime) => row.overlapped
        BY <2>2, <2>7, <2>8
      <4>3. QED
        BY <4>1, <4>2
    <3>2. CASE j # k
      <4>1. /\ keys'[j] = keys[j] /\ keys[i] # NoKey /\ keys'[i] = keys[i]
            /\ keys[j].auto /\ Covers(keys[i], keys[j], registryTime) => keys[j].overlapped
        BY <1>2, <2>5, <2>6, <2>9, <3>2 DEF KeysKeep
      <4>2. QED
        BY <4>1
    <3>3. QED
      BY <3>1, <3>2
  <2>10. KeysKeep(keys', registryTime)
    <3>1. \A j \in KeyIds : keys'[j] # NoKey /\ ~keys'[j].active => Old(keys'[j], registryTime)
      BY <1>2, <2>2, <2>5 DEF KeysKeep
    <3>2. QED
      BY <2>9, <3>1 DEF KeysKeep
  <2>11. WalletsKeep(wallets') /\ wallets' = wallets
    BY <1>1, <1>2, Zenon
  <2>12. TablesKeep
    BY <1>1, <1>2, <2>6, <2>10, <2>11 DEF TablesKeep
  <2>13. CASE q.op # "auto"
    <3>1. RegistryEnded(c, "ok")
      BY <2>1, <2>13
    <3>2. QED
      BY <1>1, <2>12, <3>1, EndInv
  <2>14. CASE q.op = "auto"
    <3>1. registryCall' = [registryCall EXCEPT ![c].pc = "validate", ![c].key = k]
      BY <2>1, <2>14
    <3> SUFFICES ASSUME NEW r, r = [registryCall[c] EXCEPT !.pc = "validate", !.key = k]
                 PROVE  RegistryInv'
      OBVIOUS
    <3>2. registryCall' = [registryCall EXCEPT ![c] = r]
      BY <3>1, Zenon
    <3>3. k \in 0..MaxKeys
      BY RegistryAssumption DEF KeyIds
    <3>4. /\ r \in RegistryRequest /\ r.pc = "validate" /\ r.key = k /\ ~r.sent
          /\ r.overlapped = q.overlapped
      BY <1>2, <1>3, <3>3 DEF RegistryRequest
    <3>5. keys'[r.key] # NoKey /\ r.key \in KeyIds
      BY <2>2, <2>5, <3>4
    <3>6. Fits(r, wallets', keys', registryTime')
      BY <3>4, <3>5 DEF Fits
    <3>7. registryRequests' = registryRequests
      BY <1>1
    <3>8. QED
      BY <1>1, <2>12, <3>2, <3>4, <3>6, <3>7, OneRegistryCall
  <2>15. QED
    BY <2>13, <2>14
<1>6. QED
  BY <1>4, <1>5

\* A request that arrives overlaps with those under way, and they with it.
LEMMA RegistryArrivesInv ==
    ASSUME RegistryInv, NEW c \in RegistryCalls, NEW asked \in RegistryRequest,
           RegistryArrives(c, asked), asked.op \in RegistryOps, ~asked.sent,
           asked.op \in {"status", "create", "auto"} =>
              asked.wallet \in WalletIds /\ wallets[asked.wallet] # NoWallet,
           asked.op = "execute" => asked.key \in KeyIds /\ keys[asked.key] # NoKey
    PROVE  RegistryInv'
<1> DEFINE busy == {d \in RegistryCalls : ~Reached(d, "done")}
           first == OpStarts(asked.op)
           others == busy # {}
<1>1. /\ UNCHANGED registryTables /\ registryFaults' = registryFaults
      /\ registryTime' = registryTime
      /\ registryRequests' = registryRequests + 1 /\ registryRequests < MaxRegistryRequests
      /\ registryCall[c].pc = "done"
  BY DEF RegistryArrives, Reached
<1>2. first \in {"lookup", "chain", "private", "find", "validate", "search"}
      /\ (first = "chain" => asked.op = "status") /\ (first = "private" => asked.op = "create")
      /\ (first = "find" => asked.op = "auto") /\ (first = "validate" => asked.op = "execute")
  BY DEF OpStarts, RegistryOps
<1> SUFFICES ASSUME NEW r, r = [asked EXCEPT !.pc = first, !.overlapped = others]
             PROVE  RegistryInv'
  OBVIOUS
<1>3. \A d \in RegistryCalls : registryCall'[d] =
         IF d = c THEN r
         ELSE [registryCall[d] EXCEPT !.overlapped = registryCall[d].overlapped \/ d \in busy]
  BY DEF RegistryArrives
<1> HIDE DEF first
<1>a. others \in BOOLEAN
  OBVIOUS
<1>b. \A d : d \in busy => others
  OBVIOUS
<1> HIDE DEF others
<1>4. /\ r \in RegistryRequest /\ r.pc = first /\ r.op = asked.op /\ r.wallet = asked.wallet
      /\ r.key = asked.key /\ ~r.sent /\ r.overlapped = others
  BY <1>2, <1>a DEF RegistryRequest
<1>5. Fits(r, wallets, keys, registryTime)
  <2>1. r.pc \notin {"saveKey", "deploy", "note", "send", "again", "receipt", "retire", "save",
                     "insert"}
    BY <1>2, <1>4
  <2>2. r.pc \in {"chain", "find", "private"} => r.wallet \in WalletIds /\ wallets[r.wallet] # NoWallet
    BY <1>2, <1>4
  <2>3. r.pc = "validate" => r.key \in KeyIds /\ keys[r.key] # NoKey
    BY <1>2, <1>4
  <2>4. r.pc \in {"find", "private"} => r.op \in {"auto", "create"}
    BY <1>2, <1>4
  <2>5. ~(r.pc = "private" /\ r.op = "auto")
    BY <1>2, <1>4
  <2>6. QED
    BY <1>4, <2>1, <2>2, <2>3, <2>4, <2>5 DEF Fits
<1>6. ASSUME NEW d \in RegistryCalls, d # c, NEW q, q = registryCall'[d]
      PROVE  /\ q \in RegistryRequest /\ Fits(q, wallets, keys, registryTime)
             /\ q.pc = registryCall[d].pc /\ (Underway(q) => q.overlapped)
             /\ Underway(q) => others
  <2> DEFINE o == registryCall[d]
  <2>1. o \in RegistryRequest /\ Fits(o, wallets, keys, registryTime)
    BY RegistryIs
  <2>2. q = [o EXCEPT !.overlapped = o.overlapped \/ d \in busy]
    BY <1>3, <1>6
  <2>3. Underway(o) => d \in busy
    BY DEF Underway, Reached
  <2>4. d \in busy => others
    BY <1>b
  <2> HIDE DEF o, busy
  <2> DEFINE over == o.overlapped \/ d \in busy
  <2>5. over \in BOOLEAN /\ (o.overlapped => over) /\ (d \in busy => over)
    OBVIOUS
  <2> HIDE DEF over
  <2>6. /\ q \in RegistryRequest /\ q.op = o.op /\ q.pc = o.pc /\ q.wallet = o.wallet
        /\ q.key = o.key /\ q.permissions = o.permissions /\ q.wait = o.wait /\ q.sent = o.sent
        /\ q.until = o.until /\ q.broken = o.broken
        /\ q.outcome = o.outcome /\ q.overlapped = over
    BY <2>1, <2>2, <2>5 DEF RegistryRequest, over
  <2>7. \A j \in KeyIds : Covers(keys[j], q, registryTime) <=> Covers(keys[j], o, registryTime)
    BY <2>6 DEF Covers
  <2>8. o.overlapped => q.overlapped
    BY <2>5, <2>6
  <2>9. Fits(q, wallets, keys, registryTime)
    BY <2>1, <2>6, <2>7, <2>8 DEF Fits
  <2>10. Underway(q) => d \in busy
    BY <2>3, <2>6 DEF Underway
  <2>11. QED
    BY <2>4, <2>5, <2>6, <2>9, <2>10 DEF o
<1>7. ASSUME NEW d \in RegistryCalls
      PROVE  registryCall'[d] \in RegistryRequest
             /\ Fits(registryCall'[d], wallets, keys, registryTime)
  <2>1. CASE d = c
    BY <1>3, <1>4, <1>5, <2>1
  <2>2. CASE d # c
    BY <1>6, <2>2
  <2>3. QED
    BY <2>1, <2>2
<1>8. ASSUME NEW d \in RegistryCalls, NEW e \in RegistryCalls, d # e
      PROVE  Together(registryCall'[d], registryCall'[e])
  <2>1. CASE d = c
    <3>1. Underway(registryCall'[e]) => others
      BY <1>6, <1>8, <2>1
    <3>2. registryCall'[d] = r
      BY <1>3, <2>1
    <3>3. QED
      BY <1>4, <3>1, <3>2 DEF Together
  <2>2. CASE d # c
    BY <1>6, <2>2 DEF Together
  <2>3. QED
    BY <2>1, <2>2
<1>9. registryCall' \in [RegistryCalls -> RegistryRequest]
  <2>1. registryCall' = [d \in RegistryCalls |-> registryCall'[d]]
    BY DEF RegistryArrives
  <2>2. QED
    BY <1>7, <2>1
<1>10. registryRequests' \in 0..MaxRegistryRequests
  BY <1>1, RegistryAssumption DEF RegistryInv, RegistryTypeOK
<1>11. wallets' = wallets /\ keys' = keys /\ privateKeys' = privateKeys /\ onChain' = onChain
  BY <1>1 DEF registryTables
<1>12. RegistryTypeOK'
  BY <1>1, <1>9, <1>10, <1>11 DEF RegistryInv, RegistryTypeOK
<1>13. \A d \in RegistryCalls : Fits(registryCall'[d], wallets', keys', registryTime')
  BY <1>1, <1>7, <1>11, Zenon
<1>14. WalletsKeep(wallets') /\ KeysKeep(keys', registryTime')
  BY <1>1, <1>11, Zenon DEF RegistryInv
<1>15. QED
  BY <1>8, <1>12, <1>13, <1>14 DEF RegistryInv

LEMMA RegistryNone ==
    /\ NoRegistryRequest \in RegistryRequest
    /\ NoRegistryRequest.pc = "done" /\ NoRegistryRequest.sent = FALSE
BY RegistryAssumption DEF NoRegistryRequest, RegistryRequest, NoTarget, NoLimits, Limits

LEMMA AskedIs ==
    ASSUME NEW op \in RegistryOps, NEW w \in 0..MaxWallets
    PROVE  /\ WalletAsked(op, w) \in RegistryRequest /\ WalletAsked(op, w).op = op
           /\ WalletAsked(op, w).wallet = w /\ WalletAsked(op, w).sent = FALSE
BY RegistryNone DEF WalletAsked, RegistryRequest

LEMMA RegistryArrivalInv ==
    ASSUME RegistryInv, NEW c \in RegistryCalls, RegistryArrival(c) PROVE RegistryInv'
<1>1. /\ 0 \in 0..MaxWallets /\ Permissions \subseteq Limits /\ Month \in Nat
      /\ WalletIds \subseteq 0..MaxWallets /\ KeyIds \subseteq 0..MaxKeys
      /\ ValidUntils \subseteq Nat /\ ExpirationDays \subseteq Nat
      /\ registryTime \in Nat
  BY RegistryAssumption DEF WalletIds, KeyIds, RegistryInv, RegistryTypeOK
<1>2. /\ SavedWallets \subseteq WalletIds /\ SavedKeys \subseteq KeyIds
      /\ \A w \in SavedWallets : wallets[w] # NoWallet
      /\ \A k \in SavedKeys : keys[k] # NoKey /\ keys[k].wallet \in WalletIds
  BY DEF SavedWallets, SavedKeys, RegistryInv, RegistryTypeOK, KeyRow
<1>3. CASE RegistryArrives(c, WalletAsked("wallet", 0))
  <2> DEFINE asked == WalletAsked("wallet", 0)
  <2>1. asked \in RegistryRequest /\ asked.op = "wallet" /\ ~asked.sent
    BY <1>1, AskedIs DEF RegistryOps
  <2> HIDE DEF asked
  <2>2. RegistryArrives(c, asked)
    BY <1>3 DEF asked
  <2>3. QED
    BY <2>1, <2>2, RegistryArrivesInv DEF RegistryOps
<1>4. ASSUME NEW w \in SavedWallets, RegistryArrives(c, WalletAsked("status", w))
      PROVE  RegistryInv'
  <2> DEFINE asked == WalletAsked("status", w)
  <2>1. asked \in RegistryRequest /\ asked.op = "status" /\ ~asked.sent /\ asked.wallet = w
    BY <1>1, <1>2, AskedIs DEF RegistryOps
  <2> HIDE DEF asked
  <2>2. RegistryArrives(c, asked)
    BY <1>4 DEF asked
  <2>3. QED
    BY <1>2, <2>1, <2>2, RegistryArrivesInv DEF RegistryOps
<1>5. ASSUME NEW w \in SavedWallets, NEW p \in Permissions, NEW u \in ValidUntils,
             NEW days \in ExpirationDays \cup {Month},
             RegistryArrives(c, KeyAsked("create", w, p, u, days))
      PROVE  RegistryInv'
  <2> DEFINE asked == KeyAsked("create", w, p, u, days)
  <2>1. w \in 0..MaxWallets /\ p \in Limits /\ u \in Nat /\ days \in Nat /\ "create" \in RegistryOps
    BY <1>1, <1>2 DEF RegistryOps
  <2>2. asked \in RegistryRequest /\ asked.op = "create" /\ ~asked.sent /\ asked.wallet = w
    <3> DEFINE plain == WalletAsked("create", w)
    <3>1. plain \in RegistryRequest /\ plain.op = "create" /\ ~plain.sent /\ plain.wallet = w
      BY <2>1, AskedIs
    <3> HIDE DEF plain
    <3>2. asked = [plain EXCEPT !.permissions = p, !.until = u, !.expires = days]
      BY DEF KeyAsked, plain
    <3>3. QED
      BY <2>1, <3>1, <3>2 DEF RegistryRequest
  <2> HIDE DEF asked
  <2>3. RegistryArrives(c, asked)
    BY <1>5 DEF asked
  <2>4. QED
    BY <1>2, <2>2, <2>3, RegistryArrivesInv DEF RegistryOps
<1>6. ASSUME NEW w \in SavedWallets, NEW p \in Permissions,
             NEW u \in ValidUntils \cup {registryTime + Month}, NEW wait \in BOOLEAN,
             NEW x \in Granted(p),
             RegistryArrives(c, [KeyAsked("auto", w, p, u, Month) EXCEPT !.target = x, !.wait = wait])
      PROVE  RegistryInv'
  <2> DEFINE first == KeyAsked("auto", w, p, u, Month)
             asked == [first EXCEPT !.target = x, !.wait = wait]
  <2>1. w \in 0..MaxWallets /\ p \in Limits /\ u \in Nat /\ "auto" \in RegistryOps
    BY <1>1, <1>2 DEF RegistryOps
  <2>2. first \in RegistryRequest /\ first.op = "auto" /\ ~first.sent /\ first.wallet = w
    <3> DEFINE plain == WalletAsked("auto", w)
    <3>1. plain \in RegistryRequest /\ plain.op = "auto" /\ ~plain.sent /\ plain.wallet = w
      BY <2>1, AskedIs
    <3> HIDE DEF plain
    <3>2. first = [plain EXCEPT !.permissions = p, !.until = u, !.expires = Month]
      BY DEF KeyAsked, plain
    <3>3. QED
      BY <1>1, <2>1, <3>1, <3>2 DEF RegistryRequest
  <2>3. x \in Contracts
    BY <2>1 DEF Granted, Limits
  <2> HIDE DEF first
  <2>4. asked \in RegistryRequest /\ asked.op = "auto" /\ ~asked.sent /\ asked.wallet = w
    BY <2>2, <2>3 DEF RegistryRequest
  <2>5. RegistryArrives(c, asked)
    BY <1>6 DEF first
  <2> HIDE DEF asked
  <2>6. QED
    BY <1>2, <2>4, <2>5, RegistryArrivesInv DEF RegistryOps
<1>7. ASSUME NEW k \in SavedKeys, NEW x \in Contracts, NEW wait \in BOOLEAN,
             RegistryArrives(c, [WalletAsked("execute", keys[k].wallet) EXCEPT
                                   !.key = k, !.target = x, !.wait = wait])
      PROVE  RegistryInv'
  <2> DEFINE first == WalletAsked("execute", keys[k].wallet)
             asked == [first EXCEPT !.key = k, !.target = x, !.wait = wait]
  <2>1. keys[k].wallet \in 0..MaxWallets /\ "execute" \in RegistryOps /\ k \in 0..MaxKeys
    BY <1>1, <1>2 DEF RegistryOps
  <2>2. first \in RegistryRequest /\ first.op = "execute" /\ ~first.sent
    BY <2>1, AskedIs
  <2> HIDE DEF first
  <2>3. asked \in RegistryRequest /\ asked.op = "execute" /\ ~asked.sent /\ asked.key = k
    BY <2>1, <2>2 DEF RegistryRequest
  <2>4. RegistryArrives(c, asked)
    BY <1>7 DEF first
  <2> HIDE DEF asked
  <2>5. QED
    BY <1>2, <2>3, <2>4, RegistryArrivesInv DEF RegistryOps
<1>8. ASSUME NEW k \in SavedKeys, RegistryArrives(c, [WalletAsked("revoke", 0) EXCEPT !.key = k])
      PROVE  RegistryInv'
  <2> DEFINE first == WalletAsked("revoke", 0)
             asked == [first EXCEPT !.key = k]
  <2>1. "revoke" \in RegistryOps /\ k \in 0..MaxKeys
    BY <1>1, <1>2 DEF RegistryOps
  <2>2. first \in RegistryRequest /\ first.op = "revoke" /\ ~first.sent
    BY <1>1, <2>1, AskedIs
  <2> HIDE DEF first
  <2>3. asked \in RegistryRequest /\ asked.op = "revoke" /\ ~asked.sent
    BY <2>1, <2>2 DEF RegistryRequest
  <2>4. RegistryArrives(c, asked)
    BY <1>8 DEF first
  <2> HIDE DEF asked
  <2>5. QED
    BY <2>3, <2>4, RegistryArrivesInv DEF RegistryOps
<1>9. QED
  BY <1>3, <1>4, <1>5, <1>6, <1>7, <1>8 DEF RegistryArrival

LEMMA RegistryInitInv == ASSUME RegistryInit PROVE RegistryInv
<1>1. NoRegistryRequest \in RegistryRequest
  BY RegistryNone
<1>2. RegistryTypeOK
  BY <1>1, RegistryAssumption DEF RegistryInit, RegistryTypeOK
<1>3. NoRegistryRequest.pc = "done" /\ ~NoRegistryRequest.sent
  BY RegistryNone
<1>4. \A c \in RegistryCalls : registryCall[c] = NoRegistryRequest
  BY DEF RegistryInit
<1>5. Fits(NoRegistryRequest, wallets, keys, registryTime)
  BY <1>3 DEF Fits
<1>6. ~Underway(NoRegistryRequest)
  BY <1>3 DEF Underway
<1>7. WalletsKeep(wallets) /\ KeysKeep(keys, registryTime)
  BY DEF RegistryInit, WalletsKeep, KeysKeep
<1>8. QED
  BY <1>2, <1>4, <1>5, <1>6, <1>7 DEF RegistryInv, Together

LEMMA RegistryNextInv == ASSUME RegistryInv, [RegistryNext]_registryVars PROVE RegistryInv'
<1>1. CASE UNCHANGED registryVars
  <2>1. /\ wallets' = wallets /\ keys' = keys /\ privateKeys' = privateKeys
        /\ onChain' = onChain /\ registryCall' = registryCall
        /\ registryFaults' = registryFaults /\ registryRequests' = registryRequests
        /\ registryTime' = registryTime
    BY <1>1 DEF registryVars, registryTables
  <2>2. RegistryTypeOK'
    BY <2>1 DEF RegistryInv, RegistryTypeOK
  <2>3. /\ WalletsKeep(wallets') /\ KeysKeep(keys', registryTime')
        /\ \A c \in RegistryCalls : Fits(registryCall'[c], wallets', keys', registryTime')
        /\ \A c, d \in RegistryCalls : c # d => Together(registryCall'[c], registryCall'[d])
    BY <2>1, Zenon DEF RegistryInv
  <2>4. QED
    BY <2>2, <2>3 DEF RegistryInv
<1>2. ASSUME NEW c \in RegistryCalls, RegistryStep(c), registryTime' = registryTime
      PROVE  RegistryInv'
  BY <1>2, PlainRegistryInv, DeployInv, SaveWalletInv, FindKeyInv, InsertKeyInv, UseInv, RetireInv
     DEF RegistryStep
<1>3. QED
  BY <1>1, <1>2, RegistryArrivalInv, RegistryTimeInv DEF RegistryNext

LEMMA RegistryAlways == RegistrySpec => []RegistryInv
<1>1. RegistryInit => RegistryInv
  BY RegistryInitInv
<1>2. RegistryInv /\ [RegistryNext]_registryVars => RegistryInv'
  BY RegistryNextInv
<1>3. QED
  BY <1>1, <1>2, PTL DEF RegistrySpec

\* A second wallet, or a second key although a usable one allows as much and lasts as
\* long, is the work of requests that overlapped, for any number of them: the
\* lookup and the search prevent duplicates except of each other.
THEOREM TwinsOverlapped == RegistrySpec => []TwinsNeedOverlap
<1>1. RegistryInv => TwinsNeedOverlap
  <2> SUFFICES ASSUME RegistryInv PROVE TwinsNeedOverlap
    OBVIOUS
  <2>1. WalletsKeep(wallets) /\ KeysKeep(keys, registryTime)
    BY DEF RegistryInv
  <2>2. \A v, w \in SavedWallets : v < w => wallets[w].overlapped
    BY <2>1 DEF WalletsKeep, SavedWallets
  <2>3. ASSUME NEW j \in SavedKeys, NEW k \in SavedKeys, j < k, keys[j].wallet = keys[k].wallet,
               Usable(j), keys[k].auto, Within(keys[k].permissions, keys[j].permissions),
               keys[k].until <= keys[j].until, registryTime + Hour <= keys[j].until
        PROVE  keys[k].overlapped
    <3>1. Covers(keys[j], keys[k], registryTime)
      BY <2>3 DEF Covers, Usable, SavedKeys, Expired, Old
    <3>2. QED
      BY <2>1, <2>3, <3>1 DEF KeysKeep, SavedKeys
  <2>4. QED
    BY <2>2, <2>3 DEF TwinsNeedOverlap, Within
<1>2. QED
  BY <1>1, RegistryAlways, PTL

\* Who is answered with an error after the user operation went out met a call that
\* failed, or was waiting for the receipt with a key that has expired meanwhile.
THEOREM SentIsTold == RegistrySpec => []SentIsToldUnlessExpired
<1>1. RegistryInv => SentIsToldUnlessExpired
  BY DEF RegistryInv, Fits, SentIsToldUnlessExpired, Expired, Old
<1>2. QED
  BY <1>1, RegistryAlways, PTL
=============================================================================
