------------------------------- MODULE Orders -------------------------------
(***************************************************************************)
(* Limit and DCA orders of the core service: orderService.ts over the      *)
(* order model (PostgreSQL) and the views it keeps in Redis.  The module   *)
(* follows one DCA order of one user.  Every await of a handler is a step  *)
(* boundary, and any of them may fail and end the call with an error.      *)
(*                                                                         *)
(* RedisManager.get has parsed the value already, so the JSON.parse the    *)
(* order service applies to a hit throws: a view that is present is never  *)
(* returned.  getUserOrders and getOrderStats catch that, drop the key and *)
(* ask the database; getActiveOrders and getOrderDetails fail.             *)
(*                                                                         *)
(* Amounts are texts of numbers.  recordExecution adds them as floats, and *)
(* stores the text of the sum.  The model has numbers in their place, in a *)
(* unit that makes them whole, and says which of them are floats.  Prices, *)
(* received amounts, hashes and the metadata a client sends are left out.  *)
(***************************************************************************)
EXTENDS Naturals, FiniteSets

CONSTANTS
    OrderCalls,    \* requests under way at once
    MaxOrderRequests, \* bound: requests served
    Floats,        \* the numbers a float can hold
    EvenFloats,    \* those of them with an even significand
    FilledFrom,    \* the least float that divided by the order's inputAmount is 0.99 or more
    Indices,       \* execution indexes clients use
    Amounts,       \* amounts of executions and of a client's update
    SetStatuses    \* statuses a client's update sets

VARIABLES
    order,         \* the row of table orders, with the number of its versions
    executions,    \* table order_executions: index |-> amount, 0 for no row
    views,         \* the cached views: the version they show, whether they expire
    orderCall,     \* what each request does
    collided,      \* history: another recordExecution ran during this one
    edited,        \* history: a client's update has set the executed amount
    orderRequests  \* requests so far

orderHistory == <<collided, edited, orderRequests>>
orderVars == <<order, executions, views, orderCall, orderHistory>>

None == [none |-> TRUE]
CachedViews == {"list", "active", "stats", "details"}
\* getUserOrders with a filter or an offset asks the database only.
Reads == CachedViews \cup {"filtered"}
Statuses == {"PENDING", "PARTIALLY_FILLED", "FILLED", "CANCELLED", "EXPIRED"}
ASSUME OrdersAssumption ==
    /\ Floats # {} /\ Floats \subseteq Nat /\ EvenFloats \subseteq Floats
    /\ FilledFrom \in Nat \ {0} /\ MaxOrderRequests \in Nat /\ Amounts \subseteq Nat \ {0}
    /\ Indices # {} /\ SetStatuses \subseteq Statuses

Absent == "absent"
Keep == "keep"     \* a status an update leaves out; an amount left out is 0

Row == [status : Statuses \cup {Absent}, executed : Nat, parts : SUBSET Indices,
        executionCount : {0}, counted : 0..1, version : Nat]
Request == [op : Reads \cup {"none", "create", "update", "cancel", "record"},
            pc : {"idle", "get", "drop", "query", "executions", "set", "expire", "read",
                  "insert", "write", "touch", "invalidate", "done", "failed", "aborted"},
            ix : Indices, amount : Amounts \cup {0},
            status : Statuses \cup {Keep}, seen : Row, listed : SUBSET Indices, since : Nat]

OrdersTypeOK ==
    /\ order \in Row
    /\ executions \in [Indices -> Amounts \cup {0}]
    /\ views \in [CachedViews -> [version : Nat, expires : BOOLEAN] \cup {None}]
    /\ orderCall \in [OrderCalls -> Request]
    /\ collided \in [OrderCalls -> BOOLEAN] /\ edited \in BOOLEAN
    /\ orderRequests \in 0..MaxOrderRequests

NoRow == [status |-> Absent, executed |-> 0, parts |-> {}, executionCount |-> 0,
          counted |-> 0, version |-> 0]
NewRow == [NoRow EXCEPT !.status = "PENDING"]
NoRequest == [op |-> "none", pc |-> "idle", ix |-> CHOOSE i \in Indices : TRUE, amount |-> 0,
              status |-> Keep, seen |-> NoRow, listed |-> {}, since |-> 0]

OrdersInit ==
    /\ order \in {NoRow, NewRow}
    /\ executions = [i \in Indices |-> 0]
    /\ views = [v \in CachedViews |-> None]
    /\ orderCall = [c \in OrderCalls |-> NoRequest]
    /\ collided = [c \in OrderCalls |-> FALSE] /\ edited = FALSE /\ orderRequests = 0

Ended(c) == orderCall[c].pc \in {"done", "failed", "aborted"}
Running == {c \in OrderCalls : orderCall[c].pc # "idle" /\ ~Ended(c)}
Recorded == {i \in Indices : executions[i] # 0}

-----------------------------------------------------------------------------
(* A request arrives and reaches its handler.  Bound: a call an error ends *)
(* serves no other request, so that the properties can name it.            *)

\* getUserOrders with a limit above 50 does not look at the view, but sets it.
FirstSteps(op) ==
    CASE op = "filtered" -> {"query"}
      [] op = "list" -> {"get", "query"}
      [] op \in CachedViews -> {"get"}
      [] op = "update" -> {"write"}
      [] OTHER -> {"read"}

Arrive(c, op, ix, amount, status) ==
    /\ orderCall[c].pc \in {"idle", "done", "failed"} /\ orderRequests < MaxOrderRequests
    /\ orderRequests' = orderRequests + 1
    /\ \E first \in FirstSteps(op) :
         orderCall' = [orderCall EXCEPT ![c] =
           [op |-> op, pc |-> first, ix |-> ix, amount |-> amount, status |-> status,
            seen |-> NoRow, listed |-> {}, since |-> order.version]]
    /\ LET others == {d \in Running : op = "record" /\ orderCall[d].op = "record"} IN
       collided' = [d \in OrderCalls |-> IF d = c THEN others # {}
                                        ELSE collided[d] \/ d \in others]
    /\ UNCHANGED <<order, executions, views, edited>>

At(c, op, pc) == orderCall[c].op = op /\ orderCall[c].pc = pc
GoesTo(c, pc) == orderCall' = [orderCall EXCEPT ![c].pc = pc]

\* An await of the call rejects: Redis or PostgreSQL answers an error, or the process dies.
\* The deletions of an invalidation go out together, so some may have been done.
Abort(c) ==
    /\ c \in Running
    /\ GoesTo(c, "aborted")
    /\ \E gone \in SUBSET CachedViews :
         /\ gone # {} => orderCall[c].pc = "invalidate"
         /\ views' = [v \in CachedViews |-> IF v \in gone THEN None ELSE views[v]]
    /\ UNCHANGED <<order, executions, orderHistory>>

-----------------------------------------------------------------------------
(* Reads: the cached view first, then the database, then the view is set.  *)

\* Mutant: the hit is served, as the code means it to be.
UnparsableServed(c, v) ==
    orderCall' = [orderCall EXCEPT ![c].pc = "done", ![c].seen.version = views[v].version]

\* A hit cannot be parsed a second time.
Unparsable(c, v) ==
    GoesTo(c, IF v \in {"list", "stats"} THEN "drop" ELSE "failed")

GetView(c, v) ==
    /\ At(c, v, "get")
    /\ IF views[v] = None THEN GoesTo(c, "query") ELSE Unparsable(c, v)
    /\ UNCHANGED <<order, executions, views, orderHistory>>

DropView(c, v) ==
    /\ At(c, v, "drop")
    /\ views' = [views EXCEPT ![v] = None]
    /\ GoesTo(c, "query")
    /\ UNCHANGED <<order, executions, orderHistory>>

AfterQuery(v) ==
    CASE v = "filtered" -> "done"
      [] v = "details" -> IF order.status = Absent THEN "failed" ELSE "executions"
      [] OTHER -> "set"

QueryOrder(c, v) ==
    /\ At(c, v, "query")
    /\ orderCall' = [orderCall EXCEPT ![c].seen = order, ![c].pc = AfterQuery(v)]
    /\ UNCHANGED <<order, executions, views, orderHistory>>

QueryExecutions(c) ==
    /\ At(c, "details", "executions")
    /\ orderCall' = [orderCall EXCEPT ![c].listed = Recorded, ![c].pc = "set"]
    /\ UNCHANGED <<order, executions, views, orderHistory>>

\* Mutant: the view is set without an expiry.
SetViewForEver(c, v) ==
    /\ At(c, v, "set")
    /\ views' = [views EXCEPT ![v] = [version |-> orderCall[c].seen.version, expires |-> FALSE]]
    /\ GoesTo(c, "done")
    /\ UNCHANGED <<order, executions, orderHistory>>

\* SET removes the expiry a key had; EXPIRE is a second command.
SetView(c, v) ==
    /\ At(c, v, "set")
    /\ views' = [views EXCEPT ![v] = [version |-> orderCall[c].seen.version, expires |-> FALSE]]
    /\ GoesTo(c, "expire")
    /\ UNCHANGED <<order, executions, orderHistory>>

ExpireView(c, v) ==
    /\ At(c, v, "expire")
    /\ views' = IF views[v] = None THEN views ELSE [views EXCEPT ![v].expires = TRUE]
    /\ GoesTo(c, "done")
    /\ UNCHANGED <<order, executions, orderHistory>>

ReadStep(c) ==
    \/ QueryOrder(c, "filtered") \/ QueryExecutions(c)
    \/ \E v \in CachedViews : GetView(c, v) \/ DropView(c, v) \/ QueryOrder(c, v)
                              \/ SetView(c, v) \/ ExpireView(c, v)

\* Redis drops a key whose time has come.
Evict(v) ==
    /\ views[v] # None /\ views[v].expires
    /\ views' = [views EXCEPT ![v] = None]
    /\ UNCHANGED <<order, executions, orderCall, orderHistory>>

-----------------------------------------------------------------------------
(* Writes: the row first, then the key of the order, then the views go.    *)

Written(new) == order' = [new EXCEPT !.version = order.version + 1]

\* createOrder, cancelOrder and recordExecution read the order before they write.
Allowed(op) ==
    CASE op = "create" -> order.status = Absent
      [] op = "cancel" -> order.status \notin {Absent, "FILLED", "CANCELLED"}
      [] op = "record" -> order.status # Absent

ReadBefore(c, op) ==
    /\ At(c, op, "read")
    /\ orderCall' = [orderCall EXCEPT ![c].seen = order,
         ![c].pc = IF ~Allowed(op) THEN "failed" ELSE IF op = "record" THEN "insert" ELSE "write"]
    /\ UNCHANGED <<order, executions, views, orderHistory>>

\* UNIQUE(user_id, order_id) refuses a second row.
CreateOrder(c) ==
    /\ At(c, "create", "write")
    /\ IF order.status = Absent
         THEN Written(NewRow) /\ GoesTo(c, "touch")
         ELSE UNCHANGED order /\ GoesTo(c, "failed")
    /\ UNCHANGED <<executions, views, orderHistory>>

\* Whatever status and amount the client sends, in any status of the order.
UpdateOrder(c) ==
    /\ At(c, "update", "write")
    /\ LET r == orderCall[c] IN
       IF order.status = Absent
         THEN UNCHANGED <<order, edited>> /\ GoesTo(c, "failed")
         ELSE /\ Written([order EXCEPT
                   !.status = IF r.status = Keep THEN @ ELSE r.status,
                   !.executed = IF r.amount = 0 THEN @ ELSE r.amount])
              /\ edited' = (edited \/ r.amount # 0)
              /\ GoesTo(c, "touch")
    /\ UNCHANGED <<executions, views, collided, orderRequests>>

CancelOrder(c) ==
    /\ At(c, "cancel", "write")
    /\ Written([order EXCEPT !.status = "CANCELLED"])
    /\ GoesTo(c, "touch")
    /\ UNCHANGED <<executions, views, orderHistory>>

\* Mutant: ON CONFLICT DO NOTHING, the insertion taken for done.
InsertExecutionAgain(c) ==
    /\ At(c, "record", "insert")
    /\ executions' = [executions EXCEPT ![orderCall[c].ix] = IF @ = 0 THEN orderCall[c].amount ELSE @]
    /\ GoesTo(c, "write")
    /\ UNCHANGED <<order, views, orderHistory>>

\* UNIQUE(order_id, execution_index) refuses an execution recorded before.
InsertExecution(c) ==
    /\ At(c, "record", "insert")
    /\ LET i == orderCall[c].ix IN
       IF executions[i] = 0
         THEN /\ executions' = [executions EXCEPT ![i] = orderCall[c].amount]
              /\ GoesTo(c, "write")
         ELSE UNCHANGED executions /\ GoesTo(c, "failed")
    /\ UNCHANGED <<order, views, orderHistory>>

\* parseFloat, and a float's sum: the nearest float, of two as near the even one.
Rounded(x) ==
    LET far(f) == IF f < x THEN x - f ELSE f - x
        nearest == {f \in Floats : \A g \in Floats : far(f) <= far(g)} IN
    IF x \in Floats THEN x
    ELSE CHOOSE f \in nearest : f \in EvenFloats \/ nearest \cap EvenFloats = {}

FloatSum(x, y) == Rounded(Rounded(x) + Rounded(y))

\* Mutant of Executed.
ExecutedMisspelt(old, ix, amount) ==
    [old EXCEPT !.executed = FloatSum(@, amount), !.parts = @ \cup {ix}, !.status = "PARTIAL"]

\* The new values come from the order as it was read, not as it is.  Rounding does not change
\* which of two quotients is the larger: executionRatio >= 0.99 from some amount on.
Executed(old, ix, amount) ==
    LET sum == FloatSum(old.executed, amount) IN
    [old EXCEPT !.executed = sum, !.parts = @ \cup {ix},
                !.counted = old.executionCount + 1,
                !.status = IF sum >= FilledFrom THEN "FILLED"
                           ELSE IF sum > 0 THEN "PARTIALLY_FILLED" ELSE @]

WriteExecution(c) ==
    /\ At(c, "record", "write")
    /\ Written(Executed(orderCall[c].seen, orderCall[c].ix, orderCall[c].amount))
    /\ GoesTo(c, "invalidate")
    /\ UNCHANGED <<executions, views, orderHistory>>

\* cacheOrder sets the key order:<id>, which no code reads.
CacheOrder(c) ==
    /\ orderCall[c].pc = "touch"
    /\ GoesTo(c, "invalidate")
    /\ UNCHANGED <<order, executions, views, orderHistory>>

InvalidatedBy(op) == IF op = "create" THEN CachedViews \ {"details"} ELSE CachedViews

Invalidate(c) ==
    /\ orderCall[c].pc = "invalidate"
    /\ views' = [v \in CachedViews |->
                   IF v \in InvalidatedBy(orderCall[c].op) THEN None ELSE views[v]]
    /\ GoesTo(c, "done")
    /\ UNCHANGED <<order, executions, orderHistory>>

WriteStep(c) ==
    \/ ReadBefore(c, "create") \/ ReadBefore(c, "cancel") \/ ReadBefore(c, "record")
    \/ CreateOrder(c) \/ UpdateOrder(c) \/ CancelOrder(c)
    \/ InsertExecution(c) \/ WriteExecution(c) \/ CacheOrder(c) \/ Invalidate(c)

-----------------------------------------------------------------------------
ArriveAny(c) ==
    LET i0 == NoRequest.ix IN
    \/ \E op \in Reads \cup {"create", "cancel"} : Arrive(c, op, i0, 0, Keep)
    \/ \E i \in Indices, a \in Amounts : Arrive(c, "record", i, a, Keep)
    \/ \E a \in Amounts \cup {0}, s \in SetStatuses \cup {Keep} : Arrive(c, "update", i0, a, s)

OrdersNext ==
    \/ \E c \in OrderCalls : ArriveAny(c) \/ ReadStep(c) \/ WriteStep(c) \/ Abort(c)
    \/ \E v \in CachedViews : Evict(v)

OrdersSpec == OrdersInit /\ [][OrdersNext]_orderVars

\* An await that succeeds goes on, and a cached view has a time to live.
FairOrders ==
    /\ \A c \in OrderCalls : WF_orderVars(ReadStep(c) \/ WriteStep(c))
    /\ \A v \in CachedViews : WF_orderVars(Evict(v))

-----------------------------------------------------------------------------
Finished(c, op) == orderCall[c].op = op /\ orderCall[c].pc = "done"

\* What the executions in S can add up to, each added once: the order matters to floats.
FloatSums(table, S) ==
    LET sums[parts \in SUBSET S] ==
          IF parts = {} THEN {0}
          ELSE UNION {{FloatSum(x, table[i]) : x \in sums[parts \ {i}]} : i \in parts} IN
    sums[S]

(* recordExecution computes from a row it read two awaits before.  A retry *)
(* of it, or two at once, may lose an execution but never count one twice: *)
(* unless a client set the amount, the executed amount is what executions  *)
(* in the table add up to in some order, each taken once and as the table  *)
(* has it, and an execution whose call succeeded is missing from them only *)
(* if that call overlapped with another.  No error is worse than that of   *)
(* the floats' additions themselves.                                       *)
ExecutionsAreKept ==
    \A c \in OrderCalls :
        Finished(c, "record") => orderCall[c].ix \in order.parts \/ collided[c]

ExecutionsAddUp ==
    /\ order.parts \subseteq Recorded
    /\ edited \/ order.executed \in FloatSums(executions, order.parts)
    /\ ExecutionsAreKept

(* A successful read answers what the database held at some time during    *)
(* the call: whatever readers and writers left in the cache, no answer is  *)
(* older than the request (getUserOrders, getActiveOrders, getOrderStats). *)
(* The two queries of getOrderDetails are not one transaction, and still   *)
(* the order it answers counts no execution its list lacks.                *)
AnswersAreCurrent ==
    \A c \in OrderCalls :
        /\ orderCall[c].op \in Reads /\ orderCall[c].pc = "done" =>
                orderCall[c].since <= orderCall[c].seen.version
        /\ Finished(c, "details") => orderCall[c].seen.parts \subseteq orderCall[c].listed

(* A view that makes getActiveOrders or getOrderDetails fail goes away,    *)
(* unless a call that read it died, as it may between its SET and its      *)
(* EXPIRE.                                                                 *)
ViewsExpire ==
    \A v \in CachedViews :
        views[v] # None ~> (views[v] = None \/ \E c \in OrderCalls : At(c, v, "aborted"))
=============================================================================
