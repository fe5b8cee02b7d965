------------------------------- MODULE Trades -------------------------------
(***************************************************************************)
(* The trades of one user in the core service: tradesService.ts and        *)
(* calculatePnL of pnlService.ts over the table user_trades and the views  *)
(* that cacheService.ts keeps in Redis.  Every await is a step boundary.   *)
(*                                                                         *)
(* CacheService swallows every error: a get that fails is a miss, a set or *)
(* a deletion that fails is not done.  SET and EXPIRE are two commands.    *)
(* A write deletes a fixed list of keys, those of common limits, days and  *)
(* chains; a list under another key and the P&L are left to expire.        *)
(*                                                                         *)
(* A row is the number of its writes.  Left out: what the rows say and the *)
(* sums over them, the holdings the P&L also reads, updateTradePnL, which  *)
(* nothing calls.  Assumed: a call takes less than the life of a view.     *)
(***************************************************************************)
EXTENDS Naturals

CONSTANTS
    TradeCalls,       \* requests under way at once
    TradeHashes,      \* transactions
    ListKeys,         \* keys of recent trades: a limit, a number of days, chains
    ClearedKeys,      \* those clearTradesCache knows
    MaxTradeRequests, \* bound: requests served
    MaxTradeFaults    \* bound: calls of Redis or PostgreSQL that fail

ASSUME TradesAssumption ==
    /\ TradeHashes # {} /\ ClearedKeys \subseteq ListKeys
    /\ MaxTradeRequests \in Nat /\ MaxTradeFaults \in Nat

VARIABLES
    trades,        \* table user_trades
    acknowledged,  \* history: the writes whose callers were told of success
    cached,        \* the views in Redis
    tradeCall,     \* what each request does
    tradeRequests, tradeFaults

tradeVars == <<trades, acknowledged, cached, tradeCall, tradeRequests, tradeFaults>>

PnLKey == "pnl"
Keys == ListKeys \cup {PnLKey}
Table == [TradeHashes -> 0..MaxTradeRequests + 1]
NoTrades == [h \in TradeHashes |-> 0]
\* met: the transactions written while the call that made the view ran;
\* faulty: a deletion of the view, or the query behind it, failed.
View == [rows : Table, met : SUBSET TradeHashes, faulty : BOOLEAN,
         young : BOOLEAN, expires : BOOLEAN]
NoView == [none |-> "view"]
Empty == [rows |-> NoTrades, met |-> {}, faulty |-> FALSE, young |-> TRUE, expires |-> FALSE]
TradeRequest == [op : {"none", "list", "pnl", "add", "update"},
                 pc : {"idle", "get", "query", "set", "expire", "again",
                       "check", "look", "write", "clear", "done", "failed"},
                 key : Keys, hash : TradeHashes, view : View, due : Table]

TradesTypeOK ==
    /\ trades \in Table /\ acknowledged \in Table
    /\ cached \in [Keys -> View \cup {NoView}]
    /\ tradeCall \in [TradeCalls -> TradeRequest]
    /\ tradeRequests \in 0..MaxTradeRequests /\ tradeFaults \in 0..MaxTradeFaults

TradesInit ==
    /\ trades \in [TradeHashes -> {0, 1}] /\ acknowledged = trades
    /\ cached = [k \in Keys |-> NoView]
    /\ tradeCall = [c \in TradeCalls |->
         [op |-> "none", pc |-> "idle", key |-> PnLKey, hash |-> CHOOSE h \in TradeHashes : TRUE,
          view |-> Empty, due |-> NoTrades]]
    /\ tradeRequests = 0 /\ tradeFaults = 0

Busy == {c \in TradeCalls : tradeCall[c].pc \notin {"idle", "done", "failed"}}
Writing == {c \in Busy : tradeCall[c].op \in {"add", "update"}}
Is(c, pc) == tradeCall[c].pc = pc
Step(c, pc) == tradeCall' = [tradeCall EXCEPT ![c].pc = pc]

Fine == UNCHANGED tradeFaults
CallFails == tradeFaults < MaxTradeFaults /\ tradeFaults' = tradeFaults + 1

-----------------------------------------------------------------------------
FirstStep(op) == CASE op = "add" -> "check" [] op = "update" -> "write" [] OTHER -> "get"

Ask(c, op, key, hash) ==
    /\ c \notin Busy /\ tradeRequests < MaxTradeRequests
    /\ tradeRequests' = tradeRequests + 1
    /\ LET written == IF op \in {"add", "update"} THEN {hash} ELSE {} IN
       tradeCall' = [d \in TradeCalls |->
         IF d = c
         THEN [op |-> op, pc |-> FirstStep(op), key |-> key, hash |-> hash,
               view |-> [Empty EXCEPT !.met = {tradeCall[w].hash : w \in Writing}],
               due |-> acknowledged]
         ELSE IF d \in Busy THEN [tradeCall[d] EXCEPT !.view.met = @ \cup written]
         ELSE tradeCall[d]]
    /\ UNCHANGED <<trades, acknowledged, cached, tradeFaults>>

-----------------------------------------------------------------------------
(* Reads.                                                                  *)

\* A P&L counts for as long as its key lives, whether the key expires or not.
UsableView(key) == cached[key] # NoView /\ (key = PnLKey => cached[key].young)

Hit(c) ==
    tradeCall' = [tradeCall EXCEPT ![c].view = cached[tradeCall[c].key], ![c].pc = "done"]

Get(c) ==
    /\ Is(c, "get")
    /\ \/ Fine /\ IF UsableView(tradeCall[c].key) THEN Hit(c) ELSE Step(c, "query")
       \/ CallFails /\ Step(c, "query")
    /\ UNCHANGED <<trades, acknowledged, cached, tradeRequests>>

\* A failing query makes a P&L of no trades, and sends a list to the cache again.
Query(c) ==
    /\ Is(c, "query")
    /\ \/ /\ Fine
          /\ tradeCall' = [tradeCall EXCEPT ![c].view.rows = trades, ![c].pc = "set"]
       \/ /\ CallFails
          /\ IF tradeCall[c].op = "pnl"
             THEN tradeCall' = [tradeCall EXCEPT ![c].view.faulty = TRUE, ![c].pc = "set"]
             ELSE Step(c, "again")
    /\ UNCHANGED <<trades, acknowledged, cached, tradeRequests>>

GetAgain(c) ==
    /\ Is(c, "again")
    /\ \/ Fine /\ IF UsableView(tradeCall[c].key) THEN Hit(c) ELSE Step(c, "failed")
       \/ CallFails /\ Step(c, "failed")
    /\ UNCHANGED <<trades, acknowledged, cached, tradeRequests>>

\* SET removes the expiry a key had; if it fails, or its reply is lost, EXPIRE
\* is not sent.
Set(c) ==
    /\ Is(c, "set")
    /\ LET done == cached' = [cached EXCEPT ![tradeCall[c].key] = tradeCall[c].view] IN
       \/ Fine /\ done /\ Step(c, "expire")
       \/ CallFails /\ (done \/ UNCHANGED cached) /\ Step(c, "done")
    /\ UNCHANGED <<trades, acknowledged, tradeRequests>>

Expire(c) ==
    /\ Is(c, "expire")
    /\ LET k == tradeCall[c].key IN
       \/ Fine /\ cached' = IF cached[k] = NoView THEN cached
                            ELSE [cached EXCEPT ![k].expires = TRUE]
       \/ CallFails /\ UNCHANGED cached
    /\ Step(c, "done")
    /\ UNCHANGED <<trades, acknowledged, tradeRequests>>

\* The life of a view is over: its key goes, if it was given one.
LifeEnds(k) ==
    /\ cached[k] # NoView /\ (cached[k].young \/ cached[k].expires)
    /\ \A c \in TradeCalls : Is(c, "expire") => tradeCall[c].key # k
    /\ cached' = [cached EXCEPT ![k] = IF @.expires THEN NoView ELSE [@ EXCEPT !.young = FALSE]]
    /\ UNCHANGED <<trades, acknowledged, tradeCall, tradeRequests, tradeFaults>>

-----------------------------------------------------------------------------
(* Writes.                                                                 *)

\* The controller looks for the transaction and addTrade once more; a lookup
\* that fails finds nothing.
Lookup(c) ==
    /\ tradeCall[c].pc \in {"check", "look"}
    /\ LET next == IF Is(c, "check") THEN "look" ELSE "write" IN
       \/ Fine /\ Step(c, IF trades[tradeCall[c].hash] > 0 THEN "failed" ELSE next)
       \/ CallFails /\ Step(c, next)
    /\ UNCHANGED <<trades, acknowledged, cached, tradeRequests>>

\* tx_hash is UNIQUE; an update needs a row.
Accepted(c) == (tradeCall[c].op = "add") <=> (trades[tradeCall[c].hash] = 0)

\* A failing call may have written: its reply was lost.
Write(c) ==
    /\ Is(c, "write")
    /\ LET wrote == trades' = [trades EXCEPT ![tradeCall[c].hash] = @ + 1] IN
       \/ /\ Fine /\ Accepted(c) /\ wrote
          /\ tradeCall' = [tradeCall EXCEPT ![c].view.rows = trades', ![c].pc = "clear"]
       \/ Fine /\ ~Accepted(c) /\ UNCHANGED trades /\ Step(c, "failed")
       \/ CallFails /\ Step(c, "failed") /\ (UNCHANGED trades \/ (Accepted(c) /\ wrote))
    /\ UNCHANGED <<acknowledged, cached, tradeRequests>>

\* The caller is told of its own write.
Acknowledge(c) ==
    LET h == tradeCall[c].hash
        n == tradeCall[c].view.rows[h]
    IN  acknowledged' = [acknowledged EXCEPT ![h] = IF @ < n THEN n ELSE @]

\* Mutant: a pattern is deleted as if it were a key.
ClearPattern(c) ==
    /\ Is(c, "clear") /\ Fine
    /\ Acknowledge(c)
    /\ Step(c, "done")
    /\ UNCHANGED <<trades, cached, tradeRequests>>

\* The deletions go out together.
Clear(c) ==
    /\ Is(c, "clear")
    /\ \E lost \in SUBSET ClearedKeys :
         /\ IF lost = {} THEN Fine ELSE CallFails
         /\ cached' = [k \in Keys |->
              IF k \notin ClearedKeys \/ cached[k] = NoView THEN cached[k]
              ELSE IF k \in lost THEN [cached[k] EXCEPT !.faulty = TRUE]
              ELSE NoView]
    /\ Acknowledge(c)
    /\ Step(c, "done")
    /\ UNCHANGED <<trades, tradeRequests>>

-----------------------------------------------------------------------------
TradesNext ==
    \/ \E c \in TradeCalls :
         \/ \E k \in ListKeys, h \in TradeHashes : Ask(c, "list", k, h)
         \/ \E h \in TradeHashes : \E op \in {"pnl", "add", "update"} : Ask(c, op, PnLKey, h)
         \/ Get(c) \/ Query(c) \/ GetAgain(c) \/ Set(c) \/ Expire(c)
         \/ Lookup(c) \/ Write(c) \/ Clear(c)
    \/ \E k \in Keys : LifeEnds(k)

TradesSpec == TradesInit /\ [][TradesNext]_tradeVars

-----------------------------------------------------------------------------
(* A caller that was told its trade is stored sees it in every list or P&L *)
(* asked for afterwards, unless one of these explains why not: a failing   *)
(* call is behind the view; the view is a list the write deletes, made by  *)
(* a read that overlapped with the write; or it is one no write deletes    *)
(* and in the first span of its life, or a list whose EXPIRE failed.  A    *)
(* P&L whose EXPIRE failed is no excuse.                                   *)
LateReadsSeeWrites ==
    \A c \in TradeCalls : \A h \in TradeHashes :
        LET r == tradeCall[c] IN
        /\ r.op \in {"list", "pnl"} /\ r.pc = "done" /\ r.view.rows[h] < r.due[h]
        => \/ r.view.faulty
           \/ r.key \in ClearedKeys /\ h \in r.view.met
           \/ r.key \notin ClearedKeys /\ (r.view.young \/ (r.key # PnLKey /\ ~r.view.expires))
=============================================================================
