------------------------------ MODULE Holdings ------------------------------
(***************************************************************************)
(* What the syncs of one wallet leave in user_token_holdings: the fetch    *)
(* of getFullPortfolio and the transaction of savePortfolioHoldings in the *)
(* sync worker, which deletes the wallet's rows and upserts what was       *)
(* fetched.  Two syncs of one user may be under way at once (SyncPipeline  *)
(* shows how), so two such transactions may be open at once.               *)
(*                                                                         *)
(* PostgreSQL, at its default READ COMMITTED, is external: a statement     *)
(* sees what was committed when it began, waits for whoever holds a row or *)
(* a key it needs, and of two that wait for each other one is aborted.  A  *)
(* reader sees what is committed.                                          *)
(*                                                                         *)
(* Left out: amounts and prices; the requests to Alchemy with their        *)
(* retries, rate limit and breaker, whose failure is an empty answer.      *)
(***************************************************************************)
CONSTANTS
    PortfolioSyncs, \* syncs of the wallet, each of which runs once
    Earlier,        \* whoever wrote the rows that are there at first
    Assets          \* the tokens of the wallet on one chain

ASSUME HoldingsAssumption == Earlier \notin PortfolioSyncs

VARIABLES
    holdings,   \* the committed row of each asset
    save,       \* each sync: what it fetched, and its transaction
    lastSave    \* the save that was committed last

holdingVars == <<holdings, save, lastSave>>

Savers == PortfolioSyncs \cup {Earlier}
\* Who inserted the row, and who wrote it last.
Rows == [made : Savers, by : Savers]
NoHolding == [none |-> "row"]
Saves == [pc : {"idle", "delete", "upsert", "ended"},
          answer : SUBSET Assets,
          doomed : SUBSET (Assets \X Savers), \* rows the DELETE has still to reach
          gone : SUBSET Assets,               \* rows it has deleted
          put : SUBSET Assets,                \* assets upserted
          met : SUBSET PortfolioSyncs]        \* saves open at the same time
NoSave == [pc |-> "idle", answer |-> {}, doomed |-> {}, gone |-> {}, put |-> {}, met |-> {}]
SaveEnded == [pc |-> "ended", answer |-> {}, doomed |-> {}, gone |-> {}, put |-> {}, met |-> {}]

HoldingsTypeOK ==
    /\ holdings \in [Assets -> Rows \cup {NoHolding}]
    /\ save \in [PortfolioSyncs -> Saves]
    /\ lastSave \in [by : Savers, answer : SUBSET Assets, met : SUBSET PortfolioSyncs]

HoldingsInit ==
    /\ \E had \in SUBSET Assets :
          /\ holdings = [a \in Assets |->
                IF a \in had THEN [made |-> Earlier, by |-> Earlier] ELSE NoHolding]
          /\ lastSave = [by |-> Earlier, answer |-> had, met |-> {}]
    /\ save = [s \in PortfolioSyncs |-> NoSave]

Open == {s \in PortfolioSyncs : save[s].pc \in {"delete", "upsert"}}
\* Rows and keys that others have touched: they are locked until these end.
FreeFor(s, a) == \A t \in Open \ {s} : a \notin save[t].gone \cup save[t].put

-----------------------------------------------------------------------------
\* A chain that fails adds nothing, nor does a token without symbol or price.
Fetched == SUBSET Assets

\* The rows the DELETE sees.  An update keeps a row; what is inserted where
\* one was deleted is another row.
Seen == {<<a, holdings[a].made>> : a \in {a \in Assets : holdings[a] # NoHolding}}

BeginSave(s) ==
    /\ save[s].pc = "idle"
    /\ \E answer \in Fetched :
          save' = [t \in PortfolioSyncs |->
            IF t = s THEN [pc |-> "delete", answer |-> answer, doomed |-> Seen,
                           gone |-> {}, put |-> {}, met |-> Open]
            ELSE IF t \in Open THEN [save[t] EXCEPT !.met = @ \cup {s}]
            ELSE save[t]]
    /\ UNCHANGED <<holdings, lastSave>>

\* A row somebody has deleted meanwhile is passed over.
DeleteRow(s) ==
    /\ save[s].pc = "delete"
    /\ \E row \in save[s].doomed :
          /\ FreeFor(s, row[1])
          /\ save' = [save EXCEPT
                ![s].doomed = @ \ {row},
                ![s].gone = IF row \in Seen THEN @ \cup {row[1]} ELSE @]
    /\ UNCHANGED <<holdings, lastSave>>

DeleteDone(s) ==
    /\ save[s].pc = "delete" /\ save[s].doomed = {}
    /\ save' = [save EXCEPT ![s].pc = "upsert"]
    /\ UNCHANGED <<holdings, lastSave>>

\* INSERT ... ON CONFLICT DO UPDATE, in the order of the values fetched.
UpsertRow(s) ==
    /\ save[s].pc = "upsert"
    /\ \E a \in save[s].answer \ save[s].put :
          /\ FreeFor(s, a)
          /\ save' = [save EXCEPT ![s].put = @ \cup {a}]
    /\ UNCHANGED <<holdings, lastSave>>

\* Mutant: ON CONFLICT DO NOTHING.
RowAfterNothing(s, a) ==
    IF a \in save[s].put /\ (a \in save[s].gone \/ holdings[a] = NoHolding)
    THEN [made |-> s, by |-> s]
    ELSE IF a \in save[s].gone THEN NoHolding ELSE holdings[a]

\* What the transaction makes of a row.
RowAfter(s, a) ==
    IF a \in save[s].put
    THEN [made |-> IF a \in save[s].gone \/ holdings[a] = NoHolding THEN s ELSE holdings[a].made,
          by |-> s]
    ELSE IF a \in save[s].gone THEN NoHolding ELSE holdings[a]

\* The reply may be lost and the call fail: the rows are there.
CommitSave(s) ==
    /\ save[s].pc = "upsert" /\ save[s].put = save[s].answer
    /\ holdings' = [a \in Assets |-> RowAfter(s, a)]
    /\ lastSave' = [by |-> s, answer |-> save[s].answer, met |-> save[s].met]
    /\ save' = [save EXCEPT ![s] = SaveEnded]

\* A query fails, or PostgreSQL aborts one of two that wait for each other.
RollbackSave(s) ==
    /\ s \in Open
    /\ save' = [save EXCEPT ![s] = SaveEnded]
    /\ UNCHANGED <<holdings, lastSave>>

HoldingsNext ==
    \E s \in PortfolioSyncs :
        \/ BeginSave(s) \/ DeleteRow(s) \/ DeleteDone(s)
        \/ UpsertRow(s) \/ CommitSave(s) \/ RollbackSave(s)

HoldingsSpec == HoldingsInit /\ [][HoldingsNext]_holdingVars

-----------------------------------------------------------------------------
(* However saves wait for each other, the one that was committed last has  *)
(* written every asset it fetched, and a row of another asset is one that  *)
(* a save open at the same time inserted, which its DELETE could not see.  *)
(* A save that met no other leaves exactly what it fetched.                *)
LastSaveStands ==
    \A a \in Assets :
        IF a \in lastSave.answer
        THEN holdings[a] # NoHolding /\ holdings[a].by = lastSave.by
        ELSE holdings[a] # NoHolding => holdings[a].made \in lastSave.met
=============================================================================
