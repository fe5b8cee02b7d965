------------------------------- MODULE Quotes -------------------------------
(***************************************************************************)
(* One request for quotes at the aggregator service: GetQuotes of          *)
(* aggregator.go, getQuotesFromSourcesOptimizedMultiple, LiFi's            *)
(* GetMultipleQuotes, 1inch's GetQuote and orderQuotesByQuality.  The      *)
(* aggregator starts a goroutine for each provider and LiFi's starts one   *)
(* for each tool; the results come through channels that hold them all, in *)
(* any order.                                                              *)
(*                                                                         *)
(* A quote is its source and its amount.  Left out: the building of HTTP   *)
(* requests, the circuit breakers (nothing records a result, so they never *)
(* open), the metrics, and the copy of the answer that is cached under a   *)
(* key no code reads.  A 1inch quote may come from the cache; it then has  *)
(* any amount.                                                             *)
(***************************************************************************)
EXTENDS Naturals, Sequences, FiniteSets

CONSTANTS
    Tools,       \* the tools LiFi is asked to prefer, one call each
    OneInch,     \* the call of 1inch
    QuoteAmounts,\* amounts of quotes, 0 among them
    MaxQuotes    \* quotes LiFi returns at most

ASSUME QuotesAssumption ==
    /\ OneInch \notin Tools
    /\ QuoteAmounts \subseteq Nat /\ MaxQuotes \in Nat \ {0}

VARIABLES
    sameChain,   \* the request is for one chain, so 1inch is asked too
    context,     \* the request's context: live, or done by its deadline or the client
    call,        \* the calls: idle, calling, replied, taken
    reply,       \* what they replied: one quote, or none if the call failed
    lifi,        \* LiFi's collection
    collection   \* the aggregator's collection

quoteVars == <<sameChain, context, call, reply, lifi, collection>>

Sources == Tools \cup {OneInch}
Quote == [source : Sources, amount : QuoteAmounts]
RepliesOf(x) == {<<>>} \cup {<<[source |-> x, amount |-> a]>> : a \in QuoteAmounts}

\* "ticking" becomes "fired" once; nothing else comes of a timer.
NewCollection == [pc |-> "idle", quotes |-> <<>>, timer |-> "ticking"]

QuotesTypeOK ==
    /\ sameChain \in BOOLEAN /\ context \in {"live", "done"}
    /\ call \in [Sources -> {"idle", "calling", "replied", "taken"}]
    /\ \A x \in Sources : reply[x] \in RepliesOf(x)
    /\ lifi.pc \in {"idle", "collecting", "sent", "failed", "taken", "dropped"}
    /\ collection.pc \in {"idle", "collecting", "answered", "refused"}
    /\ {lifi.timer, collection.timer} \subseteq {"ticking", "fired"}
    /\ \A i \in 1..Len(lifi.quotes) : lifi.quotes[i] \in Quote
    /\ \A i \in 1..Len(collection.quotes) : collection.quotes[i] \in Quote

QuotesInit ==
    /\ sameChain = FALSE /\ context = "live"
    /\ call = [x \in Sources |-> "idle"] /\ reply = [x \in Sources |-> <<>>]
    /\ lifi = NewCollection /\ collection = NewCollection

-----------------------------------------------------------------------------
(* The two sorts.                                                          *)

Swapped(s, i, j) == [s EXCEPT ![i] = s[j], ![j] = s[i]]

\* LiFi's: each position is compared with all later ones and exchanged at once.
Exchanged(s, i, j) == IF s[i].amount < s[j].amount THEN Swapped(s, i, j) ELSE s

Compared(s, i) ==
    LET upTo[j \in i..Len(s)] == IF j = i THEN s ELSE Exchanged(upTo[j - 1], i, j)
    IN upTo[Len(s)]

ExchangeSorted(s) ==
    LET upTo[i \in 0..Len(s)] == IF i = 0 THEN s ELSE Compared(upTo[i - 1], i)
    IN upTo[Len(s)]

\* The first of the best at i or later.
FirstBest(s, i) ==
    CHOOSE k \in i..Len(s) : /\ \A j \in i..Len(s) : s[j].amount <= s[k].amount
                             /\ \A j \in i..(k - 1) : s[j].amount < s[k].amount

\* orderQuotesByQuality: each position gets the first of the best that follow,
Selected(s, i) == Swapped(s, i, FirstBest(s, i))

SelectionSorted(s) ==
    LET upTo[i \in 0..Len(s)] == IF i = 0 THEN s ELSE Selected(upTo[i - 1], i)
    IN upTo[Len(s)]

\* once the quotes that promise nothing are left out.
Positive(s) ==
    LET upTo[i \in 0..Len(s)] ==
          IF i = 0 THEN <<>>
          ELSE IF s[i].amount > 0 THEN Append(upTo[i - 1], s[i]) ELSE upTo[i - 1]
    IN upTo[Len(s)]

Ordered(quotes) == SelectionSorted(Positive(quotes))

\* LiFi returns the best MaxQuotes of what it got.
FirstQuotes(s) == SubSeq(s, 1, IF Len(s) < MaxQuotes THEN Len(s) ELSE MaxQuotes)

\* Mutant: what came first is kept, then sorted.
LiFiAnswerUnsorted(got) == ExchangeSorted(FirstQuotes(got))

LiFiAnswer(got) == FirstQuotes(ExchangeSorted(got))

-----------------------------------------------------------------------------
(* The request and the calls it makes.                                     *)

\* GetQuotes starts the providers, and LiFi's goroutine starts its tools.
AskProviders ==
    /\ collection.pc = "idle"
    /\ sameChain' \in BOOLEAN
    /\ collection' = [collection EXCEPT !.pc = "collecting"]
    /\ lifi' = [lifi EXCEPT !.pc = "collecting"]
    /\ call' = [x \in Sources |-> IF x \in Tools \/ sameChain' THEN "calling" ELSE "idle"]
    /\ UNCHANGED <<context, reply>>

\* A quote, or an error of the call, at any time; the channel has room for it.
Reply(x) ==
    /\ call[x] = "calling"
    /\ \E r \in RepliesOf(x) : reply' = [reply EXCEPT ![x] = r]
    /\ call' = [call EXCEPT ![x] = "replied"]
    /\ UNCHANGED <<sameChain, context, lifi, collection>>

\* Mutant: the requests of LiFi's tools are made without the context.
CancelledOneInch(x) ==
    /\ x = OneInch /\ call[x] = "calling" /\ context = "done"
    /\ call' = [call EXCEPT ![x] = "replied"]
    /\ UNCHANGED <<sameChain, context, reply, lifi, collection>>

\* The HTTP client gives up a call whose context is done.
Cancelled(x) ==
    /\ call[x] = "calling" /\ context = "done"
    /\ call' = [call EXCEPT ![x] = "replied"]
    /\ UNCHANGED <<sameChain, context, reply, lifi, collection>>

\* Fifteen seconds are over, or the client has gone.
ContextDone ==
    /\ collection.pc = "collecting" /\ context = "live"
    /\ context' = "done"
    /\ UNCHANGED <<sameChain, call, reply, lifi, collection>>

-----------------------------------------------------------------------------
(* LiFi's collection: a result, the timer, or the end of the context.      *)

TakeTool(t) ==
    /\ lifi.pc = "collecting" /\ call[t] = "replied"
    /\ call' = [call EXCEPT ![t] = "taken"]
    /\ lifi' = [lifi EXCEPT !.quotes = @ \o reply[t]]
    /\ UNCHANGED <<sameChain, context, reply, collection>>

\* The break leaves the select, not the loop.
LiFiTimer ==
    /\ lifi.pc = "collecting" /\ lifi.timer = "ticking"
    /\ lifi' = [lifi EXCEPT !.timer = "fired"]
    /\ UNCHANGED <<sameChain, context, call, reply, collection>>

LiFiSends ==
    /\ lifi.pc = "collecting" /\ \A t \in Tools : call[t] = "taken"
    /\ lifi' = [lifi EXCEPT !.pc = "sent", !.quotes = LiFiAnswer(@)]
    /\ UNCHANGED <<sameChain, context, call, reply, collection>>

LiFiGivesUp ==
    /\ lifi.pc = "collecting" /\ context = "done" /\ \E t \in Tools : call[t] # "taken"
    /\ lifi' = [lifi EXCEPT !.pc = "failed"]
    /\ UNCHANGED <<sameChain, context, call, reply, collection>>

-----------------------------------------------------------------------------
(* The aggregator's collection waits for every provider it asked.          *)

TakeLiFi ==
    /\ collection.pc = "collecting"
    /\ \/ /\ lifi.pc = "sent"
          /\ lifi' = [lifi EXCEPT !.pc = "taken"]
          /\ collection' = [collection EXCEPT !.quotes = @ \o lifi.quotes]
       \/ /\ lifi.pc = "failed"
          /\ lifi' = [lifi EXCEPT !.pc = "dropped"]
          /\ UNCHANGED collection
    /\ UNCHANGED <<sameChain, context, call, reply>>

TakeOneInch ==
    /\ collection.pc = "collecting" /\ call[OneInch] = "replied"
    /\ call' = [call EXCEPT ![OneInch] = "taken"]
    /\ collection' = [collection EXCEPT !.quotes = @ \o reply[OneInch]]
    /\ UNCHANGED <<sameChain, context, reply, lifi>>

CollectionTimer ==
    /\ collection.pc = "collecting" /\ collection.timer = "ticking"
    /\ collection' = [collection EXCEPT !.timer = "fired"]
    /\ UNCHANGED <<sameChain, context, call, reply, lifi>>

\* The quotes are ordered, and the context is cancelled on return.
Answer ==
    /\ collection.pc = "collecting"
    /\ lifi.pc \in {"taken", "dropped"} /\ call[OneInch] \in {"idle", "taken"}
    /\ collection' = [collection EXCEPT !.quotes = Ordered(@),
                        !.pc = IF collection.quotes = <<>> THEN "refused" ELSE "answered"]
    /\ context' = "done"
    /\ UNCHANGED <<sameChain, call, reply, lifi>>

-----------------------------------------------------------------------------
QuotesNext ==
    \/ AskProviders \/ ContextDone
    \/ \E x \in Sources : Reply(x) \/ Cancelled(x)
    \/ \E t \in Tools : TakeTool(t)
    \/ LiFiTimer \/ LiFiSends \/ LiFiGivesUp
    \/ TakeLiFi \/ TakeOneInch \/ CollectionTimer \/ Answer

QuotesSpec == QuotesInit /\ [][QuotesNext]_quoteVars

\* Time passes, and the goroutines go on; no provider need answer.
FairQuotes ==
    /\ WF_quoteVars(ContextDone)
    /\ \A x \in Sources : WF_quoteVars(Cancelled(x))
    /\ \A t \in Tools : WF_quoteVars(TakeTool(t))
    /\ WF_quoteVars(LiFiSends) /\ WF_quoteVars(LiFiGivesUp)
    /\ WF_quoteVars(TakeLiFi) /\ WF_quoteVars(TakeOneInch) /\ WF_quoteVars(Answer)

-----------------------------------------------------------------------------
QuotesAnswered == collection.pc = "answered"
QuotesListed == {collection.quotes[i].source : i \in 1..Len(collection.quotes)}

\* The calls whose quote promises something and reached whoever asked.
Offered == {x \in Sources : call[x] = "taken" /\ reply[x] # <<>> /\ reply[x][1].amount > 0}

(* GetQuotes answers "ordered by quality (best first)": no quote listed    *)
(* gives less than a later one, and none that reached its collector gives  *)
(* more than the first, unless LiFi gave up at the end of the context.     *)
(* The timers lose nothing: unless the context ended under LiFi, the       *)
(* answer waited for every call, and each that succeeded with a positive   *)
(* amount is listed or is one of LiFi's beyond MaxQuotes.                  *)
BestQuoteFirst ==
    QuotesAnswered =>
        /\ \A i, j \in 1..Len(collection.quotes) :
              i < j => collection.quotes[i].amount >= collection.quotes[j].amount
        /\ \A x \in Offered \ (IF lifi.pc = "dropped" THEN Tools ELSE {}) :
              collection.quotes # <<>> /\ reply[x][1].amount <= collection.quotes[1].amount
        /\ lifi.pc = "taken" =>
              /\ \A x \in Sources : call[x] \in {"idle", "taken"}
              /\ \A x \in Offered \ QuotesListed :
                    x \in Tools /\ Cardinality(QuotesListed \cap Tools) = MaxQuotes

(* Every request ends, and so does every goroutine it started, though no   *)
(* provider ever answers: the context does it, for the timers do not.      *)
QuotesEnd ==
    collection.pc = "collecting" ~>
        collection.pc \in {"answered", "refused"} /\ \A x \in Sources : call[x] # "calling"

(* "Timeout - use what we have": once the timer of the collection has      *)
(* fired, no further result is waited for.                                 *)
TimeoutUsesWhatThereIs ==
    [][collection.timer = "fired" /\ collection.pc = "collecting"
         => collection'.pc # "collecting"]_<<collection>>
=============================================================================
