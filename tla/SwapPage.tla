------------------------------ MODULE SwapPage ------------------------------
(***************************************************************************)
(* The swap page of the web client: SwapInterface with useQuote and        *)
(* useAutoChainSwitch, SwapButton with useSwap, and executeSwap.  The user *)
(* edits, picks a quote and clicks while amounts settle, quotes arrive,    *)
(* the wallet changes its chain, and an earlier swap is still under way.   *)
(*                                                                         *)
(* A render with its effects is part of the step that causes it.  While    *)
(* the wallet changes its chain the page shows a placeholder, and the      *)
(* button is a new one afterwards: what it remembered is gone, the swap it *)
(* started goes on.                                                        *)
(*                                                                         *)
(* Quotes are asked for, and kept, for a pair and an amount; the page      *)
(* tells them apart by their ids.  An id need not say what a quote is for: *)
(* some providers name one after the second it was made in, and the cache  *)
(* serves one again under the id it had.  So it is left open whether the   *)
(* quotes of an answer list the id of the one selected, whatever they are  *)
(* for.  An amount of 0 is an empty input.  Left out: balances, price      *)
(* impact, slippage, the URL, gas, the countdown (it refreshes a quote, as *)
(* the user may), and globalExecutionLock, which only ignores a click now  *)
(* and then.                                                               *)
(***************************************************************************)
EXTENDS Integers

CONSTANTS
    TokenPairs,     \* what may be swapped for what
    ChainOf,        \* the chain each pair is paid on
    AddressOf,      \* the addresses of a pair: native tokens share theirs
    DefaultChain,   \* the chain of the wallet's default client
    PageAmounts,    \* amounts the user may type
    MaxEdits,       \* bound: changes of the inputs
    MaxAttempts     \* bound: swaps attempted

PageChains == {ChainOf[p] : p \in TokenPairs} \cup {DefaultChain}
NoChain == "no chain"

ASSUME PageAssumption ==
    /\ NoChain \notin PageChains
    /\ PageAmounts \subseteq Nat \ {0}
    /\ MaxEdits \in Nat /\ MaxAttempts \in Nat

VARIABLES
    shown,          \* the pair and the amount in the inputs
    debounced,      \* debouncedAmount
    book,           \* react-query's state of the quotes for each pair and amount
    selected,       \* selectedQuote
    pageClient,     \* the chain of smartWalletClient
    switching,      \* the chain switchToChain is switching to
    lastProcessed,  \* lastProcessedChainIdRef
    failedSwitch,   \* chains the latest switch to which failed
    swapStep,       \* swapState.step
    swapTimers,     \* timers that reset the input and the state after a success
    executing,      \* isExecuting of the one executor
    attempt,        \* the swaps attempted
    edits           \* changes of the inputs so far

quoteState == <<debounced, book, selected>>
walletState == <<pageClient, switching, lastProcessed, failedSwitch>>
buttonState == <<swapStep, swapTimers>>
pageVars == <<shown, quoteState, walletState, buttonState, executing, attempt, edits>>

NoQuote == [no |-> "quote"]
Inputs == [pair : TokenPairs, amount : PageAmounts \cup {0}]
QuoteKeys == [pair : TokenPairs, amount : PageAmounts]
\* listed: the quotes shown list the id of the one selected
Selections == [key : QuoteKeys, listed : BOOLEAN]
Attempts == 1..MaxAttempts
Unused == [pc |-> "unused"]
Spent == [pc |-> "spent"]   \* ended, with nothing sent

\* What the page looked like when the button was clicked.
Sights == [inputs : Inputs, pending : BOOLEAN, kept : BOOLEAN, unswitched : BOOLEAN]
Attempted == [pc : {"pause", "approve", "send", "ended"},
              quote : QuoteKeys, client : PageChains, seen : Sights,
              attached : BOOLEAN,  \* the button it was started with is still there
              noted : BOOLEAN,     \* its currentQuoteRef holds the quote
              sent : BOOLEAN, told : BOOLEAN, reported : BOOLEAN]

PageTypeOK ==
    /\ shown \in Inputs /\ debounced \in PageAmounts \cup {0}
    /\ book \in [QuoteKeys -> {"none", "asked", "failed", "data"}]
    /\ selected \in Selections \cup {NoQuote}
    /\ pageClient \in PageChains
    /\ switching \in PageChains \cup {NoChain} /\ lastProcessed \in PageChains \cup {NoChain}
    /\ failedSwitch \subseteq PageChains
    /\ swapStep \in {"idle", "approving", "success", "error", "cancelled"}
    /\ swapTimers \subseteq {"input", "auto"} /\ executing \in BOOLEAN
    /\ attempt \in [Attempts -> Attempted \cup {Unused, Spent}]
    /\ edits \in 0..MaxEdits

PageInit ==
    /\ shown \in {[pair |-> p, amount |-> 0] : p \in {q \in TokenPairs : ChainOf[q] = DefaultChain}}
    /\ debounced = 0 /\ book = [k \in QuoteKeys |-> "none"] /\ selected = NoQuote
    /\ pageClient = DefaultChain /\ switching = NoChain
    /\ lastProcessed = DefaultChain /\ failedSwitch = {}
    /\ swapStep = "idle" /\ swapTimers = {}
    /\ executing = FALSE /\ attempt = [i \in Attempts |-> Unused] /\ edits = 0

-----------------------------------------------------------------------------
(* The quotes *)

KeyOf(inputs, amount) == [pair |-> inputs.pair, amount |-> amount]
Enabled == debounced # 0
Key == KeyOf(shown, debounced)
HasData(b, k) == k.amount # 0 /\ b[k] = "data"
IsLoading == Enabled /\ book[Key] = "asked"

ActiveQuote ==
    IF selected # NoQuote THEN selected.key
    ELSE IF HasData(book, Key) THEN Key ELSE NoQuote

\* Asked for when it is wanted and not there.
Wanted(k) ==
    IF k.amount # 0 /\ book[k] \in {"none", "failed"} THEN [book EXCEPT ![k] = "asked"] ELSE book

\* A selection is dropped when there are quotes to show that do not list its
\* id, or with time.
Reselected(s, there) ==
    IF s = NoQuote THEN {s}
    ELSE IF there THEN {NoQuote, [s EXCEPT !.listed = TRUE]} ELSE {[s EXCEPT !.listed = FALSE]}

\* The query becomes the one for the key, with the selection left so far.
Enter(k, s) == book' = Wanted(k) /\ selected' \in Reselected(s, HasData(book, k))

\* Mutant: a selection is not looked for among the quotes that arrive.
QuoteAnsweredKeeps(k, ok) ==
    /\ book[k] \in {"asked", "data"}
    /\ book' = [book EXCEPT ![k] = IF ok \/ @ = "data" THEN "data" ELSE "failed"]
    /\ UNCHANGED <<shown, debounced, selected, walletState, buttonState, executing, attempt, edits>>

\* The answer to a request, or to another one for what is there: a query that
\* is no longer fresh is repeated by its key, by the countdown, or by the user.
QuoteAnswered(k, ok) ==
    /\ book[k] \in {"asked", "data"}
    /\ book' = [book EXCEPT ![k] = IF ok \/ @ = "data" THEN "data" ELSE "failed"]
    /\ selected' \in IF ok /\ k = Key THEN Reselected(selected, TRUE) ELSE {selected}
    /\ UNCHANGED <<shown, debounced, walletState, buttonState, executing, attempt, edits>>

Mounted == switching = NoChain

\* refetch after a failure; the recovery also drops the selection.
Refetch(recover) ==
    /\ Mounted /\ Enabled /\ book[Key] = "failed"
    /\ book' = [book EXCEPT ![Key] = "asked"]
    /\ selected' = IF recover THEN NoQuote ELSE selected
    /\ UNCHANGED <<shown, debounced, walletState, buttonState, executing, attempt, edits>>

SelectQuote ==
    /\ Mounted /\ HasData(book, Key)
    /\ selected' = [key |-> Key, listed |-> TRUE]
    /\ UNCHANGED <<shown, debounced, book, walletState, buttonState, executing, attempt, edits>>

-----------------------------------------------------------------------------
(* The button *)

UnderWay(i) == attempt[i].pc \in {"approve", "send"}
\* isExecutingRef, which belongs to the button
Executing == \E i \in Attempts : UnderWay(i) /\ attempt[i].attached

\* What is noted is forgotten, and so is the timer, unless the mouse over the
\* success message has put it off.
ResetSwapState(timers) ==
    IF Executing THEN swapTimers' = timers /\ UNCHANGED <<swapStep, attempt>>
    ELSE /\ swapStep' = "idle"
         /\ swapTimers' \in {timers, timers \ {"auto"}}
         /\ attempt' = [i \in Attempts |->
               IF attempt[i] \in {Unused, Spent} \/ ~attempt[i].attached THEN attempt[i]
               ELSE [attempt[i] EXCEPT !.noted = FALSE]]

\* The button's effect when tokens or amount changed.
ResetOnChange(timers) ==
    IF swapStep \in {"approving", "success"}
    THEN swapTimers' = timers /\ UNCHANGED <<swapStep, attempt>>
    ELSE ResetSwapState(timers)

Alike(p, q) == AddressOf[p] = AddressOf[q]

Far(old, new) == old # 0 /\ new # 0 /\ 10 * (IF old > new THEN old - new ELSE new - old) > old

\* The amount in the input changes; the query follows after the debounce.
AmountChanges(a) ==
    /\ shown' = [shown EXCEPT !.amount = a]
    /\ selected' = IF Far(shown.amount, a) THEN NoQuote ELSE selected
    /\ UNCHANGED <<debounced, book, walletState>>

Type(a) ==
    /\ Mounted /\ a # shown.amount /\ edits < MaxEdits
    /\ AmountChanges(a) /\ ResetOnChange(swapTimers)
    /\ edits' = edits + 1
    /\ UNCHANGED executing

Debounce ==
    /\ debounced # shown.amount
    /\ debounced' = shown.amount
    /\ Enter(KeyOf(shown, shown.amount), selected)
    /\ UNCHANGED <<shown, walletState, buttonState, executing, attempt, edits>>

\* The button goes, and with it its callbacks, its references and its timers.
Unmount ==
    /\ swapStep' = "idle" /\ swapTimers' = {}
    /\ attempt' = [i \in Attempts |->
          IF attempt[i] \in {Unused, Spent} THEN attempt[i] ELSE [attempt[i] EXCEPT !.attached = FALSE]]

(* Tokens are selected, or turned round with what is quoted as the amount. *)
(* The page tells them by their addresses: it keeps a selected quote, and  *)
(* the button its state, if only the chain of a native token changes.      *)
(* The wallet follows to the chain of the new pair, unless it has tried    *)
(* that chain last.                                                        *)
SelectTokens(p, a) ==
    /\ Mounted /\ p # shown.pair /\ edits < MaxEdits
    /\ \/ a \in {0, shown.amount}
       \/ HasData(book, Key)
    /\ shown' = [pair |-> p, amount |-> a]
    /\ Enter(KeyOf(shown', debounced),
             IF Alike(p, shown.pair) /\ ~Far(shown.amount, a) THEN selected ELSE NoQuote)
    /\ IF ChainOf[p] \in {pageClient, lastProcessed}
       THEN /\ lastProcessed' = ChainOf[p] /\ switching' = NoChain
            /\ IF Alike(p, shown.pair) /\ a = shown.amount
               THEN UNCHANGED <<buttonState, attempt>>
               ELSE ResetOnChange(swapTimers)
       ELSE /\ lastProcessed' = ChainOf[p] /\ switching' = ChainOf[p]
            /\ Unmount
    /\ edits' = edits + 1
    /\ UNCHANGED <<debounced, pageClient, failedSwitch, executing>>

\* Without a client for the chain the page goes back to the default one.
Switched(ok) ==
    /\ ~Mounted
    /\ switching' = NoChain
    /\ pageClient' = IF ok THEN switching ELSE DefaultChain
    /\ failedSwitch' = IF ok THEN failedSwitch \ {switching} ELSE failedSwitch \cup {switching}
    /\ UNCHANGED <<shown, quoteState, lastProcessed, buttonState, executing, attempt, edits>>

-----------------------------------------------------------------------------
(* A swap *)

New(q, stage) ==
    [pc |-> stage, quote |-> q, client |-> pageClient,
     seen |-> [inputs |-> shown, pending |-> debounced # shown.amount,
               kept |-> /\ selected # NoQuote /\ selected.key # Key
                        /\ ~Enabled \/ book[Key] = "failed" \/ swapStep # "idle" \/ selected.listed,
               unswitched |-> ChainOf[shown.pair] \in failedSwitch],
     attached |-> TRUE, noted |-> FALSE, sent |-> FALSE, told |-> FALSE, reported |-> FALSE]

\* Mutant: the executor does not look whether it is executing.
StartSwapAnyway(i, a) ==
    /\ attempt' = [attempt EXCEPT ![i] = [a EXCEPT !.pc = "approve", !.noted = TRUE]]
    /\ swapStep' = IF a.attached THEN "approving" ELSE swapStep
    /\ executing' = TRUE

\* mutate: the executor takes one swap at a time.
StartSwap(i, a) ==
    /\ attempt' = [attempt EXCEPT ![i] =
          IF executing THEN Spent ELSE [a EXCEPT !.pc = "approve", !.noted = TRUE]]
    /\ swapStep' = IF ~a.attached THEN swapStep ELSE IF executing THEN "error" ELSE "approving"
    /\ executing' = TRUE

Clickable(i) ==
    /\ Mounted /\ ~Executing /\ attempt[i] = Unused
    /\ \A j \in Attempts : j < i => attempt[j] # Unused
    /\ \A j \in Attempts : attempt[j] # Unused => attempt[j].pc # "pause"
    /\ shown.amount # 0 /\ ActiveQuote # NoQuote

\* handleSwap: of a button that is ready, or says "Try Again".
HandleSwap(i) ==
    /\ Clickable(i)
    /\ \/ swapStep = "idle" /\ ~IsLoading
       \/ swapStep = "cancelled"
    /\ StartSwap(i, New(ActiveQuote, "approve"))
    /\ UNCHANGED <<shown, quoteState, walletState, swapTimers, edits>>

\* handleRetrySwap resets, and goes on 100 ms later with the quote it has.
RetrySwap(i) ==
    /\ Clickable(i) /\ swapStep = "error"
    /\ swapStep' = "idle" /\ swapTimers' \in {swapTimers, swapTimers \ {"auto"}}
    /\ attempt' = [attempt EXCEPT ![i] = New(ActiveQuote, "pause")]
    /\ UNCHANGED <<shown, quoteState, walletState, executing, edits>>

RetryGoesOn(i) ==
    /\ attempt[i].pc = "pause"
    /\ StartSwap(i, attempt[i])
    /\ UNCHANGED <<shown, quoteState, walletState, swapTimers, edits>>

\* The allowance is there, has been given, or has been waited for long enough.
Approved(i) ==
    /\ attempt[i].pc = "approve"
    /\ attempt' = [attempt EXCEPT ![i].pc = "send"]
    /\ UNCHANGED <<shown, quoteState, walletState, buttonState, executing, edits>>

\* Refused by the user, or failed; the operation may have been sent all the same.
SwapFails(i, step, sent) ==
    /\ UnderWay(i)
    /\ sent => attempt[i].pc = "send" /\ step = "error"
    /\ executing' = FALSE
    /\ attempt' = [attempt EXCEPT ![i] =
          IF sent THEN [@ EXCEPT !.pc = "ended", !.sent = TRUE, !.noted = FALSE] ELSE Spent]
    /\ swapStep' = IF attempt[i].attached THEN step ELSE swapStep
    /\ UNCHANGED <<shown, quoteState, walletState, swapTimers, edits>>

\* onSuccess: the button's callback records the trade, if it is still there;
\* a failure of that is only logged.
SwapSucceeds(i) ==
    LET here == attempt[i].attached IN
    /\ attempt[i].pc = "send"
    /\ executing' = FALSE
    /\ attempt' = [attempt EXCEPT ![i] =
          [@ EXCEPT !.pc = "ended", !.sent = TRUE, !.told = TRUE,
                    !.reported = here /\ attempt[i].noted, !.noted = FALSE]]
    /\ swapStep' = IF here THEN "success" ELSE swapStep
    /\ swapTimers' = IF here THEN {"input", "auto"} ELSE swapTimers
    /\ UNCHANGED <<shown, quoteState, walletState, edits>>

-----------------------------------------------------------------------------
(* After a swap *)

\* "New Swap" or the cross of the success message; "Dismiss" of the error
Dismiss ==
    /\ Mounted
    /\ \/ swapStep = "success" /\ AmountChanges(0)
       \/ swapStep = "error" /\ UNCHANGED <<shown, quoteState, walletState>>
    /\ ResetSwapState(swapTimers)
    /\ UNCHANGED <<executing, edits>>

\* Four seconds after a success, whatever has been typed since.
InputTimer ==
    /\ "input" \in swapTimers
    /\ AmountChanges(0)
    /\ IF shown.amount = 0
       THEN swapTimers' = swapTimers \ {"input"} /\ UNCHANGED <<swapStep, attempt>>
       ELSE ResetOnChange(swapTimers \ {"input"})
    /\ UNCHANGED <<executing, edits>>

\* Later the state goes back to idle, whatever it is by then.
AutoTimer ==
    /\ "auto" \in swapTimers
    /\ swapTimers' = swapTimers \ {"auto"} /\ swapStep' = "idle"
    /\ UNCHANGED <<shown, quoteState, walletState, executing, attempt, edits>>

\* The mouse is over the message: the timers do nothing, or are put off.
TimersPutOff ==
    /\ swapStep = "success" /\ "input" \in swapTimers
    /\ swapTimers' = swapTimers \ {"input"}
    /\ UNCHANGED <<shown, quoteState, walletState, swapStep, executing, attempt, edits>>

-----------------------------------------------------------------------------
PageNext ==
    \/ \E k \in QuoteKeys, ok \in BOOLEAN : QuoteAnswered(k, ok)
    \/ \E b \in BOOLEAN : Refetch(b) \/ Switched(b)
    \/ SelectQuote \/ Debounce
    \/ \E a \in PageAmounts \cup {0} : Type(a) \/ \E p \in TokenPairs : SelectTokens(p, a)
    \/ \E i \in Attempts :
         \/ HandleSwap(i) \/ RetrySwap(i) \/ RetryGoesOn(i) \/ Approved(i) \/ SwapSucceeds(i)
         \/ \E sent \in BOOLEAN, step \in {"error", "cancelled"} : SwapFails(i, step, sent)
    \/ Dismiss \/ InputTimer \/ AutoTimer \/ TimersPutOff

PageSpec == PageInit /\ [][PageNext]_pageVars

-----------------------------------------------------------------------------
Tried == {i \in Attempts : attempt[i] \notin {Unused, Spent}}

(* What is sent is what was shown when the button was clicked, unless the  *)
(* amount had not settled yet, or a quote the user had selected for other  *)
(* inputs was still selected: because the quotes shown list its id, the    *)
(* request for them had failed or could not be made without an amount, or  *)
(* the click was a retry.  Even then the addresses are the ones shown.     *)
(* The client that sends it is one of the chain shown, unless the switch   *)
(* to that chain failed.                                                   *)
SentIsShown ==
    \A i \in Tried : attempt[i].sent =>
        LET a == attempt[i] IN
        /\ Alike(a.quote.pair, a.seen.inputs.pair)
        /\ a.quote.pair # a.seen.inputs.pair => a.seen.kept
        /\ a.quote.amount # a.seen.inputs.amount => a.seen.pending \/ a.seen.kept
        /\ a.client # ChainOf[a.seen.inputs.pair] => a.seen.unswitched

(* One swap is under way at a time, even if the button is replaced, and    *)
(* one that succeeded is reported to be recorded, unless the button was    *)
(* replaced meanwhile.                                                     *)
SwapsAreReported ==
    /\ \A i, j \in Attempts : UnderWay(i) /\ UnderWay(j) => i = j
    /\ \A i \in Tried : attempt[i].told => attempt[i].reported \/ ~attempt[i].attached
=============================================================================
