------------------------------ MODULE RouterSwap ------------------------------
(***************************************************************************)
(* The money of a swap: _callAggregator of AggregatorProxy.sol, which the  *)
(* 1inch, LI.FI and Relay facets of the router share.  A swap is one       *)
(* transaction: it takes effect as a whole or not at all, and the guard    *)
(* against reentrancy keeps a second one out.  The aggregator is external: *)
(* it takes what it is allowed and gives back what it likes.               *)
(*                                                                         *)
(* Left out: who may be the fee recipient, the events, tokens that break   *)
(* ERC-20 (a transfer that moves another amount), the width of integers    *)
(* (256 bits, checked), and the facet for calls across chains.             *)
(***************************************************************************)
EXTENDS Integers

CONSTANTS
    Tokens,         \* ERC-20 tokens
    Native,         \* the chain's currency, address(0) in a call
    FeeBase,        \* FEE_PERCENTAGE_BASE
    FeeRates,       \* fees a call may ask for
    SwapAmounts,    \* amounts that change hands
    StartBalances,  \* what the holders may have at first
    MaxSwaps        \* bound: swaps made

ASSUME SwapAssumption ==
    /\ Native \notin Tokens
    /\ FeeBase \in Nat \ {0} /\ FeeRates \subseteq 0..(FeeBase - 1)
    /\ SwapAmounts \subseteq Nat /\ MaxSwaps \in Nat
    /\ StartBalances \subseteq
          [{"caller", "router", "recipient", "aggregator"} -> [Tokens \cup {Native} -> Nat]]

VARIABLES
    balance,    \* what each holder has of each currency
    lastSwap,   \* the latest swap
    swaps       \* swaps so far

swapVars == <<balance, lastSwap, swaps>>

Currencies == Tokens \cup {Native}
Holders == {"caller", "router", "recipient", "aggregator"}
Balances == [Holders -> [Currencies -> Nat]]
Swaps == [from : Currencies, fromFee : FeeRates, amount : SwapAmounts, value : SwapAmounts,
          to : Currencies, toFee : FeeRates]
\* What the aggregator takes of its allowance, and what it gives the router.
Deals == [taken : SwapAmounts, back : [Currencies -> SwapAmounts]]
NoSwap == [none |-> "swap"]

SwapTypeOK ==
    /\ balance \in Balances
    /\ lastSwap \in Swaps \cup {NoSwap}
    /\ swaps \in 0..MaxSwaps

-----------------------------------------------------------------------------
Fee(amount, rate) == (amount * rate) \div FeeBase

Moved(b, payer, payee, currency, amount) ==
    [h \in Holders |-> [c \in Currencies |->
        IF c # currency THEN b[h][c]
        ELSE IF h = payer THEN b[h][c] - amount
        ELSE IF h = payee THEN b[h][c] + amount
        ELSE b[h][c]]]

\* The value that comes with the call, the fee, and the rest of the input.
TakenIn(b, s) ==
    LET paid == Moved(b, "caller", "router", Native, s.value)
        fee == Fee(s.amount, s.fromFee)
    IN IF s.from = Native THEN Moved(paid, "router", "recipient", Native, fee)
       ELSE Moved(Moved(paid, "caller", "recipient", s.from, fee),
                  "caller", "router", s.from, s.amount - fee)

\* msgValue: what is passed on to the aggregator.
PassedOn(s) == IF s.from = Native THEN s.value - Fee(s.amount, s.fromFee) ELSE s.value

\* The aggregator may take the approved amount, and gives back what it does.
Dealt(b, s, d) ==
    LET given == Moved(b, "router", "aggregator", Native, PassedOn(s))
        taken == IF s.from = Native THEN given
                 ELSE Moved(given, "router", "aggregator", s.from, d.taken)
    IN [h \in Holders |-> [c \in Currencies |->
            IF h = "router" THEN taken[h][c] + d.back[c]
            ELSE IF h = "aggregator" THEN taken[h][c] - d.back[c] ELSE taken[h][c]]]

\* What is left of an input token goes back to the caller.
Refunded(b, before, s) ==
    IF s.from = Native THEN b
    ELSE Moved(b, "router", "caller", s.from, b["router"][s.from] - before["router"][s.from])

\* Mutant: the balance of an output token is not read at all.
OutputBeforeUnread(before, in, s) ==
    IF s.to = Native THEN before["router"][Native] ELSE 0

\* The router's balance the output is the excess over: an output token's is
\* read only if there is a fee, after the input came in.
OutputBefore(before, in, s) ==
    IF s.to = Native THEN before["router"][Native]
    ELSE IF s.toFee > 0 THEN in["router"][s.to] ELSE 0

\* The excess, less the fee, goes to the caller.
PaidOut(b, s, excess) ==
    LET fee == Fee(excess, s.toFee)
    IN Moved(Moved(b, "router", "caller", s.to, excess - fee), "router", "recipient", s.to, fee)

\* A transfer that is not covered, or a negative difference, reverts the call.
NonNegative(b) == \A h \in Holders, c \in Currencies : b[h][c] >= 0

Swap(s, d) ==
    LET in == TakenIn(balance, s)
        dealt == Dealt(in, s, d)
        back == Refunded(dealt, balance, s)
        excess == back["router"][s.to] - OutputBefore(balance, in, s)
    IN /\ swaps < MaxSwaps
       /\ s.from # Native => d.taken <= s.amount - Fee(s.amount, s.fromFee)
       /\ PassedOn(s) >= 0 /\ NonNegative(in) /\ NonNegative(dealt)
       /\ s.from # Native => dealt["router"][s.from] >= balance["router"][s.from]
       /\ excess >= 0
       /\ balance' = PaidOut(back, s, excess)
       /\ lastSwap' = s /\ swaps' = swaps + 1

-----------------------------------------------------------------------------
SwapInit ==
    /\ balance \in StartBalances
    /\ lastSwap = NoSwap /\ swaps = 0

SwapNext == \E s \in Swaps, d \in Deals : Swap(s, d)

SwapSpec == SwapInit /\ [][SwapNext]_swapVars

-----------------------------------------------------------------------------
(* A swap leaves the router what it had, whatever the aggregator does: of  *)
(* the input and of the output token nothing more and nothing less, except *)
(* of an output token without a fee, whose balance the code does not read; *)
(* of the native currency nothing less, and nothing more if it is the      *)
(* output.                                                                 *)
RouterKeepsItsOwn ==
    [][swaps' # swaps =>
        LET held == balance["router"]
            left == balance'["router"]
            s == lastSwap'
        IN /\ \A t \in {s.from, s.to} \ {Native} :
                 left[t] = held[t] \/ (t = s.to /\ s.toFee = 0)
           /\ left[Native] >= held[Native]
           /\ s.to = Native => left[Native] = held[Native]]_swapVars
=============================================================================
