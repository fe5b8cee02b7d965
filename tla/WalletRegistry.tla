--------------------------- MODULE WalletRegistry ---------------------------
(***************************************************************************)
(* Wallets and session keys of one user on one chain: walletController.ts, *)
(* walletService.ts, sessionKeyManager.ts and the parts of                 *)
(* zeroDevClient.ts they call.  PostgreSQL holds the wallets, their        *)
(* private keys and the session keys; ZeroDev and the chain are external.  *)
(* Every handler reads, awaits, and writes: two of them interleave at      *)
(* every await.                                                            *)
(*                                                                         *)
(* A permission names every limit its type has; without contracts it       *)
(* restricts none.  The amount is a number; the gas limits are compared as *)
(* texts, so that a gas limit is its place in the order of texts.  A       *)
(* request names the end of the validity, or is given the default.  Left   *)
(* out: permissions with a limit missing, which the type excludes, the     *)
(* choice of chain, the ciphers, and updateSessionKeyPermissions and       *)
(* cleanupExpiredKeys, which nothing calls.                                *)
(***************************************************************************)
EXTENDS Naturals, FiniteSets

CONSTANTS
    RegistryCalls,      \* requests under way
    Contracts,          \* contracts a transaction may call
    Methods,            \* methods a permission may name
    Permissions,        \* limits a request may ask for
    ValidUntils,        \* ends of the validity a request may name
    ExpirationDays,     \* lives a request may name for a key
    Month,              \* the default of both, from the present
    Hour,               \* what a key must have left to be found
    MaxRegistryTime,    \* bound: the clock
    MaxWallets,         \* bound: wallets created
    MaxKeys,            \* bound: session keys created
    MaxRegistryRequests,\* bound: requests served
    MaxRegistryFaults   \* bound: calls of PostgreSQL or of ZeroDev that fail

Limits == [contracts : SUBSET Contracts, methods : SUBSET Methods, gas : Nat, amount : Nat]

ASSUME RegistryAssumption ==
    /\ Contracts # {} /\ Permissions \subseteq Limits
    /\ ValidUntils \subseteq Nat /\ ExpirationDays \subseteq Nat
    /\ Month \in Nat /\ Hour \in Nat /\ MaxRegistryTime \in Nat
    /\ MaxWallets \in Nat /\ MaxKeys \in Nat
    /\ MaxRegistryRequests \in Nat /\ MaxRegistryFaults \in Nat

VARIABLES
    wallets,            \* table aa_wallets: id |-> row or NoWallet
    privateKeys,        \* table wallet_keys: wallets whose private key is kept
    onChain,            \* wallets deployed
    keys,               \* table session_keys: id |-> row or NoKey
    registryTime,       \* the clock
    registryCall,       \* what each request does
    registryRequests,   \* requests served so far
    registryFaults      \* calls that failed so far

registryTables == <<wallets, privateKeys, onChain, keys>>
registryVars == <<registryTables, registryTime, registryCall, registryRequests, registryFaults>>

WalletIds == 1..MaxWallets
KeyIds == 1..MaxKeys
\* "overlapped": another request was under way while the row's creator was.
WalletRow == [deployed : BOOLEAN, overlapped : BOOLEAN]
KeyRow == [wallet : WalletIds, permissions : Limits, until : Nat, active : BOOLEAN,
           expires : Nat, auto : BOOLEAN, overlapped : BOOLEAN]
NoWallet == [none |-> "wallet"]
NoKey == [none |-> "key"]

RegistryOps == {"wallet", "status", "create", "auto", "execute", "revoke"}
\* "expires" is the life asked for until the key is made, and then its end.  "sent": the user
\* operation went out.  "broken": the request failed because a call it made did.
RegistryRequest == [op : RegistryOps \cup {"none"},
                    pc : {"done", "lookup", "save", "saveKey", "deploy", "note", "chain", "search",
                          "find", "private", "insert", "validate", "retire", "send", "again",
                          "receipt"},
                    wallet : 0..MaxWallets, key : 0..MaxKeys, permissions : Limits,
                    until : Nat, expires : Nat, target : Contracts, wait : BOOLEAN,
                    sent : BOOLEAN, broken : BOOLEAN, overlapped : BOOLEAN,
                    outcome : {"none", "ok", "failed", "rejected", "notFound"}]

NoTarget == CHOOSE x \in Contracts : TRUE
NoLimits == [contracts |-> {}, methods |-> {}, gas |-> 0, amount |-> 0]
NoRegistryRequest == [op |-> "none", pc |-> "done", wallet |-> 0, key |-> 0,
                      permissions |-> NoLimits, until |-> 0, expires |-> 0, target |-> NoTarget,
                      wait |-> FALSE, sent |-> FALSE, broken |-> FALSE, overlapped |-> FALSE,
                      outcome |-> "none"]

RegistryTypeOK ==
    /\ wallets \in [WalletIds -> WalletRow \cup {NoWallet}]
    /\ keys \in [KeyIds -> KeyRow \cup {NoKey}]
    /\ privateKeys \subseteq WalletIds /\ onChain \subseteq WalletIds
    /\ registryTime \in 0..MaxRegistryTime
    /\ registryCall \in [RegistryCalls -> RegistryRequest]
    /\ registryRequests \in 0..MaxRegistryRequests /\ registryFaults \in 0..MaxRegistryFaults

SavedWallets == {w \in WalletIds : wallets[w] # NoWallet}
SavedKeys == {k \in KeyIds : keys[k] # NoKey}

RegistryInit ==
    /\ wallets = [w \in WalletIds |-> NoWallet] /\ privateKeys = {} /\ onChain = {}
    /\ keys = [k \in KeyIds |-> NoKey]
    /\ registryCall = [c \in RegistryCalls |-> NoRegistryRequest]
    /\ registryTime = 0 /\ registryRequests = 0 /\ registryFaults = 0

Reached(c, pc) == registryCall[c].pc = pc
RegistryGoesTo(c, pc) == registryCall' = [registryCall EXCEPT ![c].pc = pc]
AnsweredWith(r, outcome) ==
    [r EXCEPT !.op = "none", !.pc = "done", !.outcome = outcome, !.wallet = 0,
              !.permissions = NoLimits, !.until = 0, !.expires = 0, !.target = NoTarget,
              !.overlapped = FALSE]
RegistryEnded(c, outcome) ==
    registryCall' = [registryCall EXCEPT ![c] = AnsweredWith(registryCall[c], outcome)]

RegistryWorks == UNCHANGED registryFaults
RegistryFails == registryFaults < MaxRegistryFaults /\ registryFaults' = registryFaults + 1

\* A call the request depends on fails: the error is the answer.
RegistryBreaks(c, sent) ==
    /\ RegistryFails
    /\ registryCall' = [registryCall EXCEPT ![c] =
         [AnsweredWith(registryCall[c], "failed") EXCEPT !.broken = TRUE, !.sent = sent]]

-----------------------------------------------------------------------------
(* A request arrives, and it overlaps with those under way.                *)

OpStarts(op) == CASE op = "wallet" -> "lookup" [] op = "status" -> "chain"
                  [] op = "create" -> "private" [] op = "auto" -> "find"
                  [] op = "execute" -> "validate" [] op = "revoke" -> "search"

RegistryArrives(c, asked) ==
    /\ Reached(c, "done") /\ registryRequests < MaxRegistryRequests
    /\ registryRequests' = registryRequests + 1
    /\ LET busy == {d \in RegistryCalls : ~Reached(d, "done")} IN
       registryCall' = [d \in RegistryCalls |->
         IF d = c THEN [asked EXCEPT !.pc = OpStarts(asked.op), !.overlapped = busy # {}]
         ELSE [registryCall[d] EXCEPT !.overlapped = @ \/ d \in busy]]
    /\ UNCHANGED <<registryTables, registryTime, registryFaults>>

-----------------------------------------------------------------------------
(* createWallet: an existing wallet is returned.  The two inserts are not  *)
(* one transaction, for they do not use the client it was begun on.        *)

LookUpWallet(c) ==
    /\ registryCall[c].op = "wallet" /\ Reached(c, "lookup")
    /\ \/ RegistryWorks /\ SavedWallets # {} /\ RegistryEnded(c, "ok")
       \/ RegistryWorks /\ SavedWallets = {} /\ RegistryGoesTo(c, "save")
       \/ RegistryBreaks(c, registryCall[c].sent)
    /\ UNCHANGED <<registryTables, registryRequests>>

SaveWallet(c) ==
    /\ Reached(c, "save")
    /\ \/ \E w \in WalletIds \ SavedWallets :
            /\ \A v \in 1..(w - 1) : v \in SavedWallets
            /\ wallets' = [wallets EXCEPT
                 ![w] = [deployed |-> FALSE, overlapped |-> registryCall[c].overlapped]]
            /\ registryCall' = [registryCall EXCEPT ![c].pc = "saveKey", ![c].wallet = w]
            /\ RegistryWorks
       \/ RegistryBreaks(c, registryCall[c].sent) /\ UNCHANGED wallets
    /\ UNCHANGED <<privateKeys, onChain, keys, registryRequests>>

SavePrivateKey(c) ==
    /\ Reached(c, "saveKey")
    /\ \/ /\ RegistryWorks /\ RegistryGoesTo(c, "deploy")
          /\ privateKeys' = privateKeys \cup {registryCall[c].wallet}
       \/ RegistryBreaks(c, registryCall[c].sent) /\ UNCHANGED privateKeys
    /\ UNCHANGED <<wallets, onChain, keys, registryRequests>>

\* An error of the deployment or of the note is logged, and the wallet is returned.
Deploy(c) ==
    /\ Reached(c, "deploy")
    /\ \/ RegistryWorks /\ onChain' = onChain \cup {registryCall[c].wallet} /\ RegistryGoesTo(c, "note")
       \/ RegistryFails /\ UNCHANGED onChain /\ RegistryEnded(c, "ok")
    /\ UNCHANGED <<wallets, privateKeys, keys, registryRequests>>

NoteDeployed(c) ==
    /\ Reached(c, "note")
    /\ \/ /\ RegistryWorks
          /\ wallets' = [wallets EXCEPT ![registryCall[c].wallet].deployed = TRUE]
       \/ RegistryFails /\ UNCHANGED wallets
    /\ RegistryEnded(c, "ok")
    /\ UNCHANGED <<privateKeys, onChain, keys, registryRequests>>

\* getWalletStatus with checkOnchain: the row is corrected when the chain says otherwise.  A
\* deployed row is never corrected back, since a deployed wallet stays deployed.
CheckOnChain(c) ==
    /\ Reached(c, "chain")
    /\ \/ /\ RegistryWorks
          /\ LET w == registryCall[c].wallet IN
             IF wallets[w].deployed # (w \in onChain) THEN RegistryGoesTo(c, "note")
             ELSE RegistryEnded(c, "ok")
       \/ RegistryFails /\ RegistryEnded(c, "ok")
    /\ UNCHANGED <<registryTables, registryRequests>>

-----------------------------------------------------------------------------
(* Session keys: find one that is compatible, or create one.               *)

\* The key's validity ends no sooner than what is asked, and not within the hour.
LastsFor(existing, required) ==
    existing.until >= registryTime + Hour /\ existing.until >= required.until

\* Mutant: the existing key must not exceed what is asked.
CompatibleSwapped(existing, required) ==
    /\ existing.permissions.contracts \subseteq required.permissions.contracts
    /\ existing.permissions.methods \subseteq required.permissions.methods
    /\ existing.permissions.gas <= required.permissions.gas
    /\ existing.permissions.amount <= required.permissions.amount
    /\ LastsFor(existing, required)

\* arePermissionsCompatible: no limit asked for exceeds the key's.
Compatible(existing, required) ==
    /\ required.permissions.contracts \subseteq existing.permissions.contracts
    /\ required.permissions.methods \subseteq existing.permissions.methods
    /\ required.permissions.gas <= existing.permissions.gas
    /\ required.permissions.amount <= existing.permissions.amount
    /\ LastsFor(existing, required)

\* createPoliciesFromPermissions: without contracts there is no call policy.
Granted(permissions) ==
    IF permissions.contracts = {} THEN Contracts ELSE permissions.contracts

Expired(k) == keys[k].expires <= registryTime
Usable(k) == keys[k].active /\ ~Expired(k)

FindKey(c) ==
    /\ Reached(c, "find")
    /\ LET r == registryCall[c]
           found == {k \in SavedKeys : /\ keys[k].wallet = r.wallet /\ Usable(k)
                                       /\ Compatible(keys[k], r)}
           newest == CHOOSE k \in found : \A j \in found : j <= k IN
       \/ RegistryWorks /\ found = {} /\ RegistryGoesTo(c, "private")
       \/ /\ RegistryWorks /\ found # {}
          /\ registryCall' = [registryCall EXCEPT ![c].pc = "validate", ![c].key = newest]
       \/ RegistryBreaks(c, registryCall[c].sent)
    /\ UNCHANGED <<registryTables, registryRequests>>

\* getWalletPrivateKey: a wallet without a kept key can't approve; nor can ZeroDev when it fails.
\* The life of the key is counted from the approval.
ReadPrivateKey(c) ==
    /\ Reached(c, "private")
    /\ \/ /\ RegistryWorks /\ registryCall[c].wallet \in privateKeys
          /\ registryCall' = [registryCall EXCEPT ![c].pc = "insert",
                                                  ![c].expires = registryTime + @]
       \/ RegistryWorks /\ registryCall[c].wallet \notin privateKeys /\ RegistryEnded(c, "failed")
       \/ RegistryBreaks(c, registryCall[c].sent)
    /\ UNCHANGED <<registryTables, registryRequests>>

InsertKey(c) ==
    /\ Reached(c, "insert")
    /\ LET r == registryCall[c] IN
       \/ \E k \in KeyIds \ SavedKeys :
            /\ \A j \in 1..(k - 1) : j \in SavedKeys
            /\ keys' = [keys EXCEPT ![k] =
                 [wallet |-> r.wallet, permissions |-> r.permissions, until |-> r.until,
                  active |-> TRUE, expires |-> r.expires, auto |-> r.op = "auto",
                  overlapped |-> r.overlapped]]
            /\ IF r.op = "auto"
                 THEN registryCall' = [registryCall EXCEPT ![c].pc = "validate", ![c].key = k]
                 ELSE RegistryEnded(c, "ok")
            /\ RegistryWorks
       \/ RegistryBreaks(c, registryCall[c].sent) /\ UNCHANGED keys
    /\ UNCHANGED <<wallets, privateKeys, onChain, registryRequests>>

-----------------------------------------------------------------------------
(* Use: validateSessionKey, then the user operation, and for a caller who  *)
(* waits validateSessionKey once more and the receipt.                     *)

Validate(c) ==
    /\ Reached(c, "validate") \/ Reached(c, "again")
    /\ LET k == registryCall[c].key
           next == IF Reached(c, "validate") THEN "send" ELSE "receipt" IN
       \/ RegistryWorks /\ Usable(k) /\ RegistryGoesTo(c, next)
       \/ RegistryWorks /\ keys[k].active /\ Expired(k) /\ RegistryGoesTo(c, "retire")
       \/ RegistryWorks /\ ~keys[k].active /\ RegistryEnded(c, "failed")
       \/ RegistryBreaks(c, registryCall[c].sent)
    /\ UNCHANGED <<registryTables, registryRequests>>

\* An expired key is revoked; an error on the chain is logged, and the row follows all the same.
Retire(c) ==
    /\ Reached(c, "retire")
    /\ \/ RegistryWorks /\ keys' = [keys EXCEPT ![registryCall[c].key].active = FALSE]
       \/ RegistryFails /\ UNCHANGED keys
    /\ RegistryEnded(c, IF registryCall[c].op = "revoke" THEN "ok" ELSE "failed")
    /\ UNCHANGED <<wallets, privateKeys, onChain, registryRequests>>

\* The bundler has taken the operation: who waits goes on, the others are answered.
Sent(c) ==
    registryCall' = [registryCall EXCEPT ![c] =
      IF @.wait THEN [@ EXCEPT !.pc = "again", !.sent = TRUE]
      ELSE [AnsweredWith(@, "ok") EXCEPT !.sent = TRUE]]

\* Mutant: a key serves one transaction.
SendOnce(c) ==
    /\ Reached(c, "send") /\ RegistryWorks /\ Sent(c)
    /\ registryCall[c].target \in Granted(keys[registryCall[c].key].permissions)
    /\ keys' = [keys EXCEPT ![registryCall[c].key].active = FALSE]
    /\ UNCHANGED <<wallets, privateKeys, onChain, registryRequests>>

\* executeWithSessionKey: the approval the key was created with decides.  An error can mean
\* that the operation did not go out, or that only the bundler's reply was lost.
Send(c) ==
    /\ Reached(c, "send")
    /\ LET r == registryCall[c]
           granted == r.target \in Granted(keys[r.key].permissions) IN
       \/ RegistryWorks /\ granted /\ Sent(c)
       \/ RegistryWorks /\ ~granted /\ RegistryEnded(c, "rejected")
       \/ RegistryBreaks(c, FALSE)
       \/ granted /\ RegistryBreaks(c, TRUE)
    /\ UNCHANGED <<registryTables, registryRequests>>

\* waitForUserOperationReceipt answers, or its time is over.
Receipt(c) ==
    /\ Reached(c, "receipt")
    /\ \/ RegistryWorks /\ RegistryEnded(c, "ok")
       \/ RegistryBreaks(c, registryCall[c].sent)
    /\ UNCHANGED <<registryTables, registryRequests>>

\* DELETE /session-keys/:id asks for the keys of the wallet with the empty identifier.
Searched == {k \in SavedKeys : keys[k].wallet \notin WalletIds}

RevokeKey(c) ==
    /\ Reached(c, "search")
    /\ \/ /\ RegistryWorks
          /\ IF registryCall[c].key \in Searched THEN RegistryGoesTo(c, "retire")
             ELSE RegistryEnded(c, "notFound")
       \/ RegistryBreaks(c, registryCall[c].sent)
    /\ UNCHANGED <<registryTables, registryRequests>>
-----------------------------------------------------------------------------
WalletAsked(op, w) == [NoRegistryRequest EXCEPT !.op = op, !.wallet = w]
KeyAsked(op, w, p, until, days) ==
    [WalletAsked(op, w) EXCEPT !.permissions = p, !.until = until, !.expires = days]

RegistryArrival(c) ==
    \/ RegistryArrives(c, WalletAsked("wallet", 0))
    \/ \E w \in SavedWallets : RegistryArrives(c, WalletAsked("status", w))
    \/ \E w \in SavedWallets, p \in Permissions, until \in ValidUntils,
          days \in ExpirationDays \cup {Month} :
         RegistryArrives(c, KeyAsked("create", w, p, until, days))
    \/ \E w \in SavedWallets, p \in Permissions,
          until \in ValidUntils \cup {registryTime + Month}, wait \in BOOLEAN : \E x \in Granted(p) :
         RegistryArrives(c, [KeyAsked("auto", w, p, until, Month) EXCEPT !.target = x, !.wait = wait])
    \/ \E k \in SavedKeys, x \in Contracts, wait \in BOOLEAN :
         RegistryArrives(c, [WalletAsked("execute", keys[k].wallet) EXCEPT
                               !.key = k, !.target = x, !.wait = wait])
    \/ \E k \in SavedKeys : RegistryArrives(c, [WalletAsked("revoke", 0) EXCEPT !.key = k])

RegistryStep(c) ==
    \/ LookUpWallet(c) \/ SaveWallet(c) \/ SavePrivateKey(c) \/ Deploy(c) \/ NoteDeployed(c)
    \/ CheckOnChain(c) \/ FindKey(c) \/ ReadPrivateKey(c) \/ InsertKey(c)
    \/ Validate(c) \/ Retire(c) \/ Send(c) \/ Receipt(c) \/ RevokeKey(c)

RegistryTimePasses ==
    /\ registryTime < MaxRegistryTime /\ registryTime' = registryTime + 1
    /\ UNCHANGED <<registryTables, registryCall, registryRequests, registryFaults>>

RegistryNext ==
    \/ \E c \in RegistryCalls : RegistryStep(c) /\ UNCHANGED registryTime
    \/ \E c \in RegistryCalls : RegistryArrival(c)
    \/ RegistryTimePasses

RegistrySpec == RegistryInit /\ [][RegistryNext]_registryVars
-----------------------------------------------------------------------------
(* createWallet and the search for a compatible key prevent duplicates,    *)
(* except of requests that overlapped: a second wallet, or a second key    *)
(* although an earlier usable key of the wallet allows all that it does,   *)
(* lasts as long and has an hour left, was made by a request that was not  *)
(* alone, or by an explicit createSessionKey.  A request that names no     *)
(* validity asks for a month from now: no key of an earlier moment lasts   *)
(* as long, and the key it is given is no duplicate in this sense.         *)
TwinsNeedOverlap ==
    /\ \A v, w \in SavedWallets : v < w => wallets[w].overlapped
    /\ \A j, k \in SavedKeys :
          LET old == keys[j]  new == keys[k] IN
          /\ j < k /\ old.wallet = new.wallet /\ Usable(j) /\ new.auto
          /\ new.permissions.contracts \subseteq old.permissions.contracts
          /\ new.permissions.methods \subseteq old.permissions.methods
          /\ new.permissions.gas <= old.permissions.gas
          /\ new.permissions.amount <= old.permissions.amount
          /\ new.until <= old.until /\ registryTime + Hour <= old.until
          => new.overlapped

(* A request answered with an error although its user operation was sent   *)
(* failed because a call it made did, the bundler's reply or the receipt   *)
(* being lost among them, or it waited for the receipt and its key has     *)
(* expired: nobody else is told to try again what is done.                 *)
SentIsToldUnlessExpired ==
    \A c \in RegistryCalls :
        LET r == registryCall[c] IN
        r.pc = "done" /\ r.sent /\ r.outcome # "ok" =>
            r.broken \/ (r.wait /\ Expired(r.key))
=============================================================================
