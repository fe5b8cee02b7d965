---------------------------- MODULE AuthSessions ----------------------------
(***************************************************************************)
(* Tokens and sessions of one user of the auth service: authController.ts, *)
(* sessionController.ts, userController.ts (deactivate), the authenticate  *)
(* handler with its cache of revoked tokens, jwtService.ts and             *)
(* redisService.ts.  A token pair is a number: the access token and the    *)
(* refresh token issued together.  PostgreSQL holds the sessions, Redis    *)
(* the refresh tokens and the revoked access tokens; the handlers await    *)
(* each in turn or all at once, and go on when most of these calls fail.   *)
(*                                                                         *)
(* Left out: the counters of attempts, the checks of a token's form, and   *)
(* the cached user record.  deleteAllRefreshTokens scans for a pattern     *)
(* without the key prefix ioredis puts before every key, so it finds       *)
(* nothing to delete.                                                      *)
(***************************************************************************)
EXTENDS Naturals, FiniteSets

CONSTANTS
    AuthCalls,     \* requests under way at the auth service
    MaxPairs,      \* bound: token pairs issued
    MaxRequests,   \* bound: requests served
    MaxFaults      \* bound: calls of Redis and PostgreSQL that fail

ASSUME AuthAssumption == MaxPairs \in Nat \ {0} /\ MaxRequests \in Nat /\ MaxFaults \in Nat

VARIABLES
    issued,        \* token pairs issued so far: 1..issued
    sessions,      \* table user_sessions
    refreshKeys,   \* Redis: the refresh tokens that are accepted
    blacklist,     \* Redis: the access tokens that are revoked
    expired,       \* access tokens whose time is over
    active,        \* users.is_active
    heldAnswers,   \* the process's blacklistCache: token |-> answer
    authCall,      \* what each request does
    handed,        \* history: pairs a client was given
    ended,         \* history: refresh tokens deleted after they were handed out
    requests,      \* requests served so far
    faults         \* calls that failed so far

stores == <<issued, sessions, refreshKeys, blacklist, expired, active>>
history == <<handed, ended, requests>>
authVars == <<stores, heldAnswers, authCall, history, faults>>

Pairs == 1..MaxPairs
Unknown == "unknown"
NoSession == [id |-> 0, access |-> 0, refresh |-> 0]
\* A session is known by the pair of its login.
Session == [id : 0..MaxPairs, access : 0..MaxPairs, refresh : 0..MaxPairs]
AuthOps == {"login", "refresh", "verify", "logout", "revoke", "revokeOthers", "deactivate"}
Tasks == {"row", "blacklist", "key", "current", "inactive", "rows"}

AuthRequest == [op : AuthOps \cup {"none"},
                pc : {"idle", "issue", "session", "store", "check", "user", "find", "update",
                      "lookup", "auth", "admit", "tasks"},
                token : 0..MaxPairs, target : 0..MaxPairs, new : 0..MaxPairs,
                read : SUBSET Session, black : BOOLEAN, keep : 0..MaxPairs,
                tasks : SUBSET Tasks, raced : BOOLEAN]
NoAuthRequest == [op |-> "none", pc |-> "idle", token |-> 0, target |-> 0, new |-> 0,
                  read |-> {}, black |-> FALSE, keep |-> 0, tasks |-> {}, raced |-> FALSE]

AuthTypeOK ==
    /\ issued \in 0..MaxPairs
    /\ sessions \subseteq [id : Pairs, access : Pairs, refresh : Pairs]
    /\ refreshKeys \subseteq 1..issued /\ blacklist \subseteq 1..issued
    /\ expired \subseteq 1..issued /\ active \in BOOLEAN
    /\ heldAnswers \in [Pairs -> {Unknown, "revoked", "valid"}]
    /\ authCall \in [AuthCalls -> AuthRequest]
    /\ handed \subseteq 1..issued /\ ended \subseteq handed
    /\ requests \in 0..MaxRequests /\ faults \in 0..MaxFaults

\* The user has logged in once.
AuthInit ==
    /\ issued = 1 /\ sessions = {[id |-> 1, access |-> 1, refresh |-> 1]} /\ refreshKeys = {1}
    /\ blacklist = {} /\ expired = {} /\ active = TRUE /\ handed = {1} /\ ended = {}
    /\ requests = 0 /\ faults = 0
    /\ heldAnswers = [t \in Pairs |-> Unknown]
    /\ authCall = [c \in AuthCalls |-> NoAuthRequest]

Serving(c, op, pc) == authCall[c].op = op /\ authCall[c].pc = pc
NextPc(c, pc) == authCall' = [authCall EXCEPT ![c].pc = pc]
Answered(c) == authCall' = [authCall EXCEPT ![c] = NoAuthRequest]

\* A call of Redis or PostgreSQL works, or it fails and the handler goes on.
Works == UNCHANGED faults
Fails == faults < MaxFaults /\ faults' = faults + 1

\* SELECT ... WHERE expires_at > NOW(): the row carries the access token's expiry.
Live(s) == s.access \notin expired

-----------------------------------------------------------------------------
(* A request reaches its handler; all but login and refresh authenticate.  *)

FirstPc(op) == CASE op = "login" -> "issue" [] op = "refresh" -> "check" [] OTHER -> "auth"

AuthArrives(c, op, token, target) ==
    /\ authCall[c].pc = "idle" /\ requests < MaxRequests
    /\ requests' = requests + 1
    /\ authCall' = [authCall EXCEPT ![c] = [NoAuthRequest EXCEPT
         !.op = op, !.pc = FirstPc(op), !.token = token, !.target = target]]
    /\ UNCHANGED <<stores, heldAnswers, handed, ended, faults>>

\* jwt.verify, then the answer held for the token, or Redis; an error of Redis means "valid".
ReadBlacklist(c) ==
    /\ authCall[c].pc = "auth"
    /\ LET t == authCall[c].token IN
       \/ /\ t \in expired \/ heldAnswers[t] = "revoked"
          /\ Answered(c) /\ Works
       \/ /\ t \notin expired /\ heldAnswers[t] = "valid"
          /\ NextPc(c, "admit") /\ Works
       \/ /\ t \notin expired /\ heldAnswers[t] = Unknown
          /\ \/ /\ authCall' = [authCall EXCEPT ![c].black = t \in blacklist, ![c].pc = "admit"]
                /\ Works
             \/ NextPc(c, "admit") /\ Fails
    /\ UNCHANGED <<stores, heldAnswers, history>>

\* Mutant: only the answers "revoked" are dropped after a minute.
DroppedRevoked(t) == heldAnswers[t] = "revoked"

Dropped(t) == heldAnswers[t] # Unknown

\* The timer of the held answer, a minute after it was set; cleanupCaches.
ForgetAnswer(t) ==
    /\ Dropped(t)
    /\ heldAnswers' = [heldAnswers EXCEPT ![t] = Unknown]
    /\ UNCHANGED <<stores, authCall, history, faults>>

\* The answer is held, then the user is asked for.
Admit(c) ==
    /\ authCall[c].pc = "admit"
    /\ LET r == authCall[c] IN
       /\ heldAnswers' = [heldAnswers EXCEPT ![r.token] = IF r.black THEN "revoked" ELSE "valid"]
       /\ IF r.black \/ ~active \/ r.op = "verify"
            THEN Answered(c)
            ELSE authCall' = [authCall EXCEPT
                   ![c].pc = IF r.op = "deactivate" THEN "tasks" ELSE "find",
                   ![c].tasks = IF r.op = "deactivate" THEN {"inactive", "row"} ELSE {}]
    /\ UNCHANGED <<stores, history, faults>>

-----------------------------------------------------------------------------
(* Login: a pair, a row, a key.  A row or key that can't be stored is not  *)
(* an error.                                                               *)

\* Mutant: the identifiers come from a counter nobody advances.
IssueUncounted(c, pc) ==
    /\ issued < MaxPairs
    /\ authCall' = [authCall EXCEPT ![c].new = issued + 1, ![c].pc = pc]
    /\ UNCHANGED <<stores, heldAnswers, history, faults>>

\* createTokenPair: new identifiers for both tokens.
Issue(c, pc) ==
    /\ issued < MaxPairs
    /\ issued' = issued + 1
    /\ authCall' = [authCall EXCEPT ![c].new = issued + 1, ![c].pc = pc]
    /\ UNCHANGED <<sessions, refreshKeys, blacklist, expired, active, heldAnswers, history, faults>>

LoginIssue(c) == Serving(c, "login", "issue") /\ active /\ Issue(c, "session")

\* getUserByPrivyId finds active users only, and creating the user again fails; refresh asks
\* getUserById.
InactiveRefused(c) ==
    /\ Serving(c, "login", "issue") \/ Serving(c, "refresh", "user")
    /\ ~active
    /\ Answered(c)
    /\ UNCHANGED <<stores, heldAnswers, history, faults>>

LoginSession(c) ==
    /\ Serving(c, "login", "session")
    /\ LET n == authCall[c].new IN
       \/ Works /\ sessions' = sessions \cup {[id |-> n, access |-> n, refresh |-> n]}
       \/ Fails /\ UNCHANGED sessions
    /\ NextPc(c, "store")
    /\ UNCHANGED <<issued, refreshKeys, blacklist, expired, active, heldAnswers, history>>

\* The pair goes to the client.
Hands(c) == handed' = handed \cup {authCall[c].new} /\ UNCHANGED <<ended, requests>> /\ Answered(c)

LoginStore(c) ==
    /\ Serving(c, "login", "store")
    /\ \/ Works /\ refreshKeys' = refreshKeys \cup {authCall[c].new}
       \/ Fails /\ UNCHANGED refreshKeys
    /\ Hands(c)
    /\ UNCHANGED <<issued, sessions, blacklist, expired, active, heldAnswers>>

-----------------------------------------------------------------------------
(* Refresh: the key is checked, a new pair issued, the row updated.  The   *)
(* new refresh token is not stored, and the old one stays.                 *)

RefreshCheck(c) ==
    /\ Serving(c, "refresh", "check")
    /\ \/ authCall[c].token \in refreshKeys /\ NextPc(c, "user") /\ Works
       \/ authCall[c].token \notin refreshKeys /\ Answered(c) /\ Works
       \/ Answered(c) /\ Fails
    /\ UNCHANGED <<stores, heldAnswers, history>>

RefreshIssue(c) == Serving(c, "refresh", "user") /\ active /\ Issue(c, "lookup")

\* A row whose access token has expired is not found, and not updated.
RefreshFind(c) ==
    /\ Serving(c, "refresh", "lookup")
    /\ LET found == {s \in sessions : s.refresh = authCall[c].token /\ Live(s)} IN
       \/ /\ found # {} /\ Works /\ UNCHANGED history
          /\ authCall' = [authCall EXCEPT ![c].read = found, ![c].pc = "update"]
       \/ found = {} /\ Works /\ Hands(c)
       \/ Fails /\ Hands(c)
    /\ UNCHANGED <<stores, heldAnswers>>

RowsRead(c) == {s.id : s \in authCall[c].read}

\* The rows with the new access token in those that were found.
Renewed(c) ==
    {IF s.id \in RowsRead(c) THEN [s EXCEPT !.access = authCall[c].new] ELSE s : s \in sessions}

\* The request is answered; requests that have read a row of the same id are marked.
AnsweredRacing(c) ==
    authCall' = [d \in AuthCalls |->
      IF d = c THEN NoAuthRequest
      ELSE [authCall[d] EXCEPT !.raced = @ \/ RowsRead(d) \cap RowsRead(c) # {}]]

\* Mutant: the refresh token is stored again, to prolong it.
RefreshUpdateAgain(c) ==
    /\ Serving(c, "refresh", "update") /\ Works
    /\ sessions' = Renewed(c) /\ refreshKeys' = refreshKeys \cup {authCall[c].token}
    /\ handed' = handed \cup {authCall[c].new}
    /\ AnsweredRacing(c)
    /\ UNCHANGED <<issued, blacklist, expired, active, heldAnswers, ended, requests>>

RefreshUpdate(c) ==
    /\ Serving(c, "refresh", "update")
    /\ \/ Works /\ sessions' = Renewed(c)
       \/ Fails /\ UNCHANGED sessions
    /\ handed' = handed \cup {authCall[c].new}
    /\ AnsweredRacing(c)
    /\ UNCHANGED <<issued, refreshKeys, blacklist, expired, active, heldAnswers, ended, requests>>

-----------------------------------------------------------------------------
(* Ending sessions.  The rows are read first; then all the deletions are   *)
(* started together, and each may fail.                                    *)

Ends(c) == authCall[c].op \in {"logout", "revoke", "revokeOthers"}

\* logout asks for its own live row, revoke for a row by id, revokeOthers for all others.
RowsFor(r) ==
    CASE r.op = "logout" -> {s \in sessions : s.access = r.token /\ Live(s)}
      [] r.op = "revoke" -> {s \in sessions : s.id = r.target}
      [] r.op = "revokeOthers" -> {s \in sessions : s.access # r.token}

\* Mutant: a logout is only the end of the access token.
TasksForAccess(op, rows) ==
    IF op = "logout" THEN {"row", "blacklist"}
    ELSE IF rows = {} THEN {} ELSE {"row", "blacklist", "key"}

TasksFor(op, rows) ==
    CASE op = "logout" -> {"row", "blacklist"} \cup (IF rows = {} THEN {} ELSE {"key"})
      [] op = "revoke" -> IF rows = {} THEN {} ELSE {"row", "blacklist", "key"}
      [] op = "revokeOthers" -> IF rows = {} THEN {} ELSE {"row", "blacklist", "current"}

SessionsFound(c, rows) ==
    authCall' = [authCall EXCEPT ![c].read = rows, ![c].pc = "tasks",
                                 ![c].tasks = TasksFor(authCall[c].op, rows)]

\* getSessionByToken swallows an error: logout goes on without a row; the others give up.
FindSessions(c) ==
    /\ Ends(c) /\ authCall[c].pc = "find"
    /\ \/ Works /\ SessionsFound(c, RowsFor(authCall[c]))
       \/ Fails /\ IF authCall[c].op = "logout" THEN SessionsFound(c, {}) ELSE Answered(c)
    /\ UNCHANGED <<stores, heldAnswers, history>>

Deleted(r) ==
    CASE r.op = "logout" -> {s \in sessions : s.access = r.token}
      [] r.op = "revoke" -> {s \in sessions : s.id = r.target}
      [] r.op = "revokeOthers" -> {s \in sessions : s.access # r.token}
      [] r.op = "deactivate" -> sessions

Revoked(r) == IF r.op = "logout" THEN {r.token} ELSE {s.access : s \in {x \in r.read : Live(x)}}

Task(c, task) ==
    /\ authCall[c].pc = "tasks" /\ task \in authCall[c].tasks
    /\ authCall' = [authCall EXCEPT ![c].tasks = @ \ {task}]

DeleteRows(c) ==
    /\ Task(c, "row")
    /\ \/ Works /\ sessions' = sessions \ Deleted(authCall[c])
       \/ Fails /\ UNCHANGED sessions
    /\ UNCHANGED <<issued, refreshKeys, blacklist, expired, active, heldAnswers, history>>

Blacklist(c) ==
    /\ Task(c, "blacklist")
    /\ \/ Works /\ blacklist' = blacklist \cup Revoked(authCall[c])
       \/ Fails /\ UNCHANGED blacklist
    /\ UNCHANGED <<issued, sessions, refreshKeys, expired, active, heldAnswers, history>>

DeleteKeys(c) ==
    /\ Task(c, "key")
    /\ LET gone == {s.refresh : s \in authCall[c].read} \ {authCall[c].keep} IN
       \/ Works /\ refreshKeys' = refreshKeys \ gone /\ ended' = ended \cup (gone \cap handed)
       \/ Fails /\ UNCHANGED <<refreshKeys, ended>>
    /\ UNCHANGED <<issued, sessions, blacklist, expired, active, heldAnswers, handed, requests>>

\* revokeOthers asks for the refresh token of the row with the caller's access token; if that
\* fails, so does the request, with what it has started still under way.
ReadCurrent(c) ==
    /\ authCall[c].pc = "tasks" /\ "current" \in authCall[c].tasks
    /\ LET own == {s.refresh : s \in {x \in sessions : x.access = authCall[c].token}}
           left == authCall[c].tasks \ {"current"} IN
       \/ /\ Works
          /\ \E k \in IF own = {} THEN {0} ELSE own :
                authCall' = [authCall EXCEPT ![c].keep = k, ![c].tasks = left \cup {"key"}]
       \/ Fails /\ authCall' = [authCall EXCEPT ![c].tasks = left]
    /\ UNCHANGED <<stores, heldAnswers, history>>

Deactivate(c) ==
    /\ Task(c, "inactive")
    /\ \/ Works /\ active' = FALSE
       \/ Fails /\ UNCHANGED active
    /\ UNCHANGED <<issued, sessions, refreshKeys, blacklist, expired, heldAnswers, history>>

AllSettled(c) ==
    /\ authCall[c].pc = "tasks" /\ authCall[c].tasks = {}
    /\ Answered(c)
    /\ UNCHANGED <<stores, heldAnswers, history, faults>>

-----------------------------------------------------------------------------
\* The hour of an access token is over, and the row that carries its expiry is dead.
AccessExpires(t) ==
    /\ t \in handed \ expired
    /\ expired' = expired \cup {t}
    /\ UNCHANGED <<issued, sessions, refreshKeys, blacklist, active, heldAnswers, authCall,
                   history, faults>>

AuthStep(c) ==
    \/ ReadBlacklist(c) \/ Admit(c) \/ InactiveRefused(c)
    \/ LoginIssue(c) \/ LoginSession(c) \/ LoginStore(c)
    \/ RefreshCheck(c) \/ RefreshIssue(c) \/ RefreshFind(c) \/ RefreshUpdate(c)
    \/ FindSessions(c) \/ DeleteRows(c) \/ Blacklist(c) \/ DeleteKeys(c) \/ ReadCurrent(c)
    \/ Deactivate(c) \/ AllSettled(c)

AuthArrival(c) ==
    \/ AuthArrives(c, "login", 0, 0)
    \/ \E t \in handed, op \in {"refresh", "verify", "logout", "revokeOthers", "deactivate"} :
         AuthArrives(c, op, t, 0)
    \/ \E t \in handed, s \in sessions : AuthArrives(c, "revoke", t, s.id)

AuthNext ==
    \/ \E c \in AuthCalls : AuthStep(c) \/ AuthArrival(c)
    \/ \E t \in Pairs : ForgetAnswer(t) \/ AccessExpires(t)

AuthSpec == AuthInit /\ [][AuthNext]_authVars

\* The awaits of a request end, and the timer of a held answer runs out.
FairAuth ==
    /\ \A c \in AuthCalls : WF_authVars(AuthStep(c))
    /\ \A t \in Pairs : WF_authVars(ForgetAnswer(t))

-----------------------------------------------------------------------------
(* A refresh token whose session was ended by logout, revoke or            *)
(* revoke-others after it was handed out is not accepted any more: no      *)
(* login or refresh under way brings its key back.                         *)
EndedStaysEnded == ended \cap refreshKeys = {}

(* A logout that found its session and met no error leaves neither the row *)
(* nor the refresh key, unless a refresh changed the row's access token    *)
(* between the logout's reading and its deletion.                          *)
LogoutLeavesNothing ==
    \A c \in AuthCalls :
        Serving(c, "logout", "tasks") /\ authCall[c].tasks = {} /\ faults = 0 =>
            \A s \in authCall[c].read :
                /\ s.refresh \notin refreshKeys
                /\ authCall[c].raced \/ \A x \in sessions : x.id # s.id

(* The process holds the answer "valid" for up to a minute, and a request  *)
(* that asked before the revocation may set it after: still, a revoked     *)
(* token is refused for good in the end, once Redis has stopped failing.   *)
RevocationSticks ==
    \A t \in Pairs : t \in blacklist ~> [](heldAnswers[t] # "valid")
=============================================================================
