----------------------------- MODULE AuthProofs -----------------------------
(***************************************************************************)
(* A session that was ended stays ended, and a logout leaves nothing of    *)
(* its sessions, for any number of requests, token pairs and failing calls.*)
(*                                                                         *)
(* A key is only ever added for the pair its login has just issued.  So    *)
(* the invariant says of such a pair that nobody was handed it yet, while  *)
(* every ended one was handed out; that two requests never hold the same   *)
(* pair is what keeps the first part when the other one is handed its own. *)
(***************************************************************************)
EXTENDS AuthSessions, TLAPS

\* The request has issued a pair and not handed it out.
Holds(c) == authCall[c].pc \in {"session", "store", "lookup", "update"}

Typed ==
    /\ issued \in 0..MaxPairs /\ sessions \subseteq Session
    /\ authCall \in [AuthCalls -> AuthRequest]
    /\ handed \subseteq 1..issued /\ ended \subseteq handed

Fresh ==
    /\ \A c \in AuthCalls : Holds(c) => authCall[c].new \in (1..issued) \ handed
    /\ \A c, d \in AuthCalls :
          Holds(c) /\ Holds(d) /\ c # d => authCall[c].new # authCall[d].new

AuthInv == Typed /\ Fresh /\ EndedStaysEnded

\* A step that hands out nothing, issues nothing and ends nothing.
LEMMA CalmStep ==
    ASSUME AuthInv, sessions' \subseteq Session, authCall' \in [AuthCalls -> AuthRequest],
           UNCHANGED <<issued, refreshKeys, handed, ended>>,
           \A c \in AuthCalls : Holds(c)' => Holds(c) /\ authCall'[c].new = authCall[c].new
    PROVE  AuthInv'
BY DEF AuthInv, Typed, Fresh, EndedStaysEnded

\* The same of a step of one request that leaves the others alone.
LEMMA CalmRequest ==
    ASSUME AuthInv, sessions' \subseteq Session, UNCHANGED <<issued, refreshKeys, handed, ended>>,
           NEW c \in AuthCalls, NEW r \in AuthRequest, authCall' = [authCall EXCEPT ![c] = r],
           Holds(c)' => Holds(c) /\ r.new = authCall[c].new
    PROVE  AuthInv'
<1>1. authCall \in [AuthCalls -> AuthRequest]
  BY DEF AuthInv, Typed
<1>2. authCall' \in [AuthCalls -> AuthRequest] /\ authCall'[c] = r
  BY <1>1
<1>3. \A d \in AuthCalls : Holds(d)' => Holds(d) /\ authCall'[d].new = authCall[d].new
  BY <1>1, <1>2 DEF Holds
<1>4. QED
  BY <1>2, <1>3, CalmStep

LEMMA NoRequestTyped == NoAuthRequest \in AuthRequest
BY AuthAssumption DEF NoAuthRequest, AuthRequest, Session

\* An answer without a pair.
LEMMA AnsweredStep ==
    ASSUME AuthInv, sessions' \subseteq Session, UNCHANGED <<issued, refreshKeys, handed, ended>>,
           NEW c \in AuthCalls, Answered(c)
    PROVE  AuthInv'
<1>1. NoAuthRequest \in AuthRequest /\ NoAuthRequest.pc = "idle"
  BY NoRequestTyped DEF NoAuthRequest
<1>2. authCall' = [authCall EXCEPT ![c] = NoAuthRequest] /\ authCall'[c] = NoAuthRequest
  BY DEF Answered, AuthInv, Typed
<1>3. ~Holds(c)'
  BY <1>1, <1>2 DEF Holds
<1>4. QED
  BY <1>1, <1>2, <1>3, CalmRequest

------------------------------------------------------------------------------
(* The steps that end or hand out nothing                                  *)

LEMMA ArriveInv ==
    ASSUME AuthInv, NEW c \in AuthCalls, NEW op \in AuthOps, NEW t \in 0..MaxPairs,
           NEW s \in 0..MaxPairs, AuthArrives(c, op, t, s)
    PROVE  AuthInv'
<1> DEFINE r == [NoAuthRequest EXCEPT !.op = op, !.pc = FirstPc(op), !.token = t, !.target = s]
<1>1. FirstPc(op) \in {"issue", "check", "auth"}
  BY DEF FirstPc
<1>2. r \in AuthRequest
  BY <1>1, NoRequestTyped DEF AuthRequest
<1>3. authCall' = [authCall EXCEPT ![c] = r]
  BY DEF AuthArrives
<1>4. r.pc \in {"issue", "check", "auth"}
  BY <1>1 DEF NoAuthRequest
<1> HIDE DEF r
<1>5. authCall'[c] = r
  BY <1>3 DEF AuthInv, Typed
<1>6. ~Holds(c)'
  BY <1>4, <1>5 DEF Holds
<1>7. QED
  BY <1>2, <1>3, <1>6, CalmRequest DEF AuthArrives, stores, AuthInv, Typed

\* The request goes on to another place, and holds no pair there it did not hold.
LEMMA GoesOnInv ==
    ASSUME AuthInv, sessions' \subseteq Session, UNCHANGED <<issued, refreshKeys, handed, ended>>,
           NEW c \in AuthCalls, NEW r \in AuthRequest, authCall' = [authCall EXCEPT ![c] = r],
           r.new = authCall[c].new,
           r.pc \in {"session", "store", "lookup", "update"} => Holds(c)
    PROVE  AuthInv'
<1>1. authCall'[c] = r
  BY DEF AuthInv, Typed
<1>2. Holds(c)' => Holds(c)
  BY <1>1 DEF Holds
<1>3. QED
  BY <1>2, CalmRequest

LEMMA AuthenticateInv ==
    ASSUME AuthInv, NEW c \in AuthCalls, ReadBlacklist(c) \/ Admit(c)
    PROVE  AuthInv'
<1>1. authCall[c] \in AuthRequest /\ sessions \subseteq Session
  BY DEF AuthInv, Typed
<1>2. UNCHANGED <<sessions, issued, refreshKeys, handed, ended>>
  BY DEF ReadBlacklist, Admit, stores, history
<1>3. CASE Answered(c)
  BY <1>1, <1>2, <1>3, AnsweredStep
<1>4. ASSUME NEW b \in BOOLEAN,
             authCall' = [authCall EXCEPT ![c] = [@ EXCEPT !.black = b, !.pc = "admit"]]
      PROVE  AuthInv'
  <2>1. [authCall[c] EXCEPT !.black = b, !.pc = "admit"] \in AuthRequest
    BY <1>1 DEF AuthRequest
  <2>2. QED
    BY <1>1, <1>2, <1>4, <2>1, GoesOnInv DEF AuthRequest
<1>5. ASSUME Admit(c), ~Answered(c) PROVE AuthInv'
  <2> DEFINE off == authCall[c].op = "deactivate"
             r == [authCall[c] EXCEPT !.pc = IF off THEN "tasks" ELSE "find",
                                      !.tasks = IF off THEN {"inactive", "row"} ELSE {}]
  <2>1. authCall' = [authCall EXCEPT ![c] = r]
    BY <1>5 DEF Admit
  <2>2. r \in AuthRequest
    BY <1>1 DEF AuthRequest, Tasks
  <2>3. r.new = authCall[c].new /\ r.pc \in {"tasks", "find"}
    BY <1>1 DEF AuthRequest
  <2> HIDE DEF r
  <2>4. QED
    BY <1>2, <2>1, <2>2, <2>3, GoesOnInv DEF AuthInv, Typed
<1>6. CASE authCall' = [authCall EXCEPT ![c].pc = "admit"]
  <2>1. authCall' = [authCall EXCEPT ![c] = [@ EXCEPT !.black = authCall[c].black, !.pc = "admit"]]
    BY <1>1, <1>6 DEF AuthRequest, AuthInv, Typed
  <2>2. QED
    BY <1>1, <1>4, <2>1 DEF AuthRequest
<1>7. CASE authCall' = [authCall EXCEPT ![c].black = authCall[c].token \in blacklist,
                                          ![c].pc = "admit"]
  <2>1. (authCall[c].token \in blacklist) \in BOOLEAN
    OBVIOUS
  <2>2. QED
    BY <1>4, <1>7, <2>1, Zenon
<1>8. CASE ReadBlacklist(c)
  BY <1>3, <1>6, <1>7, <1>8, Zenon DEF ReadBlacklist, NextPc
<1>9. QED
  BY <1>3, <1>5, <1>8

LEMMA RefusedInv ==
    ASSUME AuthInv, NEW c \in AuthCalls, InactiveRefused(c) \/ AllSettled(c)
    PROVE  AuthInv'
BY AnsweredStep DEF InactiveRefused, AllSettled, stores, history, AuthInv, Typed

LEMMA RefreshCheckInv ==
    ASSUME AuthInv, NEW c \in AuthCalls, RefreshCheck(c)
    PROVE  AuthInv'
<1>1. authCall \in [AuthCalls -> AuthRequest] /\ sessions' \subseteq Session
  BY DEF RefreshCheck, stores, AuthInv, Typed
<1>2. UNCHANGED <<issued, refreshKeys, handed, ended>>
  BY DEF RefreshCheck, stores, history
<1>3. CASE Answered(c)
  BY <1>1, <1>2, <1>3, AnsweredStep
<1>4. CASE NextPc(c, "user")
  <2>1. [authCall[c] EXCEPT !.pc = "user"] \in AuthRequest
    BY <1>1 DEF AuthRequest
  <2>2. authCall' = [authCall EXCEPT ![c] = [authCall[c] EXCEPT !.pc = "user"]]
    BY <1>4 DEF NextPc
  <2>3. QED
    BY <1>1, <1>2, <2>1, <2>2, GoesOnInv DEF AuthRequest
<1>5. QED
  BY <1>3, <1>4 DEF RefreshCheck

\* Rows only go while a session is ended, and no key comes.
LEMMA FindSessionsInv ==
    ASSUME AuthInv, NEW c \in AuthCalls, FindSessions(c)
    PROVE  AuthInv'
<1>1. authCall[c] \in AuthRequest /\ sessions \subseteq Session
  BY DEF AuthInv, Typed
<1>2. UNCHANGED <<sessions, issued, refreshKeys, handed, ended>>
  BY DEF FindSessions, stores, history
<1>3. CASE Answered(c)
  BY <1>1, <1>2, <1>3, AnsweredStep
<1>4. ASSUME NEW rows, rows \subseteq sessions, SessionsFound(c, rows)
      PROVE  AuthInv'
  <2> DEFINE r == [authCall[c] EXCEPT !.read = rows, !.pc = "tasks",
                                      !.tasks = TasksFor(authCall[c].op, rows)]
  <2>1. TasksFor(authCall[c].op, rows) \subseteq Tasks
    BY DEF TasksFor, Tasks, FindSessions, Ends
  <2>2. authCall' = [authCall EXCEPT ![c] = r]
    BY <1>4 DEF SessionsFound
  <2>3. r \in AuthRequest /\ r.new = authCall[c].new /\ r.pc = "tasks"
    BY <1>1, <1>4, <2>1 DEF AuthRequest
  <2> HIDE DEF r
  <2>4. QED
    BY <1>1, <1>2, <2>2, <2>3, GoesOnInv
<1>5. RowsFor(authCall[c]) \subseteq sessions /\ {} \subseteq sessions
  BY DEF RowsFor, FindSessions, Ends
<1>6. QED
  BY <1>3, <1>4, <1>5, Zenon DEF FindSessions

LEMMA ReadCurrentInv ==
    ASSUME AuthInv, NEW c \in AuthCalls, ReadCurrent(c)
    PROVE  AuthInv'
<1>1. authCall[c] \in AuthRequest /\ sessions \subseteq Session
  BY DEF AuthInv, Typed
<1>2. \A x \in sessions : x.refresh \in 0..MaxPairs
  BY <1>1 DEF Session
<1>3. UNCHANGED <<sessions, issued, refreshKeys, handed, ended>> /\ authCall[c].pc = "tasks"
  BY DEF ReadCurrent, stores, history
<1>4. ASSUME NEW k \in 0..MaxPairs, NEW tasks \in SUBSET Tasks,
             authCall' = [authCall EXCEPT ![c].keep = k, ![c].tasks = tasks]
      PROVE  AuthInv'
  <2> DEFINE r == [authCall[c] EXCEPT !.keep = k, !.tasks = tasks]
  <2>1. authCall' = [authCall EXCEPT ![c] = r]
    BY <1>4
  <2>2. r \in AuthRequest /\ r.new = authCall[c].new /\ r.pc = "tasks"
    BY <1>1, <1>3 DEF AuthRequest
  <2> HIDE DEF r
  <2>3. QED
    BY <1>1, <1>3, <2>1, <2>2, GoesOnInv
<1> DEFINE left == authCall[c].tasks \ {"current"}
           own == {s.refresh : s \in {x \in sessions : x.access = authCall[c].token}}
<1>5. left \in SUBSET Tasks /\ left \cup {"key"} \in SUBSET Tasks
  BY <1>1 DEF AuthRequest, Tasks
<1>6. (IF own = {} THEN {0} ELSE own) \subseteq 0..MaxPairs
  <2>1. own \subseteq 0..MaxPairs /\ 0 \in 0..MaxPairs
    BY <1>2, AuthAssumption
  <2>2. QED
    BY <2>1
<1>7. \/ \E k \in IF own = {} THEN {0} ELSE own :
           authCall' = [authCall EXCEPT ![c].keep = k, ![c].tasks = left \cup {"key"}]
      \/ authCall' = [authCall EXCEPT ![c].tasks = left]
  BY DEF ReadCurrent
<1> HIDE DEF left, own
<1>8. CASE authCall' = [authCall EXCEPT ![c].tasks = left]
  <2>1. authCall[c].keep \in 0..MaxPairs
    BY <1>1 DEF AuthRequest
  <2>2. authCall' = [authCall EXCEPT ![c].keep = authCall[c].keep, ![c].tasks = left]
    BY <1>1, <1>8 DEF AuthRequest, AuthInv, Typed
  <2>3. QED
    BY <1>4, <1>5, <2>1, <2>2
<1>9. QED
  BY <1>4, <1>5, <1>6, <1>7, <1>8

\* The tasks of a request that ends sessions: the keys it deletes are ended.
LEMMA TaskInv ==
    ASSUME AuthInv, NEW c \in AuthCalls, NEW task \in Tasks, Task(c, task),
           sessions' \subseteq sessions, issued' = issued, handed' = handed,
           \/ UNCHANGED <<refreshKeys, ended>>
           \/ \E gone : refreshKeys' = refreshKeys \ gone /\ ended' = ended \cup (gone \cap handed)
    PROVE  AuthInv'
<1> DEFINE r == [authCall[c] EXCEPT !.tasks = @ \ {task}]
<1>1. authCall \in [AuthCalls -> AuthRequest]
  BY DEF AuthInv, Typed
<1>2. authCall' = [authCall EXCEPT ![c] = r]
  BY DEF Task
<1>3. r \in AuthRequest /\ r.pc = "tasks"
  BY <1>1 DEF AuthRequest, Task
<1> HIDE DEF r
<1>4. authCall' \in [AuthCalls -> AuthRequest] /\ ~Holds(c)'
  BY <1>1, <1>2, <1>3 DEF Holds
<1>5. \A d \in AuthCalls : Holds(d)' => Holds(d) /\ authCall'[d].new = authCall[d].new
  BY <1>1, <1>2, <1>4 DEF Holds
<1>6. Typed' /\ EndedStaysEnded'
  BY <1>4 DEF AuthInv, Typed, EndedStaysEnded
<1>7. Fresh'
  BY <1>5 DEF AuthInv, Fresh
<1>8. QED
  BY <1>6, <1>7 DEF AuthInv

LEMMA EndingInv ==
    ASSUME AuthInv, NEW c \in AuthCalls,
           DeleteRows(c) \/ Blacklist(c) \/ DeleteKeys(c) \/ Deactivate(c)
    PROVE  AuthInv'
<1>1. CASE DeleteRows(c)
  BY <1>1, TaskInv DEF DeleteRows, history, Tasks
<1>2. CASE Blacklist(c)
  BY <1>2, TaskInv DEF Blacklist, history, Tasks
<1>3. CASE Deactivate(c)
  BY <1>3, TaskInv DEF Deactivate, history, Tasks
<1>4. CASE DeleteKeys(c)
  BY <1>4, TaskInv DEF DeleteKeys, Tasks
<1>5. QED
  BY <1>1, <1>2, <1>3, <1>4

------------------------------------------------------------------------------
(* Issuing a pair, and handing it out                                      *)

LEMMA IssueInv ==
    ASSUME AuthInv, NEW c \in AuthCalls, NEW pc \in {"session", "lookup"}, Issue(c, pc)
    PROVE  AuthInv'
<1> DEFINE r == [authCall[c] EXCEPT !.new = issued + 1, !.pc = pc]
<1>1. authCall \in [AuthCalls -> AuthRequest] /\ issued \in Nat /\ issued + 1 \in 0..MaxPairs
  BY AuthAssumption DEF AuthInv, Typed, Issue
<1>2. authCall' = [authCall EXCEPT ![c] = r] /\ issued' = issued + 1
  BY DEF Issue
<1>3. UNCHANGED <<sessions, refreshKeys, handed, ended>>
  BY DEF Issue, history
<1>4. r \in AuthRequest /\ r.new = issued + 1
  <2>1. [authCall[c] EXCEPT !.new = issued + 1] \in AuthRequest
    BY <1>1 DEF AuthRequest
  <2>2. r \in AuthRequest
    BY <2>1 DEF AuthRequest
  <2>3. QED
    BY <1>1, <2>2 DEF AuthRequest
<1> HIDE DEF r
<1>5. /\ authCall' \in [AuthCalls -> AuthRequest] /\ authCall'[c] = r
      /\ \A d \in AuthCalls \ {c} : authCall'[d] = authCall[d]
  BY <1>1, <1>2, <1>4
<1>6. \A x \in 1..issued : x \in 1..issued' /\ x # issued + 1
  BY <1>1, <1>2
<1>7. Typed' /\ EndedStaysEnded'
  BY <1>1, <1>2, <1>3, <1>5, <1>6 DEF AuthInv, Typed, EndedStaysEnded
<1>8. Fresh'
  <2>1. authCall'[c].new \in (1..issued') \ handed'
    BY <1>1, <1>2, <1>3, <1>4, <1>5, <1>6 DEF AuthInv, Typed
  <2>2. \A d \in AuthCalls \ {c} :
          Holds(d)' => authCall'[d].new \in (1..issued) \ handed'
    BY <1>3, <1>5 DEF AuthInv, Fresh, Holds
  <2>3. \A d \in AuthCalls \ {c} : Holds(d)' => authCall'[d].new # authCall'[c].new
    BY <1>4, <1>5, <1>6, <2>2
  <2>4. \A d, e \in AuthCalls \ {c} :
          Holds(d)' /\ Holds(e)' /\ d # e => authCall'[d].new # authCall'[e].new
    BY <1>5 DEF AuthInv, Fresh, Holds
  <2>5. QED
    BY <1>6, <2>1, <2>2, <2>3, <2>4 DEF Fresh
<1>9. QED
  BY <1>7, <1>8 DEF AuthInv

\* The pair handed out is no other request's, and not an ended one: its key may come.
LEMMA HandOutInv ==
    ASSUME AuthInv, NEW c \in AuthCalls, Holds(c), sessions' \subseteq Session,
           issued' = issued, ended' = ended, handed' = handed \cup {authCall[c].new},
           refreshKeys' \subseteq refreshKeys \cup {authCall[c].new},
           authCall' \in [AuthCalls -> AuthRequest], authCall'[c].pc = "idle",
           \A d \in AuthCalls \ {c} :
              authCall'[d].pc = authCall[d].pc /\ authCall'[d].new = authCall[d].new
    PROVE  AuthInv'
<1>1. authCall[c].new \in (1..issued) \ handed
  BY DEF AuthInv, Fresh
<1>2. Typed'
  BY <1>1 DEF AuthInv, Typed
<1>3. EndedStaysEnded'
  BY <1>1 DEF AuthInv, Typed, EndedStaysEnded
<1>4. ~Holds(c)' /\ \A d \in AuthCalls \ {c} : Holds(d)' <=> Holds(d)
  BY DEF Holds
<1>5. Fresh'
  BY <1>4 DEF AuthInv, Fresh
<1>6. QED
  BY <1>2, <1>3, <1>5 DEF AuthInv

LEMMA HandsInv ==
    ASSUME AuthInv, NEW c \in AuthCalls, Holds(c), Hands(c), sessions' \subseteq Session,
           issued' = issued, refreshKeys' \subseteq refreshKeys \cup {authCall[c].new}
    PROVE  AuthInv'
<1>1. authCall' = [authCall EXCEPT ![c] = NoAuthRequest]
  BY DEF Hands, Answered
<1>2. authCall \in [AuthCalls -> AuthRequest]
  BY DEF AuthInv, Typed
<1>3. /\ authCall' \in [AuthCalls -> AuthRequest] /\ authCall'[c] = NoAuthRequest
      /\ \A d \in AuthCalls \ {c} : authCall'[d] = authCall[d]
  BY <1>1, <1>2, NoRequestTyped
<1>4. authCall'[c].pc = "idle"
  BY <1>3 DEF NoAuthRequest
<1>5. QED
  BY <1>3, <1>4, HandOutInv DEF Hands

LEMMA LoginInv ==
    ASSUME AuthInv, NEW c \in AuthCalls, LoginSession(c) \/ LoginStore(c)
    PROVE  AuthInv'
<1>1. Holds(c)
  BY DEF LoginSession, LoginStore, Serving, Holds
<1>2. authCall[c] \in AuthRequest /\ sessions \subseteq Session
  BY DEF AuthInv, Typed
<1>3. CASE LoginStore(c)
  BY <1>1, <1>2, <1>3, HandsInv DEF LoginStore
<1>4. CASE LoginSession(c)
  <2> DEFINE r == [authCall[c] EXCEPT !.pc = "store"]
             n == authCall[c].new
  <2>1. n \in 0..MaxPairs
    BY <1>2 DEF AuthRequest
  <2>2. [id |-> n, access |-> n, refresh |-> n] \in Session
    BY <2>1 DEF Session
  <2>3. sessions' \subseteq Session
    BY <1>2, <1>4, <2>2 DEF LoginSession
  <2>4. authCall' = [authCall EXCEPT ![c] = r]
    BY <1>4 DEF LoginSession, NextPc
  <2>5. r \in AuthRequest /\ r.new = authCall[c].new
    BY <1>2 DEF AuthRequest
  <2> HIDE DEF r
  <2>6. QED
    BY <1>1, <1>4, <2>3, <2>4, <2>5, GoesOnInv DEF LoginSession, history
<1>5. QED
  BY <1>3, <1>4

LEMMA RefreshFindInv ==
    ASSUME AuthInv, NEW c \in AuthCalls, RefreshFind(c)
    PROVE  AuthInv'
<1> DEFINE found == {s \in sessions : s.refresh = authCall[c].token /\ Live(s)}
           r == [authCall[c] EXCEPT !.read = found, !.pc = "update"]
<1>1. Holds(c)
  BY DEF RefreshFind, Serving, Holds
<1>2. authCall[c] \in AuthRequest /\ sessions \subseteq Session
  BY DEF AuthInv, Typed
<1>3. CASE Hands(c)
  BY <1>1, <1>2, <1>3, HandsInv DEF RefreshFind, stores
<1>4. CASE authCall' = [authCall EXCEPT ![c] = r] /\ UNCHANGED history
  <2>1. found \subseteq Session
    BY <1>2
  <2> HIDE DEF found
  <2>2. r \in AuthRequest /\ r.new = authCall[c].new
    BY <1>2, <2>1 DEF AuthRequest
  <2> HIDE DEF r
  <2>3. QED
    BY <1>1, <1>2, <1>4, <2>2, GoesOnInv DEF RefreshFind, stores, history
<1>5. QED
  BY <1>3, <1>4 DEF RefreshFind

\* The row that changes under other requests marks them, and leaves their pairs alone.
LEMMA RefreshUpdateInv ==
    ASSUME AuthInv, NEW c \in AuthCalls, RefreshUpdate(c)
    PROVE  AuthInv'
<1> DEFINE met(d) == RowsRead(d) \cap RowsRead(c) # {}
           r(d) == [authCall[d] EXCEPT !.raced = @ \/ met(d)]
<1>1. Holds(c)
  BY DEF RefreshUpdate, Serving, Holds
<1>2. authCall \in [AuthCalls -> AuthRequest] /\ sessions \subseteq Session
  BY DEF AuthInv, Typed
<1>3. authCall' = [d \in AuthCalls |-> IF d = c THEN NoAuthRequest ELSE r(d)]
  BY DEF RefreshUpdate, AnsweredRacing
<1>4. \A d \in AuthCalls :
        r(d) \in AuthRequest /\ r(d).pc = authCall[d].pc /\ r(d).new = authCall[d].new
  <2> SUFFICES ASSUME NEW d \in AuthCalls
               PROVE  r(d) \in AuthRequest /\ r(d).pc = authCall[d].pc /\ r(d).new = authCall[d].new
    OBVIOUS
  <2>1. authCall[d] \in AuthRequest
    BY <1>2
  <2>2. \A b \in BOOLEAN : LET q == [authCall[d] EXCEPT !.raced = b]
                           IN  q \in AuthRequest /\ q.pc = authCall[d].pc /\ q.new = authCall[d].new
    BY <2>1 DEF AuthRequest
  <2>3. (authCall[d].raced \/ met(d)) \in BOOLEAN
    OBVIOUS
  <2>4. QED
    BY <2>2, <2>3, Zenon
<1> HIDE DEF r
<1>5. /\ authCall' \in [AuthCalls -> AuthRequest] /\ authCall'[c].pc = "idle"
      /\ \A d \in AuthCalls \ {c} :
            authCall'[d].pc = authCall[d].pc /\ authCall'[d].new = authCall[d].new
  BY <1>3, <1>4, NoRequestTyped DEF NoAuthRequest
<1>6. sessions' \subseteq Session
  <2>1. authCall[c].new \in 0..MaxPairs
    BY <1>2 DEF AuthRequest
  <2>2. \A s \in Session : [s EXCEPT !.access = authCall[c].new] \in Session
    BY <2>1 DEF Session
  <2>3. QED
    BY <1>2, <2>2 DEF RefreshUpdate, Renewed
<1>7. QED
  BY <1>1, <1>5, <1>6, HandOutInv DEF RefreshUpdate

------------------------------------------------------------------------------
(* The specification                                                       *)

\* The one login the user has behind them.
LEMMA AuthInitInv == ASSUME AuthInit PROVE AuthInv
<1>1. authCall \in [AuthCalls -> AuthRequest] /\ \A c \in AuthCalls : ~Holds(c)
  BY NoRequestTyped DEF AuthInit, Holds, NoAuthRequest
<1>2. issued \in 0..MaxPairs /\ sessions \subseteq Session
  BY AuthAssumption DEF AuthInit, Session
<1>3. handed \subseteq 1..issued /\ ended \subseteq handed /\ EndedStaysEnded
  BY DEF AuthInit, EndedStaysEnded
<1>4. QED
  BY <1>1, <1>2, <1>3 DEF AuthInv, Typed, Fresh

LEMMA ArrivalInv ==
    ASSUME AuthInv, NEW c \in AuthCalls, AuthArrival(c)
    PROVE  AuthInv'
<1>1. handed \subseteq 0..MaxPairs /\ 0 \in 0..MaxPairs
  BY AuthAssumption DEF AuthInv, Typed
<1>2. \A s \in sessions : s.id \in 0..MaxPairs
  BY DEF AuthInv, Typed, Session
<1>3. QED
  BY <1>1, <1>2, ArriveInv DEF AuthArrival, AuthOps

LEMMA AuthStepInv ==
    ASSUME AuthInv, NEW c \in AuthCalls, AuthStep(c)
    PROVE  AuthInv'
<1>1. CASE LoginIssue(c)
  BY <1>1, IssueInv DEF LoginIssue
<1>2. CASE RefreshIssue(c)
  BY <1>2, IssueInv DEF RefreshIssue
<1>3. QED
  BY <1>1, <1>2, AuthenticateInv, RefusedInv, LoginInv, RefreshCheckInv, RefreshFindInv,
     RefreshUpdateInv, FindSessionsInv, EndingInv, ReadCurrentInv
     DEF AuthStep

LEMMA AuthNextInv ==
    ASSUME AuthInv, [AuthNext]_authVars
    PROVE  AuthInv'
<1>1. CASE UNCHANGED authVars
  BY <1>1 DEF authVars, stores, history, AuthInv, Typed, Fresh, Holds, EndedStaysEnded
<1>2. ASSUME NEW t \in Pairs, ForgetAnswer(t) \/ AccessExpires(t) PROVE AuthInv'
  BY <1>2 DEF ForgetAnswer, AccessExpires, stores, history, AuthInv, Typed, Fresh, Holds,
              EndedStaysEnded
<1>3. QED
  BY <1>1, <1>2, AuthStepInv, ArrivalInv DEF AuthNext

\* No interleaving of logins and refreshes with logout, revoke and revoke-others,
\* and no failing call, brings the key of an ended session back.
THEOREM EndedSessionsStayEnded == AuthSpec => []EndedStaysEnded
<1>1. AuthInit => AuthInv
  BY AuthInitInv
<1>2. AuthInv /\ [AuthNext]_authVars => AuthInv'
  BY AuthNextInv
<1>3. AuthInv => EndedStaysEnded
  BY DEF AuthInv
<1>4. QED
  BY <1>1, <1>2, <1>3, PTL DEF AuthSpec

------------------------------------------------------------------------------
(* What a logout leaves                                                    *)

\* A row is known by the pair of its login, of which there is one; only a pair
\* that was handed out is refreshed, and faults are counted.
RowsAgree ==
    /\ \A s \in sessions : /\ s.id = s.refresh /\ s.id \in 1..issued
                           /\ s.access # s.refresh => s.refresh \in handed
    /\ \A s, x \in sessions : s.id = x.id => s = x
    /\ faults \in Nat

\* A caller's token was handed out, and so was that of the rows a refresh has
\* found; only revokeOthers keeps a key back; a login's row is not there yet.
RequestAgrees(c) ==
    /\ authCall[c].op \notin {"none", "login"} => authCall[c].token \in handed
    /\ authCall[c].op # "revokeOthers" =>
          authCall[c].keep = 0 /\ "current" \notin authCall[c].tasks
    /\ authCall[c].pc = "update" =>
          \A s \in authCall[c].read : s.id = s.refresh /\ s.refresh \in handed
    /\ authCall[c].pc = "session" => \A x \in sessions : x.id # authCall[c].new

\* The rows a logout has read carry its access token until a refresh races it;
\* what it has deleted of them is gone.
LogoutAgrees(c) ==
    authCall[c].op = "logout" /\ authCall[c].pc = "tasks" =>
        \A s \in authCall[c].read :
            /\ s.id = s.refresh /\ s.refresh \in handed /\ s.refresh # 0
            /\ "key" \notin authCall[c].tasks => s.refresh \notin refreshKeys
            /\ \/ authCall[c].raced
               \/ \A x \in sessions : x.id = s.id =>
                     x.access = authCall[c].token /\ "row" \in authCall[c].tasks

LogoutInv ==
    /\ RowsAgree
    /\ \A c \in AuthCalls : RequestAgrees(c) /\ (faults = 0 => LogoutAgrees(c))

\* A request nobody touches, while rows and keys go, or those of one pair come
\* that was not handed out.
LEMMA UntouchedAgrees ==
    ASSUME AuthInv, LogoutInv, NEW d \in AuthCalls, authCall'[d] = authCall[d],
           handed \subseteq handed', faults' \in Nat, faults' >= faults,
           NEW n, n \notin handed, refreshKeys' \subseteq refreshKeys \cup {n},
           \A x \in sessions' : x \in sessions \/ x.id = n,
           authCall[d].pc = "session" => authCall[d].new # n
    PROVE  RequestAgrees(d)' /\ (faults' = 0 => LogoutAgrees(d)')
<1>1. RequestAgrees(d) /\ (faults = 0 => LogoutAgrees(d)) /\ faults \in Nat
  BY DEF LogoutInv, RowsAgree
<1>2. RequestAgrees(d)'
  BY <1>1 DEF RequestAgrees
<1>3. ASSUME faults' = 0 PROVE LogoutAgrees(d)'
  BY <1>1, <1>3 DEF LogoutAgrees
<1>4. QED
  BY <1>2, <1>3

\* A step of one request that adds neither a row nor a key.
LEMMA OneRequest ==
    ASSUME AuthInv, LogoutInv, NEW c \in AuthCalls,
           \A d \in AuthCalls \ {c} : authCall'[d] = authCall[d],
           issued' \in Nat, issued' >= issued, handed \subseteq handed',
           faults' \in Nat, faults' >= faults,
           sessions' \subseteq sessions, refreshKeys' \subseteq refreshKeys,
           RequestAgrees(c)', faults' = 0 => LogoutAgrees(c)'
    PROVE  LogoutInv'
<1>1. 0 \notin handed /\ \A d \in AuthCalls : authCall[d].pc = "session" => authCall[d].new # 0
  BY DEF AuthInv, Typed, Fresh, Holds
<1>2. \A d \in AuthCalls \ {c} : RequestAgrees(d)' /\ (faults' = 0 => LogoutAgrees(d)')
  BY <1>1, UntouchedAgrees
<1>3. issued \in Nat /\ 1..issued \subseteq 1..issued'
  BY AuthAssumption DEF AuthInv, Typed
<1>4. RowsAgree'
  BY <1>3 DEF LogoutInv, RowsAgree
<1>5. QED
  BY <1>2, <1>4 DEF LogoutInv

\* Where a request is that has nothing to say of rows it has read.
LEMMA FieldsAgree ==
    ASSUME NEW c \in AuthCalls, RequestAgrees(c), handed \subseteq handed',
           authCall'[c].op = authCall[c].op, authCall'[c].token = authCall[c].token,
           authCall'[c].keep = authCall[c].keep,
           \/ authCall'[c].tasks \subseteq authCall[c].tasks
           \/ authCall[c].op # "revokeOthers" => "current" \notin authCall'[c].tasks,
           authCall'[c].pc \notin {"update", "session"}
    PROVE  /\ RequestAgrees(c)'
           /\ authCall'[c].pc # "tasks" \/ authCall'[c].op # "logout" => LogoutAgrees(c)'
BY DEF RequestAgrees, LogoutAgrees

LEMMA AnsweredAgrees ==
    ASSUME NEW c \in AuthCalls, authCall'[c] = NoAuthRequest
    PROVE  RequestAgrees(c)' /\ LogoutAgrees(c)'
BY DEF RequestAgrees, LogoutAgrees, NoAuthRequest

LEMMA FaultsGrow ==
    ASSUME LogoutInv, Works \/ Fails
    PROVE  faults' \in Nat /\ faults' >= faults /\ (Fails => faults' # 0)
BY DEF LogoutInv, RowsAgree, Works, Fails

\* What the other lemmas of this section use of AuthInv.
LEMMA Basics ==
    ASSUME AuthInv
    PROVE  /\ authCall \in [AuthCalls -> AuthRequest] /\ issued \in Nat /\ sessions \subseteq Session
           /\ handed \subseteq 1..issued
BY AuthAssumption DEF AuthInv, Typed

LEMMA ArriveLogout ==
    ASSUME AuthInv, LogoutInv, NEW c \in AuthCalls, NEW op \in AuthOps, NEW t, NEW s,
           op # "login" => t \in handed, AuthArrives(c, op, t, s)
    PROVE  LogoutInv'
<1> DEFINE r == [NoAuthRequest EXCEPT !.op = op, !.pc = FirstPc(op), !.token = t, !.target = s]
<1>1. FirstPc(op) \in {"issue", "check", "auth"}
  BY DEF FirstPc
<1>2. authCall' = [authCall EXCEPT ![c] = r]
  BY DEF AuthArrives
<1>3. /\ r.pc \in {"issue", "check", "auth"} /\ r.op = op /\ r.token = t /\ r.keep = 0
      /\ r.tasks = {}
  BY <1>1 DEF NoAuthRequest
<1> HIDE DEF r
<1>4. authCall'[c] = r /\ \A d \in AuthCalls \ {c} : authCall'[d] = authCall[d]
  BY <1>2, Basics
<1>5. UNCHANGED <<issued, handed, faults, sessions, refreshKeys>> /\ faults \in Nat
  BY DEF AuthArrives, stores, LogoutInv, RowsAgree
<1>6. RequestAgrees(c)' /\ LogoutAgrees(c)'
  BY <1>3, <1>4, <1>5 DEF RequestAgrees, LogoutAgrees
<1>7. QED
  BY <1>4, <1>5, <1>6, OneRequest, Basics

\* A request is answered, without a row or a key.
LEMMA AnsweredLogout ==
    ASSUME AuthInv, LogoutInv, NEW c \in AuthCalls, Answered(c), Works \/ Fails,
           issued' = issued, handed \subseteq handed', UNCHANGED <<sessions, refreshKeys>>
    PROVE  LogoutInv'
<1>1. authCall'[c] = NoAuthRequest /\ \A d \in AuthCalls \ {c} : authCall'[d] = authCall[d]
  BY Basics DEF Answered
<1>2. QED
  BY <1>1, AnsweredAgrees, OneRequest, FaultsGrow, Basics

\* A request goes on, to a place where it has nothing to say of rows.
LEMMA GoesOnLogout ==
    ASSUME AuthInv, LogoutInv, NEW c \in AuthCalls, NEW r,
           authCall' = [authCall EXCEPT ![c] = r], Works \/ Fails,
           issued' = issued, handed' = handed, UNCHANGED <<sessions, refreshKeys>>,
           r.op = authCall[c].op, r.token = authCall[c].token, r.keep = authCall[c].keep,
           \/ r.tasks \subseteq authCall[c].tasks
           \/ authCall[c].op # "revokeOthers" => "current" \notin r.tasks,
           r.pc \notin {"update", "session"}, r.pc # "tasks" \/ r.op # "logout"
    PROVE  LogoutInv'
<1>1. authCall'[c] = r /\ \A d \in AuthCalls \ {c} : authCall'[d] = authCall[d]
  BY Basics
<1>2. RequestAgrees(c)' /\ LogoutAgrees(c)'
  BY <1>1, FieldsAgree DEF LogoutInv
<1>3. QED
  BY <1>1, <1>2, OneRequest, FaultsGrow, Basics

LEMMA AuthenticateLogout ==
    ASSUME AuthInv, LogoutInv, NEW c \in AuthCalls, ReadBlacklist(c) \/ Admit(c)
    PROVE  LogoutInv'
<1>1. authCall[c] \in AuthRequest /\ RequestAgrees(c)
  BY Basics DEF LogoutInv
<1>2. issued' = issued /\ handed' = handed /\ UNCHANGED <<sessions, refreshKeys>>
  BY DEF ReadBlacklist, Admit, stores, history
<1>3. Works \/ Fails
  BY DEF ReadBlacklist, Admit, Works
<1>4. CASE Answered(c)
  BY <1>2, <1>3, <1>4, AnsweredLogout
<1>5. ASSUME NEW b \in BOOLEAN,
             authCall' = [authCall EXCEPT ![c] = [@ EXCEPT !.black = b, !.pc = "admit"]]
      PROVE  LogoutInv'
  <2> DEFINE r == [authCall[c] EXCEPT !.black = b, !.pc = "admit"]
  <2>1. /\ r.op = authCall[c].op /\ r.token = authCall[c].token /\ r.keep = authCall[c].keep
        /\ r.tasks = authCall[c].tasks /\ r.pc = "admit"
    BY <1>1 DEF AuthRequest
  <2>2. authCall' = [authCall EXCEPT ![c] = r]
    BY <1>5
  <2> HIDE DEF r
  <2>3. QED
    BY <1>2, <1>3, <2>1, <2>2, GoesOnLogout
<1>6. CASE authCall' = [authCall EXCEPT ![c].pc = "admit"]
  <2> DEFINE b == authCall[c].black
  <2>1. b \in BOOLEAN
    BY <1>1 DEF AuthRequest
  <2>2. authCall' = [authCall EXCEPT ![c] = [@ EXCEPT !.black = b, !.pc = "admit"]]
    BY <1>1, <1>6, Basics DEF AuthRequest
  <2> HIDE DEF b
  <2>3. QED
    BY <1>5, <2>1, <2>2, Zenon
<1>7. CASE authCall' = [authCall EXCEPT ![c].black = authCall[c].token \in blacklist,
                                          ![c].pc = "admit"]
  <2>1. (authCall[c].token \in blacklist) \in BOOLEAN
    OBVIOUS
  <2>2. QED
    BY <1>5, <1>7, <2>1, Zenon
<1>8. CASE ReadBlacklist(c)
  BY <1>4, <1>6, <1>7, <1>8, Zenon DEF ReadBlacklist, NextPc
<1>9. ASSUME Admit(c), ~Answered(c) PROVE LogoutInv'
  <2> DEFINE off == authCall[c].op = "deactivate"
             r == [authCall[c] EXCEPT !.pc = IF off THEN "tasks" ELSE "find",
                                      !.tasks = IF off THEN {"inactive", "row"} ELSE {}]
  <2>1. authCall' = [authCall EXCEPT ![c] = r]
    BY <1>9 DEF Admit
  <2>2. /\ r.op = authCall[c].op /\ r.token = authCall[c].token /\ r.keep = authCall[c].keep
        /\ "current" \notin r.tasks /\ r.pc \in {"tasks", "find"}
        /\ r.pc = "tasks" => r.op = "deactivate"
    BY <1>1 DEF AuthRequest
  <2> HIDE DEF r
  <2>3. QED
    BY <1>2, <1>3, <2>1, <2>2, GoesOnLogout
<1>10. QED
  BY <1>4, <1>8, <1>9

\* Steps to places where a request has nothing to say of rows, or to its answer.
LEMMA PassingLogout ==
    ASSUME AuthInv, LogoutInv, NEW c \in AuthCalls,
           \/ InactiveRefused(c) \/ AllSettled(c) \/ RefreshCheck(c)
           \/ RefreshFind(c) /\ Hands(c)
    PROVE  LogoutInv'
<1>1. /\ issued' = issued /\ handed \subseteq handed' /\ UNCHANGED <<sessions, refreshKeys>>
      /\ Works \/ Fails
  BY DEF InactiveRefused, AllSettled, RefreshCheck, RefreshFind, Hands, stores, history, Works
<1>2. CASE Answered(c)
  BY <1>1, <1>2, AnsweredLogout
<1>3. CASE NextPc(c, "user") /\ handed' = handed
  <2> DEFINE r == [authCall[c] EXCEPT !.pc = "user"]
  <2>1. /\ r.op = authCall[c].op /\ r.token = authCall[c].token /\ r.keep = authCall[c].keep
        /\ r.tasks = authCall[c].tasks /\ r.pc = "user"
    BY Basics DEF AuthRequest
  <2>2. authCall' = [authCall EXCEPT ![c] = r]
    BY <1>3 DEF NextPc
  <2> HIDE DEF r
  <2>3. QED
    BY <1>1, <1>3, <2>1, <2>2, GoesOnLogout
<1>4. QED
  BY <1>2, <1>3 DEF InactiveRefused, AllSettled, RefreshCheck, Hands, history

\* The pair issued is nobody's row yet.
LEMMA IssueLogout ==
    ASSUME AuthInv, LogoutInv, NEW c \in AuthCalls,
           \/ LoginIssue(c) /\ authCall[c].op = "login"
           \/ RefreshIssue(c) /\ authCall[c].op = "refresh"
    PROVE  LogoutInv'
<1>1. PICK pc \in {"session", "lookup"} : Issue(c, pc)
  BY DEF LoginIssue, RefreshIssue
<1> DEFINE r == [authCall[c] EXCEPT !.new = issued + 1, !.pc = pc]
<1>2. /\ authCall' = [authCall EXCEPT ![c] = r] /\ issued' = issued + 1
      /\ UNCHANGED <<sessions, refreshKeys, handed, faults>>
  BY <1>1 DEF Issue, history
<1>3. /\ r.op = authCall[c].op /\ r.token = authCall[c].token /\ r.keep = authCall[c].keep
      /\ r.tasks = authCall[c].tasks /\ r.pc = pc /\ r.new = issued + 1
  BY Basics DEF AuthRequest
<1> HIDE DEF r
<1>4. authCall'[c] = r /\ \A d \in AuthCalls \ {c} : authCall'[d] = authCall[d]
  BY <1>2, Basics
<1>5. RowsAgree /\ RequestAgrees(c) /\ issued \in Nat
  BY Basics DEF LogoutInv
<1>6. RequestAgrees(c)'
  BY <1>2, <1>3, <1>4, <1>5 DEF RequestAgrees, RowsAgree
<1>7. LogoutAgrees(c)'
  BY <1>3, <1>4 DEF LogoutAgrees
<1>8. QED
  BY <1>2, <1>4, <1>5, <1>6, <1>7, OneRequest DEF RowsAgree

\* The row of a login, and its key: both of a pair nobody was handed.
LEMMA LoginSessionLogout ==
    ASSUME AuthInv, LogoutInv, NEW c \in AuthCalls, LoginSession(c)
    PROVE  LogoutInv'
<1> DEFINE n == authCall[c].new
           row == [id |-> n, access |-> n, refresh |-> n]
           r == [authCall[c] EXCEPT !.pc = "store"]
<1>1. /\ n \in (1..issued) \ handed /\ RequestAgrees(c) /\ RowsAgree
      /\ \A d \in AuthCalls \ {c} : authCall[d].pc = "session" => authCall[d].new # n
      /\ authCall[c].pc = "session" /\ authCall[c].op = "login"
  BY DEF AuthInv, Fresh, Holds, LoginSession, Serving, LogoutInv
<1>2. authCall' = [authCall EXCEPT ![c] = r] /\ UNCHANGED <<issued, refreshKeys, handed>>
  BY DEF LoginSession, NextPc, history
<1>3. /\ r.op = authCall[c].op /\ r.token = authCall[c].token /\ r.keep = authCall[c].keep
      /\ r.tasks = authCall[c].tasks /\ r.pc = "store"
  BY Basics DEF AuthRequest
<1>4. row.id = n /\ row.access = n /\ row.refresh = n
  OBVIOUS
<1>5. sessions' = sessions \/ sessions' = sessions \cup {row}
  BY DEF LoginSession
<1> HIDE DEF n, r, row
<1>6. authCall'[c] = r /\ \A d \in AuthCalls \ {c} : authCall'[d] = authCall[d]
  BY <1>2, Basics
<1>7. faults' \in Nat /\ faults' >= faults
  BY FaultsGrow DEF LoginSession
<1>8. RequestAgrees(c)' /\ LogoutAgrees(c)'
  BY <1>1, <1>2, <1>3, <1>6, FieldsAgree
<1>9. \A d \in AuthCalls \ {c} : RequestAgrees(d)' /\ (faults' = 0 => LogoutAgrees(d)')
  BY <1>1, <1>2, <1>4, <1>5, <1>6, <1>7, UntouchedAgrees
<1>10. \A x \in sessions : x.id # n
  BY <1>1 DEF RequestAgrees, n
<1>11. RowsAgree'
  BY <1>1, <1>2, <1>4, <1>5, <1>7, <1>10 DEF RowsAgree
<1>12. QED
  BY <1>8, <1>9, <1>11 DEF LogoutInv

LEMMA LoginStoreLogout ==
    ASSUME AuthInv, LogoutInv, NEW c \in AuthCalls, LoginStore(c)
    PROVE  LogoutInv'
<1> DEFINE n == authCall[c].new
<1>1. /\ n \in (1..issued) \ handed
      /\ \A d \in AuthCalls \ {c} : authCall[d].pc = "session" => authCall[d].new # n
  BY DEF AuthInv, Fresh, Holds, LoginStore, Serving
<1>2. /\ authCall' = [authCall EXCEPT ![c] = NoAuthRequest] /\ UNCHANGED <<issued, sessions>>
      /\ refreshKeys' \subseteq refreshKeys \cup {n} /\ handed \subseteq handed'
  BY DEF LoginStore, Hands, Answered
<1>3. authCall'[c] = NoAuthRequest /\ \A d \in AuthCalls \ {c} : authCall'[d] = authCall[d]
  BY <1>2, Basics
<1>4. faults' \in Nat /\ faults' >= faults
  BY FaultsGrow DEF LoginStore
<1> HIDE DEF n
<1>5. \A d \in AuthCalls \ {c} : RequestAgrees(d)' /\ (faults' = 0 => LogoutAgrees(d)')
  BY <1>1, <1>2, <1>3, <1>4, UntouchedAgrees
<1>6. RowsAgree'
  BY <1>2, <1>4 DEF LogoutInv, RowsAgree
<1>7. QED
  BY <1>3, <1>5, <1>6, AnsweredAgrees DEF LogoutInv

\* A refresh finds rows of the pair it was asked to refresh, which was handed out.
LEMMA RefreshFindLogout ==
    ASSUME AuthInv, LogoutInv, NEW c \in AuthCalls, RefreshFind(c)
    PROVE  LogoutInv'
<1> DEFINE found == {s \in sessions : s.refresh = authCall[c].token /\ Live(s)}
           r == [authCall[c] EXCEPT !.read = found, !.pc = "update"]
<1>1. CASE Hands(c)
  BY <1>1, PassingLogout
<1>2. CASE authCall' = [authCall EXCEPT ![c] = r] /\ UNCHANGED history /\ Works
  <2>1. \A s \in found : s.id = s.refresh /\ s.refresh \in handed
    BY DEF LogoutInv, RowsAgree, RequestAgrees, RefreshFind, Serving
  <2> HIDE DEF found
  <2>2. /\ r.op = authCall[c].op /\ r.token = authCall[c].token /\ r.keep = authCall[c].keep
        /\ r.tasks = authCall[c].tasks /\ r.pc = "update" /\ r.read = found
    BY Basics DEF AuthRequest
  <2> HIDE DEF r
  <2>3. authCall'[c] = r /\ \A d \in AuthCalls \ {c} : authCall'[d] = authCall[d]
    BY <1>2, Basics
  <2>4. UNCHANGED <<issued, handed, sessions, refreshKeys, faults>>
    BY <1>2 DEF RefreshFind, stores, history, Works
  <2>5. RequestAgrees(c)' /\ LogoutAgrees(c)'
    BY <2>1, <2>2, <2>3, <2>4 DEF LogoutInv, RequestAgrees, LogoutAgrees
  <2>6. QED
    BY <1>2, <2>3, <2>4, <2>5, OneRequest, FaultsGrow, Basics
<1>3. QED
  BY <1>1, <1>2 DEF RefreshFind

\* The rows a refresh renews keep their ids; a logout that has read one is marked.
LEMMA RefreshUpdateLogout ==
    ASSUME AuthInv, LogoutInv, NEW c \in AuthCalls, RefreshUpdate(c)
    PROVE  LogoutInv'
<1> DEFINE met(d) == RowsRead(d) \cap RowsRead(c) # {}
           n == authCall[c].new
<1>1. faults' \in Nat /\ faults' >= faults
  BY FaultsGrow DEF RefreshUpdate
<1>2. /\ UNCHANGED <<issued, refreshKeys>> /\ handed \subseteq handed'
      /\ authCall[c].pc = "update"
  BY DEF RefreshUpdate, Serving
<1>3. \A x \in sessions' : \E s \in sessions :
        /\ x.id = s.id /\ x.refresh = s.refresh
        /\ x = IF s.id \in RowsRead(c) THEN [s EXCEPT !.access = n] ELSE s
      \/ sessions' = sessions
  <2>1. CASE sessions' = sessions
    BY <2>1
  <2>2. CASE sessions' = Renewed(c)
    <3>1. \A s \in sessions : LET x == [s EXCEPT !.access = n]
                              IN  x.id = s.id /\ x.refresh = s.refresh
      BY Basics DEF Session
    <3>2. QED
      BY <2>2, <3>1 DEF Renewed
  <2>3. QED
    BY <2>1, <2>2 DEF RefreshUpdate
<1> HIDE DEF n
<1>4. \A i \in RowsRead(c) : i \in handed
  BY <1>2 DEF RowsRead, LogoutInv, RequestAgrees
<1>5. RowsAgree'
  <2>1. RowsAgree
    BY DEF LogoutInv
  <2>2. CASE sessions' = sessions
    BY <1>1, <1>2, <2>1, <2>2 DEF RowsAgree
  <2>3. CASE sessions' # sessions
    <3>1. \A x \in sessions' : x.id = x.refresh /\ x.id \in 1..issued'
      BY <1>2, <1>3, <2>1, <2>3 DEF RowsAgree
    <3>2. \A x \in sessions' : x.access # x.refresh => x.refresh \in handed'
      BY <1>2, <1>3, <1>4, <2>1, <2>3 DEF RowsAgree
    <3>3. \A x, y \in sessions' : x.id = y.id => x = y
      BY <1>3, <2>1, <2>3 DEF RowsAgree
    <3>4. QED
      BY <1>1, <3>1, <3>2, <3>3 DEF RowsAgree
  <2>4. QED
    BY <2>2, <2>3
<1>6. authCall'[c] = NoAuthRequest
  BY DEF RefreshUpdate, AnsweredRacing
<1>7. ASSUME NEW d \in AuthCalls \ {c}
      PROVE  RequestAgrees(d)' /\ (faults' = 0 => LogoutAgrees(d)')
  <2> DEFINE q == [authCall[d] EXCEPT !.raced = @ \/ met(d)]
  <2>1. authCall'[d] = q
    BY <1>7 DEF RefreshUpdate, AnsweredRacing
  <2>2. /\ q.op = authCall[d].op /\ q.token = authCall[d].token /\ q.keep = authCall[d].keep
        /\ q.tasks = authCall[d].tasks /\ q.pc = authCall[d].pc /\ q.read = authCall[d].read
        /\ q.new = authCall[d].new
    BY <1>7, Basics DEF AuthRequest
  <2>3. q.raced = (authCall[d].raced \/ met(d))
    BY <1>7, Basics, Zenon DEF AuthRequest
  <2> HIDE DEF q
  <2>4. RequestAgrees(d)'
    BY <1>2, <1>3, <1>7, <2>1, <2>2 DEF LogoutInv, RequestAgrees
  <2>5. ASSUME faults' = 0, authCall[d].op = "logout", authCall[d].pc = "tasks",
               NEW s \in authCall[d].read, ~authCall'[d].raced,
               NEW x \in sessions', x.id = s.id
        PROVE  x.access = authCall[d].token /\ "row" \in authCall[d].tasks
    <3>1. ~authCall[d].raced /\ s.id \notin RowsRead(c)
      BY <2>1, <2>3, <2>5, Zenon DEF RowsRead
    <3>2. x \in sessions
      BY <1>3, <2>5, <3>1
    <3>3. LogoutAgrees(d)
      BY <1>1, <2>5 DEF LogoutInv, RowsAgree
    <3>4. QED
      BY <2>5, <3>1, <3>2, <3>3 DEF LogoutAgrees
  <2>6. ASSUME faults' = 0 PROVE LogoutAgrees(d)'
    <3>1. LogoutAgrees(d)
      BY <1>1, <2>6 DEF LogoutInv, RowsAgree
    <3>2. QED
      BY <1>2, <2>1, <2>2, <2>5, <2>6, <3>1 DEF LogoutAgrees
  <2>7. QED
    BY <2>4, <2>6
<1>8. QED
  BY <1>5, <1>6, <1>7, AnsweredAgrees DEF LogoutInv

\* What a logout finds has its access token, and was handed out.
LEMMA SessionsFoundLogout ==
    ASSUME AuthInv, LogoutInv, NEW c \in AuthCalls, FindSessions(c),
           NEW rows, SessionsFound(c, rows),
           authCall[c].op = "logout" => rows \subseteq RowsFor(authCall[c])
    PROVE  LogoutInv'
<1> DEFINE tasks == TasksFor(authCall[c].op, rows)
           r == [authCall[c] EXCEPT !.read = rows, !.pc = "tasks", !.tasks = tasks]
<1>1. /\ authCall' = [authCall EXCEPT ![c] = r]
      /\ UNCHANGED <<issued, refreshKeys, sessions, handed>>
      /\ authCall[c].op \in {"logout", "revoke", "revokeOthers"}
  BY DEF FindSessions, SessionsFound, stores, history, Ends
<1>2. authCall[c].op # "revokeOthers" => "current" \notin tasks
  BY <1>1 DEF TasksFor
<1>3. authCall[c].op = "logout" => /\ \A s \in rows : s \in sessions /\ s.access = authCall[c].token
                                   /\ "row" \in tasks /\ (rows # {} => "key" \in tasks)
  BY DEF RowsFor, TasksFor
<1> HIDE DEF tasks
<1>4. /\ r.op = authCall[c].op /\ r.token = authCall[c].token /\ r.keep = authCall[c].keep
      /\ r.tasks = tasks /\ r.pc = "tasks" /\ r.read = rows
  BY Basics DEF AuthRequest
<1> HIDE DEF r
<1>5. authCall'[c] = r /\ \A d \in AuthCalls \ {c} : authCall'[d] = authCall[d]
  BY <1>1, Basics
<1>6. RowsAgree /\ RequestAgrees(c)
  BY DEF LogoutInv
<1>7. RequestAgrees(c)'
  BY <1>1, <1>2, <1>4, <1>5, <1>6 DEF RequestAgrees
<1>8. LogoutAgrees(c)'
  <2> SUFFICES ASSUME authCall[c].op = "logout", NEW s \in rows
               PROVE  /\ s.id = s.refresh /\ s.refresh \in handed /\ s.refresh # 0
                      /\ rows # {}
                      /\ \A x \in sessions : x.id = s.id => x.access = authCall[c].token
    BY <1>1, <1>3, <1>4, <1>5 DEF LogoutAgrees
  <2>1. s \in sessions /\ s.access = authCall[c].token /\ authCall[c].token \in handed
    BY <1>3, <1>6 DEF RequestAgrees
  <2>2. s.id = s.refresh /\ s.refresh \in handed /\ \A x \in sessions : x.id = s.id => x = s
    BY <1>6, <2>1 DEF RowsAgree
  <2>3. s.refresh \in 1..issued
    BY <2>2, Basics
  <2>4. QED
    BY <2>1, <2>2, <2>3, Basics
<1>9. faults' \in Nat /\ faults' >= faults
  BY FaultsGrow DEF FindSessions
<1>10. QED
  BY <1>1, <1>5, <1>7, <1>8, <1>9, OneRequest, Basics

LEMMA FindSessionsLogout ==
    ASSUME AuthInv, LogoutInv, NEW c \in AuthCalls, FindSessions(c)
    PROVE  LogoutInv'
<1>1. CASE Answered(c)
  <2>1. UNCHANGED <<issued, refreshKeys, sessions, handed>> /\ (Works \/ Fails)
    BY DEF FindSessions, stores, history
  <2>2. QED
    BY <1>1, <2>1, AnsweredLogout
<1>2. CASE SessionsFound(c, RowsFor(authCall[c]))
  BY <1>2, SessionsFoundLogout
<1>3. CASE SessionsFound(c, {})
  BY <1>3, SessionsFoundLogout
<1>4. QED
  BY <1>1, <1>2, <1>3, Zenon DEF FindSessions

LEMMA ReadCurrentLogout ==
    ASSUME AuthInv, LogoutInv, NEW c \in AuthCalls, ReadCurrent(c)
    PROVE  LogoutInv'
<1>1. \E k, tasks : authCall' = [authCall EXCEPT ![c].keep = k, ![c].tasks = tasks]
  <2>1. CASE authCall' = [authCall EXCEPT ![c].tasks = authCall[c].tasks \ {"current"}]
    <3>1. authCall' = [authCall EXCEPT ![c].keep = authCall[c].keep,
                                       ![c].tasks = authCall[c].tasks \ {"current"}]
      BY <2>1, Basics DEF AuthRequest
    <3>2. QED
      BY <3>1
  <2>2. QED
    BY <2>1 DEF ReadCurrent
<1>2. PICK k, tasks : authCall' = [authCall EXCEPT ![c].keep = k, ![c].tasks = tasks]
  BY <1>1
<1> DEFINE r == [authCall[c] EXCEPT !.keep = k, !.tasks = tasks]
<1>3. authCall' = [authCall EXCEPT ![c] = r]
  BY <1>2
<1>4. /\ r.op = authCall[c].op /\ r.token = authCall[c].token /\ r.pc = authCall[c].pc
      /\ authCall[c].pc = "tasks"
  BY Basics DEF AuthRequest, ReadCurrent
<1>5. authCall[c].op = "revokeOthers" /\ RowsAgree /\ RequestAgrees(c)
  BY DEF LogoutInv, RequestAgrees, ReadCurrent
<1> HIDE DEF r
<1>6. authCall'[c] = r /\ \A d \in AuthCalls \ {c} : authCall'[d] = authCall[d]
  BY <1>3, Basics
<1>7. UNCHANGED <<issued, refreshKeys, sessions, handed>>
  BY DEF ReadCurrent, stores, history
<1>8. RequestAgrees(c)' /\ LogoutAgrees(c)'
  BY <1>4, <1>5, <1>6, <1>7 DEF RequestAgrees, LogoutAgrees
<1>9. faults' \in Nat /\ faults' >= faults
  BY FaultsGrow DEF ReadCurrent
<1>10. QED
  BY <1>3, <1>6, <1>7, <1>8, <1>9, OneRequest, Basics

\* A task of a request that ends sessions: a logout's deletes its rows, or its keys.
LEMMA TaskLogout ==
    ASSUME AuthInv, LogoutInv, NEW c \in AuthCalls, NEW task, Task(c, task), Works \/ Fails,
           issued' = issued, handed' = handed,
           sessions' \subseteq sessions, refreshKeys' \subseteq refreshKeys,
           Works /\ task = "row" /\ authCall[c].op = "logout" =>
              \A s \in sessions' : s.access # authCall[c].token,
           Works /\ task = "key" /\ authCall[c].op = "logout" =>
              \A s \in authCall[c].read : s.refresh # 0 => s.refresh \notin refreshKeys'
    PROVE  LogoutInv'
<1> DEFINE r == [authCall[c] EXCEPT !.tasks = @ \ {task}]
<1>1. authCall' = [authCall EXCEPT ![c] = r]
  BY DEF Task
<1>2. /\ r.op = authCall[c].op /\ r.token = authCall[c].token /\ r.keep = authCall[c].keep
      /\ r.tasks = authCall[c].tasks \ {task} /\ r.pc = "tasks" /\ r.read = authCall[c].read
      /\ r.raced = authCall[c].raced /\ authCall[c].pc = "tasks"
  BY Basics DEF AuthRequest, Task
<1> HIDE DEF r
<1>3. authCall'[c] = r /\ \A d \in AuthCalls \ {c} : authCall'[d] = authCall[d]
  BY <1>1, Basics
<1>4. RowsAgree /\ RequestAgrees(c) /\ (faults = 0 => LogoutAgrees(c))
  BY DEF LogoutInv
<1>5. RequestAgrees(c)'
  BY <1>2, <1>3, <1>4, FieldsAgree
<1>6. ASSUME faults' = 0 PROVE LogoutAgrees(c)'
  <2>1. Works /\ faults = 0
    BY <1>4, <1>6, FaultsGrow DEF Works, RowsAgree
  <2>2. LogoutAgrees(c)
    BY <1>4, <2>1
  <2> SUFFICES ASSUME authCall[c].op = "logout", NEW s \in authCall[c].read
               PROVE  /\ s.id = s.refresh /\ s.refresh \in handed' /\ s.refresh # 0
                      /\ "key" \notin r.tasks => s.refresh \notin refreshKeys'
                      /\ \/ authCall[c].raced
                         \/ \A x \in sessions' : x.id = s.id =>
                               x.access = authCall[c].token /\ "row" \in r.tasks
    BY <1>2, <1>3 DEF LogoutAgrees
  <2>3. /\ s.id = s.refresh /\ s.refresh \in handed /\ s.refresh # 0
        /\ "key" \notin authCall[c].tasks => s.refresh \notin refreshKeys
        /\ \/ authCall[c].raced
           \/ \A x \in sessions : x.id = s.id =>
                 x.access = authCall[c].token /\ "row" \in authCall[c].tasks
    BY <1>2, <2>2 DEF LogoutAgrees
  <2>4. "key" \notin r.tasks => s.refresh \notin refreshKeys'
    BY <1>2, <2>1, <2>3
  <2>5. \/ authCall[c].raced
        \/ \A x \in sessions' : x.id = s.id =>
              x.access = authCall[c].token /\ "row" \in r.tasks
    BY <1>2, <2>1, <2>3
  <2>6. QED
    BY <2>3, <2>4, <2>5
<1>7. QED
  BY <1>3, <1>5, <1>6, OneRequest, FaultsGrow, Basics

LEMMA EndingLogout ==
    ASSUME AuthInv, LogoutInv, NEW c \in AuthCalls,
           DeleteRows(c) \/ Blacklist(c) \/ DeleteKeys(c) \/ Deactivate(c)
    PROVE  LogoutInv'
<1>1. Works => ~Fails
  BY DEF Works, Fails, LogoutInv, RowsAgree
<1>2. CASE DeleteRows(c)
  <2>1. Task(c, "row") /\ (Works \/ Fails) /\ issued' = issued /\ handed' = handed
        /\ refreshKeys' = refreshKeys /\ sessions' \subseteq sessions
    BY <1>2 DEF DeleteRows, history
  <2>2. Works /\ authCall[c].op = "logout" => \A s \in sessions' : s.access # authCall[c].token
    BY <1>1, <1>2 DEF DeleteRows, Deleted
  <2>3. QED
    BY <2>1, <2>2, TaskLogout
<1>3. CASE DeleteKeys(c)
  <2>1. Task(c, "key") /\ (Works \/ Fails) /\ issued' = issued /\ handed' = handed
        /\ refreshKeys' \subseteq refreshKeys /\ sessions' = sessions
    BY <1>3 DEF DeleteKeys
  <2>2. authCall[c].op = "logout" => authCall[c].keep = 0
    BY DEF LogoutInv, RequestAgrees
  <2>3. Works /\ authCall[c].op = "logout" =>
          \A s \in authCall[c].read : s.refresh # 0 => s.refresh \notin refreshKeys'
    BY <1>1, <1>3, <2>2 DEF DeleteKeys
  <2>4. QED
    BY <2>1, <2>3, TaskLogout
<1>4. CASE Blacklist(c)
  BY <1>4, TaskLogout DEF Blacklist, history
<1>5. CASE Deactivate(c)
  BY <1>5, TaskLogout DEF Deactivate, history
<1>6. QED
  BY <1>2, <1>3, <1>4, <1>5

LEMMA LogoutInitInv == ASSUME AuthInit PROVE LogoutInv
<1>1. \A c \in AuthCalls : authCall[c] = NoAuthRequest
  BY DEF AuthInit
<1>2. \A c \in AuthCalls : RequestAgrees(c) /\ LogoutAgrees(c)
  BY <1>1 DEF RequestAgrees, LogoutAgrees, NoAuthRequest
<1>3. RowsAgree
  BY DEF AuthInit, RowsAgree
<1>4. QED
  BY <1>2, <1>3 DEF LogoutInv

LEMMA LogoutNextInv ==
    ASSUME AuthInv, LogoutInv, [AuthNext]_authVars
    PROVE  LogoutInv'
<1>1. CASE UNCHANGED authVars
  BY <1>1 DEF authVars, stores, history, LogoutInv, RowsAgree, RequestAgrees, LogoutAgrees
<1>2. ASSUME NEW t \in Pairs, ForgetAnswer(t) \/ AccessExpires(t) PROVE LogoutInv'
  BY <1>2 DEF ForgetAnswer, AccessExpires, stores, history, LogoutInv, RowsAgree, RequestAgrees,
              LogoutAgrees
<1>3. ASSUME NEW c \in AuthCalls, AuthArrival(c) PROVE LogoutInv'
  BY <1>3, ArriveLogout DEF AuthArrival, AuthOps
<1>4. ASSUME NEW c \in AuthCalls, AuthStep(c) PROVE LogoutInv'
  <2>1. CASE LoginIssue(c) \/ RefreshIssue(c)
    BY <2>1, IssueLogout DEF LoginIssue, RefreshIssue, Serving
  <2>2. QED
    BY <1>4, <2>1, AuthenticateLogout, PassingLogout, LoginSessionLogout, LoginStoreLogout,
       RefreshFindLogout, RefreshUpdateLogout, FindSessionsLogout, ReadCurrentLogout, EndingLogout
       DEF AuthStep
<1>5. QED
  BY <1>1, <1>2, <1>3, <1>4 DEF AuthNext

\* A logout that met no error deletes the refresh key of every row it found, and
\* every such row no refresh has renewed in between: whatever logins, refreshes
\* and other endings run beside it.
THEOREM LogoutsLeaveNothing == AuthSpec => []LogoutLeavesNothing
<1>1. AuthInit => AuthInv /\ LogoutInv
  BY AuthInitInv, LogoutInitInv
<1>2. AuthInv /\ LogoutInv /\ [AuthNext]_authVars => (AuthInv /\ LogoutInv)'
  BY AuthNextInv, LogoutNextInv
<1>3. LogoutInv => LogoutLeavesNothing
  BY DEF LogoutInv, LogoutAgrees, LogoutLeavesNothing, Serving
<1>4. QED
  BY <1>1, <1>2, <1>3, PTL DEF AuthSpec
=============================================================================
