----------------------------- MODULE SyncChannel -----------------------------
(***************************************************************************)
(* A sync on demand: the core service's SyncProxyService.triggerUserSync,   *)
(* its MessageQueueService, the Redis lists that carry the request and the  *)
(* answer, and the sync worker's MessageQueueListener, which turns a        *)
(* request into the job that SyncProcessor runs.                            *)
(*                                                                          *)
(* The core waits for an answer on a list of its own, polling it from a     *)
(* loop that the 90 s timer does not stop: a call that timed out goes on    *)
(* polling and takes the late answer off the list.  Both sides name the     *)
(* lists alike, but each one's client puts its own prefix before the name.  *)
(***************************************************************************)
EXTENDS Naturals, Sequences, FiniteSets

CONSTANTS
    Users,
    Calls,          \* calls of triggerUserSync; each is its jobId
    Workers,        \* worker processes
    None,           \* no request
    CorePrefix,     \* keyPrefix of the core's Redis client ('moonx:sync-proxy:')
    WorkerPrefix,   \* keyPrefix of the worker's ('moonx:sync-worker:')
    MaxRequests,    \* RATE_LIMIT_MAX_REQUESTS in one RATE_LIMIT_WINDOW
    MaxErrors,      \* maxConsecutiveErrors of the worker's poll loop
    MaxFaults,      \* bound: Redis commands that fail
    MaxRestarts     \* bound: worker crashes

ASSUME ChannelAssumption ==
    /\ None \notin Calls
    /\ IsFiniteSet(Calls)
    /\ MaxRequests \in Nat \ {0} /\ MaxErrors \in Nat \ {0}
    /\ MaxFaults \in Nat /\ MaxRestarts \in Nat

VARIABLES
    call,       \* the await each call is at, and what it was asked
    polls,      \* the calls whose checkResponse loop runs
    limit,      \* rateLimitMap; count 0 is no entry
    inbox,      \* the list 'sync:requests' under each prefix
    answers,    \* the lists 'sync:responses:<jobId>' under each prefix
    jobs,       \* BullMQ: the jobs added for each request
    poller,     \* poll loop of 'sync:requests' in each worker process
    faults,
    restarts

vars == <<call, polls, limit, inbox, answers, jobs, poller, faults, restarts>>

Prefixes == {CorePrefix, WorkerPrefix}
Outcomes == {"queued", "failed"}

Call == [at : {"idle", "check", "ensure", "push", "wait", "end"}, user : Users,
         kind : {"plain", "bypass", "force"},
         result : {"none", "success", "failed", "busy", "limited"}]

ChannelTypeOK ==
    /\ call \in [Calls -> Call]
    /\ polls \subseteq Calls
    /\ limit \in [Users -> [count : 0 .. Cardinality(Calls), over : BOOLEAN]]
    /\ inbox \in [Prefixes -> Seq(Calls)]
    /\ answers \in [Prefixes -> [Calls -> Seq(Outcomes)]]
    /\ jobs \in [Calls -> Nat]
    /\ poller \in [Workers -> [at : {"poll", "add", "answer", "off"},
                               req : Calls \cup {None}, outcome : Outcomes,
                               errors : 0 .. MaxErrors]]
    /\ faults \in 0 .. MaxFaults
    /\ restarts \in 0 .. MaxRestarts

Fresh == [at |-> "poll", req |-> None, outcome |-> "failed", errors |-> 0]

Init ==
    /\ call \in [Calls -> [at : {"idle"}, user : Users,
                           kind : {"plain", "bypass", "force"}, result : {"none"}]]
    /\ polls = {}
    /\ limit = [u \in Users |-> [count |-> 0, over |-> FALSE]]
    /\ inbox = [p \in Prefixes |-> << >>]
    /\ answers = [p \in Prefixes |-> [c \in Calls |-> << >>]]
    /\ jobs = [c \in Calls |-> 0]
    /\ poller = [w \in Workers |-> Fresh]
    /\ faults = 0
    /\ restarts = 0

Fault == faults < MaxFaults /\ faults' = faults + 1

------------------------------------------------------------------------------
(* Core: triggerUserSync *)

Await(c, at) == call' = [call EXCEPT ![c].at = at]

End(c, result) == call' = [call EXCEPT ![c].at = "end", ![c].result = result]

\* The duplicate check is skipped by a forced call.
Trigger(c) ==
    /\ call[c].at = "idle"
    /\ Await(c, IF call[c].kind = "force" THEN "ensure" ELSE "check")
    /\ UNCHANGED <<polls, limit, inbox, answers, jobs, poller, faults, restarts>>

\* checkRateLimit; a window that is over is deleted.
Limited(u) == limit[u].count >= MaxRequests /\ ~limit[u].over

Cleared(u) == IF limit[u].over
              THEN [limit EXCEPT ![u] = [count |-> 0, over |-> FALSE]]
              ELSE limit

\* updateRateLimit, once the request was answered or given up.
Counted(c) ==
    LET u == call[c].user
    IN  limit' = IF call[c].kind = "plain"
                 THEN [Cleared(u) EXCEPT ![u].count = @ + 1]
                 ELSE limit

\* getActiveSyncOperations, which may find one of SyncProcessor's operations,
\* and the rate limit, which a call with bypassRateLimit does not ask.
Check(c) ==
    LET u == call[c].user
    IN
    /\ call[c].at = "check"
    /\ \/ End(c, "busy") /\ UNCHANGED limit
       \/ /\ call[c].kind = "plain"
          /\ limit' = Cleared(u)
          /\ IF Limited(u) THEN End(c, "limited") ELSE Await(c, "ensure")
       \/ call[c].kind = "bypass" /\ Await(c, "ensure") /\ UNCHANGED limit
    /\ UNCHANGED <<polls, inbox, answers, jobs, poller, faults, restarts>>

\* ensureUserSyncStatus swallows its errors.
Ensure(c) ==
    /\ call[c].at = "ensure"
    /\ Await(c, "push")
    /\ UNCHANGED <<polls, limit, inbox, answers, jobs, poller, faults, restarts>>

\* sendSyncRequest: lpush.  A connection lost before the reply makes the
\* client send it again, or fail, with the request stored or not.
Push(c) ==
    /\ call[c].at = "push"
    /\ \/ /\ inbox' = [inbox EXCEPT ![CorePrefix] = Append(@, c)]
          /\ Await(c, "wait")
          /\ polls' = polls \cup {c}
          /\ UNCHANGED <<limit, faults>>
       \/ /\ Fault
          /\ inbox' = [inbox EXCEPT ![CorePrefix] = @ \o <<c, c>>]
          /\ Await(c, "wait")
          /\ polls' = polls \cup {c}
          /\ UNCHANGED limit
       \/ /\ Fault
          /\ \/ inbox' = [inbox EXCEPT ![CorePrefix] = Append(@, c)]
             \/ UNCHANGED inbox
          /\ End(c, "failed")
          /\ Counted(c)
          /\ UNCHANGED polls
    /\ UNCHANGED <<answers, jobs, poller, restarts>>

\* Mutant: a promise that was settled is settled again.
ReturnAgain(c, outcome) ==
    /\ End(c, IF outcome = "failed" THEN "failed" ELSE "success")
    /\ Counted(c)

\* What the call returns with the answer it got, unless it timed out before.
Return(c, outcome) ==
    IF call[c].at = "wait"
    THEN /\ End(c, IF outcome = "failed" THEN "failed" ELSE "success")
         /\ Counted(c)
    ELSE UNCHANGED <<call, limit>>

\* checkResponse: brpop finds an answer.
Receive(c) ==
    LET list == answers[CorePrefix][c]
    IN
    /\ c \in polls
    /\ list # << >>
    /\ answers' = [answers EXCEPT ![CorePrefix][c] = Tail(list)]
    /\ polls' = polls \ {c}
    /\ Return(c, Head(list))
    /\ UNCHANGED <<inbox, jobs, poller, faults, restarts>>

\* Or throws, which ends the loop.
PollFails(c) ==
    /\ c \in polls
    /\ Fault
    /\ polls' = polls \ {c}
    /\ Return(c, "failed")
    /\ UNCHANGED <<inbox, answers, jobs, poller, restarts>>

\* Mutant: the timer stops the loop too.
TimeoutStopsPoll(c) ==
    /\ call[c].at = "wait"
    /\ End(c, "failed")
    /\ Counted(c)
    /\ polls' = polls \ {c}
    /\ UNCHANGED <<inbox, answers, jobs, poller, faults, restarts>>

\* The 90 s timer rejects the promise; the loop goes on.
Timeout(c) ==
    /\ call[c].at = "wait"
    /\ End(c, "failed")
    /\ Counted(c)
    /\ UNCHANGED <<polls, inbox, answers, jobs, poller, faults, restarts>>

\* 15 minutes pass since windowStart.
WindowEnds(u) ==
    /\ limit[u].count > 0 /\ ~limit[u].over
    /\ limit' = [limit EXCEPT ![u].over = TRUE]
    /\ UNCHANGED <<call, polls, inbox, answers, jobs, poller, faults, restarts>>

------------------------------------------------------------------------------
(* Worker: listenToQueue and handleSyncRequest *)

\* brpop takes the oldest request; it is only in the process from then on.
Take(w) ==
    LET list == inbox[WorkerPrefix]
    IN
    /\ poller[w].at = "poll"
    /\ list # << >>
    /\ inbox' = [inbox EXCEPT ![WorkerPrefix] = Tail(list)]
    /\ poller' = [poller EXCEPT ![w].at = "add", ![w].req = Head(list)]
    /\ UNCHANGED <<call, polls, limit, answers, jobs, faults, restarts>>

\* An empty poll forgets the errors before it.
PollEmpty(w) ==
    /\ poller[w].at = "poll"
    /\ inbox[WorkerPrefix] = << >>
    /\ poller[w].errors > 0
    /\ poller' = [poller EXCEPT ![w].errors = 0]
    /\ UNCHANGED <<call, polls, limit, inbox, answers, jobs, faults, restarts>>

\* Too many errors in a row and the process stops listening for good.
PollError(w) ==
    /\ poller[w].at = "poll"
    /\ Fault
    /\ poller' = [poller EXCEPT ![w].errors = @ + 1,
                                ![w].at = IF poller[w].errors + 1 >= MaxErrors
                                          THEN "off" ELSE "poll"]
    /\ UNCHANGED <<call, polls, limit, inbox, answers, jobs, restarts>>

\* syncQueue.add with the request's jobId: BullMQ keeps a job it knows.
JobAdded(r) == jobs' = [jobs EXCEPT ![r] = 1]

\* Mutant: the answer says "queued" whether Redis took the job or not.
AddHides(w) ==
    /\ poller[w].at = "add"
    /\ \/ JobAdded(poller[w].req) /\ UNCHANGED faults
       \/ Fault /\ UNCHANGED jobs
    /\ poller' = [poller EXCEPT ![w].at = "answer", ![w].outcome = "queued"]
    /\ UNCHANGED <<call, polls, limit, inbox, answers, restarts>>

Add(w) ==
    /\ poller[w].at = "add"
    /\ \/ /\ JobAdded(poller[w].req)
          /\ poller' = [poller EXCEPT ![w].at = "answer", ![w].outcome = "queued"]
          /\ UNCHANGED faults
       \/ /\ Fault
          /\ JobAdded(poller[w].req) \/ UNCHANGED jobs
          /\ poller' = [poller EXCEPT ![w].at = "answer", ![w].outcome = "failed"]
    /\ UNCHANGED <<call, polls, limit, inbox, answers, restarts>>

\* sendResponse swallows an error.
Answer(w) ==
    LET r == poller[w].req
    IN
    /\ poller[w].at = "answer"
    /\ \/ /\ answers' = [answers EXCEPT ![WorkerPrefix][r] = Append(@, poller[w].outcome)]
          /\ UNCHANGED faults
       \/ Fault /\ UNCHANGED answers
    /\ poller' = [poller EXCEPT ![w] = Fresh]
    /\ UNCHANGED <<call, polls, limit, inbox, jobs, restarts>>

\* The process crashes, with the request it took, and is forked again.
RestartWorker(w) ==
    /\ restarts < MaxRestarts
    /\ restarts' = restarts + 1
    /\ poller' = [poller EXCEPT ![w] = Fresh]
    /\ UNCHANGED <<call, polls, limit, inbox, answers, jobs, faults>>

------------------------------------------------------------------------------
Core(c) == \/ Trigger(c) \/ Check(c) \/ Ensure(c) \/ Push(c)
           \/ Receive(c) \/ PollFails(c) \/ Timeout(c)

Listener(w) == Take(w) \/ PollEmpty(w) \/ PollError(w) \/ Add(w) \/ Answer(w)

Next ==
    \/ \E c \in Calls : Core(c)
    \/ \E u \in Users : WindowEnds(u)
    \/ \E w \in Workers : Listener(w) \/ RestartWorker(w)

Spec == Init /\ [][Next]_vars

\* Promises, timers and polls of a running service go on; failures, restarts
\* and the calls themselves need not happen.
FairSpec ==
    /\ Spec
    /\ \A c \in Calls : /\ WF_vars(Check(c)) /\ WF_vars(Ensure(c))
                        /\ WF_vars(Push(c)) /\ WF_vars(Receive(c))
                        /\ WF_vars(Timeout(c))
    /\ \A w \in Workers : WF_vars(Take(w)) /\ WF_vars(Add(w)) /\ WF_vars(Answer(w))

------------------------------------------------------------------------------
(* Properties *)

\* The job of a request is queued at most once, and a call reports success
\* only if it was, in spite of requests and answers sent twice, lost or late.
SuccessIsOneJob ==
    \A c \in Calls : jobs[c] <= 1 /\ (call[c].result = "success" => jobs[c] = 1)

\* What the caller of a call knows of it.
Told(c) == IF call[c].result # "none" THEN call[c].result
           ELSE IF call[c].at \in {"idle", "check"} THEN "nothing" ELSE "admitted"

Requests == INSTANCE SyncRequests WITH told <- [c \in Calls |-> Told(c)], queued <- jobs

\* Whatever is sent twice, lost or late, and whichever timer wins, a caller sees
\* requests that are admitted once, queued once and answered once, with success
\* after the job only; a call turned away leaves nothing behind.
ImplementsRequests == Requests!RequestsSpec

\* A call ends with or without a worker that listens, and no answer of its
\* stays in Redis: the poll loop that outlives it takes the late one (the
\* lists have no expiry), unless a Redis command failed.
CallsAreWoundUp ==
    \A c \in Calls :
        /\ call[c].at = "check" ~> call[c].at = "end"
        /\ answers[CorePrefix][c] # << >> ~> (answers[CorePrefix][c] = << >> \/ faults > 0)

\* "must match Core Service": a request the core sends is taken by a worker.
RequestsAreTaken ==
    \A c \in Calls :
        call[c].at = "wait" ~> \/ jobs[c] > 0
                               \/ \A w \in Workers : poller[w].at = "off"
                               \/ faults > 0 \/ restarts > 0

\* "Max 5 sync requests per 15 minutes per user": until the user's window ends,
\* the requests counted and those still under way are at most that many.
LimitIsKept ==
    \A u \in Users :
        LET pending == {c \in Calls : /\ call[c].user = u /\ call[c].kind = "plain"
                                      /\ call[c].at \in {"push", "wait"}}
        IN  ~limit[u].over => limit[u].count + Cardinality(pending) <= MaxRequests
==============================================================================
