---------------------------- MODULE SyncProcessor ----------------------------
(***************************************************************************)
(* The sync worker: the BullMQ queue 'sync-jobs', the worker processes that *)
(* take jobs from it, every await of SyncProcessor.processJob, and the      *)
(* records a job leaves in MongoDB (sync_operations, user_sync_status), in  *)
(* PostgreSQL (user_token_holdings) and on Kafka.                           *)
(*                                                                          *)
(* One action per await: an action is the database's step together with the *)
(* synchronous code that runs until the next await, so jobs of several      *)
(* processes, and several jobs of one process, interleave between awaits.   *)
(* A process may crash anywhere and be forked again by the cluster primary; *)
(* BullMQ then finds its jobs stalled.                                      *)
(***************************************************************************)
EXTENDS Breaker, FiniteSets

CONSTANTS
    Users,          \* users with a user_sync_status record
    Workers,        \* worker processes of the cluster
    JobIds,         \* BullMQ job ids
    OpIds,          \* sync_operations ids, randomUUID() of one processJob call
    None,           \* no process, no user, no operation
    Concurrency,    \* jobs one process runs at a time
    MaxStalled,     \* maxStalledCount
    MaxFaults,      \* bound: database calls that fail
    MaxCrashes,     \* bound: process crashes
    MaxCount        \* bound: where the counters of user_sync_status saturate

ASSUME ProcessorAssumption ==
    /\ None \notin Users \cup Workers \cup OpIds
    /\ IsFiniteSet(OpIds) /\ IsFiniteSet(JobIds)
    /\ Concurrency \in Nat \ {0}
    /\ MaxStalled \in Nat /\ MaxFaults \in Nat /\ MaxCrashes \in Nat
    /\ MaxCount \in Nat

VARIABLES
    job,        \* BullMQ's record of each job
    pc,         \* the await at which the job's processJob call is, if it runs
    op,         \* syncOperationId of that call, None before the record exists
    ops,        \* MongoDB sync_operations
    sync,       \* MongoDB user_sync_status
    wrote,      \* history: operations whose holdings PostgreSQL committed
    events,     \* Kafka: the events published, by kind and operation
    breaker,    \* circuitBreaker map of each process
    up,         \* the processes that run
    faults,     \* database calls failed so far
    crashes     \* crashes so far

vars == <<job, pc, op, ops, sync, wrote, events, breaker, up, faults, crashes>>

------------------------------------------------------------------------------
(* Types *)

JobState == {"free", "waiting", "active", "completed", "failed", "removed"}

\* The awaits of processJob and performPortfolioSync, in the order of a call.
\* "idle": no call runs for the job; "dead": the process of the call crashed.
Awaits == {"create", "start", "restart", "fetch", "save", "synced", "verify",
           "unsynced", "complete", "recount", "fail", "refail", "announce",
           "lament", "ack"}

Job == [state : JobState, user : Users \cup {None}, force : BOOLEAN,
        by : Workers \cup {None}, stalls : Nat]

Operation == [status : {"none", "running", "completed", "failed"},
              user : Users \cup {None}]

SyncStatus == [status : {"pending", "running", "completed", "failed"},
               total : 0 .. MaxCount, ok : 0 .. MaxCount,
               bad : 0 .. MaxCount, streak : 0 .. MaxCount,
               age : Nat]   \* ticks since lastSyncAt; they pass in SyncPipeline

TypeOK ==
    /\ job \in [JobIds -> Job]
    /\ pc \in [JobIds -> Awaits \cup {"idle", "dead"}]
    /\ op \in [JobIds -> OpIds \cup {None}]
    /\ ops \in [OpIds -> Operation]
    /\ sync \in [Users -> SyncStatus]
    /\ wrote \subseteq OpIds
    /\ events \subseteq {"sync.completed", "sync.failed"} \X (OpIds \cup {None})
    /\ breaker \in [Workers -> [Users -> BreakerState]]
    /\ up \subseteq Workers
    /\ faults \in 0 .. MaxFaults
    /\ crashes \in 0 .. MaxCrashes

Init ==
    /\ job = [j \in JobIds |-> [state |-> "free", user |-> None,
                                force |-> FALSE, by |-> None, stalls |-> 0]]
    /\ pc = [j \in JobIds |-> "idle"]
    /\ op = [j \in JobIds |-> None]
    /\ ops = [o \in OpIds |-> [status |-> "none", user |-> None]]
    /\ sync = [u \in Users |-> [status |-> "pending", total |-> 0, ok |-> 0,
                                bad |-> 0, streak |-> 0, age |-> 0]]
    /\ wrote = {}
    /\ events = {}
    /\ breaker = [w \in Workers |-> [u \in Users |-> Closed]]
    /\ up = Workers
    /\ faults = 0
    /\ crashes = 0

------------------------------------------------------------------------------
(* Queue: BullMQ with the worker's options *)

InUse == {"waiting", "active"}

\* syncQueue.add, from handleSyncRequest or from the periodic scheduler.
AddJob(j, u, force) ==
    /\ job[j].state = "free"
    /\ job' = [job EXCEPT ![j] = [state |-> "waiting", user |-> u,
                                  force |-> force, by |-> None, stalls |-> 0]]
    /\ UNCHANGED <<pc, op, ops, sync, wrote, events, breaker, up, faults, crashes>>

\* handleCancelOperation: job.remove() throws on a job some process holds.
CancelJob(j) ==
    /\ job[j].state = "waiting"
    /\ job' = [job EXCEPT ![j].state = "removed"]
    /\ UNCHANGED <<pc, op, ops, sync, wrote, events, breaker, up, faults, crashes>>

Held(w) == {j \in JobIds : job[j].state = "active" /\ job[j].by = w}

\* A process takes a waiting job and calls processJob.
Pick(w, j) ==
    /\ w \in up
    /\ job[j].state = "waiting"
    /\ Cardinality({i \in Held(w) : pc[i] # "dead"}) < Concurrency
    /\ job' = [job EXCEPT ![j].state = "active", ![j].by = w]
    /\ pc' = [pc EXCEPT ![j] = "create"]
    /\ UNCHANGED <<op, ops, sync, wrote, events, breaker, up, faults, crashes>>

\* processJob never throws, so every call that ends is a completed job.
Ack(j) ==
    /\ pc[j] = "ack"
    /\ job' = [job EXCEPT ![j].state = "completed", ![j].by = None]
    /\ pc' = [pc EXCEPT ![j] = "idle"]
    /\ op' = [op EXCEPT ![j] = None]
    /\ UNCHANGED <<ops, sync, wrote, events, breaker, up, faults, crashes>>

\* Mutant: only jobs of a process that is down are looked for.
StalledOfDown(j) ==
    /\ up # {}
    /\ pc[j] = "dead" /\ job[j].by \notin up
    /\ job' = [job EXCEPT ![j].state = IF job[j].stalls < MaxStalled
                                       THEN "waiting" ELSE "failed",
                          ![j].stalls = @ + 1, ![j].by = None]
    /\ pc' = [pc EXCEPT ![j] = "idle"]
    /\ UNCHANGED <<op, ops, sync, wrote, events, breaker, up, faults, crashes>>

\* The stalled check of a live process finds a job whose lock expired.
Stalled(j) ==
    /\ up # {}
    /\ pc[j] = "dead"
    /\ job' = [job EXCEPT ![j].state = IF job[j].stalls < MaxStalled
                                       THEN "waiting" ELSE "failed",
                          ![j].stalls = @ + 1, ![j].by = None]
    /\ pc' = [pc EXCEPT ![j] = "idle"]
    /\ UNCHANGED <<op, ops, sync, wrote, events, breaker, up, faults, crashes>>

------------------------------------------------------------------------------
(* Processor: one action per await of processJob *)

Goto(j, await) == pc' = [pc EXCEPT ![j] = await]

DbFault == faults < MaxFaults /\ faults' = faults + 1

\* The updates of user_sync_status.  Each is one findOneAndUpdate with $inc.
Inc(n) == IF n < MaxCount THEN n + 1 ELSE n

Started(s) == [s EXCEPT !.status = "running", !.total = Inc(@), !.age = 0]
Succeeded(s) ==
    [s EXCEPT !.status = "completed", !.ok = Inc(@), !.streak = 0, !.age = 0]

Failed(s) == [s EXCEPT !.status = "failed", !.bad = Inc(@), !.streak = Inc(@)]

\* markSyncStarted, markSyncCompleted and markSyncFailed swallow an error.
MarkSync(j, s) ==
    \/ sync' = [sync EXCEPT ![job[j].user] = s] /\ UNCHANGED faults
    \/ DbFault /\ UNCHANGED sync

\* Mutant: the update replaces the document instead of setting its status.
UpdateOpReplaces(j, status) ==
    \/ /\ ops' = IF op[j] = None THEN ops
                 ELSE [ops EXCEPT ![op[j]] = [status |-> status]]
       /\ UNCHANGED faults
    \/ DbFault /\ UNCHANGED ops

\* updateSyncOperation: no guard on the present status, nothing to do without
\* a record, and an error is swallowed.
UpdateOp(j, status) ==
    \/ /\ ops' = IF op[j] = None THEN ops
                 ELSE [ops EXCEPT ![op[j]].status = status]
       /\ UNCHANGED faults
    \/ DbFault /\ UNCHANGED ops

BreakerOf(j) == breaker[job[j].by][job[j].user]

\* saveCircuitBreakerState follows every change and changes nothing: it looks
\* for the wallet in PostgreSQL's sync_operations, which the worker never
\* fills, ordered by a column that is not there, and swallows the error.
SetBreaker(j, b) ==
    breaker' = [breaker EXCEPT ![job[j].by][job[j].user] = b]

Unused == {o \in OpIds : ops[o].status = "none"}

\* createSyncOperation throws, which is the failure of the call.
CreateThrows(j) ==
    /\ DbFault
    /\ SetBreaker(j, AfterFailure(BreakerOf(j)))
    /\ Goto(j, "fail")

\* It stores the record under the call's randomUUID(), an unused id; if it
\* throws, MongoDB may have stored the record or not.
CreateOp(j) ==
    /\ pc[j] = "create"
    /\ \/ /\ Unused # {}
          /\ LET o == CHOOSE o \in Unused : TRUE
             IN  /\ ops' = [ops EXCEPT ![o] = [status |-> "running",
                                               user |-> job[j].user]]
                 /\ op' = [op EXCEPT ![j] = o]
          /\ \/ Goto(j, "start") /\ UNCHANGED <<breaker, faults>>
             \/ CreateThrows(j)
       \/ CreateThrows(j) /\ UNCHANGED <<ops, op>>
    /\ UNCHANGED <<job, sync, wrote, events, up, crashes>>

\* markSyncStarted, then the breaker: an open one ends the call as a failure,
\* which is itself recorded as one.
MarkStarted(j) ==
    /\ pc[j] = "start"
    /\ MarkSync(j, Started(sync[job[j].user]))
    /\ IF ~job[j].force /\ IsOpen(BreakerOf(j))
       THEN SetBreaker(j, AfterFailure(BreakerOf(j))) /\ Goto(j, "fail")
       ELSE /\ IF job[j].force THEN UNCHANGED breaker
                               ELSE SetBreaker(j, Asked(BreakerOf(j)))
            /\ Goto(j, "restart")
    /\ UNCHANGED <<job, op, ops, wrote, events, up, crashes>>

\* performPortfolioSync marks the sync as started a second time.
MarkStartedAgain(j) ==
    /\ pc[j] = "restart"
    /\ MarkSync(j, Started(sync[job[j].user]))
    /\ Goto(j, "fetch")
    /\ UNCHANGED <<job, op, ops, wrote, events, breaker, up, crashes>>

\* getFullPortfolio answers or throws.
Fetch(j) ==
    /\ pc[j] = "fetch"
    /\ \/ Goto(j, "save")
       \/ Goto(j, "unsynced")
    /\ UNCHANGED <<job, op, ops, sync, wrote, events, breaker, up, faults, crashes>>

\* Mutant: the error of a transaction that was rolled back is swallowed.
SaveSwallows(j) ==
    /\ pc[j] = "save"
    /\ wrote' = wrote \cup {op[j]} \/ UNCHANGED wrote
    /\ Goto(j, "synced")
    /\ UNCHANGED <<job, op, ops, sync, events, breaker, up, faults, crashes>>

\* savePortfolioHoldings: one transaction, committed or rolled back, or
\* committed although the reply to COMMIT was lost.
Save(j) ==
    /\ pc[j] = "save"
    /\ \/ wrote' = wrote \cup {op[j]} /\ Goto(j, "synced") /\ UNCHANGED faults
       \/ UNCHANGED wrote /\ Goto(j, "unsynced") /\ UNCHANGED faults
       \/ wrote' = wrote \cup {op[j]} /\ Goto(j, "unsynced") /\ DbFault
    /\ UNCHANGED <<job, op, ops, sync, events, breaker, up, crashes>>

MarkSynced(j) ==
    /\ pc[j] = "synced"
    /\ MarkSync(j, Succeeded(sync[job[j].user]))
    /\ Goto(j, "verify")
    /\ UNCHANGED <<job, op, ops, wrote, events, breaker, up, crashes>>

\* getUserTokenHoldings may still throw; then recordSuccess.
Verify(j) ==
    /\ pc[j] = "verify"
    /\ \/ SetBreaker(j, AfterSuccess(BreakerOf(j))) /\ Goto(j, "complete")
       \/ UNCHANGED breaker /\ Goto(j, "unsynced")
    /\ UNCHANGED <<job, op, ops, sync, wrote, events, up, faults, crashes>>

\* Mutant: the catch rethrows without marking the sync as failed.
MarkUnsyncedForgets(j) ==
    /\ pc[j] = "unsynced"
    /\ SetBreaker(j, AfterFailure(BreakerOf(j)))
    /\ Goto(j, "fail")
    /\ UNCHANGED <<job, op, ops, sync, wrote, events, up, faults, crashes>>

\* The catch of performPortfolioSync, then recordFailure in the outer catch.
MarkUnsynced(j) ==
    /\ pc[j] = "unsynced"
    /\ MarkSync(j, Failed(sync[job[j].user]))
    /\ SetBreaker(j, AfterFailure(BreakerOf(j)))
    /\ Goto(j, "fail")
    /\ UNCHANGED <<job, op, ops, wrote, events, up, crashes>>

CompleteOp(j) ==
    /\ pc[j] = "complete"
    /\ UpdateOp(j, "completed")
    /\ Goto(j, "recount")
    /\ UNCHANGED <<job, op, sync, wrote, events, breaker, up, crashes>>

MarkSyncedAgain(j) ==
    /\ pc[j] = "recount"
    /\ MarkSync(j, Succeeded(sync[job[j].user]))
    /\ Goto(j, "announce")
    /\ UNCHANGED <<job, op, ops, wrote, events, breaker, up, crashes>>

\* Mutant: the outer catch leaves the operation record alone.
FailOpForgets(j) ==
    /\ pc[j] = "fail"
    /\ Goto(j, "refail")
    /\ UNCHANGED <<job, op, ops, sync, wrote, events, breaker, up, faults, crashes>>

FailOp(j) ==
    /\ pc[j] = "fail"
    /\ UpdateOp(j, "failed")
    /\ Goto(j, "refail")
    /\ UNCHANGED <<job, op, sync, wrote, events, breaker, up, crashes>>

MarkUnsyncedAgain(j) ==
    /\ pc[j] = "refail"
    /\ MarkSync(j, Failed(sync[job[j].user]))
    /\ Goto(j, "lament")
    /\ UNCHANGED <<job, op, ops, wrote, events, breaker, up, crashes>>

\* Mutant: the completion is published in both cases.
PublishCompletion(j) ==
    /\ pc[j] \in {"announce", "lament"}
    /\ events' = events \cup {<<"sync.completed", op[j]>>}
    /\ Goto(j, "ack")
    /\ UNCHANGED <<job, op, ops, sync, wrote, breaker, up, faults, crashes>>

\* Mutant: an error of publishing a completion reaches the outer catch.
PublishThrows(j) ==
    /\ \/ /\ pc[j] = "announce"
          /\ events' = events \cup {<<"sync.completed", op[j]>>}
          /\ Goto(j, "ack")
       \/ /\ pc[j] = "lament"
          /\ events' = events \cup {<<"sync.failed", op[j]>>}
          /\ Goto(j, "ack")
       \/ pc[j] = "announce" /\ UNCHANGED events /\ Goto(j, "fail")
    /\ UNCHANGED <<job, op, ops, sync, wrote, breaker, up, faults, crashes>>

\* publishSyncCompleted and publishSyncFailed swallow an error.
Publish(j) ==
    /\ \/ pc[j] = "announce" /\ events' = events \cup {<<"sync.completed", op[j]>>}
       \/ pc[j] = "lament" /\ events' = events \cup {<<"sync.failed", op[j]>>}
       \/ pc[j] \in {"announce", "lament"} /\ UNCHANGED events
    /\ Goto(j, "ack")
    /\ UNCHANGED <<job, op, ops, sync, wrote, breaker, up, faults, crashes>>

------------------------------------------------------------------------------
(* Processes *)

\* The process exits with jobs under way: uncaughtException, the 10 s kill of
\* the cluster shutdown, out of memory.  Its memory is gone.
Crash(w) ==
    /\ w \in up
    /\ crashes < MaxCrashes
    /\ crashes' = crashes + 1
    /\ up' = up \ {w}
    /\ pc' = [j \in JobIds |-> IF j \in Held(w) THEN "dead" ELSE pc[j]]
    /\ op' = [j \in JobIds |-> IF j \in Held(w) THEN None ELSE op[j]]
    /\ breaker' = [breaker EXCEPT ![w] = [u \in Users |-> Closed]]
    /\ UNCHANGED <<job, ops, sync, wrote, events, faults>>

FailedOps(u) == {o \in OpIds : ops[o].status = "failed" /\ ops[o].user = u}

\* The primary forks it again; SyncProcessor.initialize rebuilds the breakers
\* from the failed operations of the last hour, which are some of them.
Restart(w) ==
    /\ w \notin up
    /\ up' = up \cup {w}
    /\ \E count \in [Users -> 0 .. Cardinality(OpIds)], cooled \in [Users -> BOOLEAN] :
         /\ \A u \in Users : count[u] <= Cardinality(FailedOps(u))
         /\ breaker' = [breaker EXCEPT ![w] =
                          [u \in Users |-> Reloaded(count[u], cooled[u])]]
    /\ UNCHANGED <<job, pc, op, ops, sync, wrote, events, faults, crashes>>

\* nextAttemptTime passes.
CoolDown(w, u) ==
    /\ breaker[w][u].state = "open"
    /\ ~breaker[w][u].cooled
    /\ breaker' = [breaker EXCEPT ![w][u].cooled = TRUE]
    /\ UNCHANGED <<job, pc, op, ops, sync, wrote, events, up, faults, crashes>>

------------------------------------------------------------------------------
Process(j) ==
    \/ CreateOp(j) \/ MarkStarted(j)
    \/ MarkStartedAgain(j) \/ Fetch(j) \/ Save(j) \/ MarkSynced(j) \/ Verify(j)
    \/ MarkUnsynced(j)
    \/ CompleteOp(j) \/ MarkSyncedAgain(j)
    \/ FailOp(j) \/ MarkUnsyncedAgain(j)
    \/ Publish(j) \/ Ack(j)

Worker ==
    \/ \E w \in Workers, j \in JobIds : Pick(w, j)
    \/ \E j \in JobIds : Process(j) \/ Stalled(j)

Environment ==
    \/ \E w \in Workers : Crash(w) \/ Restart(w)
    \/ \E w \in Workers, u \in Users : CoolDown(w, u)

Next ==
    \/ \E j \in JobIds, u \in Users, force \in BOOLEAN : AddJob(j, u, force)
    \/ \E j \in JobIds : CancelJob(j)
    \/ Worker
    \/ Environment

Spec == Init /\ [][Next]_vars

\* A live process takes jobs and runs the calls it started; BullMQ finds
\* stalled jobs; the primary forks a process that exited.  Clients, crashes and
\* failures are free to happen or not.
Fairness ==
    /\ \A j \in JobIds : /\ WF_vars(Process(j))
                         /\ WF_vars(Stalled(j))
                         /\ WF_vars(\E w \in Workers : Pick(w, j))
    /\ \A w \in Workers : WF_vars(Restart(w))

FairSpec == Spec /\ Fairness

------------------------------------------------------------------------------
(* Properties *)

Live(j) == pc[j] \in Awaits

\* Operations still 'running' that no call will ever update again.
Orphans == {o \in OpIds : /\ ops[o].status = "running"
                          /\ \A j \in JobIds : Live(j) => op[j] # o}

\* No job of the user is being processed, or was when its process crashed.
AtRest(u) == \A j \in JobIds : job[j].state = "active" => job[j].user # u

Undisturbed == faults = 0 /\ crashes = 0

\* A sync operation is recorded as completed only after PostgreSQL committed
\* the holdings it fetched, whatever other calls for the user did meanwhile.
CompletedMeansSaved ==
    \A o \in OpIds : ops[o].status = "completed" => o \in wrote

\* The outcome of an operation is final: no later await, no publishing error
\* and no second run of the same job ever changes it (updateSyncOperation
\* itself has no guard).
TerminalIsFinal ==
    [][\A o \in OpIds : ops[o].status \in {"completed", "failed"}
                            => ops'[o] = ops[o]]_vars

\* What Kafka announces is true: a completed sync is in PostgreSQL, is not
\* announced as failed too, and its record says completed unless MongoDB
\* refused the update.
EventsAreTrue ==
    \A o \in OpIds :
        /\ <<"sync.completed", o>> \in events =>
             /\ o \in wrote
             /\ <<"sync.failed", o>> \notin events
             /\ ops[o].status = "completed" \/ faults > 0
        /\ <<"sync.failed", o>> \in events => ops[o].status # "completed"

\* An operation is left 'running' for good only by a crash, one for each job
\* the process held, or by an update MongoDB refused and the worker swallowed.
OrphansExplained ==
    Cardinality(Orphans) <= faults + crashes * Concurrency

\* When the user's calls are over, however their awaits interleaved,
\* user_sync_status does not say 'running', and its counters have lost no
\* update.  Each call counts its success, and its failure after the first
\* start, twice; a call that fails once its holdings are saved counts as one
\* success and two failures.
StatusSettles ==
    \A u \in Users : AtRest(u) /\ Undisturbed =>
        LET of(status) == {o \in OpIds : ops[o].user = u /\ ops[o].status = status}
            late == of("failed") \cap wrote
        IN  /\ sync[u].status # "running"
            /\ sync[u].ok = 2 * Cardinality(of("completed")) + Cardinality(late)
            /\ sync[u].total + Cardinality(late) = sync[u].ok + sync[u].bad

\* Every failure a process holds against a user is a failed operation in
\* MongoDB, one about to be written, or one MongoDB refused.
FailuresAreBacked ==
    \A w \in Workers, u \in Users :
        breaker[w][u].failures <=
            Cardinality(FailedOps(u))
            + Cardinality({j \in JobIds : pc[j] = "fail" /\ job[j].by = w
                                          /\ job[j].user = u})
            + faults

(* Jobs survive worker restarts: a queued job is processed to its end, or  *)
(* cancelled, or given up after stalling too often.  The record of an      *)
(* operation leaves 'running', or is an orphan.                            *)
EverySyncEnds ==
    /\ \A j \in JobIds : job[j].state \in InUse ~> job[j].state \notin InUse
    /\ \A o \in OpIds : ops[o].status = "running" ~>
                             (ops[o].status # "running" \/ o \in Orphans)
==============================================================================
