----------------------------- MODULE SyncPipeline -----------------------------
(***************************************************************************)
(* The periodic scheduler of every worker process                           *)
(* (workers/sync-worker/src/scheduler/periodicSyncScheduler.ts) composed    *)
(* with the queue and the processor of SyncProcessor.  The scheduler reads  *)
(* the operations that SyncProcessor's calls record, and adds the jobs they *)
(* run; it is the only source of jobs here, because the requests of the     *)
(* core service do not reach the worker (SyncChannel).                      *)
(*                                                                          *)
(* A process has two loops over one map of users: "main" (every 5 or 15     *)
(* minutes) and "stale" (every 30 minutes).  Each selects users, awaits the *)
(* active operations from MongoDB, and then adds a job for every selected   *)
(* user that has none.                                                      *)
(***************************************************************************)
EXTENDS SyncProcessor

CONSTANTS
    Due,        \* ticks after which a user needs a sync (market/off-hours interval)
    Stale,      \* ticks after which its data is stale (staleDataThreshold)
    Dormant,    \* ticks after which a user counts as inactive (24 hours)
    MaxAge,     \* bound: where the ages saturate
    BatchSize   \* maxBatchSize

ASSUME PipelineAssumption ==
    /\ Due \in Nat /\ Stale \in Nat /\ Dormant \in Nat /\ MaxAge \in Nat
    /\ 0 < Due /\ Due <= Stale /\ Stale <= Dormant /\ Stale <= MaxAge
    /\ BatchSize \in Nat \ {0}
    /\ IsFiniteSet(Users)

VARIABLES
    age,    \* userSyncInfo of each process: ticks since lastSyncAt
    idle,   \* and since lastActiveAt
    loaded, \* the processes whose userSyncInfo holds the users; the others' is empty
    loop    \* where each loop of each process is, and what it holds

userSyncInfo == <<age, idle, loaded>>
schedVars == <<userSyncInfo, loop>>
pipeVars == <<vars, schedVars>>

Loops == {"main", "stale"}

\* "current": the entries the loop selected are still those of the map.
Loop == [at : {"sleep", "read", "add", "reload"}, users : SUBSET Users,
         busy : SUBSET Users, current : BOOLEAN]

Asleep == [at |-> "sleep", users |-> {}, busy |-> {}, current |-> TRUE]

PipelineTypeOK ==
    /\ TypeOK
    /\ age \in [Workers -> [Users -> 0 .. MaxAge]]
    /\ idle \in [Workers -> [Users -> 0 .. MaxAge]]
    /\ loaded \subseteq Workers
    /\ loop \in [Workers -> [Loops -> Loop]]

PipelineInit ==
    /\ Init
    /\ age = [w \in Workers |-> [u \in Users |-> 0]]
    /\ idle = [w \in Workers |-> [u \in Users |-> 0]]
    /\ loaded = Workers
    /\ loop = [w \in Workers |-> [l \in Loops |-> Asleep]]

------------------------------------------------------------------------------
(* The scheduler of one process *)

Running(u) == \E o \in OpIds : ops[o].status = "running" /\ ops[o].user = u

SetLoop(w, l, at, users, busy) ==
    loop' = [loop EXCEPT ![w][l] = [at |-> at, users |-> users, busy |-> busy,
                                    current |-> TRUE]]

\* The users in the map of a process.
Known(w) == IF w \in loaded THEN Users ELSE {}

\* getUsersForPeriodicSync: the users due and active, the longest unsynced
\* first, at most one batch of them.
Candidates(w) == {u \in Known(w) : age[w][u] >= Due /\ idle[w][u] < Dormant}

IsBatch(w, batch) ==
    /\ batch \subseteq Candidates(w)
    /\ Cardinality(batch) <= BatchSize
    /\ batch # Candidates(w) => Cardinality(batch) = BatchSize
    /\ \A u \in batch, v \in Candidates(w) \ batch : age[w][u] >= age[w][v]

\* The main loop wakes.  With nobody to sync it goes on to reload the users,
\* if the hour is due, or to sleep again.
SelectMain(w) ==
    /\ w \in up
    /\ loop[w]["main"].at = "sleep"
    /\ \E batch \in SUBSET Users :
         /\ IsBatch(w, batch)
         /\ SetLoop(w, "main", IF batch = {} THEN "reload" ELSE "read", batch, {})
    /\ UNCHANGED <<vars, userSyncInfo>>

\* Mutant: the main loop's condition on activity is applied here too.
SelectStaleActive(w) ==
    /\ w \in up
    /\ loop[w]["stale"].at = "sleep"
    /\ LET stale == {u \in Known(w) : age[w][u] >= Stale /\ idle[w][u] < Dormant}
       IN  stale # {} /\ SetLoop(w, "stale", "read", stale, {})
    /\ UNCHANGED <<vars, userSyncInfo>>

\* getStaleUsers: no limit on the batch and no look at the user's activity.
SelectStale(w) ==
    /\ w \in up
    /\ loop[w]["stale"].at = "sleep"
    /\ LET stale == {u \in Known(w) : age[w][u] >= Stale}
       IN  stale # {} /\ SetLoop(w, "stale", "read", stale, {})
    /\ UNCHANGED <<vars, userSyncInfo>>

\* Mutant: the answer of the database is not kept.
ReadActiveForgets(w, l) ==
    /\ loop[w][l].at = "read"
    /\ loop' = [loop EXCEPT ![w][l].at = "add"]
    /\ UNCHANGED <<vars, userSyncInfo>>

\* getActiveSyncOperations, whose error reads as "no active operations".
ReadActive(w, l) ==
    /\ loop[w][l].at = "read"
    /\ \/ /\ loop' = [loop EXCEPT ![w][l].at = "add",
                                  ![w][l].busy = {u \in Users : Running(u)}]
          /\ UNCHANGED faults
       \/ /\ DbFault
          /\ loop' = [loop EXCEPT ![w][l].at = "add"]
    /\ UNCHANGED <<job, pc, op, ops, sync, wrote, events, breaker, up, crashes,
                   userSyncInfo>>

FreeJobs == {j \in JobIds : job[j].state = "free"}

\* The users without an active operation get a job each, and lastSyncAt is set
\* whether Redis takes the job or not.  An entry that a reload has replaced
\* meanwhile keeps the new one's lastSyncAt as it is.
AddBatch(w, l) ==
    LET chosen == loop[w][l].users \ loop[w][l].busy
    IN
    /\ loop[w][l].at = "add"
    /\ \E added \in SUBSET chosen :
         /\ added # chosen => DbFault
         /\ added = chosen => UNCHANGED faults
         /\ \E place \in [added -> FreeJobs] :
              /\ \A u, v \in added : place[u] = place[v] => u = v
              /\ job' = [j \in JobIds |->
                           IF \E u \in added : place[u] = j
                           THEN [state |-> "waiting",
                                 user |-> CHOOSE u \in added : place[u] = j,
                                 force |-> FALSE, by |-> None, stalls |-> 0]
                           ELSE job[j]]
    /\ age' = IF loop[w][l].current
              THEN [age EXCEPT ![w] = [u \in Users |-> IF u \in chosen THEN 0
                                                       ELSE age[w][u]]]
              ELSE age
    /\ loop' = [loop EXCEPT ![w][l] =
                  [Asleep EXCEPT !.at = IF l = "main" THEN "reload" ELSE "sleep"]]
    /\ UNCHANGED <<pc, op, ops, sync, wrote, events, breaker, up, crashes, idle, loaded>>

\* The map of a process that loads its users now; every status record has
\* isSyncEnabled set, because nothing the worker does succeeds in clearing it.
Loaded == [u \in Users |-> sync[u].age]

\* Once an hour the main loop reloads the map.  What the stale loop selected is
\* of the old map then.
ReloadUsers(w) ==
    /\ loop[w]["main"].at = "reload"
    /\ age' = [age EXCEPT ![w] = Loaded]
    /\ idle' = [idle EXCEPT ![w] = Loaded]
    /\ loaded' = loaded \cup {w}
    /\ loop' = [loop EXCEPT ![w]["main"] = Asleep,
                            ![w]["stale"].current = (@ /\ loop[w]["stale"].at = "sleep")]
    /\ UNCHANGED vars

\* At other times, or on an error, it sleeps at once.
SkipReload(w) ==
    /\ loop[w]["main"].at = "reload"
    /\ loop' = [loop EXCEPT ![w]["main"] = Asleep]
    /\ UNCHANGED <<vars, userSyncInfo>>

Reload(w) == ReloadUsers(w) \/ SkipReload(w)

------------------------------------------------------------------------------
(* Composition *)

Older(a) == IF a < MaxAge THEN a + 1 ELSE a

\* Time passes for every record alike.
Tick ==
    /\ age' = [w \in Workers |-> [u \in Users |-> Older(age[w][u])]]
    /\ idle' = [w \in Workers |-> [u \in Users |-> Older(idle[w][u])]]
    /\ sync' = [u \in Users |-> [sync[u] EXCEPT !.age = Older(@)]]
    /\ UNCHANGED <<job, pc, op, ops, wrote, events, breaker, up, faults, crashes,
                   loaded, loop>>

CrashScheduler(w) ==
    /\ Crash(w)
    /\ loop' = [loop EXCEPT ![w] = [l \in Loops |-> Asleep]]
    /\ UNCHANGED userSyncInfo

\* start(): the users are loaded before the loops run; if that fails, they run
\* with no users.
RestartScheduler(w) ==
    /\ Restart(w)
    /\ \/ /\ age' = [age EXCEPT ![w] = Loaded]
          /\ idle' = [idle EXCEPT ![w] = Loaded]
          /\ loaded' = loaded \cup {w}
       \/ loaded' = loaded \ {w} /\ UNCHANGED <<age, idle>>
    /\ UNCHANGED loop

Scheduler(w) ==
    \/ SelectMain(w) \/ SelectStale(w) \/ Reload(w)
    \/ \E l \in Loops : ReadActive(w, l) \/ AddBatch(w, l)

PipelineNext ==
    \/ \E w \in Workers : Scheduler(w) \/ CrashScheduler(w) \/ RestartScheduler(w)
    \/ Tick
    \/ /\ \/ Worker
          \/ \E w \in Workers, u \in Users : CoolDown(w, u)
       /\ UNCHANGED schedVars

PipelineSpec == PipelineInit /\ [][PipelineNext]_pipeVars

PipelineFairness ==
    /\ \A j \in JobIds :
         /\ WF_pipeVars(Process(j) /\ UNCHANGED schedVars)
         /\ WF_pipeVars(Stalled(j) /\ UNCHANGED schedVars)
         /\ WF_pipeVars((\E w \in Workers : Pick(w, j)) /\ UNCHANGED schedVars)
    /\ \A w \in Workers :
         /\ WF_pipeVars(RestartScheduler(w))
         /\ WF_pipeVars(SelectMain(w)) /\ WF_pipeVars(Reload(w)) /\ SF_pipeVars(ReloadUsers(w))
         /\ WF_pipeVars(SelectStale(w))
         /\ \A l \in Loops : WF_pipeVars(ReadActive(w, l)) /\ WF_pipeVars(AddBatch(w, l))
    /\ WF_pipeVars(Tick)

FairPipelineSpec == PipelineSpec /\ PipelineFairness

------------------------------------------------------------------------------
(* Properties *)

Orphaned(u) == \E o \in Orphans : ops[o].user = u

\* The bound on jobs is used up: a batch may not find room.
Exhausted == Cardinality(FreeJobs) < Cardinality(Users)

\* The user has an orphaned operation, and every batch under way knows.
Silenced(u) ==
    /\ Orphaned(u)
    /\ \A w \in Workers, l \in Loops :
         loop[w][l].at = "add" => u \in loop[w][l].busy

\* Nothing closes an orphaned operation, so the duplicate check that keeps a
\* second operation from starting keeps the user from ever being scheduled
\* again, by any process, across restarts and reloads.
OrphanSilences ==
    [][\A u \in Users :
          Silenced(u) /\ faults' = faults =>
              /\ Silenced(u)'
              /\ \A j \in JobIds : job[j].state = "free" /\ job'[j].state # "free"
                                       => job'[j].user # u]_pipeVars

\* Data older than the stale threshold is synced, whatever the user's
\* activity, the batch limit, failed syncs and restarts, unless an operation of
\* the user was orphaned.
StaleIsForcedUnlessOrphaned ==
    \A u \in Users :
        sync[u].age >= Stale ~> (sync[u].age < Stale \/ Orphaned(u) \/ Exhausted)

\* Stale Data Detection as documented: data older than the threshold is synced.
StaleIsForced ==
    \A u \in Users : sync[u].age >= Stale ~> (sync[u].age < Stale \/ Exhausted)

\* The duplicate check as documented: no user has two active operations.
NoDuplicateSync ==
    \A o, p \in OpIds :
        /\ ops[o].status = "running" /\ ops[p].status = "running"
        /\ ops[o].user = ops[p].user
        => o = p
==============================================================================
