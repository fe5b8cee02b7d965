-------------------------- MODULE SyncProcessorProofs --------------------------
(***************************************************************************)
(* Proofs about SyncProcessor and, at the end, about SyncPipeline, for any  *)
(* number of users, processes, jobs, operations, failures and crashes.      *)
(*                                                                          *)
(* updateSyncOperation writes a status whatever the record says now.  That  *)
(* outcomes are nevertheless true and final rests on who may write: only    *)
(* the call that created an operation holds its id (OpsAreOwned), and the   *)
(* call's await tells what the record can say (StagesAgree).                *)
(***************************************************************************)
EXTENDS SyncPipeline, FiniteSetTheorems, TLAPS

\* A running call belongs to a job some live process holds for some user.
CallsAreHeld ==
    /\ \A j \in JobIds : job[j].state # "free" => job[j].user \in Users
    /\ \A j \in JobIds : pc[j] # "idle" =>
         job[j].state = "active" /\ job[j].by \in Workers

\* An operation id is held by one call, and its record exists.
OpsAreOwned ==
    /\ \A j \in JobIds : op[j] # None => ops[op[j]].status # "none"
    /\ \A i, j \in JobIds : op[i] # None /\ op[i] = op[j] => i = j

BeforeOutcome == {"start", "restart", "fetch", "save", "synced", "verify",
                  "unsynced", "complete"}

\* What the record of a call's operation says at each of its awaits.
StagesAgree ==
    \A j \in JobIds :
        /\ pc[j] \in {"idle", "dead", "create"} => op[j] = None
        /\ pc[j] \in BeforeOutcome =>
             op[j] # None /\ ops[op[j]].status = "running"
        /\ pc[j] = "fail" /\ op[j] # None => ops[op[j]].status = "running"
        /\ pc[j] \in {"synced", "verify", "complete"} => op[j] \in wrote

Inv == TypeOK /\ CallsAreHeld /\ OpsAreOwned /\ StagesAgree /\ CompletedMeansSaved

------------------------------------------------------------------------------
(* The circuit breaker's operators stay within their type *)

\* The operators on a circuit-breaker entry stay within its type.
LEMMA BreakerType ==
    ASSUME NEW b \in BreakerState
    PROVE  /\ Closed \in BreakerState
           /\ Asked(b) \in BreakerState
           /\ AfterFailure(b) \in BreakerState
           /\ AfterSuccess(b) \in BreakerState
           /\ \A n \in Nat, cooled \in BOOLEAN : Reloaded(n, cooled) \in BreakerState
BY BreakerAssumption
   DEF BreakerState, Closed, Asked, AfterFailure, AfterSuccess, Reloaded

\* The three updates of user_sync_status stay within the record's type.
LEMMA SyncStatusType ==
    ASSUME NEW s \in SyncStatus
    PROVE  /\ Started(s) \in SyncStatus
           /\ Succeeded(s) \in SyncStatus
           /\ Failed(s) \in SyncStatus
<1>1. \A n \in 0 .. MaxCount : Inc(n) \in 0 .. MaxCount
  BY ProcessorAssumption DEF Inc
<1>2. 0 \in 0 .. MaxCount
  BY ProcessorAssumption
<1>3. Started(s) \in SyncStatus
  BY <1>1, <1>2 DEF SyncStatus, Started
<1>4. Succeeded(s) \in SyncStatus
  BY <1>1, <1>2 DEF SyncStatus, Succeeded
<1>5. Failed(s) \in SyncStatus
  BY <1>1, <1>2 DEF SyncStatus, Failed
<1>6. QED
  BY <1>3, <1>4, <1>5

\* Updates of one entry stay within the type of the variable.
LEMMA BreakerUpdateType ==
    ASSUME TypeOK, NEW w \in Workers, NEW u \in Users, NEW b \in BreakerState
    PROVE  [breaker EXCEPT ![w][u] = b] \in [Workers -> [Users -> BreakerState]]
BY DEF TypeOK

\* BullMQ's updates of a job record stay within its type.
LEMMA JobUpdateType ==
    ASSUME TypeOK, NEW j \in JobIds, NEW state \in JobState,
           NEW w \in Workers \cup {None}
    PROVE  /\ [job EXCEPT ![j].state = state] \in [JobIds -> Job]
           /\ [job EXCEPT ![j].state = state, ![j].by = w] \in [JobIds -> Job]
           /\ [job EXCEPT ![j].state = state, ![j].stalls = @ + 1, ![j].by = w]
                 \in [JobIds -> Job]
<1>1. job[j] \in Job
  BY DEF TypeOK
<1>2. job[j].stalls + 1 \in Nat
  BY <1>1 DEF Job
<1>3. [job[j] EXCEPT !.state = state] \in Job
  BY <1>1 DEF Job
<1>4. [job[j] EXCEPT !.state = state, !.by = w] \in Job
  BY <1>1 DEF Job
<1>5. [job[j] EXCEPT !.state = state, !.stalls = @ + 1, !.by = w] \in Job
  BY <1>1, <1>2 DEF Job
<1>6. QED
  BY <1>3, <1>4, <1>5 DEF TypeOK

\* Setting the status of a sync_operations record keeps its type.
LEMMA OpsUpdateType ==
    ASSUME TypeOK, NEW o \in OpIds, NEW status \in {"completed", "failed"}
    PROVE  [ops EXCEPT ![o].status = status] \in [OpIds -> Operation]
<1>1. [ops[o] EXCEPT !.status = status] \in Operation
  BY DEF TypeOK, Operation
<1>2. QED
  BY <1>1 DEF TypeOK

\* What a running call may rely on, and leaves behind it.
LEMMA SetBreakerType ==
    ASSUME Inv, NEW j \in JobIds, pc[j] \in Awaits
    PROVE  /\ SetBreaker(j, AfterFailure(BreakerOf(j)))
                => breaker' \in [Workers -> [Users -> BreakerState]]
           /\ SetBreaker(j, AfterSuccess(BreakerOf(j)))
                => breaker' \in [Workers -> [Users -> BreakerState]]
           /\ SetBreaker(j, Asked(BreakerOf(j)))
                => breaker' \in [Workers -> [Users -> BreakerState]]
<1>1. job[j].by \in Workers /\ job[j].user \in Users
  BY DEF Inv, CallsAreHeld, Awaits
<1>2. BreakerOf(j) \in BreakerState
  BY <1>1 DEF Inv, TypeOK, BreakerOf
<1>3. /\ AfterFailure(BreakerOf(j)) \in BreakerState
      /\ AfterSuccess(BreakerOf(j)) \in BreakerState
      /\ Asked(BreakerOf(j)) \in BreakerState
  BY <1>2, BreakerType
<1>4. \A b \in BreakerState : [breaker EXCEPT ![job[j].by][job[j].user] = b]
                                \in [Workers -> [Users -> BreakerState]]
  BY <1>1, BreakerUpdateType DEF Inv
<1>5. QED
  BY <1>3, <1>4 DEF SetBreaker

\* updateSyncOperation, applied or refused by MongoDB, keeps the types.
LEMMA UpdateOpType ==
    ASSUME TypeOK, NEW j \in JobIds, NEW status \in {"completed", "failed"},
           UpdateOp(j, status)
    PROVE  ops' \in [OpIds -> Operation] /\ faults' \in 0 .. MaxFaults
<1>1. faults' \in 0 .. MaxFaults
  BY ProcessorAssumption DEF TypeOK, UpdateOp, DbFault
<1>2. CASE ops' = ops
  BY <1>1, <1>2 DEF TypeOK
<1>3. CASE op[j] # None /\ ops' = [ops EXCEPT ![op[j]].status = status]
  <2>1. op[j] \in OpIds
    BY <1>3 DEF TypeOK
  <2>2. QED
    BY <1>1, <1>3, <2>1, OpsUpdateType
<1>4. QED
  BY <1>2, <1>3 DEF UpdateOp

\* The invariant holds before the first job: nothing runs, nothing is recorded.
LEMMA InitInv == Init => Inv
<1> SUFFICES ASSUME Init PROVE Inv
  OBVIOUS
<1>1. TypeOK
  BY ProcessorAssumption, BreakerAssumption
     DEF Init, TypeOK, Job, JobState, Operation, SyncStatus, Closed, BreakerState
<1>2. CallsAreHeld /\ OpsAreOwned /\ StagesAgree /\ CompletedMeansSaved
  BY DEF Init, CallsAreHeld, OpsAreOwned, StagesAgree, BeforeOutcome,
         CompletedMeansSaved
<1>3. QED
  BY <1>1, <1>2 DEF Inv

------------------------------------------------------------------------------
(* Each action preserves the invariant *)

\* Adding a job leaves calls and records alone.
LEMMA AddJobInv ==
    ASSUME Inv, NEW j \in JobIds, NEW u \in Users, NEW force \in BOOLEAN,
           AddJob(j, u, force)
    PROVE  Inv'
<1>1. TypeOK'
  BY DEF Inv, TypeOK, Job, JobState, AddJob
<1>2. CallsAreHeld' /\ OpsAreOwned' /\ StagesAgree' /\ CompletedMeansSaved'
  BY DEF Inv, TypeOK, Job, CallsAreHeld, OpsAreOwned, StagesAgree,
         BeforeOutcome, CompletedMeansSaved, AddJob
<1>3. QED
  BY <1>1, <1>2 DEF Inv

\* Only a waiting job is cancelled, and no call runs for it.
LEMMA CancelJobInv ==
    ASSUME Inv, NEW j \in JobIds,
           CancelJob(j)
    PROVE  Inv'
<1>1. TypeOK'
  <2>1. "removed" \in JobState /\ None \in Workers \cup {None}
    BY SMTT(30) DEF JobState
  <2>2. job' \in [JobIds -> Job]
    BY <2>1, JobUpdateType DEF Inv, CancelJob
  <2>3. QED
    BY <2>2 DEF Inv, TypeOK, CancelJob
<1>2. CallsAreHeld' /\ OpsAreOwned' /\ StagesAgree' /\ CompletedMeansSaved'
  BY DEF Inv, TypeOK, Job, CallsAreHeld, OpsAreOwned, StagesAgree,
         BeforeOutcome, CompletedMeansSaved, CancelJob
<1>3. QED
  BY <1>1, <1>2 DEF Inv

\* A picked job starts a call that owns no operation record yet.
LEMMA PickInv ==
    ASSUME Inv, NEW j \in JobIds, NEW w \in Workers,
           Pick(w, j)
    PROVE  Inv'
<1>1. TypeOK'
  <2>1. "active" \in JobState /\ w \in Workers \cup {None}
    BY SMTT(30) DEF JobState
  <2>2. job' \in [JobIds -> Job]
    BY <2>1, JobUpdateType DEF Inv, Pick
  <2>3. QED
    BY <2>2 DEF Inv, TypeOK, Awaits, Pick
<1>2. CallsAreHeld' /\ OpsAreOwned' /\ StagesAgree' /\ CompletedMeansSaved'
  BY DEF Inv, TypeOK, Job, CallsAreHeld, OpsAreOwned, StagesAgree,
         BeforeOutcome, CompletedMeansSaved, Pick
<1>3. QED
  BY <1>1, <1>2 DEF Inv

\* A call that ends gives up its operation record; the record stays as it is.
LEMMA AckInv ==
    ASSUME Inv, NEW j \in JobIds,
           Ack(j)
    PROVE  Inv'
<1>1. TypeOK'
  <2>1. "completed" \in JobState /\ None \in Workers \cup {None}
    BY SMTT(30) DEF JobState
  <2>2. job' \in [JobIds -> Job]
    BY <2>1, JobUpdateType DEF Inv, Ack
  <2>3. QED
    BY <2>2 DEF Inv, TypeOK, Ack
<1>2. CallsAreHeld' /\ OpsAreOwned' /\ StagesAgree' /\ CompletedMeansSaved'
  BY DEF Inv, TypeOK, Job, CallsAreHeld, OpsAreOwned, StagesAgree,
         BeforeOutcome, CompletedMeansSaved, Ack
<1>3. QED
  BY <1>1, <1>2 DEF Inv

\* A stalled job has no call, so queueing it again takes nothing from one.
LEMMA StalledInv ==
    ASSUME Inv, NEW j \in JobIds,
           Stalled(j)
    PROVE  Inv'
<1>1. TypeOK'
  <2>1. job' \in [JobIds -> Job]
    <3>1. None \in Workers \cup {None} /\ {"waiting", "failed"} \subseteq JobState
      BY DEF JobState
    <3>2. QED
      BY <3>1, JobUpdateType, ZenonT(60) DEF Inv, Stalled
  <2>2. pc' \in [JobIds -> Awaits \cup {"idle", "dead"}]
    BY DEF Inv, TypeOK, Stalled
  <2>3. QED
    BY <2>1, <2>2 DEF Inv, TypeOK, Stalled
<1>2. CallsAreHeld' /\ OpsAreOwned' /\ StagesAgree' /\ CompletedMeansSaved'
  BY DEF Inv, TypeOK, Job, CallsAreHeld, OpsAreOwned, StagesAgree,
         BeforeOutcome, CompletedMeansSaved, Stalled
<1>3. QED
  BY <1>1, <1>2 DEF Inv

\* createSyncOperation's outcome for the call: its failure, or the next await.
LEMMA CreateOpInv ==
    ASSUME Inv, NEW j \in JobIds, CreateOp(j)
    PROVE  Inv'
<1>1. /\ faults' \in 0 .. MaxFaults
      /\ breaker' \in [Workers -> [Users -> BreakerState]]
      /\ pc' = [pc EXCEPT ![j] = "start"] \/ pc' = [pc EXCEPT ![j] = "fail"]
  <2>1. CASE CreateThrows(j)
    <3>1. breaker' \in [Workers -> [Users -> BreakerState]]
      BY <2>1, SetBreakerType DEF CreateThrows, Awaits, CreateOp
    <3>2. QED
      BY <2>1, <3>1, ProcessorAssumption
         DEF Inv, TypeOK, CreateThrows, Goto, DbFault
  <2>2. CASE Goto(j, "start") /\ UNCHANGED <<breaker, faults>>
    BY <2>2 DEF Inv, TypeOK, Goto
  <2>3. QED
    BY <2>1, <2>2 DEF CreateOp
<1>2. CASE CreateThrows(j) /\ UNCHANGED <<ops, op>>
  <2>1. pc' = [pc EXCEPT ![j] = "fail"]
    BY <1>2 DEF CreateThrows, Goto
  <2>2. TypeOK'
    BY <1>1, <1>2, <2>1 DEF Inv, TypeOK, Awaits, CreateOp
  <2>3. CallsAreHeld' /\ OpsAreOwned' /\ StagesAgree' /\ CompletedMeansSaved'
    BY <1>2, <2>1
       DEF Inv, TypeOK, CallsAreHeld, OpsAreOwned, StagesAgree, BeforeOutcome,
           CompletedMeansSaved, CreateOp
  <2>4. QED
    BY <2>2, <2>3 DEF Inv
<1>3. CASE \E o \in Unused : /\ ops' = [ops EXCEPT ![o] = [status |-> "running",
                                                           user |-> job[j].user]]
                             /\ op' = [op EXCEPT ![j] = o]
  <2>1. PICK o \in Unused : /\ ops' = [ops EXCEPT ![o] = [status |-> "running",
                                                          user |-> job[j].user]]
                            /\ op' = [op EXCEPT ![j] = o]
    BY <1>3
  <2>2. o \in OpIds /\ ops[o].status = "none" /\ o # None
    BY ProcessorAssumption DEF Unused
  <2>3. [status |-> "running", user |-> job[j].user] \in Operation
    BY DEF Inv, TypeOK, Job, Operation
  <2>4. TypeOK'
    BY <1>1, <2>1, <2>2, <2>3 DEF Inv, TypeOK, Awaits, CreateOp
  <2>5. CallsAreHeld'
    BY <1>1, <2>1 DEF Inv, TypeOK, CallsAreHeld, CreateOp
  <2>6. OpsAreOwned'
    BY <2>1, <2>2 DEF Inv, TypeOK, OpsAreOwned, CreateOp
  <2>7. StagesAgree'
    <3> SUFFICES ASSUME NEW i \in JobIds PROVE StagesAgree!(i)'
      BY DEF StagesAgree
    <3>1. CASE i = j
      BY <1>1, <2>1, <2>2, <3>1 DEF Inv, TypeOK, BeforeOutcome, CreateOp
    <3>2. CASE i # j
      BY <1>1, <2>1, <2>2, <3>2
         DEF Inv, TypeOK, OpsAreOwned, StagesAgree, BeforeOutcome, CreateOp
    <3>3. QED
      BY <3>1, <3>2
  <2>8. CompletedMeansSaved'
    BY <2>1, <2>2 DEF Inv, TypeOK, CompletedMeansSaved, CreateOp
  <2>9. QED
    BY <2>4, <2>5, <2>6, <2>7, <2>8 DEF Inv
<1>4. QED
  BY <1>2, <1>3 DEF CreateOp

\* markSyncStarted and the breaker's answer leave the operation running.
LEMMA MarkStartedInv ==
    ASSUME Inv, NEW j \in JobIds,
           MarkStarted(j)
    PROVE  Inv'
<1>1. TypeOK'
  <2>1. breaker' \in [Workers -> [Users -> BreakerState]]
    BY SetBreakerType DEF Inv, TypeOK, Awaits, MarkStarted
  <2>2. sync' \in [Users -> SyncStatus] /\ faults' \in 0 .. MaxFaults
    BY SyncStatusType, ProcessorAssumption
         DEF Inv, TypeOK, CallsAreHeld, MarkStarted, MarkSync, DbFault
  <2>3. QED
    BY <2>1, <2>2 DEF Inv, TypeOK, Awaits, MarkStarted, Goto
<1>2. CallsAreHeld' /\ OpsAreOwned' /\ StagesAgree' /\ CompletedMeansSaved'
  BY DEF Inv, TypeOK, Job, CallsAreHeld, OpsAreOwned, StagesAgree,
         BeforeOutcome, CompletedMeansSaved, MarkStarted, Goto
<1>3. QED
  BY <1>1, <1>2 DEF Inv

\* The second markSyncStarted touches user_sync_status only.
LEMMA MarkStartedAgainInv ==
    ASSUME Inv, NEW j \in JobIds,
           MarkStartedAgain(j)
    PROVE  Inv'
<1>1. TypeOK'
  <2>1. sync' \in [Users -> SyncStatus] /\ faults' \in 0 .. MaxFaults
    BY SyncStatusType, ProcessorAssumption
       DEF Inv, TypeOK, CallsAreHeld, MarkStartedAgain, MarkSync, DbFault
  <2>2. pc' \in [JobIds -> Awaits \cup {"idle", "dead"}]
    BY DEF Inv, TypeOK, Awaits, MarkStartedAgain, Goto
  <2>3. QED
    BY <2>1, <2>2 DEF Inv, TypeOK, MarkStartedAgain
<1>2. CallsAreHeld' /\ OpsAreOwned' /\ StagesAgree' /\ CompletedMeansSaved'
  BY DEF Inv, TypeOK, Job, CallsAreHeld, OpsAreOwned, StagesAgree,
         BeforeOutcome, CompletedMeansSaved, MarkStartedAgain, Goto
<1>3. QED
  BY <1>1, <1>2 DEF Inv

\* Fetching the portfolio, or failing to, writes nothing.
LEMMA FetchInv ==
    ASSUME Inv, NEW j \in JobIds,
           Fetch(j)
    PROVE  Inv'
<1>1. TypeOK'
  BY DEF Inv, TypeOK, Awaits, Fetch, Goto
<1>2. CallsAreHeld' /\ OpsAreOwned' /\ StagesAgree' /\ CompletedMeansSaved'
  BY DEF Inv, TypeOK, Job, CallsAreHeld, OpsAreOwned, StagesAgree,
         BeforeOutcome, CompletedMeansSaved, Fetch, Goto
<1>3. QED
  BY <1>1, <1>2 DEF Inv

\* A call goes past the transaction only with the holdings committed.
LEMMA SaveInv ==
    ASSUME Inv, NEW j \in JobIds,
           Save(j)
    PROVE  Inv'
<1>1. TypeOK'
  BY ProcessorAssumption
     DEF Inv, TypeOK, Awaits, StagesAgree, BeforeOutcome, Save, Goto, DbFault
<1>2. CallsAreHeld'
  BY DEF Inv, TypeOK, Job, JobState, CallsAreHeld, Save, Goto
<1>3. OpsAreOwned'
  BY ProcessorAssumption
       DEF Inv, TypeOK, Operation, OpsAreOwned, StagesAgree, BeforeOutcome,
           Save, Goto
<1>4. StagesAgree'
  BY ProcessorAssumption
       DEF Inv, TypeOK, Operation, OpsAreOwned, StagesAgree, BeforeOutcome,
           Save, Goto
<1>5. CompletedMeansSaved'
  BY ProcessorAssumption
       DEF Inv, TypeOK, Operation, StagesAgree, BeforeOutcome,
           CompletedMeansSaved, Save, Goto
<1>6. QED
  BY <1>1, <1>2, <1>3, <1>4, <1>5 DEF Inv

\* markSyncCompleted after the transaction keeps the committed holdings.
LEMMA MarkSyncedInv ==
    ASSUME Inv, NEW j \in JobIds,
           MarkSynced(j)
    PROVE  Inv'
<1>1. TypeOK'
  BY SyncStatusType, ProcessorAssumption
     DEF Inv, TypeOK, Awaits, CallsAreHeld, MarkSynced, Goto, DbFault, MarkSync
<1>2. CallsAreHeld' /\ OpsAreOwned' /\ StagesAgree' /\ CompletedMeansSaved'
  BY DEF Inv, TypeOK, Job, CallsAreHeld, OpsAreOwned, StagesAgree,
         BeforeOutcome, CompletedMeansSaved, MarkSynced, Goto
<1>3. QED
  BY <1>1, <1>2 DEF Inv

\* A failing verification leads to the failure path with the record running.
LEMMA VerifyInv ==
    ASSUME Inv, NEW j \in JobIds,
           Verify(j)
    PROVE  Inv'
<1>1. TypeOK'
  <2>1. breaker' \in [Workers -> [Users -> BreakerState]]
    BY SetBreakerType DEF Inv, TypeOK, Awaits, Verify
  <2>2. QED
    BY <2>1 DEF Inv, TypeOK, Awaits, Verify, Goto
<1>2. CallsAreHeld' /\ OpsAreOwned' /\ StagesAgree' /\ CompletedMeansSaved'
  BY DEF Inv, TypeOK, Job, CallsAreHeld, OpsAreOwned, StagesAgree,
         BeforeOutcome, CompletedMeansSaved, Verify, Goto
<1>3. QED
  BY <1>1, <1>2 DEF Inv

\* markSyncFailed in performPortfolioSync leaves the record running.
LEMMA MarkUnsyncedInv ==
    ASSUME Inv, NEW j \in JobIds,
           MarkUnsynced(j)
    PROVE  Inv'
<1>1. TypeOK'
  <2>1. breaker' \in [Workers -> [Users -> BreakerState]]
    BY SetBreakerType DEF Inv, Awaits, MarkUnsynced
  <2>2. sync' \in [Users -> SyncStatus] /\ faults' \in 0 .. MaxFaults
    BY SyncStatusType, ProcessorAssumption
         DEF Inv, TypeOK, CallsAreHeld, MarkUnsynced, MarkSync, DbFault
  <2>3. QED
    BY <2>1, <2>2 DEF Inv, TypeOK, Awaits, MarkUnsynced, Goto
<1>2. CallsAreHeld' /\ OpsAreOwned' /\ StagesAgree' /\ CompletedMeansSaved'
  BY DEF Inv, TypeOK, Job, CallsAreHeld, OpsAreOwned, StagesAgree,
         BeforeOutcome, CompletedMeansSaved, MarkUnsynced, Goto
<1>3. QED
  BY <1>1, <1>2 DEF Inv

\* The record turns completed only at an await behind the transaction.
LEMMA CompleteOpInv ==
    ASSUME Inv, NEW j \in JobIds,
           CompleteOp(j)
    PROVE  Inv'
<1>1. TypeOK'
  <2>1. ops' \in [OpIds -> Operation] /\ faults' \in 0 .. MaxFaults
    BY UpdateOpType DEF Inv, CompleteOp
  <2>2. QED
    BY <2>1 DEF Inv, TypeOK, Awaits, CompleteOp, Goto
<1>2. CallsAreHeld'
  BY DEF Inv, TypeOK, Job, JobState, CallsAreHeld, CompleteOp, Goto, DbFault,
         UpdateOp
<1>3. OpsAreOwned'
  BY ProcessorAssumption
       DEF Inv, TypeOK, Operation, OpsAreOwned, StagesAgree, BeforeOutcome,
           CompleteOp, Goto, DbFault, UpdateOp
<1>4. StagesAgree'
  BY ProcessorAssumption
       DEF Inv, TypeOK, Operation, OpsAreOwned, StagesAgree, BeforeOutcome,
           CompleteOp, Goto, DbFault, UpdateOp
<1>5. CompletedMeansSaved'
  BY ProcessorAssumption
       DEF Inv, TypeOK, Operation, StagesAgree, BeforeOutcome,
           CompletedMeansSaved, CompleteOp, Goto, DbFault, UpdateOp
<1>6. QED
  BY <1>1, <1>2, <1>3, <1>4, <1>5 DEF Inv

\* The second markSyncCompleted touches user_sync_status only.
LEMMA MarkSyncedAgainInv ==
    ASSUME Inv, NEW j \in JobIds,
           MarkSyncedAgain(j)
    PROVE  Inv'
<1>1. TypeOK'
  BY SyncStatusType, ProcessorAssumption
     DEF Inv, TypeOK, Awaits, CallsAreHeld, MarkSyncedAgain, Goto, DbFault,
          MarkSync
<1>2. CallsAreHeld' /\ OpsAreOwned' /\ StagesAgree' /\ CompletedMeansSaved'
  BY DEF Inv, TypeOK, Job, CallsAreHeld, OpsAreOwned, StagesAgree,
         BeforeOutcome, CompletedMeansSaved, MarkSyncedAgain, Goto
<1>3. QED
  BY <1>1, <1>2 DEF Inv

\* The record turns failed only from running: the call never completed it.
LEMMA FailOpInv ==
    ASSUME Inv, NEW j \in JobIds,
           FailOp(j)
    PROVE  Inv'
<1>1. TypeOK'
  <2>1. ops' \in [OpIds -> Operation] /\ faults' \in 0 .. MaxFaults
    BY UpdateOpType DEF Inv, FailOp
  <2>2. QED
    BY <2>1 DEF Inv, TypeOK, Awaits, FailOp, Goto
<1>2. CallsAreHeld'
  BY DEF Inv, TypeOK, Job, JobState, CallsAreHeld, FailOp, Goto, DbFault,
         UpdateOp
<1>3. OpsAreOwned'
  BY ProcessorAssumption
       DEF Inv, TypeOK, Operation, OpsAreOwned, StagesAgree, BeforeOutcome,
           FailOp, Goto, DbFault, UpdateOp
<1>4. StagesAgree'
  BY ProcessorAssumption
       DEF Inv, TypeOK, Operation, OpsAreOwned, StagesAgree, BeforeOutcome,
           FailOp, Goto, DbFault, UpdateOp
<1>5. CompletedMeansSaved'
  BY ProcessorAssumption
       DEF Inv, TypeOK, Operation, StagesAgree, BeforeOutcome,
           CompletedMeansSaved, FailOp, Goto, DbFault, UpdateOp
<1>6. QED
  BY <1>1, <1>2, <1>3, <1>4, <1>5 DEF Inv

\* The second markSyncFailed touches user_sync_status only.
LEMMA MarkUnsyncedAgainInv ==
    ASSUME Inv, NEW j \in JobIds,
           MarkUnsyncedAgain(j)
    PROVE  Inv'
<1>1. TypeOK'
  BY SyncStatusType, ProcessorAssumption
     DEF Inv, TypeOK, Awaits, CallsAreHeld, MarkUnsyncedAgain, Goto, DbFault,
          MarkSync
<1>2. CallsAreHeld' /\ OpsAreOwned' /\ StagesAgree' /\ CompletedMeansSaved'
  BY DEF Inv, TypeOK, Job, CallsAreHeld, OpsAreOwned, StagesAgree,
         BeforeOutcome, CompletedMeansSaved, MarkUnsyncedAgain, Goto
<1>3. QED
  BY <1>1, <1>2 DEF Inv

\* Publishing an event, or failing to, changes no record.
LEMMA PublishInv ==
    ASSUME Inv, NEW j \in JobIds,
           Publish(j)
    PROVE  Inv'
<1>1. TypeOK'
  BY DEF Inv, TypeOK, Awaits, Publish, Goto
<1>2. CallsAreHeld' /\ OpsAreOwned' /\ StagesAgree' /\ CompletedMeansSaved'
  BY DEF Inv, TypeOK, Job, CallsAreHeld, OpsAreOwned, StagesAgree,
         BeforeOutcome, CompletedMeansSaved, Publish, Goto
<1>3. QED
  BY <1>1, <1>2 DEF Inv

\* A crash ends the calls of one process and disowns their records.
LEMMA CrashInv ==
    ASSUME Inv, NEW w \in Workers,
           Crash(w)
    PROVE  Inv'
<1>1. TypeOK'
  <2>1. [u \in Users |-> Closed] \in [Users -> BreakerState]
    BY BreakerAssumption DEF Closed, BreakerState
  <2>2. breaker' \in [Workers -> [Users -> BreakerState]]
    BY <2>1 DEF Inv, TypeOK, Crash
  <2>3. pc' \in [JobIds -> Awaits \cup {"idle", "dead"}] /\ op' \in [JobIds ->
       OpIds \cup {None}]
    BY DEF Inv, TypeOK, Crash
  <2>4. crashes' \in 0 .. MaxCrashes
    BY ProcessorAssumption DEF Inv, TypeOK, Crash
  <2>5. QED
    BY <2>2, <2>3, <2>4 DEF Inv, TypeOK, Crash
<1>2. CallsAreHeld'
  BY DEF Inv, TypeOK, Job, JobState, CallsAreHeld, Crash, Held
<1>3. OpsAreOwned'
  BY ProcessorAssumption
       DEF Inv, TypeOK, Operation, OpsAreOwned, StagesAgree, BeforeOutcome,
           Crash, Held
<1>4. StagesAgree'
  BY ProcessorAssumption
       DEF Inv, TypeOK, Operation, OpsAreOwned, StagesAgree, BeforeOutcome,
           Crash, Held
<1>5. CompletedMeansSaved'
  BY ProcessorAssumption
       DEF Inv, TypeOK, Operation, StagesAgree, BeforeOutcome,
           CompletedMeansSaved, Crash, Held
<1>6. QED
  BY <1>1, <1>2, <1>3, <1>4, <1>5 DEF Inv

\* A forked process holds no job; its breakers are reloaded within their type.
LEMMA RestartInv ==
    ASSUME Inv, NEW w \in Workers,
           Restart(w)
    PROVE  Inv'
<1>1. TypeOK'
  <2>1. PICK count \in [Users -> 0 .. Cardinality(OpIds)], cooled \in [Users
       -> BOOLEAN] :
          breaker' = [breaker EXCEPT ![w] = [u \in Users |->
               Reloaded(count[u], cooled[u])]]
    BY DEF Restart
  <2>2. Cardinality(OpIds) \in Nat
    BY FS_CardinalityType, ProcessorAssumption
  <2>3. [u \in Users |-> Reloaded(count[u], cooled[u])] \in [Users ->
       BreakerState]
    <3> SUFFICES ASSUME NEW u \in Users PROVE Reloaded(count[u], cooled[u])
         \in BreakerState
      OBVIOUS
    <3>1. count[u] \in Nat /\ cooled[u] \in BOOLEAN
      BY <2>2
    <3>2. Closed \in BreakerState
      BY BreakerAssumption DEF Closed, BreakerState
    <3>3. QED
      BY <3>1, <3>2, BreakerType
  <2>4. breaker' \in [Workers -> [Users -> BreakerState]]
    BY <2>1, <2>3 DEF Inv, TypeOK
  <2>5. QED
    BY <2>4 DEF Inv, TypeOK, Restart
<1>2. CallsAreHeld' /\ OpsAreOwned' /\ StagesAgree' /\ CompletedMeansSaved'
  BY DEF Inv, TypeOK, Job, CallsAreHeld, OpsAreOwned, StagesAgree,
         BeforeOutcome, CompletedMeansSaved, Restart
<1>3. QED
  BY <1>1, <1>2 DEF Inv

\* The passing of nextAttemptTime touches one breaker entry only.
LEMMA CoolDownInv ==
    ASSUME Inv, NEW w \in Workers, NEW u \in Users,
           CoolDown(w, u)
    PROVE  Inv'
<1>1. TypeOK'
  <2>1. [breaker[w][u] EXCEPT !.cooled = TRUE] \in BreakerState
    <3>1. breaker[w][u] \in BreakerState
      BY DEF Inv, TypeOK
    <3>2. QED
      BY <3>1 DEF BreakerState
  <2>2. breaker' = [breaker EXCEPT ![w][u] = [breaker[w][u] EXCEPT !.cooled =
       TRUE]]
    BY DEF Inv, TypeOK, CoolDown
  <2>3. breaker' \in [Workers -> [Users -> BreakerState]]
    BY <2>1, <2>2, BreakerUpdateType DEF Inv
  <2>4. QED
    BY <2>3 DEF Inv, TypeOK, CoolDown
<1>2. CallsAreHeld' /\ OpsAreOwned' /\ StagesAgree' /\ CompletedMeansSaved'
  BY DEF Inv, TypeOK, Job, CallsAreHeld, OpsAreOwned, StagesAgree,
         BeforeOutcome, CompletedMeansSaved, CoolDown
<1>3. QED
  BY <1>1, <1>2 DEF Inv

\* Every step of the sync worker preserves the invariant.
LEMMA NextInv ==
    ASSUME Inv, [Next]_vars
    PROVE  Inv'
<1>1. CASE UNCHANGED vars
  BY <1>1
     DEF Inv, vars, TypeOK, CallsAreHeld, OpsAreOwned, StagesAgree, BeforeOutcome,
         CompletedMeansSaved
<1>2. ASSUME NEW j \in JobIds, Process(j) PROVE Inv'
  BY <1>2, CreateOpInv, MarkStartedInv, MarkStartedAgainInv, FetchInv, SaveInv,
     MarkSyncedInv, VerifyInv, MarkUnsyncedInv, CompleteOpInv,
     MarkSyncedAgainInv, FailOpInv, MarkUnsyncedAgainInv, PublishInv, AckInv
     DEF Process
<1>3. CASE Worker
  BY <1>2, <1>3, PickInv, StalledInv DEF Worker
<1>4. CASE Environment
  BY <1>4, CrashInv, RestartInv, CoolDownInv DEF Environment
<1>5. QED
  BY <1>1, <1>3, <1>4, AddJobInv, CancelJobInv DEF Next

\* The inductive invariant holds throughout: the types, and for each await
\* of processJob what the call at it owns and what its record says.
THEOREM InvHolds == Spec => []Inv
<1>1. Init => Inv
  BY InitInv
<1>2. Inv /\ [Next]_vars => Inv'
  BY NextInv
<1>3. QED
  BY <1>1, <1>2, PTL DEF Spec

------------------------------------------------------------------------------
(* The results *)

\* The queue, the calls, the databases' records and the breakers keep their
\* types under every interleaving, failure and crash.
THEOREM TypeCorrect == Spec => []TypeOK
<1>1. Inv => TypeOK
  BY DEF Inv
<1>2. QED
  BY <1>1, InvHolds, PTL

\* No operation is recorded as completed whose holdings were not committed to
\* PostgreSQL by savePortfolioHoldings.
THEOREM CompletedIsSaved == Spec => []CompletedMeansSaved
<1>1. Inv => CompletedMeansSaved
  BY DEF Inv
<1>2. QED
  BY <1>1, InvHolds, PTL

\* updateSyncOperation never overwrites an outcome, although it does not look:
\* the only call that could is at an await where the record says 'running'.
THEOREM OutcomesAreFinal == Spec => TerminalIsFinal
<1> DEFINE Kept == \A o \in OpIds : ops[o].status \in {"completed", "failed"}
                                        => ops'[o] = ops[o]
<1>1. ASSUME Inv, NEW j \in JobIds, CompleteOp(j) \/ FailOp(j) PROVE Kept
  BY <1>1 DEF Inv, TypeOK, StagesAgree, BeforeOutcome, CompleteOp, FailOp, UpdateOp
<1>2. ASSUME Inv, NEW j \in JobIds, CreateOp(j) PROVE Kept
  <2>1. CASE ops' = ops
    BY <2>1
  <2>2. CASE \E o \in Unused : ops' = [ops EXCEPT ![o] = [status |-> "running",
                                                         user |-> job[j].user]]
    BY <2>2 DEF Inv, TypeOK, Unused
  <2>3. QED
    BY <1>2, <2>1, <2>2 DEF CreateOp
<1>3. ASSUME Inv, Next PROVE Kept
  <2>1. CASE ops' = ops
    BY <2>1
  <2>2. CASE \E j \in JobIds : CreateOp(j) \/ CompleteOp(j) \/ FailOp(j)
    BY <1>1, <1>2, <1>3, <2>2
  <2>3. ASSUME NEW j \in JobIds, Process(j),
               ~(CreateOp(j) \/ CompleteOp(j) \/ FailOp(j))
        PROVE  ops' = ops
    BY <2>3 DEF Process, MarkStarted, MarkStartedAgain, Fetch, Save, MarkSynced,
       Verify, MarkUnsynced, MarkSyncedAgain, MarkUnsyncedAgain, Publish, Ack
  <2>4. QED
    BY <1>3, <2>1, <2>2, <2>3
       DEF Next, Worker, Environment, AddJob, CancelJob, Pick, Stalled, Crash,
           Restart, CoolDown
<1>4. Inv /\ [Next]_vars => [Kept]_vars
  BY <1>3
<1>5. QED
  BY <1>4, InvHolds, PTL DEF Spec, TerminalIsFinal

------------------------------------------------------------------------------
(* What Kafka announces *)

Announced(o) == <<"sync.completed", o>> \in events \/ <<"sync.failed", o>> \in events

\* Nothing is announced of an operation before its call's last await but one;
\* then its record says what is about to be announced, unless MongoDB refused.
EventsMatch ==
    /\ \A o \in OpIds : ops[o].status = "none" => ~Announced(o)
    /\ \A j \in JobIds :
          /\ op[j] # None /\ pc[j] # "ack" => ~Announced(op[j])
          /\ pc[j] \in {"recount", "announce"} =>
               /\ op[j] # None /\ op[j] \in wrote
               /\ ops[op[j]].status = "completed" \/ faults > 0
          /\ pc[j] \in {"refail", "lament"} /\ op[j] # None =>
               ops[op[j]].status # "completed"

\* A step that publishes nothing, writes no record and loses no commit, and
\* takes no call past its outcome.
LEMMA QuietKeepsEvents ==
    ASSUME Inv, EventsMatch, EventsAreTrue, faults' \in Nat, faults' >= faults,
           ops' = ops, events' = events, wrote \subseteq wrote',
           \A j \in JobIds : /\ op'[j] \in {op[j], None}
                             /\ pc'[j] = "ack" \/ op'[j] = None \/ pc[j] # "ack"
                             /\ pc'[j] \in {"recount", "announce"} =>
                                  op'[j] = op[j] /\ pc[j] \in {"recount", "announce"}
                             /\ pc'[j] \in {"refail", "lament"} =>
                                  op'[j] = None \/ pc[j] \in {"refail", "lament"}
    PROVE  EventsMatch' /\ EventsAreTrue'
<1>1. faults \in Nat
  BY ProcessorAssumption DEF Inv, TypeOK
<1>2. faults > 0 => faults' > 0
  BY <1>1
<1>3. EventsMatch'
  BY <1>2 DEF EventsMatch, Announced
<1>4. EventsAreTrue'
  <2>1. events' = events /\ ops' = ops /\ wrote \subseteq wrote'
    OBVIOUS
  <2>2. QED
    BY <1>2, <2>1, Zenon DEF EventsAreTrue
<1>5. QED
  BY <1>3, <1>4

\* The steps of the queue, of the processes, and of a call that only moves on.
LEMMA QuietSteps ==
    ASSUME Inv, EventsMatch, EventsAreTrue, [Next]_vars,
           \A j \in JobIds : ~(CreateOp(j) \/ CompleteOp(j) \/ FailOp(j) \/ Publish(j))
    PROVE  EventsMatch' /\ EventsAreTrue'
<1> USE DEF Inv, TypeOK
<1> DEFINE Calm(j) == /\ op'[j] \in {op[j], None}
                      /\ pc'[j] = "ack" \/ op'[j] = None \/ pc[j] # "ack"
                      /\ pc'[j] \in {"recount", "announce"} =>
                           op'[j] = op[j] /\ pc[j] \in {"recount", "announce"}
                      /\ pc'[j] \in {"refail", "lament"} =>
                           op'[j] = None \/ pc[j] \in {"refail", "lament"}
           Quiet == /\ faults' \in Nat /\ faults' >= faults
                    /\ ops' = ops /\ events' = events /\ wrote \subseteq wrote'
                    /\ \A j \in JobIds : Calm(j)
<1>1. CASE UNCHANGED vars
  BY <1>1, ProcessorAssumption, QuietKeepsEvents DEF vars
<1>2. ASSUME NEW j \in JobIds, Process(j) PROVE Quiet
  <2>1. /\ faults' \in Nat /\ faults' >= faults /\ wrote \subseteq wrote'
        /\ ops' = ops /\ events' = events
    BY <1>2, ProcessorAssumption
       DEF Process, MarkStarted, MarkStartedAgain, Fetch, Save, MarkSynced, Verify,
           MarkUnsynced, MarkSyncedAgain, MarkUnsyncedAgain, Ack, MarkSync, DbFault
  <2>2. CASE Ack(j)
    BY <2>1, <2>2 DEF Ack
  <2>3. CASE \/ MarkStarted(j) \/ MarkStartedAgain(j) \/ Fetch(j) \/ Save(j)
             \/ MarkSynced(j) \/ Verify(j) \/ MarkUnsynced(j)
    <3>1. op' = op /\ \E a \in BeforeOutcome \cup {"fail"} : pc' = [pc EXCEPT ![j] = a]
      BY <2>3 DEF MarkStarted, MarkStartedAgain, Fetch, Save, MarkSynced, Verify,
           MarkUnsynced, Goto, BeforeOutcome
    <3>2. pc[j] # "ack"
      BY <2>3 DEF MarkStarted, MarkStartedAgain, Fetch, Save, MarkSynced, Verify,
           MarkUnsynced
    <3>3. QED
      BY <2>1, <3>1, <3>2 DEF BeforeOutcome
  <2>4. CASE MarkSyncedAgain(j) \/ MarkUnsyncedAgain(j)
    BY <2>1, <2>4 DEF MarkSyncedAgain, MarkUnsyncedAgain, Goto
  <2>5. QED
    BY <1>2, <2>2, <2>3, <2>4 DEF Process
<1>3. ASSUME NEW j \in JobIds, Stalled(j) \/ (\E w \in Workers : Pick(w, j)) PROVE Quiet
  <2>1. /\ faults' = faults /\ ops' = ops /\ events' = events /\ wrote' = wrote /\ op' = op
        /\ pc' = [pc EXCEPT ![j] = "idle"] \/ pc' = [pc EXCEPT ![j] = "create"]
        /\ pc[j] # "ack"
    BY <1>3 DEF Stalled, Pick, StagesAgree, CallsAreHeld
  <2>2. QED
    BY <2>1, ProcessorAssumption
<1>4. ASSUME Environment PROVE Quiet
  <2>1. faults' = faults /\ ops' = ops /\ events' = events /\ wrote' = wrote
    BY <1>4 DEF Environment, Crash, Restart, CoolDown
  <2>2. ASSUME NEW w \in Workers, Crash(w) PROVE \A j \in JobIds : Calm(j)
    BY <2>2 DEF Crash
  <2>3. ASSUME \A w \in Workers : ~Crash(w) PROVE \A j \in JobIds : Calm(j)
    <3>1. op' = op /\ pc' = pc
      BY <1>4, <2>3 DEF Environment, Restart, CoolDown
    <3>2. QED
      BY <3>1
  <2>4. \A j \in JobIds : Calm(j)
    BY <2>2, <2>3, Zenon
  <2> HIDE DEF Calm
  <2>5. QED
    BY <2>1, <2>4, ProcessorAssumption
<1>5. ASSUME NEW j \in JobIds, CancelJob(j) \/ \E u \in Users, force \in BOOLEAN : AddJob(j, u, force)
      PROVE  Quiet
  BY <1>5, ProcessorAssumption DEF CancelJob, AddJob
<1>6. Quiet => EventsMatch' /\ EventsAreTrue'
  <2> HIDE DEF Inv, TypeOK
  <2>1. QED
    BY QuietKeepsEvents
<1> HIDE DEF Quiet
<1>7. QED
  BY <1>1, <1>2, <1>3, <1>4, <1>5, <1>6 DEF Next, Worker

\* The new record is one nothing was announced of.
LEMMA CreateOpEvents ==
    ASSUME Inv, EventsMatch, EventsAreTrue, NEW j \in JobIds, CreateOp(j)
    PROVE  EventsMatch' /\ EventsAreTrue'
<1> USE DEF Inv, TypeOK
<1>1. /\ events' = events /\ wrote' = wrote /\ faults \in Nat
      /\ faults > 0 => faults' > 0
      /\ pc' = [pc EXCEPT ![j] = "start"] \/ pc' = [pc EXCEPT ![j] = "fail"]
      /\ pc[j] = "create" /\ op[j] = None
  BY ProcessorAssumption DEF CreateOp, CreateThrows, Goto, DbFault, StagesAgree
<1>2. CASE op' = op /\ ops' = ops
  <2>1. EventsMatch'
    BY <1>1, <1>2 DEF EventsMatch, Announced
  <2>2. EventsAreTrue'
    BY <1>1, <1>2, Zenon DEF EventsAreTrue
  <2>3. QED
    BY <2>1, <2>2
<1>3. CASE \E o \in Unused : /\ ops' = [ops EXCEPT ![o] = [status |-> "running",
                                                           user |-> job[j].user]]
                             /\ op' = [op EXCEPT ![j] = o]
  <2>1. PICK o \in OpIds : /\ ops[o].status = "none" /\ o # None
                           /\ ops' = [ops EXCEPT ![o] = [status |-> "running",
                                                         user |-> job[j].user]]
                           /\ op' = [op EXCEPT ![j] = o]
    BY <1>3, ProcessorAssumption DEF Unused
  <2>2. ~Announced(o) /\ \A i \in JobIds : op[i] # o
    BY <2>1 DEF EventsMatch, OpsAreOwned
  <2>3. \A p \in OpIds : Announced(p)' <=> Announced(p)
    BY <1>1 DEF Announced
  <2>4. \A p \in OpIds : p # o => ops'[p] = ops[p]
    BY <2>1
  <2>5. EventsMatch'
    BY <1>1, <2>1, <2>2, <2>3, <2>4 DEF EventsMatch
  <2>6. EventsAreTrue'
    BY <1>1, <2>2, <2>4, Zenon DEF EventsAreTrue, Announced
  <2>7. QED
    BY <2>5, <2>6
<1>4. QED
  BY <1>2, <1>3 DEF CreateOp

\* An outcome is written, or refused, before anything is announced of it.
LEMMA OutcomeEvents ==
    ASSUME Inv, EventsMatch, EventsAreTrue, NEW j \in JobIds, CompleteOp(j) \/ FailOp(j)
    PROVE  EventsMatch' /\ EventsAreTrue'
<1> USE DEF Inv, TypeOK
<1> DEFINE done == IF pc[j] = "complete" THEN "completed" ELSE "failed"
<1>1. /\ events' = events /\ wrote' = wrote /\ op' = op /\ faults \in Nat
      /\ faults > 0 => faults' > 0
      /\ \/ pc[j] = "complete" /\ pc' = [pc EXCEPT ![j] = "recount"]
         \/ pc[j] = "fail" /\ pc' = [pc EXCEPT ![j] = "refail"]
      /\ UpdateOp(j, done)
  BY ProcessorAssumption DEF CompleteOp, FailOp, UpdateOp, DbFault, Goto
<1>2. op[j] # None => ops[op[j]].status = "running" /\ ~Announced(op[j])
  BY <1>1 DEF StagesAgree, BeforeOutcome, EventsMatch
<1>3. \A o \in OpIds : o # op[j] => ops'[o] = ops[o]
  BY <1>1 DEF UpdateOp
<1>4. op[j] # None => \/ ops'[op[j]].status = done
                      \/ ops'[op[j]].status = "running" /\ faults' > 0
  <2>1. CASE op[j] # None /\ ops' = [ops EXCEPT ![op[j]].status = done]
    <3>1. ops'[op[j]] = [ops[op[j]] EXCEPT !.status = done] /\ ops[op[j]] \in Operation
      BY <2>1
    <3>2. QED
      BY <3>1 DEF Operation
  <2>2. CASE DbFault /\ ops' = ops
    BY <1>1, <1>2, <2>2 DEF DbFault
  <2>3. QED
    BY <1>1, <2>1, <2>2 DEF UpdateOp
<1>5. \A i \in JobIds : op[i] # None /\ i # j => op[i] # op[j]
  BY DEF OpsAreOwned
<1>6. pc[j] = "complete" => op[j] # None /\ op[j] \in wrote
  BY DEF StagesAgree, BeforeOutcome
<1>7. \A o \in OpIds : Announced(o)' <=> Announced(o)
  BY <1>1 DEF Announced
<1>8. EventsMatch'
  <2>1. \A o \in OpIds : ops'[o].status = "none" => ~Announced(o)
    BY <1>2, <1>3, ProcessorAssumption DEF EventsMatch
  <2>2. /\ op[j] # None => ~Announced(op[j])
        /\ pc'[j] \in {"recount", "announce"} =>
             /\ op[j] # None /\ op[j] \in wrote
             /\ ops'[op[j]].status = "completed" \/ faults' > 0
        /\ pc'[j] \in {"refail", "lament"} /\ op[j] # None =>
             ops'[op[j]].status # "completed"
    BY <1>1, <1>2, <1>4, <1>6
  <2>3. \A i \in JobIds \ {j} : pc'[i] = pc[i] /\ (op[i] # None => ops'[op[i]] = ops[op[i]])
    BY <1>1, <1>3, <1>5
  <2>4. QED
    BY <1>1, <1>7, <2>1, <2>2, <2>3 DEF EventsMatch
<1>9. EventsAreTrue'
  <2>1. \A o \in OpIds : o # None
    BY ProcessorAssumption
  <2>2. QED
    BY <1>1, <1>2, <1>3, <2>1, Zenon DEF EventsAreTrue, Announced
<1>10. QED
  BY <1>8, <1>9

\* What is announced is what the record says, unless MongoDB refused it.
LEMMA PublishEvents ==
    ASSUME Inv, EventsMatch, EventsAreTrue, NEW j \in JobIds, Publish(j)
    PROVE  EventsMatch' /\ EventsAreTrue'
<1> USE DEF Inv, TypeOK
<1>1. /\ pc' = [pc EXCEPT ![j] = "ack"] /\ pc[j] \in {"announce", "lament"}
      /\ UNCHANGED <<ops, op, wrote, faults>>
  BY DEF Publish, Goto
<1>2. \A o \in OpIds : o # op[j] => (Announced(o)' <=> Announced(o))
  BY DEF Publish, Announced
<1>3. /\ \A i \in JobIds : op[i] # None /\ i # j => op[i] # op[j]
      /\ op[j] # None => ops[op[j]].status # "none"
  BY DEF OpsAreOwned
<1>4. EventsMatch'
  <2>1. \A o \in OpIds : ops[o].status = "none" => ~Announced(o)'
    BY <1>2, <1>3, ProcessorAssumption DEF EventsMatch
  <2>2. \A i \in JobIds \ {j} : pc'[i] = pc[i] /\ (op[i] # None => (Announced(op[i])' <=> Announced(op[i])))
    <3> SUFFICES ASSUME NEW i \in JobIds \ {j}, op[i] # None
                 PROVE  Announced(op[i])' <=> Announced(op[i])
      BY <1>1
    <3>1. op[i] \in OpIds /\ op[i] # op[j] /\ op'[i] = op[i]
      BY <1>1, <1>3
    <3>2. QED
      BY <1>2, <3>1
  <2>3. pc'[j] = "ack"
    BY <1>1
  <2>4. QED
    BY <1>1, <2>1, <2>2, <2>3 DEF EventsMatch
<1>5. EventsAreTrue'
  <2>1. CASE events' = events
    BY <1>1, <2>1, Zenon DEF EventsAreTrue
  <2>2. CASE pc[j] = "announce" /\ events' = events \cup {<<"sync.completed", op[j]>>}
    <3>1. /\ op[j] # None /\ op[j] \in wrote /\ ~Announced(op[j])
          /\ ops[op[j]].status = "completed" \/ faults > 0
      BY <2>2 DEF EventsMatch
    <3>2. \A o \in OpIds : /\ <<"sync.failed", o>> \in events' <=> <<"sync.failed", o>> \in events
                           /\ <<"sync.completed", o>> \in events' =>
                                o = op[j] \/ <<"sync.completed", o>> \in events
      BY <2>2
    <3>3. QED
      BY <1>1, <3>1, <3>2, Zenon DEF EventsAreTrue, Announced
  <2>3. CASE pc[j] = "lament" /\ events' = events \cup {<<"sync.failed", op[j]>>}
    <3>1. op[j] # None => ~Announced(op[j]) /\ ops[op[j]].status # "completed"
      BY <2>3 DEF EventsMatch
    <3>2. \A o \in OpIds : /\ <<"sync.completed", o>> \in events' <=> <<"sync.completed", o>> \in events
                           /\ <<"sync.failed", o>> \in events' =>
                                o = op[j] \/ <<"sync.failed", o>> \in events
      BY <2>3
    <3>3. \A o \in OpIds : o # None
      BY ProcessorAssumption
    <3>4. QED
      BY <1>1, <3>1, <3>2, <3>3, Zenon DEF EventsAreTrue, Announced
  <2>4. QED
    BY <2>1, <2>2, <2>3 DEF Publish
<1>6. QED
  BY <1>4, <1>5

\* A completed sync that is announced is in PostgreSQL and is not announced as
\* failed, and no announcement contradicts the record: under every interleaving
\* of awaits, every crash and every update MongoDB refuses.
THEOREM AnnouncementsAreTrue == Spec => []EventsAreTrue
<1>1. Init => EventsMatch /\ EventsAreTrue
  BY DEF Init, EventsMatch, EventsAreTrue, Announced
<1>2. Inv /\ EventsMatch /\ EventsAreTrue /\ [Next]_vars => EventsMatch' /\ EventsAreTrue'
  BY QuietSteps, CreateOpEvents, OutcomeEvents, PublishEvents
<1>3. QED
  BY <1>1, <1>2, InvHolds, PTL DEF Spec
------------------------------------------------------------------------------
(* Operations left 'running' *)

Undecided == BeforeOutcome \cup {"fail"}

\* Operations 'running' that no call is going to write an outcome of.
Lost == {o \in OpIds : /\ ops[o].status = "running"
                       /\ \A j \in JobIds : pc[j] \in Undecided => op[j] # o}

\* The jobs a process has taken and still runs.
Taken(w) == {i \in Held(w) : pc[i] # "dead"}

WithinCapacity == \A w \in Workers : Cardinality(Taken(w)) <= Concurrency

LossesExplained == Cardinality(Lost) <= faults + crashes * Concurrency

\* The sets that are counted are finite.
LEMMA LossesFinite ==
    ASSUME Inv
    PROVE  /\ IsFiniteSet(Lost) /\ IsFiniteSet(Orphans)
           /\ \A w \in Workers : IsFiniteSet(Taken(w)) /\ Cardinality(Taken(w)) \in Nat
           /\ Cardinality(Lost) \in Nat /\ Cardinality(Orphans) \in Nat
<1>1. IsFiniteSet(Lost) /\ IsFiniteSet(Orphans)
  BY ProcessorAssumption, FS_Subset DEF Lost, Orphans
<1>2. \A w \in Workers : IsFiniteSet(Taken(w))
  BY ProcessorAssumption, FS_Subset DEF Taken, Held
<1>3. QED
  BY <1>1, <1>2, FS_CardinalityType

\* An orphan is lost; the converse waits for the call to end.
LEMMA OrphansAreLost ==
    ASSUME Inv
    PROVE  Orphans \subseteq Lost
BY DEF Orphans, Lost, Live, Undecided, BeforeOutcome, Awaits

\* Only the taking of a job adds to what a process runs, and it looks first.
LEMMA CapacityKept ==
    ASSUME Inv, WithinCapacity, [Next]_vars
    PROVE  WithinCapacity'
<1> USE DEF Inv, TypeOK
<1>1. JobIds = JobIds /\ IsFiniteSet(JobIds) /\ Concurrency \in Nat
  BY ProcessorAssumption
<1>2. ASSUME \A w \in Workers : Taken(w)' \subseteq Taken(w) PROVE WithinCapacity'
  <2> SUFFICES ASSUME NEW w \in Workers PROVE Cardinality(Taken(w)') <= Concurrency
    BY DEF WithinCapacity
  <2>1. IsFiniteSet(Taken(w)) /\ Cardinality(Taken(w)) \in Nat
    BY LossesFinite
  <2>2. Cardinality(Taken(w)') <= Cardinality(Taken(w)) /\ Cardinality(Taken(w)') \in Nat
    BY <1>2, <2>1, FS_Subset, FS_CardinalityType
  <2>3. QED
    BY <1>1, <2>1, <2>2 DEF WithinCapacity
<1>3. ASSUME NEW w \in Workers, NEW j \in JobIds, Pick(w, j) PROVE WithinCapacity'
  <2> SUFFICES ASSUME NEW x \in Workers PROVE Cardinality(Taken(x)') <= Concurrency
    BY DEF WithinCapacity
  <2>1. IsFiniteSet(Taken(x)) /\ Cardinality(Taken(x)) \in Nat
    BY LossesFinite
  <2>2. job' = [job EXCEPT ![j] = [job[j] EXCEPT !.state = "active", !.by = w]] /\ job[j] \in Job
    BY <1>3 DEF Pick
  <2>3. \A i \in JobIds : i # j => job'[i] = job[i] /\ pc'[i] = pc[i]
    BY <1>3, <2>2 DEF Pick
  <2>4. job'[j].by = w
    BY <2>2 DEF Job
  <2>5. CASE x # w
    <3>1. Taken(x)' \subseteq Taken(x)
      BY <2>3, <2>4, <2>5 DEF Taken, Held
    <3>2. QED
      BY <1>1, <2>1, <3>1, FS_Subset, FS_CardinalityType DEF WithinCapacity
  <2>6. CASE x = w
    <3>1. Taken(x)' \subseteq Taken(x) \cup {j}
      BY <2>3 DEF Taken, Held
    <3>2. Cardinality(Taken(x)) < Concurrency
      BY <1>3, <2>6 DEF Pick, Taken
    <3>3. /\ IsFiniteSet(Taken(x) \cup {j})
          /\ Cardinality(Taken(x) \cup {j}) <= Cardinality(Taken(x)) + 1
          /\ Cardinality(Taken(x) \cup {j}) \in Nat
      <4> DEFINE R == Taken(x)
      <4>1. /\ IsFiniteSet(R \cup {j})
            /\ Cardinality(R \cup {j}) = IF j \in R THEN Cardinality(R) ELSE Cardinality(R) + 1
        BY <2>1, FS_AddElement
      <4> HIDE DEF R
      <4>2. QED
        BY <2>1, <4>1 DEF R
    <3>4. Cardinality(Taken(x)') <= Cardinality(Taken(x) \cup {j}) /\ Cardinality(Taken(x)') \in Nat
      BY <3>1, <3>3, FS_Subset, FS_CardinalityType
    <3>5. QED
      BY <1>1, <2>1, <3>2, <3>3, <3>4
  <2>7. QED
    BY <2>5, <2>6
<1>4. CASE UNCHANGED <<job, pc>>
  BY <1>2, <1>4 DEF Taken, Held
<1>5. ASSUME NEW j \in JobIds, Process(j), ~Ack(j) PROVE WithinCapacity'
  <2>1. job' = job /\ pc[j] # "dead" /\ \A i \in JobIds : i # j => pc'[i] = pc[i]
    BY <1>5 DEF Process, CreateOp, CreateThrows, MarkStarted, MarkStartedAgain, Fetch, Save,
        MarkSynced, Verify, MarkUnsynced, CompleteOp, MarkSyncedAgain, FailOp,
        MarkUnsyncedAgain, Publish, Goto
  <2>2. \A w \in Workers : Taken(w)' \subseteq Taken(w)
    BY <2>1 DEF Taken, Held
  <2>3. QED
    BY <1>2, <2>2
<1>6. ASSUME NEW j \in JobIds,
             \/ Ack(j) \/ Stalled(j) \/ CancelJob(j)
             \/ \E u \in Users, force \in BOOLEAN : AddJob(j, u, force)
      PROVE  WithinCapacity'
  <2>1. /\ job'[j].state # "active"
        /\ \A i \in JobIds : i # j => job'[i] = job[i] /\ pc'[i] = pc[i]
    <3>1. job[j] \in Job
      OBVIOUS
    <3>2. QED
      BY <1>6, <3>1 DEF Ack, Stalled, CancelJob, AddJob, Job
  <2>2. \A w \in Workers : Taken(w)' \subseteq Taken(w)
    BY <2>1 DEF Taken, Held
  <2>3. QED
    BY <1>2, <2>2
<1>7. ASSUME NEW w \in Workers, Crash(w) PROVE WithinCapacity'
  <2>1. \A x \in Workers : Taken(x)' \subseteq Taken(x)
    BY <1>7 DEF Crash, Taken, Held
  <2>2. QED
    BY <1>2, <2>1
<1>8. CASE Environment
  BY <1>4, <1>7, <1>8 DEF Environment, Restart, CoolDown
<1>9. CASE Worker
  BY <1>3, <1>5, <1>6, <1>9 DEF Worker, Process
<1>10. QED
  BY <1>4, <1>6, <1>8, <1>9 DEF Next, vars

\* One operation is lost by an update MongoDB refuses.
LEMMA OutcomeLosses ==
    ASSUME Inv, NEW j \in JobIds, CompleteOp(j) \/ FailOp(j)
    PROVE  /\ crashes' = crashes
           /\ \/ Lost' \subseteq Lost /\ faults' = faults
              \/ (\E o : Lost' \subseteq Lost \cup {o}) /\ faults' = faults + 1
<1> USE DEF Inv, TypeOK
<1>1. /\ op' = op /\ crashes' = crashes /\ pc[j] \in Undecided
      /\ \A i \in JobIds : i # j => pc'[i] = pc[i]
      /\ \E done \in {"completed", "failed"} : UpdateOp(j, done)
  BY DEF CompleteOp, FailOp, Goto, Undecided, BeforeOutcome
<1>2. PICK done \in {"completed", "failed"} : UpdateOp(j, done)
  BY <1>1
<1>3. CASE DbFault /\ ops' = ops
  <2>1. Lost' \subseteq Lost \cup {op[j]}
    BY <1>1, <1>3 DEF Lost
  <2>2. QED
    BY <1>1, <1>3, <2>1 DEF DbFault
<1>4. CASE op[j] = None /\ ops' = ops /\ faults' = faults
  <2>1. Lost' \subseteq Lost
    BY <1>1, <1>4, ProcessorAssumption DEF Lost
  <2>2. QED
    BY <1>1, <1>4, <2>1
<1>5. CASE op[j] # None /\ ops' = [ops EXCEPT ![op[j]].status = done] /\ faults' = faults
  <2>1. ops'[op[j]].status = done /\ \A o \in OpIds : o # op[j] => ops'[o] = ops[o]
    <3>1. ops'[op[j]] = [ops[op[j]] EXCEPT !.status = done] /\ ops[op[j]] \in Operation
      BY <1>5
    <3>2. QED
      BY <1>5, <3>1 DEF Operation
  <2>2. Lost' \subseteq Lost
    BY <1>1, <2>1 DEF Lost
  <2>3. QED
    BY <1>1, <1>5, <2>2
<1>6. QED
  BY <1>2, <1>3, <1>4, <1>5 DEF UpdateOp

\* A crash loses at most what the process ran, one operation for each job.
LEMMA CrashLosses ==
    ASSUME Inv, WithinCapacity, NEW w \in Workers, Crash(w)
    PROVE  /\ crashes' = crashes + 1 /\ faults' = faults
           /\ \E gone : /\ Lost' \subseteq Lost \cup gone /\ IsFiniteSet(gone)
                        /\ Cardinality(gone) <= Concurrency
<1> USE DEF Inv, TypeOK
<1> DEFINE f == [i \in Taken(w) |-> op[i]]
           gone == {op[i] : i \in Taken(w)}
<1>1. IsFiniteSet(Taken(w)) /\ Cardinality(Taken(w)) \in Nat
  BY LossesFinite
<1>2. f \in Surjection(Taken(w), gone)
  BY DEF Surjection
<1>3. IsFiniteSet(gone) /\ Cardinality(gone) <= Cardinality(Taken(w)) /\ Cardinality(gone) \in Nat
  <2> HIDE DEF f, gone
  <2>1. QED
    BY <1>1, <1>2, FS_Surjection, FS_CardinalityType
<1>4. Lost' \subseteq Lost \cup gone
  <2> SUFFICES ASSUME NEW o \in Lost', o \notin Lost PROVE o \in gone
    OBVIOUS
  <2>1. o \in OpIds /\ ops[o].status = "running" /\ \A j \in JobIds : pc'[j] \in Undecided => op'[j] # o
    BY DEF Lost, Crash
  <2>2. PICK j \in JobIds : pc[j] \in Undecided /\ op[j] = o
    BY <2>1 DEF Lost
  <2>3. j \in Held(w)
    BY <2>1, <2>2 DEF Crash
  <2>4. pc[j] # "dead"
    BY <2>2 DEF Undecided, BeforeOutcome
  <2>5. QED
    BY <2>2, <2>3, <2>4 DEF Taken
<1>5. Cardinality(gone) <= Concurrency
  <2> HIDE DEF gone
  <2>1. QED
    BY <1>1, <1>3, ProcessorAssumption DEF WithinCapacity
<1> HIDE DEF gone
<1>6. QED
  BY <1>3, <1>4, <1>5 DEF Crash

\* Every other step loses nothing.
LEMMA OtherLosses ==
    ASSUME Inv, [Next]_vars,
           \A j \in JobIds : ~(CompleteOp(j) \/ FailOp(j)),
           \A w \in Workers : ~Crash(w)
    PROVE  Lost' \subseteq Lost /\ faults' \in Nat /\ faults' >= faults /\ crashes' = crashes
<1> USE DEF Inv, TypeOK, Undecided, BeforeOutcome
<1> DEFINE Steady == \A i \in JobIds : pc[i] \in Undecided => pc'[i] \in Undecided /\ op'[i] = op[i]
           Quiet == faults' \in Nat /\ faults' >= faults /\ crashes' = crashes
<1>1. ASSUME ops' = ops, Steady PROVE Lost' \subseteq Lost
  BY <1>1 DEF Lost
<1>2. CASE UNCHANGED vars
  BY <1>1, <1>2, ProcessorAssumption DEF vars
<1>3. ASSUME NEW j \in JobIds, CreateOp(j) PROVE Lost' \subseteq Lost
  <2>1. /\ pc[j] = "create" /\ op[j] = None /\ pc'[j] \in Undecided
        /\ \A i \in JobIds : i # j => pc'[i] = pc[i]
    BY <1>3 DEF CreateOp, CreateThrows, Goto, StagesAgree
  <2>2. CASE ops' = ops /\ op' = op
    BY <1>1, <2>1, <2>2
  <2>3. CASE \E o \in Unused : ops' = [ops EXCEPT ![o] = [status |-> "running", user |-> job[j].user]]
                               /\ op' = [op EXCEPT ![j] = o]
    BY <2>1, <2>3 DEF Lost, Unused
  <2>4. QED
    BY <1>3, <2>2, <2>3 DEF CreateOp
<1>4. ASSUME NEW j \in JobIds, Process(j) PROVE Quiet
  BY <1>4, ProcessorAssumption
     DEF Process, CreateOp, CreateThrows, MarkStarted, MarkStartedAgain, Fetch, Save,
         MarkSynced, Verify, MarkUnsynced, MarkSyncedAgain,
         MarkUnsyncedAgain, Publish, Ack, MarkSync, DbFault
<1>5. ASSUME NEW j \in JobIds, Process(j), ~CreateOp(j) PROVE ops' = ops /\ Steady
  <2>1. CASE \/ MarkStarted(j) \/ MarkStartedAgain(j) \/ Fetch(j) \/ Save(j)
             \/ MarkSynced(j) \/ Verify(j) \/ MarkUnsynced(j)
    <3>1. ops' = ops /\ op' = op /\ \E a \in Undecided : pc' = [pc EXCEPT ![j] = a]
      BY <2>1 DEF MarkStarted, MarkStartedAgain, Fetch, Save, MarkSynced, Verify,
           MarkUnsynced, Goto
    <3>2. QED
      BY <3>1
  <2>2. CASE MarkSyncedAgain(j) \/ MarkUnsyncedAgain(j) \/ Publish(j) \/ Ack(j)
    <3>1. ops' = ops /\ pc[j] \notin Undecided
      BY <2>2 DEF MarkSyncedAgain, MarkUnsyncedAgain, Publish, Ack
    <3>2. \A i \in JobIds : i # j => pc'[i] = pc[i] /\ op'[i] = op[i]
      BY <2>2 DEF MarkSyncedAgain, MarkUnsyncedAgain, Publish, Ack, Goto
    <3>3. QED
      BY <3>1, <3>2
  <2>3. QED
    BY <1>5, <2>1, <2>2 DEF Process
<1>6. ASSUME NEW j \in JobIds, Stalled(j) \/ (\E w \in Workers : Pick(w, j))
      PROVE  ops' = ops /\ Steady /\ Quiet
  <2>1. /\ ops' = ops /\ op' = op /\ pc[j] \in {"idle", "dead"} /\ faults' = faults /\ crashes' = crashes
        /\ \A i \in JobIds : i # j => pc'[i] = pc[i]
    BY <1>6 DEF Stalled, Pick, CallsAreHeld
  <2>2. QED
    BY <2>1, ProcessorAssumption
<1>7. CASE UNCHANGED <<ops, pc, op, faults, crashes>>
  BY <1>1, <1>7, ProcessorAssumption
<1> HIDE DEF Steady, Quiet
<1>8. CASE Worker
  BY <1>1, <1>3, <1>4, <1>5, <1>6, <1>8 DEF Worker, Quiet
<1>9. QED
  BY <1>2, <1>7, <1>8 DEF Next, Environment, AddJob, CancelJob, Restart, CoolDown

\* The bound grows by one with each refused update and by a process's capacity
\* with each crash; the set by no more than that.
LEMMA LossesKept ==
    ASSUME Inv, Inv', WithinCapacity, LossesExplained, [Next]_vars
    PROVE  LossesExplained'
<1> DEFINE allowed == crashes * Concurrency
<1>1. /\ Cardinality(Lost) \in Nat /\ IsFiniteSet(Lost)
      /\ Cardinality(Lost') \in Nat
  BY LossesFinite, FS_CardinalityType, FS_Subset, ProcessorAssumption DEF Lost
<1>2. faults \in Nat /\ crashes \in Nat /\ Concurrency \in Nat /\ allowed \in Nat
  BY ProcessorAssumption DEF Inv, TypeOK
<1>3. Cardinality(Lost) <= faults + allowed
  BY DEF LossesExplained
<1>4. ASSUME NEW n \in Nat, NEW more, IsFiniteSet(more), Cardinality(more) <= n,
             Lost' \subseteq Lost \cup more
      PROVE  Cardinality(Lost') <= Cardinality(Lost) + n
  <2>1. /\ IsFiniteSet(Lost \cup more)
        /\ Cardinality(Lost \cup more) = Cardinality(Lost) + Cardinality(more) - Cardinality(Lost \cap more)
        /\ Cardinality(Lost \cap more) \in Nat
    BY <1>1, <1>4, FS_Union, FS_Intersection, FS_CardinalityType
  <2>2. Cardinality(more) \in Nat
    BY <1>4, FS_CardinalityType
  <2>3. Cardinality(Lost \cup more) <= Cardinality(Lost) + n
    BY <1>1, <1>4, <2>1, <2>2
  <2>4. Cardinality(Lost') <= Cardinality(Lost \cup more)
    BY <1>4, <2>1, FS_Subset
  <2>5. QED
    BY <1>1, <1>4, <2>1, <2>2, <2>3, <2>4
<1>5. CASE \E j \in JobIds : CompleteOp(j) \/ FailOp(j)
  <2>1. crashes' = crashes
    BY <1>5, OutcomeLosses
  <2>2. CASE Lost' \subseteq Lost /\ faults' = faults
    <3>1. Cardinality(Lost') <= Cardinality(Lost)
      BY <1>1, <2>2, FS_Subset
    <3>2. QED
      BY <1>1, <1>2, <1>3, <2>1, <2>2, <3>1 DEF LossesExplained
  <2>3. CASE (\E o : Lost' \subseteq Lost \cup {o}) /\ faults' = faults + 1
    <3>1. PICK o : Lost' \subseteq Lost \cup {o}
      BY <2>3
    <3>2. IsFiniteSet({o}) /\ Cardinality({o}) <= 1
      <4>1. IsFiniteSet({o}) /\ Cardinality({o}) = 1
        BY FS_Singleton
      <4>2. QED
        BY <4>1, SMT
    <3>3. Cardinality(Lost') <= Cardinality(Lost) + 1
      BY <1>4, <3>1, <3>2
    <3>4. QED
      BY <1>1, <1>2, <1>3, <2>1, <2>3, <3>3 DEF LossesExplained
  <2>4. QED
    BY <1>5, <2>2, <2>3, OutcomeLosses
<1>6. CASE \E w \in Workers : Crash(w)
  <2>1. crashes' = crashes + 1 /\ faults' = faults
    BY <1>6, CrashLosses
  <2>2. PICK gone : /\ Lost' \subseteq Lost \cup gone /\ IsFiniteSet(gone)
                    /\ Cardinality(gone) <= Concurrency
    BY <1>6, CrashLosses
  <2>3. Cardinality(Lost') <= Cardinality(Lost) + Concurrency
    BY <1>2, <1>4, <2>2
  <2>4. (crashes + 1) * Concurrency = allowed + Concurrency
    BY <1>2
  <2> HIDE DEF allowed
  <2>5. Cardinality(Lost') <= faults + (crashes + 1) * Concurrency
    BY <1>1, <1>2, <1>3, <2>3, <2>4
  <2>6. QED
    BY <2>1, <2>5 DEF LossesExplained
<1>7. CASE ~\E j \in JobIds : CompleteOp(j) \/ FailOp(j)
  <2>1. CASE ~\E w \in Workers : Crash(w)
    <3>1. Lost' \subseteq Lost /\ faults' \in Nat /\ faults' >= faults /\ crashes' = crashes
      BY <1>7, <2>1, OtherLosses
    <3>2. Cardinality(Lost') <= Cardinality(Lost)
      BY <1>1, <3>1, FS_Subset
    <3>3. faults' + crashes' * Concurrency = faults' + allowed
      BY <3>1
    <3> HIDE DEF allowed
    <3>4. Cardinality(Lost') <= faults' + allowed
      BY <1>1, <1>2, <1>3, <3>1, <3>2
    <3>5. QED
      BY <3>3, <3>4 DEF LossesExplained
  <2>2. QED
    BY <1>6, <2>1
<1>8. QED
  BY <1>5, <1>7

\* However many jobs, processes, crashes and refused updates there are, no more
\* operations stay 'running' for good than the crashes and refusals explain.
THEOREM OrphansAreExplained == Spec => []OrphansExplained
<1>1. Init => WithinCapacity /\ LossesExplained
  <2> SUFFICES ASSUME Init PROVE WithinCapacity /\ LossesExplained
    OBVIOUS
  <2>1. Lost = {} /\ \A w \in Workers : Taken(w) = {}
    BY DEF Init, Lost, Taken, Held
  <2>2. Cardinality({}) = 0
    BY FS_EmptySet
  <2>3. faults = 0 /\ crashes = 0 /\ Concurrency \in Nat
    BY ProcessorAssumption DEF Init
  <2>4. QED
    BY <2>1, <2>2, <2>3 DEF WithinCapacity, LossesExplained
<1>2. /\ Inv /\ WithinCapacity /\ LossesExplained /\ [Next]_vars
      => WithinCapacity' /\ LossesExplained'
  BY NextInv, CapacityKept, LossesKept
<1>3. Inv /\ LossesExplained => OrphansExplained
  <2> SUFFICES ASSUME Inv, LossesExplained PROVE OrphansExplained
    OBVIOUS
  <2>1. IsFiniteSet(Lost) /\ Cardinality(Lost) \in Nat /\ Cardinality(Orphans) \in Nat
    BY LossesFinite
  <2>2. Cardinality(Orphans) <= Cardinality(Lost)
    BY <2>1, OrphansAreLost, FS_Subset
  <2> DEFINE bound == faults + crashes * Concurrency
  <2>3. Cardinality(Lost) <= bound /\ bound \in Int
    BY ProcessorAssumption DEF LossesExplained, Inv, TypeOK
  <2>4. Cardinality(Orphans) <= bound
    <3> HIDE DEF bound
    <3>1. QED
      BY <2>1, <2>2, <2>3
  <2>5. QED
    BY <2>4 DEF OrphansExplained
<1>4. QED
  BY <1>1, <1>2, <1>3, InvHolds, PTL DEF Spec
------------------------------------------------------------------------------
(* What the breakers count *)

\* A call's operation is its job's user's.
OpsBelong == \A j \in JobIds : op[j] # None => ops[op[j]].user = job[j].user

\* The calls of a process whose failure is counted, and about to be recorded.
Pending(w, u) ==
    {j \in JobIds : pc[j] = "fail" /\ op[j] # None /\ job[j].by = w /\ job[j].user = u}

Backed(w, u) ==
    breaker[w][u].failures <=
        Cardinality(FailedOps(u)) + Cardinality(Pending(w, u)) + faults

AllBacked == \A w \in Workers, u \in Users : Backed(w, u)

LEMMA BackingFinite ==
    ASSUME Inv, NEW w \in Workers, NEW u \in Users
    PROVE  /\ IsFiniteSet(FailedOps(u)) /\ Cardinality(FailedOps(u)) \in Nat
           /\ IsFiniteSet(Pending(w, u)) /\ Cardinality(Pending(w, u)) \in Nat
           /\ faults \in Nat /\ breaker[w][u].failures \in Nat
           /\ breaker[w][u] \in BreakerState
<1>1. IsFiniteSet(FailedOps(u)) /\ IsFiniteSet(Pending(w, u))
  BY ProcessorAssumption, FS_Subset DEF FailedOps, Pending
<1>2. breaker[w][u] \in BreakerState
  BY DEF Inv, TypeOK
<1>3. QED
  BY <1>1, <1>2, FS_CardinalityType, ProcessorAssumption, BreakerAssumption
     DEF Inv, TypeOK, BreakerState

\* Each operator on an entry adds one failure at most; a success and the end of
\* a cool-down add none; a reload counts failed operations.
LEMMA BreakerCounts ==
    ASSUME NEW b \in BreakerState
    PROVE  /\ AfterFailure(b).failures <= b.failures + 1
           /\ AfterSuccess(b).failures <= b.failures
           /\ Asked(b).failures <= b.failures
           /\ Closed.failures = 0
           /\ \A n \in Nat, cooled \in BOOLEAN : Reloaded(n, cooled).failures <= n
BY BreakerAssumption
   DEF BreakerState, Closed, Asked, AfterFailure, AfterSuccess, Reloaded

\* Who owns a record is settled when the record and its call's id are made.
LEMMA OpsBelongKept ==
    ASSUME Inv, OpsBelong, [Next]_vars
    PROVE  OpsBelong'
<1> USE DEF Inv, TypeOK
<1>1. CASE UNCHANGED <<op, ops>> /\ \A j \in JobIds : op[j] # None => job'[j].user = job[j].user
  BY <1>1 DEF OpsBelong
<1>2. ASSUME NEW j \in JobIds, CreateOp(j) PROVE OpsBelong'
  <2>1. CASE UNCHANGED <<op, ops>>
    BY <1>1, <1>2, <2>1 DEF CreateOp
  <2>2. CASE \E o \in Unused : /\ ops' = [ops EXCEPT ![o] = [status |-> "running",
                                                             user |-> job[j].user]]
                               /\ op' = [op EXCEPT ![j] = o]
    <3>1. job' = job
      BY <1>2 DEF CreateOp
    <3>2. \A i \in JobIds : op[i] # None => op[i] \in OpIds /\ op[i] \notin Unused
      BY DEF OpsAreOwned, Unused
    <3>3. QED
      BY <2>2, <3>1, <3>2 DEF OpsBelong, Unused
  <2>3. QED
    BY <1>2, <2>1, <2>2 DEF CreateOp
<1>3. ASSUME NEW j \in JobIds, CompleteOp(j) \/ FailOp(j) PROVE OpsBelong'
  <2>1. job' = job /\ op' = op /\ \E done \in {"completed", "failed"} : UpdateOp(j, done)
    BY <1>3 DEF CompleteOp, FailOp
  <2>2. \A o \in OpIds : ops'[o].user = ops[o].user
    <3> SUFFICES ASSUME NEW o \in OpIds PROVE ops'[o].user = ops[o].user
      OBVIOUS
    <3>1. \A done \in {"completed", "failed"} : [ops[o] EXCEPT !.status = done].user = ops[o].user
      BY DEF Operation
    <3>2. QED
      BY <2>1, <3>1 DEF UpdateOp
  <2>3. QED
    BY <2>1, <2>2 DEF OpsBelong
<1>4. ASSUME NEW j \in JobIds, Ack(j) PROVE OpsBelong'
  <2>1. \A i \in JobIds : i # j => job'[i] = job[i] /\ op'[i] = op[i]
    BY <1>4 DEF Ack
  <2>2. op'[j] = None /\ ops' = ops
    BY <1>4 DEF Ack
  <2>3. QED
    BY <2>1, <2>2 DEF OpsBelong
<1>5. ASSUME NEW w \in Workers, Crash(w) PROVE OpsBelong'
  <2>1. job' = job /\ ops' = ops /\ \A i \in JobIds : op'[i] \in {None, op[i]}
    BY <1>5 DEF Crash
  <2>2. QED
    BY <2>1 DEF OpsBelong
<1>6. ASSUME NEW j \in JobIds, NEW u \in Users, NEW force \in BOOLEAN, AddJob(j, u, force)
      PROVE  OpsBelong'
  <2>1. op[j] = None
    BY <1>6 DEF AddJob, CallsAreHeld, StagesAgree
  <2>2. UNCHANGED <<op, ops>> /\ \A i \in JobIds : i # j => job'[i] = job[i]
    BY <1>6 DEF AddJob
  <2>3. QED
    BY <1>1, <2>1, <2>2
<1>7. ASSUME NEW j \in JobIds, CancelJob(j) \/ Stalled(j) \/ \E w \in Workers : Pick(w, j)
      PROVE  OpsBelong'
  <2>1. UNCHANGED <<op, ops>> /\ \A i \in JobIds : job'[i].user = job[i].user
    <3>1. job[j] \in Job /\ UNCHANGED <<op, ops>>
      BY <1>7 DEF CancelJob, Stalled, Pick
    <3>2. job'[j].user = job[j].user
      <4>1. CASE CancelJob(j)
        BY <3>1, <4>1 DEF CancelJob, Job
      <4>2. CASE Stalled(j)
        BY <3>1, <4>2 DEF Stalled, Job
      <4>3. CASE \E w \in Workers : Pick(w, j)
        BY <3>1, <4>3 DEF Pick, Job
      <4>4. QED
        BY <1>7, <4>1, <4>2, <4>3
    <3>3. \A i \in JobIds : i # j => job'[i] = job[i]
      BY <1>7 DEF CancelJob, Stalled, Pick
    <3>4. QED
      BY <3>1, <3>2, <3>3
  <2>2. QED
    BY <1>1, <2>1
<1>8. ASSUME NEW j \in JobIds, Process(j) PROVE OpsBelong'
  <2>1. CASE CreateOp(j) \/ CompleteOp(j) \/ FailOp(j) \/ Ack(j)
    BY <1>2, <1>3, <1>4, <2>1
  <2>2. CASE UNCHANGED <<job, op, ops>>
    BY <1>1, <2>2
  <2>3. QED
    BY <1>8, <2>1, <2>2
       DEF Process, MarkStarted, MarkStartedAgain, Fetch, Save, MarkSynced, Verify,
           MarkUnsynced, MarkSyncedAgain, MarkUnsyncedAgain, Publish
<1>9. CASE UNCHANGED vars
  BY <1>1, <1>9 DEF vars
<1>10. QED
  BY <1>1, <1>5, <1>6, <1>7, <1>8, <1>9 DEF Next, Worker, Environment, Restart, CoolDown

\* An entry whose count does not grow, while none of its backing goes.
LEMMA CalmEntry ==
    ASSUME Inv, Inv', NEW w \in Workers, NEW u \in Users, Backed(w, u),
           breaker'[w][u].failures <= breaker[w][u].failures,
           FailedOps(u) \subseteq FailedOps(u)', Pending(w, u) \subseteq Pending(w, u)',
           faults' >= faults
    PROVE  Backed(w, u)'
<1>1. /\ Cardinality(FailedOps(u)) \in Nat /\ Cardinality(Pending(w, u)) \in Nat
      /\ faults \in Nat /\ breaker[w][u].failures \in Nat
  BY BackingFinite
<1>2. /\ IsFiniteSet(FailedOps(u)') /\ Cardinality(FailedOps(u)') \in Nat
      /\ IsFiniteSet(Pending(w, u)') /\ Cardinality(Pending(w, u)') \in Nat
      /\ faults' \in Nat /\ breaker'[w][u].failures \in Nat
  <2>1. IsFiniteSet(FailedOps(u)') /\ IsFiniteSet(Pending(w, u)')
    BY ProcessorAssumption, FS_Subset DEF FailedOps, Pending
  <2>2. breaker'[w][u] \in BreakerState
    BY DEF Inv, TypeOK
  <2>3. QED
    BY <2>1, <2>2, FS_CardinalityType, ProcessorAssumption, BreakerAssumption
       DEF Inv, TypeOK, BreakerState
<1>3. /\ Cardinality(FailedOps(u)) <= Cardinality(FailedOps(u)')
      /\ Cardinality(Pending(w, u)) <= Cardinality(Pending(w, u)')
  BY <1>2, FS_Subset
<1>4. QED
  BY <1>1, <1>2, <1>3 DEF Backed
\* The failure is counted before it is recorded: the call is pending.
LEMMA CountedThenPending ==
    ASSUME Inv, Inv', OpsBelong, AllBacked, NEW j \in JobIds,
           MarkStarted(j) \/ MarkUnsynced(j)
    PROVE  AllBacked'
<1> USE DEF Inv
<1> DEFINE w0 == job[j].by
           u0 == job[j].user
<1>1. /\ w0 \in Workers /\ u0 \in Users /\ op[j] # None /\ pc[j] # "fail"
      /\ job' = job /\ op' = op /\ ops' = ops
      /\ \A i \in JobIds : i # j => pc'[i] = pc[i]
  BY DEF CallsAreHeld, StagesAgree, BeforeOutcome, MarkStarted, MarkUnsynced, Goto, TypeOK
<1>2. faults' >= faults /\ faults' \in Nat /\ faults \in Nat
  BY ProcessorAssumption DEF MarkStarted, MarkUnsynced, MarkSync, DbFault, TypeOK
<1>3. \A u \in Users : FailedOps(u)' = FailedOps(u)
  BY <1>1 DEF FailedOps
<1>4. \A w \in Workers, u \in Users : Pending(w, u) \subseteq Pending(w, u)'
  BY <1>1 DEF Pending
<1>5. BreakerOf(j) = breaker[w0][u0] /\ breaker[w0][u0] \in BreakerState
  BY <1>1 DEF BreakerOf, TypeOK
<1>6. ASSUME NEW w \in Workers, NEW u \in Users,
             breaker'[w][u].failures <= breaker[w][u].failures
      PROVE  Backed(w, u)'
  BY <1>2, <1>3, <1>4, <1>6, CalmEntry DEF AllBacked
<1>7. CASE breaker' = breaker
  <2>1. \A w \in Workers, u \in Users : breaker[w][u].failures <= breaker[w][u].failures
    BY BackingFinite
  <2>2. QED
    BY <1>6, <1>7, <2>1 DEF AllBacked
<1>8. ASSUME NEW b \in BreakerState, SetBreaker(j, b), b.failures <= breaker[w0][u0].failures
      PROVE  AllBacked'
  <2>1. \A w \in Workers, u \in Users : breaker[w][u].failures \in Nat
    BY BackingFinite
  <2>2. \A w \in Workers, u \in Users : breaker'[w][u].failures <= breaker[w][u].failures
    BY <1>1, <1>8, <2>1 DEF SetBreaker, TypeOK
  <2>3. QED
    BY <1>6, <2>2 DEF AllBacked
<1>9. ASSUME SetBreaker(j, AfterFailure(BreakerOf(j))), pc'[j] = "fail"
      PROVE  AllBacked'
  <2> DEFINE b == AfterFailure(BreakerOf(j))
  <2>1. b \in BreakerState /\ b.failures <= breaker[w0][u0].failures + 1
    BY <1>5, BreakerType, BreakerCounts
  <2>2. breaker'[w0][u0] = b /\ breaker' = [breaker EXCEPT ![w0][u0] = b]
    BY <1>1, <1>9 DEF SetBreaker, TypeOK
  <2> HIDE DEF b
  <2>3. ASSUME NEW w \in Workers, NEW u \in Users, w # w0 \/ u # u0
        PROVE  Backed(w, u)'
    <3>1. breaker'[w][u] = breaker[w][u]
      BY <1>1, <2>2, <2>3 DEF TypeOK
    <3>2. breaker[w][u].failures \in Nat
      BY BackingFinite
    <3>3. QED
      BY <1>6, <3>1, <3>2
  <2>4. ASSUME NEW w \in Workers, NEW u \in Users, w = w0, u = u0 PROVE Backed(w, u)'
    <3>1. Pending(w, u)' = Pending(w, u) \cup {j} /\ j \notin Pending(w, u)
      BY <1>1, <1>9, <2>4 DEF Pending
    <3>2. /\ IsFiniteSet(Pending(w, u)) /\ Cardinality(Pending(w, u)) \in Nat
          /\ Cardinality(FailedOps(u)) \in Nat /\ breaker[w][u].failures \in Nat
      BY BackingFinite
    <3>3. Cardinality(Pending(w, u)') = Cardinality(Pending(w, u)) + 1
      BY <3>1, <3>2, FS_AddElement
    <3>4. breaker'[w][u].failures <= breaker[w][u].failures + 1 /\ breaker'[w][u].failures \in Nat
      BY <2>1, <2>2, <2>4 DEF BreakerState
    <3>5. Backed(w, u)
      BY DEF AllBacked
    <3>6. QED
      BY <1>2, <1>3, <3>2, <3>3, <3>4, <3>5 DEF Backed
  <2>5. \A w \in Workers, u \in Users : Backed(w, u)'
    BY <2>3, <2>4
  <2>6. QED
    BY <2>5, Zenon DEF AllBacked
<1>10. CASE MarkUnsynced(j)
  BY <1>9, <1>10 DEF MarkUnsynced, Goto, TypeOK
<1>11. CASE MarkStarted(j)
  <2>1. Asked(BreakerOf(j)) \in BreakerState /\ Asked(BreakerOf(j)).failures <= breaker[w0][u0].failures
    BY <1>5, BreakerType, BreakerCounts
  <2>2. QED
    BY <1>7, <1>8, <1>9, <1>11, <2>1 DEF MarkStarted, Goto, TypeOK
<1>12. QED
  BY <1>10, <1>11

\* createSyncOperation failed: the refusal backs the count.
LEMMA CreateBacked ==
    ASSUME Inv, Inv', AllBacked, NEW j \in JobIds, CreateOp(j)
    PROVE  AllBacked'
<1> USE DEF Inv
<1> DEFINE w0 == job[j].by
           u0 == job[j].user
<1>1. /\ w0 \in Workers /\ u0 \in Users /\ pc[j] = "create" /\ job' = job
      /\ \A i \in JobIds : i # j => pc'[i] = pc[i] /\ op'[i] = op[i]
  BY DEF CallsAreHeld, CreateOp, CreateThrows, Goto, TypeOK
<1>2. \A u \in Users : FailedOps(u) \subseteq FailedOps(u)'
  <2>1. \A o \in OpIds : ops[o].status = "failed" => ops'[o] = ops[o]
    BY DEF CreateOp, Unused, TypeOK
  <2>2. QED
    BY <2>1 DEF FailedOps
<1>3. \A w \in Workers, u \in Users : Pending(w, u) \subseteq Pending(w, u)'
  BY <1>1 DEF Pending
<1>4. CASE breaker' = breaker /\ faults' = faults
  <2>1. \A w \in Workers, u \in Users : breaker[w][u].failures <= breaker[w][u].failures /\ faults >= faults
    BY BackingFinite
  <2>2. QED
    BY <1>2, <1>3, <1>4, <2>1, CalmEntry DEF AllBacked
<1>5. CASE CreateThrows(j)
  <2> DEFINE b == AfterFailure(BreakerOf(j))
  <2>1. faults' = faults + 1 /\ faults \in Nat
    BY <1>5, ProcessorAssumption DEF CreateThrows, DbFault, TypeOK
  <2>2. breaker[w0][u0] \in BreakerState /\ b \in BreakerState /\ b.failures <= breaker[w0][u0].failures + 1
    BY <1>1, BreakerType, BreakerCounts DEF BreakerOf, TypeOK
  <2>3. breaker' = [breaker EXCEPT ![w0][u0] = b]
    BY <1>5 DEF CreateThrows, SetBreaker
  <2> HIDE DEF b
  <2> SUFFICES ASSUME NEW w \in Workers, NEW u \in Users PROVE Backed(w, u)'
    BY DEF AllBacked
  <2>4. CASE w = w0 /\ u = u0
    <3>1. /\ Cardinality(FailedOps(u)) \in Nat /\ Cardinality(Pending(w, u)) \in Nat
          /\ breaker[w][u].failures \in Nat
      BY BackingFinite
    <3>2. /\ IsFiniteSet(FailedOps(u)') /\ IsFiniteSet(Pending(w, u)')
      BY ProcessorAssumption, FS_Subset DEF FailedOps, Pending
    <3>3. /\ Cardinality(FailedOps(u)) <= Cardinality(FailedOps(u)') /\ Cardinality(FailedOps(u)') \in Nat
          /\ Cardinality(Pending(w, u)) <= Cardinality(Pending(w, u)') /\ Cardinality(Pending(w, u)') \in Nat
      BY <1>2, <1>3, <3>2, FS_Subset, FS_CardinalityType
    <3>4. breaker'[w][u] = b /\ b.failures \in Nat
      BY <2>2, <2>3, <2>4 DEF BreakerState, TypeOK
    <3>5. Backed(w, u)
      BY DEF AllBacked
    <3>6. QED
      BY <2>1, <2>2, <2>4, <3>1, <3>3, <3>4, <3>5 DEF Backed
  <2>5. CASE w # w0 \/ u # u0
    <3>1. breaker'[w][u] = breaker[w][u]
      BY <1>1, <2>3, <2>5 DEF TypeOK
    <3>2. breaker[w][u].failures \in Nat
      BY BackingFinite
    <3>3. QED
      BY <1>2, <1>3, <2>1, <3>1, <3>2, CalmEntry DEF AllBacked
  <2>6. QED
    BY <2>4, <2>5
<1>6. QED
  BY <1>4, <1>5 DEF CreateOp

\* The record of a pending call turns failed, or MongoDB refuses it.
LEMMA FailOpBacked ==
    ASSUME Inv, Inv', OpsBelong, AllBacked, NEW j \in JobIds, FailOp(j)
    PROVE  AllBacked'
<1> USE DEF Inv
<1> DEFINE w0 == job[j].by
           u0 == job[j].user
<1>1. /\ w0 \in Workers /\ u0 \in Users /\ pc[j] = "fail" /\ job' = job /\ op' = op
      /\ breaker' = breaker /\ faults \in Nat /\ faults' \in Nat /\ faults' >= faults
      /\ pc' = [pc EXCEPT ![j] = "refail"] /\ UpdateOp(j, "failed")
      /\ \A i \in JobIds : i # j => pc'[i] = pc[i]
  BY ProcessorAssumption DEF CallsAreHeld, FailOp, UpdateOp, DbFault, Goto, TypeOK
<1>2. op[j] # None => ops[op[j]].status = "running" /\ ops[op[j]].user = u0 /\ op[j] \in OpIds
  BY <1>1 DEF StagesAgree, OpsBelong, TypeOK
<1>3. \A o \in OpIds : o # op[j] => ops'[o] = ops[o]
  BY <1>1 DEF UpdateOp, TypeOK
<1>4. \A u \in Users : FailedOps(u) \subseteq FailedOps(u)'
  BY <1>2, <1>3, ProcessorAssumption DEF FailedOps
<1> SUFFICES ASSUME NEW w \in Workers, NEW u \in Users PROVE Backed(w, u)'
  BY DEF AllBacked
<1>5. /\ IsFiniteSet(FailedOps(u)) /\ Cardinality(FailedOps(u)) \in Nat
      /\ IsFiniteSet(Pending(w, u)) /\ Cardinality(Pending(w, u)) \in Nat
      /\ breaker[w][u].failures \in Nat
  BY BackingFinite
<1>6. Backed(w, u)
  BY DEF AllBacked
<1>7. CASE w # w0 \/ u # u0 \/ op[j] = None
  <2>1. Pending(w, u) \subseteq Pending(w, u)'
    BY <1>1, <1>7 DEF Pending
  <2>2. QED
    BY <1>1, <1>4, <1>5, <1>6, <2>1, CalmEntry
<1>8. CASE w = w0 /\ u = u0 /\ op[j] # None
  <2>1. Pending(w, u)' = Pending(w, u) \ {j} /\ j \in Pending(w, u)
    BY <1>1, <1>8 DEF Pending, TypeOK
  <2>2. Cardinality(Pending(w, u)') = Cardinality(Pending(w, u)) - 1
    BY <1>5, <2>1, FS_RemoveElement
  <2>3. IsFiniteSet(FailedOps(u)')
    BY ProcessorAssumption, FS_Subset DEF FailedOps
  <2>4. CASE faults' = faults + 1
    <3>1. Cardinality(FailedOps(u)) <= Cardinality(FailedOps(u)') /\ Cardinality(FailedOps(u)') \in Nat
      BY <1>4, <2>3, FS_Subset, FS_CardinalityType
    <3>2. QED
      BY <1>1, <1>5, <1>6, <2>2, <2>4, <3>1 DEF Backed
  <2>5. CASE ops' = [ops EXCEPT ![op[j]].status = "failed"] /\ faults' = faults
    <3>1. ops'[op[j]] = [ops[op[j]] EXCEPT !.status = "failed"] /\ ops[op[j]] \in Operation
      BY <1>2, <1>8, <2>5 DEF TypeOK
    <3>2. ops'[op[j]].status = "failed" /\ ops'[op[j]].user = u0
      BY <1>2, <1>8, <3>1 DEF Operation
    <3>3. FailedOps(u)' = FailedOps(u) \cup {op[j]} /\ op[j] \notin FailedOps(u)
      BY <1>2, <1>3, <1>8, <3>2 DEF FailedOps
    <3>4. Cardinality(FailedOps(u)') = Cardinality(FailedOps(u)) + 1
      BY <1>5, <3>3, FS_AddElement
    <3>5. QED
      BY <1>1, <1>5, <1>6, <2>2, <2>5, <3>4 DEF Backed
  <2>6. QED
    BY <1>1, <1>8, <2>4, <2>5 DEF UpdateOp, DbFault
<1>9. QED
  BY <1>7, <1>8
\* A process that starts again counts failed operations, not its pending calls.
LEMMA RestartBacked ==
    ASSUME Inv, Inv', AllBacked, NEW w \in Workers, Restart(w)
    PROVE  AllBacked'
<1> USE DEF Inv
<1> SUFFICES ASSUME NEW x \in Workers, NEW u \in Users PROVE Backed(x, u)'
  BY DEF AllBacked
<1>1. FailedOps(u)' = FailedOps(u) /\ Pending(x, u)' = Pending(x, u) /\ faults' = faults
  BY DEF Restart, FailedOps, Pending
<1>2. /\ Cardinality(FailedOps(u)) \in Nat /\ Cardinality(Pending(x, u)) \in Nat
      /\ faults \in Nat /\ breaker[x][u].failures \in Nat
  BY BackingFinite
<1>3. PICK count \in [Users -> 0 .. Cardinality(OpIds)], cooled \in [Users -> BOOLEAN] :
        /\ \A v \in Users : count[v] <= Cardinality(FailedOps(v))
        /\ breaker' = [breaker EXCEPT ![w] = [v \in Users |-> Reloaded(count[v], cooled[v])]]
  BY DEF Restart
<1>4. CASE x = w
  <2>1. breaker'[x][u] = Reloaded(count[u], cooled[u])
    BY <1>3, <1>4 DEF TypeOK
  <2>2. count[u] \in Nat /\ cooled[u] \in BOOLEAN
    BY FS_CardinalityType, ProcessorAssumption
  <2>3. Closed \in BreakerState
    BY BreakerAssumption DEF Closed, BreakerState
  <2>4. /\ Reloaded(count[u], cooled[u]) \in BreakerState
        /\ Reloaded(count[u], cooled[u]).failures <= count[u]
    BY <2>2, <2>3, BreakerType, BreakerCounts
  <2>5. Reloaded(count[u], cooled[u]).failures \in Nat
    BY <2>4, BreakerAssumption DEF BreakerState
  <2>6. breaker'[x][u].failures <= Cardinality(FailedOps(u))
    <3>1. count[u] <= Cardinality(FailedOps(u))
      BY <1>3
    <3>2. QED
      BY <1>2, <2>1, <2>2, <2>4, <2>5, <3>1
  <2>7. breaker'[x][u].failures \in Nat
    BY <2>1, <2>5
  <2>8. QED
    BY <1>1, <1>2, <2>6, <2>7 DEF Backed
<1>5. CASE x # w
  <2>1. breaker'[x][u] = breaker[x][u]
    BY <1>3, <1>5 DEF TypeOK
  <2>2. QED
    BY <1>1, <2>1 DEF AllBacked, Backed
<1>6. QED
  BY <1>4, <1>5

\* A process that crashes forgets its counts, and its pending calls.
LEMMA CrashBacked ==
    ASSUME Inv, Inv', AllBacked, NEW w \in Workers, Crash(w)
    PROVE  AllBacked'
<1> USE DEF Inv
<1> SUFFICES ASSUME NEW x \in Workers, NEW u \in Users PROVE Backed(x, u)'
  BY DEF AllBacked
<1>1. FailedOps(u)' = FailedOps(u) /\ faults' = faults
  BY DEF Crash, FailedOps
<1>2. /\ Cardinality(FailedOps(u)) \in Nat /\ faults \in Nat /\ breaker[x][u].failures \in Nat
      /\ IsFiniteSet(Pending(x, u))
  BY BackingFinite
<1>3. CASE x = w
  <2>1. breaker'[x][u].failures = 0
    BY <1>3 DEF Crash, Closed, TypeOK
  <2>2. Pending(x, u)' \subseteq JobIds
    BY DEF Pending
  <2>3. Cardinality(Pending(x, u)') \in Nat
    BY <2>2, ProcessorAssumption, FS_Subset, FS_CardinalityType
  <2>4. QED
    BY <1>1, <1>2, <2>1, <2>3 DEF Backed
<1>4. CASE x # w
  <2>1. \A j \in JobIds : job[j].by = x => pc'[j] = pc[j] /\ op'[j] = op[j]
    BY <1>4 DEF Crash, Held
  <2>2. Pending(x, u) \subseteq Pending(x, u)'
    BY <2>1 DEF Pending, Crash
  <2>3. breaker'[x][u] = breaker[x][u]
    BY <1>4 DEF Crash, TypeOK
  <2>4. QED
    BY <1>1, <1>2, <2>2, <2>3, CalmEntry DEF AllBacked
<1>5. QED
  BY <1>3, <1>4

\* Every other step counts nothing, and takes no pending call's record.
LEMMA OthersBacked ==
    ASSUME Inv, Inv', AllBacked, [Next]_vars,
           \A j \in JobIds : ~(CreateOp(j) \/ MarkStarted(j) \/ MarkUnsynced(j) \/ FailOp(j)),
           \A w \in Workers : ~(Crash(w) \/ Restart(w))
    PROVE  AllBacked'
<1> USE DEF Inv
<1> DEFINE Uncounted == \A w \in Workers, u \in Users :
                            breaker'[w][u].failures <= breaker[w][u].failures
           Recorded == \A o \in OpIds : ops[o].status = "failed" => ops'[o] = ops[o]
           StillPending == \A i \in JobIds : pc[i] = "fail" =>
                              /\ pc'[i] = "fail" /\ op'[i] = op[i]
                              /\ job'[i].by = job[i].by /\ job'[i].user = job[i].user
           Calm == Uncounted /\ Recorded /\ StillPending /\ faults' >= faults
<1>1. \A w \in Workers, u \in Users : breaker[w][u].failures \in Nat /\ faults \in Nat
  BY BackingFinite
<1>2. ASSUME Calm PROVE AllBacked'
  <2> SUFFICES ASSUME NEW w \in Workers, NEW u \in Users PROVE Backed(w, u)'
    BY DEF AllBacked
  <2>1. Pending(w, u) \subseteq Pending(w, u)'
    BY <1>2 DEF Pending
  <2>2. FailedOps(u) \subseteq FailedOps(u)'
    BY <1>2 DEF FailedOps
  <2>3. QED
    BY <1>2, <2>1, <2>2, CalmEntry DEF AllBacked
<1>3. CASE UNCHANGED vars
  <2>1. Uncounted
    BY <1>1, <1>3 DEF vars
  <2>2. QED
    BY <1>2, <1>3, <2>1, ProcessorAssumption DEF vars, TypeOK
<1>4. ASSUME NEW j \in JobIds, Process(j) PROVE Calm
  <2>1. pc[j] # "fail" /\ \A i \in JobIds : i # j =>
          pc'[i] = pc[i] /\ op'[i] = op[i] /\ job'[i] = job[i]
    <3>1. pc[j] # "fail"
      BY <1>4 DEF Process, MarkStartedAgain, Fetch, Save, MarkSynced, Verify, CompleteOp,
         MarkSyncedAgain, MarkUnsyncedAgain, Publish, Ack
    <3>2. CASE Ack(j)
      BY <3>1, <3>2 DEF Ack, TypeOK
    <3>3. CASE ~Ack(j)
      <4>1. op' = op /\ job' = job
        BY <1>4, <3>3 DEF Process, MarkStartedAgain, Fetch, Save, MarkSynced, Verify,
           CompleteOp, MarkSyncedAgain, MarkUnsyncedAgain, Publish
      <4>2. \E a : pc' = [pc EXCEPT ![j] = a]
        BY <1>4, <3>3 DEF Process, MarkStartedAgain, Fetch, Save, MarkSynced, Verify,
           CompleteOp, MarkSyncedAgain, MarkUnsyncedAgain, Publish, Goto
      <4>3. QED
        BY <3>1, <4>1, <4>2 DEF TypeOK
    <3>4. QED
      BY <3>2, <3>3
  <2>2. StillPending
    BY <2>1
  <2>3. Recorded
    <3>1. CASE CompleteOp(j)
      BY <3>1 DEF CompleteOp, UpdateOp, StagesAgree, BeforeOutcome, TypeOK
    <3>2. CASE ops' = ops
      BY <3>2
    <3>3. QED
      BY <1>4, <3>1, <3>2 DEF Process, MarkStartedAgain, Fetch, Save, MarkSynced, Verify,
         MarkSyncedAgain, MarkUnsyncedAgain, Publish, Ack
  <2>4. Uncounted
    <3>1. CASE breaker' = breaker
      BY <1>1, <3>1
    <3>2. CASE Verify(j) /\ SetBreaker(j, AfterSuccess(BreakerOf(j)))
      <4>1. job[j].by \in Workers /\ job[j].user \in Users
        BY <3>2 DEF Verify, CallsAreHeld
      <4>2. BreakerOf(j) = breaker[job[j].by][job[j].user] /\ BreakerOf(j) \in BreakerState
        BY <4>1 DEF BreakerOf, TypeOK
      <4>3. AfterSuccess(BreakerOf(j)).failures <= breaker[job[j].by][job[j].user].failures
        BY <4>2, BreakerCounts
      <4>4. QED
        BY <1>1, <3>2, <4>1, <4>3 DEF SetBreaker, TypeOK
    <3>3. QED
      BY <1>4, <3>1, <3>2 DEF Process, MarkStartedAgain, Fetch, Save, MarkSynced, Verify,
         CompleteOp, MarkSyncedAgain, MarkUnsyncedAgain, Publish, Ack
  <2>5. faults' >= faults
    BY <1>4, ProcessorAssumption DEF Process, MarkStartedAgain, Fetch, Save, MarkSynced,
       Verify, CompleteOp, UpdateOp, MarkSyncedAgain, MarkUnsyncedAgain, Publish, Ack,
       MarkSync, DbFault, TypeOK
  <2> HIDE DEF Uncounted, Recorded, StillPending
  <2>6. QED
    BY <2>2, <2>3, <2>4, <2>5
<1>5. ASSUME NEW j \in JobIds,
             \/ Stalled(j) \/ CancelJob(j) \/ \E w \in Workers : Pick(w, j)
             \/ \E u \in Users, force \in BOOLEAN : AddJob(j, u, force)
      PROVE  Calm
  <2>1. /\ pc[j] # "fail" /\ UNCHANGED <<op, ops, breaker, faults>>
        /\ \A i \in JobIds : i # j => pc'[i] = pc[i] /\ job'[i] = job[i]
    BY <1>5, ZenonT(60) DEF Stalled, CancelJob, Pick, AddJob, CallsAreHeld, TypeOK
  <2>2. Uncounted
    BY <1>1, <2>1
  <2>3. QED
    BY <2>1, <2>2, ProcessorAssumption DEF TypeOK
<1>6. ASSUME NEW w \in Workers, NEW u \in Users, CoolDown(w, u) PROVE Calm
  <2>1. Uncounted
    <3>1. breaker[w][u] \in BreakerState
      BY DEF TypeOK
    <3>2. [breaker[w][u] EXCEPT !.cooled = TRUE].failures = breaker[w][u].failures
      BY <3>1 DEF BreakerState
    <3>3. breaker' = [breaker EXCEPT ![w][u] = [breaker[w][u] EXCEPT !.cooled = TRUE]]
      BY <1>6 DEF CoolDown, TypeOK
    <3>4. QED
      BY <1>1, <3>2, <3>3 DEF TypeOK
  <2>2. QED
    BY <1>6, <2>1, ProcessorAssumption DEF CoolDown, TypeOK
<1> HIDE DEF Calm
<1>7. CASE Worker
  BY <1>2, <1>4, <1>5, <1>7 DEF Worker
<1>8. CASE Environment
  BY <1>2, <1>6, <1>8 DEF Environment
<1>9. QED
  BY <1>2, <1>3, <1>5, <1>7, <1>8 DEF Next

\* A breaker never counts a failure nobody can find: it is an operation recorded
\* as failed, a call about to record it, or a call of the database that failed.
THEOREM FailuresBacked == Spec => []FailuresAreBacked
<1>1. Init => OpsBelong /\ AllBacked
  <2> SUFFICES ASSUME Init PROVE OpsBelong /\ AllBacked
    OBVIOUS
  <2>1. OpsBelong
    BY DEF Init, OpsBelong
  <2>2. ASSUME NEW w \in Workers, NEW u \in Users PROVE Backed(w, u)
    <3>1. breaker[w][u].failures = 0 /\ faults = 0
      BY DEF Init, Closed
    <3>2. Cardinality(FailedOps(u)) \in Nat /\ Cardinality(Pending(w, u)) \in Nat
      BY InitInv, BackingFinite
    <3>3. QED
      BY <3>1, <3>2 DEF Backed
  <2>3. QED
    BY <2>1, <2>2 DEF AllBacked
<1>2. Inv /\ OpsBelong /\ AllBacked /\ [Next]_vars => OpsBelong' /\ AllBacked'
  <2> SUFFICES ASSUME Inv, Inv', OpsBelong, AllBacked, [Next]_vars
               PROVE  OpsBelong' /\ AllBacked'
    BY NextInv
  <2>1. OpsBelong'
    BY OpsBelongKept
  <2>2. AllBacked'
    BY CountedThenPending, CreateBacked, FailOpBacked, RestartBacked, CrashBacked, OthersBacked
  <2>3. QED
    BY <2>1, <2>2
<1>3. Inv /\ AllBacked => FailuresAreBacked
  <2> SUFFICES ASSUME Inv, AllBacked, NEW w \in Workers, NEW u \in Users
               PROVE  FailuresAreBacked!(w, u)
    BY DEF FailuresAreBacked
  <2> DEFINE all == {j \in JobIds : pc[j] = "fail" /\ job[j].by = w /\ job[j].user = u}
  <2>1. Pending(w, u) \subseteq all /\ IsFiniteSet(all)
    BY ProcessorAssumption, FS_Subset DEF Pending
  <2>2. Cardinality(Pending(w, u)) <= Cardinality(all) /\ Cardinality(all) \in Nat
    BY <2>1, FS_Subset, FS_CardinalityType
  <2>3. Backed(w, u)
    BY DEF AllBacked
  <2>4. /\ Cardinality(FailedOps(u)) \in Nat /\ Cardinality(Pending(w, u)) \in Nat
        /\ faults \in Nat /\ breaker[w][u].failures \in Nat
    BY BackingFinite
  <2>5. breaker[w][u].failures <= Cardinality(FailedOps(u)) + Cardinality(all) + faults
    <3> HIDE DEF all
    <3>1. QED
      BY <2>2, <2>3, <2>4 DEF Backed
  <2>6. QED
    BY <2>5
<1>4. QED
  BY <1>1, <1>2, <1>3, InvHolds, PTL DEF Spec

------------------------------------------------------------------------------
(* What user_sync_status counts *)

\* The await of the call that holds an operation, or "over" if no call does.
Where == [o \in OpIds |->
            IF \E j \in JobIds : op[j] = o THEN pc[CHOOSE j \in JobIds : op[j] = o]
                                           ELSE "over"]

\* What an operation's record says, and whether its holdings are committed, as
\* long as nothing failed.
Fits(await, status, written) ==
    /\ await \in {"start", "restart", "fetch", "save"} => status = "running" /\ ~written
    /\ await \in {"synced", "verify", "complete"} => status = "running" /\ written
    /\ await \in {"unsynced", "fail"} => status = "running"
    /\ await \in {"recount", "announce"} => status = "completed" /\ written
    /\ await \in {"refail", "lament"} => status = "failed"
    /\ await \in {"ack", "over"} => status # "running"
    /\ status = "none" => await = "over" /\ ~written

Once(happened) == IF happened THEN 1 ELSE 0

\* An operation's share in the counters of its user, for each of them a first and
\* a second time: the starts it may have been counted for, the failures, and the
\* successes; whether a failure followed its success; and the outcomes it owes.
Share(await, status, written) ==
    [start1 |-> Once(status # "none" /\ await # "start"),
     start2 |-> Once(status # "none" /\ await \notin {"start", "restart"}),
     bad1 |-> Once(status = "failed" \/ await = "fail"),
     bad2 |-> Once(status = "failed" /\ await # "refail"),
     ok1 |-> Once(written /\ await # "synced"),
     ok2 |-> Once(status = "completed" /\ await # "recount"),
     late |-> Once(written /\ (status = "failed" \/ await \in {"unsynced", "fail"})),
     owed1 |-> Once(await \in {"restart", "fetch", "save", "synced", "verify", "complete",
                               "recount", "unsynced", "fail", "refail"}),
     owed2 |-> Once(await \in {"fetch", "save", "synced", "unsynced"})]

Parts == {"start1", "start2", "bad1", "bad2", "ok1", "ok2", "late", "owed1", "owed2"}

Sharing(u, part) ==
    {o \in OpIds : ops[o].user = u /\ Share(Where[o], ops[o].status, o \in wrote)[part] = 1}

Tally(u) == [part \in Parts |-> Cardinality(Sharing(u, part))]

\* The counters of a user add up to the tally of its operations.  A call that
\* finds the breaker open is not started a second time, and fails once.
AddsUp(s, t) ==
    /\ s.total <= t["start1"] + t["start2"]
    /\ s.bad <= t["bad1"] + t["bad2"]
    /\ s.ok = t["ok1"] + t["ok2"]
    /\ s.total + t["late"] = s.ok + s.bad + t["owed1"] + t["owed2"]
    /\ s.status = "running" => t["owed1"] > 0

Calls == \A j \in JobIds : Live(j) /\ pc[j] # "create" => op[j] # None
Fit == \A o \in OpIds : Fits(Where[o], ops[o].status, o \in wrote)
Add == \A u \in Users : AddsUp(sync[u], Tally(u))

Settled == Undisturbed => Calls /\ Fit /\ Add

\* The counters can count all there is to count: every operation, twice.
Uncapped == 2 * Cardinality(OpIds) <= MaxCount

\* How shares and counters change together.
Moves(x, y, total, ok, bad) ==
    /\ x["start1"] + x["start2"] + total <= y["start1"] + y["start2"]
    /\ x["bad1"] + x["bad2"] + bad <= y["bad1"] + y["bad2"]
    /\ x["ok1"] + x["ok2"] + ok = y["ok1"] + y["ok2"]
    /\ total + y["late"] + x["owed1"] + x["owed2"]
         = x["late"] + ok + bad + y["owed1"] + y["owed2"]

Unmoved(x, y) == Moves(x, y, 0, 0, 0) /\ x["owed1"] <= y["owed1"]

Begun(x, y) == Moves(x, y, 1, 0, 0) /\ y["owed1"] = 1

\* The update that a step makes of the counters is the one its operation's share
\* calls for.
Follows(s, z, x, y) ==
    \/ z = s /\ Unmoved(x, y)
    \/ z = Started(s) /\ Begun(x, y)
    \/ z = Succeeded(s) /\ Moves(x, y, 0, 1, 0)
    \/ z = Failed(s) /\ Moves(x, y, 0, 0, 1)

\* A counter within the sum of two parts that change by x and y stays within it.
LEMMA TwoParts ==
    ASSUME NEW a \in Nat, NEW b \in Nat, NEW c \in Nat, NEW d \in Nat,
           NEW x1 \in Nat, NEW x2 \in Nat, NEW y1 \in Nat, NEW y2 \in Nat,
           NEW k \in Nat, NEW m \in Nat, c + x1 = a + y1, d + x2 = b + y2
    PROVE  k <= a + b /\ x1 + x2 + m <= y1 + y2 => k + m <= c + d
OBVIOUS

\* No counter is at its bound when it is incremented, and the sums stay true.
LEMMA SumsStayTrue ==
    ASSUME NEW s \in SyncStatus, NEW z, NEW n \in Nat, 2 * n <= MaxCount,
           NEW t \in [Parts -> 0 .. n], NEW r \in [Parts -> 0 .. n],
           NEW x \in [Parts -> 0 .. 1], NEW y \in [Parts -> 0 .. 1],
           \A part \in Parts : /\ r[part] + x[part] = t[part] + y[part]
                               /\ y[part] <= r[part],
           AddsUp(s, t), Follows(s, z, x, y)
    PROVE  AddsUp(z, r)
<1> DEFINE Sums(total, ok, bad) ==
             /\ total <= r["start1"] + r["start2"]
             /\ bad <= r["bad1"] + r["bad2"]
             /\ ok = r["ok1"] + r["ok2"]
             /\ total + r["late"] = ok + bad + r["owed1"] + r["owed2"]
<1>1. /\ s.total \in Nat /\ s.ok \in Nat /\ s.bad \in Nat /\ s.streak \in Nat
      /\ MaxCount \in Nat
  BY ProcessorAssumption DEF SyncStatus
<1>2. \A part \in Parts : /\ r[part] \in Nat /\ t[part] \in Nat /\ x[part] \in Nat
                          /\ y[part] \in Nat /\ r[part] <= n
  OBVIOUS
<1>3. {"start1", "start2", "bad1", "bad2", "ok1", "ok2", "late", "owed1", "owed2"}
        \subseteq Parts
  BY DEF Parts
<1>4. ASSUME NEW total \in Nat, NEW ok \in Nat, NEW bad \in Nat, Moves(x, y, total, ok, bad)
      PROVE  Sums(s.total + total, s.ok + ok, s.bad + bad)
  <2>1. s.total + total <= r["start1"] + r["start2"]
    BY <1>1, <1>2, <1>3, <1>4, TwoParts DEF AddsUp, Moves
  <2>2. s.bad + bad <= r["bad1"] + r["bad2"]
    BY <1>1, <1>2, <1>3, <1>4, TwoParts DEF AddsUp, Moves
  <2>3. s.ok + ok = r["ok1"] + r["ok2"]
    <3>1. s.ok = t["ok1"] + t["ok2"] /\ x["ok1"] + x["ok2"] + ok = y["ok1"] + y["ok2"]
      BY <1>4 DEF AddsUp, Moves
    <3>2. /\ r["ok1"] + x["ok1"] = t["ok1"] + y["ok1"]
          /\ r["ok2"] + x["ok2"] = t["ok2"] + y["ok2"]
      BY <1>3
    <3>3. QED
      BY <1>1, <1>2, <1>3, <3>1, <3>2
  <2>4. (s.total + total) + r["late"] = (s.ok + ok) + (s.bad + bad) + r["owed1"] + r["owed2"]
    <3>1. /\ s.total + t["late"] = s.ok + s.bad + t["owed1"] + t["owed2"]
          /\ total + y["late"] + x["owed1"] + x["owed2"]
               = x["late"] + ok + bad + y["owed1"] + y["owed2"]
      BY <1>4 DEF AddsUp, Moves
    <3>2. /\ r["late"] + x["late"] = t["late"] + y["late"]
          /\ r["owed1"] + x["owed1"] = t["owed1"] + y["owed1"]
          /\ r["owed2"] + x["owed2"] = t["owed2"] + y["owed2"]
      BY <1>3
    <3>3. QED
      BY <1>1, <1>2, <1>3, <3>1, <3>2
  <2>5. QED
    BY <2>1, <2>2, <2>3, <2>4
<1>5. ASSUME NEW total, NEW ok, NEW bad, Sums(total, ok, bad),
             total \in Nat, ok \in Nat, bad \in Nat
      PROVE  total <= MaxCount /\ ok <= MaxCount /\ bad <= MaxCount
  BY <1>1, <1>2, <1>3, <1>5
<1>6. x["owed1"] <= y["owed1"] => t["owed1"] <= r["owed1"]
  BY <1>2, <1>3
<1>7. \A total, ok, bad : z.total = total /\ z.ok = ok /\ z.bad = bad /\ Sums(total, ok, bad)
         => (AddsUp(z, r) <=> (z.status = "running" => r["owed1"] > 0))
  BY Zenon DEF AddsUp
<1>8. s.status = "running" => t["owed1"] > 0
  BY DEF AddsUp
<1> HIDE DEF Sums
<1>9. CASE z = s /\ Moves(x, y, 0, 0, 0) /\ x["owed1"] <= y["owed1"]
  <2>1. Sums(s.total, s.ok, s.bad)
    <3>1. Sums(s.total + 0, s.ok + 0, s.bad + 0)
      BY <1>4, <1>9
    <3>2. QED
      BY <1>1, <3>1
  <2>2. t["owed1"] > 0 => r["owed1"] > 0
    BY <1>2, <1>3, <1>6, <1>9
  <2>3. QED
    BY <1>7, <1>8, <1>9, <2>1, <2>2
<1>10. CASE z = Started(s) /\ Moves(x, y, 1, 0, 0) /\ y["owed1"] = 1
  <2>1. Sums(s.total + 1, s.ok, s.bad)
    <3>1. Sums(s.total + 1, s.ok + 0, s.bad + 0)
      BY <1>4, <1>10
    <3>2. QED
      BY <1>1, <3>1
  <2>2. s.total < MaxCount
    BY <1>1, <1>5, <2>1
  <2>3. z.total = s.total + 1 /\ z.ok = s.ok /\ z.bad = s.bad
    BY <1>1, <1>10, <2>2 DEF Started, SyncStatus, Inc
  <2>4. r["owed1"] > 0
    BY <1>2, <1>3, <1>10
  <2>5. QED
    BY <1>7, <2>1, <2>3, <2>4
<1>11. CASE z = Succeeded(s) /\ Moves(x, y, 0, 1, 0)
  <2>1. Sums(s.total, s.ok + 1, s.bad)
    <3>1. Sums(s.total + 0, s.ok + 1, s.bad + 0)
      BY <1>4, <1>11
    <3>2. QED
      BY <1>1, <3>1
  <2>2. s.ok < MaxCount
    BY <1>1, <1>5, <2>1
  <2>3. z.total = s.total /\ z.ok = s.ok + 1 /\ z.bad = s.bad /\ z.status = "completed"
    BY <1>1, <1>11, <2>2 DEF Succeeded, SyncStatus, Inc
  <2>4. QED
    BY <1>7, <2>1, <2>3
<1>12. CASE z = Failed(s) /\ Moves(x, y, 0, 0, 1)
  <2>1. Sums(s.total, s.ok, s.bad + 1)
    <3>1. Sums(s.total + 0, s.ok + 0, s.bad + 1)
      BY <1>4, <1>12
    <3>2. QED
      BY <1>1, <3>1
  <2>2. s.bad < MaxCount
    BY <1>1, <1>5, <2>1
  <2>3. z.total = s.total /\ z.ok = s.ok /\ z.bad = s.bad + 1 /\ z.status = "failed"
    BY <1>1, <1>12, <2>2 DEF Failed, SyncStatus, Inc
  <2>4. QED
    BY <1>7, <2>1, <2>3
<1>13. QED
  BY <1>9, <1>10, <1>11, <1>12 DEF Follows, Unmoved, Begun

\* Every share is none or one.
LEMMA ShareType ==
    ASSUME NEW await, NEW status, NEW written
    PROVE  Share(await, status, written) \in [Parts -> 0 .. 1]
<1>1. \A b : Once(b) \in 0 .. 1
  BY DEF Once
<1>2. QED
  BY <1>1 DEF Share, Parts

\* An operation no call holds and no record tells of has no share.
LEMMA NoShare ==
    ASSUME NEW part \in Parts
    PROVE  Share("over", "none", FALSE)[part] = 0
BY DEF Share, Once, Parts

\* A set that changes at one element changes its cardinality by no more.
LEMMA OneChanges ==
    ASSUME NEW S, NEW T, NEW o, IsFiniteSet(S), IsFiniteSet(T),
           \A p : p # o => (p \in S <=> p \in T)
    PROVE  Cardinality(T) + Once(o \in S) = Cardinality(S) + Once(o \in T)
<1>1. S \ {o} = T \ {o}
  OBVIOUS
<1>2. /\ Cardinality(S \ {o}) = IF o \in S THEN Cardinality(S) - 1 ELSE Cardinality(S)
      /\ Cardinality(T \ {o}) = IF o \in T THEN Cardinality(T) - 1 ELSE Cardinality(T)
      /\ Cardinality(S) \in Nat /\ Cardinality(T) \in Nat
  BY FS_RemoveElement, FS_CardinalityType
<1>3. QED
  BY <1>1, <1>2 DEF Once

\* A step of one operation changes the tally of its user by the operation's share.
LEMMA TallyMoves ==
    ASSUME NEW o \in OpIds, NEW u \in Users,
           \A p \in OpIds : p # o => /\ ops'[p] = ops[p] /\ Where'[p] = Where[p]
                                     /\ p \in wrote' <=> p \in wrote,
           ops'[o].user = u,
           \/ ops[o].user = u
           \/ \A part \in Parts : Share(Where[o], ops[o].status, o \in wrote)[part] = 0
    PROVE  /\ Tally(u) \in [Parts -> 0 .. Cardinality(OpIds)]
           /\ Tally(u)' \in [Parts -> 0 .. Cardinality(OpIds)]
           /\ \A part \in Parts :
                LET x == Share(Where[o], ops[o].status, o \in wrote)
                    y == Share(Where[o], ops[o].status, o \in wrote)'
                IN  /\ Tally(u)'[part] + x[part] = Tally(u)[part] + y[part]
                    /\ y[part] <= Tally(u)'[part]
           /\ \A v \in Users : v # u => Tally(v)' = Tally(v)
<1> DEFINE x == Share(Where[o], ops[o].status, o \in wrote)
           y == Share(Where'[o], ops'[o].status, o \in wrote')
<1>1. x \in [Parts -> 0 .. 1] /\ y \in [Parts -> 0 .. 1]
  BY ShareType
<1>2. ASSUME NEW v \in Users, NEW part \in Parts
      PROVE  /\ IsFiniteSet(Sharing(v, part))
             /\ Cardinality(Sharing(v, part)) \in 0 .. Cardinality(OpIds)
             /\ IsFiniteSet(Sharing(v, part)')
             /\ Cardinality(Sharing(v, part)') \in 0 .. Cardinality(OpIds)
             /\ \A p : p # o => (p \in Sharing(v, part) <=> p \in Sharing(v, part)')
  <2>1. Sharing(v, part) \in SUBSET OpIds /\ Sharing(v, part)' \in SUBSET OpIds
    BY DEF Sharing
  <2>2. IsFiniteSet(OpIds) /\ Cardinality(OpIds) \in Nat
    BY ProcessorAssumption, FS_CardinalityType
  <2>3. \A p : p # o => (p \in Sharing(v, part) <=> p \in Sharing(v, part)')
    BY DEF Sharing
  <2>4. \A S \in SUBSET OpIds : IsFiniteSet(S) /\ Cardinality(S) \in 0 .. Cardinality(OpIds)
    BY <2>2, FS_Subset, FS_CardinalityType
  <2>5. QED
    BY <2>1, <2>3, <2>4
<1>3. ASSUME NEW v \in Users
      PROVE  /\ Tally(v) \in [Parts -> 0 .. Cardinality(OpIds)]
             /\ Tally(v)' \in [Parts -> 0 .. Cardinality(OpIds)]
  BY <1>2 DEF Tally
<1>4. ASSUME NEW part \in Parts
      PROVE  /\ Tally(u)'[part] + x[part] = Tally(u)[part] + y[part]
             /\ y[part] <= Tally(u)'[part]
  <2>1. Once(o \in Sharing(u, part)) = x[part]
    BY <1>1 DEF Sharing, Once
  <2>2. Once(o \in Sharing(u, part)') = y[part]
    BY <1>1 DEF Sharing, Once
  <2> HIDE DEF x, y
  <2>3. /\ Tally(u)[part] = Cardinality(Sharing(u, part))
        /\ Tally(u)'[part] = Cardinality(Sharing(u, part)')
    BY DEF Tally
  <2>4. Cardinality(Sharing(u, part)') + Once(o \in Sharing(u, part))
          = Cardinality(Sharing(u, part)) + Once(o \in Sharing(u, part)')
    BY <1>2, OneChanges
  <2>5. Once(o \in Sharing(u, part)') <= Cardinality(Sharing(u, part)')
    <3>1. CASE o \in Sharing(u, part)'
      <4>1. Cardinality(Sharing(u, part)') # 0 /\ Cardinality(Sharing(u, part)') \in Nat
        BY <1>2, <3>1, FS_EmptySet
      <4>2. QED
        BY <3>1, <4>1 DEF Once
    <3>2. CASE o \notin Sharing(u, part)'
      BY <1>2, <3>2 DEF Once
    <3>3. QED
      BY <3>1, <3>2
  <2>6. QED
    BY <2>1, <2>2, <2>3, <2>4, <2>5
<1>5. ASSUME NEW v \in Users, v # u PROVE Tally(v)' = Tally(v)
  <2>1. ASSUME NEW part \in Parts PROVE Sharing(v, part)' = Sharing(v, part)
    <3>1. o \notin Sharing(v, part) /\ o \notin Sharing(v, part)'
      BY <1>5 DEF Sharing
    <3>2. \A p : p \in Sharing(v, part)' <=> p \in Sharing(v, part)
      BY <1>2, <3>1
    <3>3. QED
      BY <3>2, Zenon
  <2>2. QED
    BY <2>1 DEF Tally
<1>6. QED
  BY <1>3, <1>4, <1>5

\* A call holds its operation alone: Where tells at which await.
LEMMA WhereIs ==
    ASSUME Inv, NEW j \in JobIds, op[j] \in OpIds
    PROVE  Where[op[j]] = pc[j]
<1>1. op[j] # None /\ \A i \in JobIds : op[i] = op[j] => i = j
  BY ProcessorAssumption DEF Inv, OpsAreOwned
<1>2. (CHOOSE i \in JobIds : op[i] = op[j]) = j
  BY <1>1
<1>3. QED
  BY <1>2 DEF Where

\* Only the operation of the call that moves changes its place.
LEMMA WhereMoves ==
    ASSUME Inv, Inv', NEW j \in JobIds, NEW o \in OpIds, op'[j] = o,
           \A i \in JobIds : i # j => pc'[i] = pc[i] /\ op'[i] = op[i],
           op[j] \in {o, None}
    PROVE  Where'[o] = pc'[j] /\ \A p \in OpIds : p # o => Where'[p] = Where[p]
<1> USE ProcessorAssumption
<1>1. o # None /\ \A i \in JobIds : op'[i] = o => i = j
  BY DEF Inv, OpsAreOwned
<1>2. (CHOOSE i \in JobIds : op'[i] = o) = j
  BY <1>1
<1>3. Where'[o] = pc'[j]
  BY <1>2 DEF Where
<1>4. ASSUME NEW p \in OpIds, p # o PROVE Where'[p] = Where[p]
  <2>1. p # None /\ \A i \in JobIds : op'[i] = p <=> op[i] = p
    BY <1>4
  <2>2. CASE \E i \in JobIds : op[i] = p
    <3>1. PICK i \in JobIds : op[i] = p
      BY <2>2
    <3>2. i # j /\ op'[i] = p /\ pc'[i] = pc[i]
      BY <1>4, <2>1, <3>1
    <3>3. \A k \in JobIds : op[k] = p => k = i
      BY <2>1, <3>1 DEF Inv, OpsAreOwned
    <3>4. (CHOOSE k \in JobIds : op[k] = p) = i /\ (CHOOSE k \in JobIds : op'[k] = p) = i
      BY <2>1, <3>1, <3>2, <3>3
    <3>5. QED
      BY <3>1, <3>2, <3>4 DEF Where
  <2>3. CASE ~ \E i \in JobIds : op[i] = p
    BY <2>1, <2>3 DEF Where
  <2>4. QED
    BY <2>2, <2>3
<1>5. QED
  BY <1>3, <1>4

\* A step of one operation keeps what is settled, if its counter follows.
LEMMA OneSettles ==
    ASSUME Inv, Uncapped, Fit, Add,
           NEW o \in OpIds, NEW u \in Users, NEW z,
           \A p \in OpIds : p # o => /\ ops'[p] = ops[p] /\ Where'[p] = Where[p]
                                     /\ p \in wrote' <=> p \in wrote,
           ops'[o].user = u,
           \/ ops[o].user = u
           \/ \A part \in Parts : Share(Where[o], ops[o].status, o \in wrote)[part] = 0,
           Fits(Where'[o], ops'[o].status, o \in wrote'),
           sync' = [sync EXCEPT ![u] = z],
           Follows(sync[u], z, Share(Where[o], ops[o].status, o \in wrote),
                   Share(Where'[o], ops'[o].status, o \in wrote'))
    PROVE  Fit' /\ Add'
<1>1. Fit'
  <2> SUFFICES ASSUME NEW p \in OpIds PROVE Fits(Where'[p], ops'[p].status, p \in wrote')
    BY DEF Fit
  <2>1. CASE p = o
    BY <2>1
  <2>2. CASE p # o
    <3>1. Fits(Where[p], ops[p].status, p \in wrote)
      BY DEF Fit
    <3>2. ops'[p] = ops[p] /\ Where'[p] = Where[p] /\ (p \in wrote' <=> p \in wrote)
      BY <2>2
    <3>3. QED
      BY <3>1, <3>2 DEF Fits
  <2>3. QED
    BY <2>1, <2>2
<1>2. Add'
  <2> DEFINE x == Share(Where[o], ops[o].status, o \in wrote)
             y == Share(Where'[o], ops'[o].status, o \in wrote')
             n == Cardinality(OpIds)
  <2>1. /\ Tally(u) \in [Parts -> 0 .. n] /\ Tally(u)' \in [Parts -> 0 .. n]
        /\ \A part \in Parts : /\ Tally(u)'[part] + x[part] = Tally(u)[part] + y[part]
                               /\ y[part] <= Tally(u)'[part]
        /\ \A v \in Users : v # u => Tally(v)' = Tally(v)
    BY TallyMoves
  <2>2. x \in [Parts -> 0 .. 1] /\ y \in [Parts -> 0 .. 1]
    BY ShareType
  <2>3. sync \in [Users -> SyncStatus] /\ sync[u] \in SyncStatus
    BY DEF Inv, TypeOK
  <2>4. n \in Nat /\ 2 * n <= MaxCount
    BY ProcessorAssumption, FS_CardinalityType DEF Uncapped
  <2>5. AddsUp(sync[u], Tally(u)) /\ Follows(sync[u], z, x, y)
    BY DEF Add
  <2> DEFINE t == Tally(u)
             r == Tally(u)'
  <2>6. AddsUp(z, Tally(u)')
    <3> HIDE DEF x, y, n
    <3>1. /\ t \in [Parts -> 0 .. n] /\ r \in [Parts -> 0 .. n] /\ AddsUp(sync[u], t)
          /\ \A part \in Parts : /\ r[part] + x[part] = t[part] + y[part]
                                 /\ y[part] <= r[part]
      BY <2>1, <2>5
    <3> HIDE DEF t, r
    <3>2. AddsUp(z, r)
      BY <2>2, <2>3, <2>4, <2>5, <3>1, SumsStayTrue
    <3>3. QED
      BY <3>2 DEF r
  <2>7. ASSUME NEW v \in Users PROVE AddsUp(sync'[v], Tally(v)')
    <3>1. CASE v = u
      BY <2>3, <2>6, <3>1
    <3>2. CASE v # u
      <4>1. sync'[v] = sync[v] /\ Tally(v)' = Tally(v)
        BY <2>1, <2>3, <3>2
      <4>2. QED
        BY <4>1 DEF Add
    <3>3. QED
      BY <3>1, <3>2
  <2>8. QED
    BY <2>7 DEF Add
<1>3. QED
  BY <1>1, <1>2

\* The transitions of processJob, each with the counter it updates.
LEMMA Ledger ==
    ASSUME NEW w \in BOOLEAN
    PROVE  /\ Unmoved(Share("over", "none", FALSE), Share("start", "running", FALSE))
           /\ \A a \in {"restart", "fail"} :
                  Begun(Share("start", "running", FALSE), Share(a, "running", FALSE))
           /\ Begun(Share("restart", "running", FALSE), Share("fetch", "running", FALSE))
           /\ \A a \in {"save", "unsynced"} :
                  Unmoved(Share("fetch", "running", FALSE), Share(a, "running", FALSE))
           /\ Unmoved(Share("save", "running", FALSE), Share("synced", "running", TRUE))
           /\ Unmoved(Share("save", "running", FALSE), Share("unsynced", "running", FALSE))
           /\ Moves(Share("synced", "running", TRUE),
                    Share("verify", "running", TRUE), 0, 1, 0)
           /\ \A a \in {"complete", "unsynced"} :
                  Unmoved(Share("verify", "running", TRUE), Share(a, "running", TRUE))
           /\ Moves(Share("unsynced", "running", w), Share("fail", "running", w), 0, 0, 1)
           /\ Unmoved(Share("complete", "running", TRUE),
                    Share("recount", "completed", TRUE))
           /\ Moves(Share("recount", "completed", TRUE),
                    Share("announce", "completed", TRUE), 0, 1, 0)
           /\ Unmoved(Share("fail", "running", w), Share("refail", "failed", w))
           /\ Moves(Share("refail", "failed", w), Share("lament", "failed", w), 0, 0, 1)
           /\ \A a \in {"announce", "lament"}, s \in {"completed", "failed"} :
                  Unmoved(Share(a, s, w), Share("ack", s, w))
           /\ \A s \in {"none", "completed", "failed"} :
                  Unmoved(Share("ack", s, w), Share("over", s, w))
<1> USE DEF Moves, Share, Once, Unmoved, Begun
<1>1. Unmoved(Share("over", "none", FALSE), Share("start", "running", FALSE))
  OBVIOUS
<1>2. \A a \in {"restart", "fail"} :
          Begun(Share("start", "running", FALSE), Share(a, "running", FALSE))
  OBVIOUS
<1>3. Begun(Share("restart", "running", FALSE), Share("fetch", "running", FALSE))
  OBVIOUS
<1>4. \A a \in {"save", "unsynced"} :
          Unmoved(Share("fetch", "running", FALSE), Share(a, "running", FALSE))
  OBVIOUS
<1>5. Unmoved(Share("save", "running", FALSE), Share("synced", "running", TRUE))
  OBVIOUS
<1>6. Unmoved(Share("save", "running", FALSE), Share("unsynced", "running", FALSE))
  OBVIOUS
<1>7. Moves(Share("synced", "running", TRUE), Share("verify", "running", TRUE), 0, 1, 0)
  OBVIOUS
<1>8. \A a \in {"complete", "unsynced"} :
          Unmoved(Share("verify", "running", TRUE), Share(a, "running", TRUE))
  OBVIOUS
<1>9. Moves(Share("unsynced", "running", w), Share("fail", "running", w), 0, 0, 1)
  OBVIOUS
<1>10. Unmoved(Share("complete", "running", TRUE), Share("recount", "completed", TRUE))
  OBVIOUS
<1>11. Moves(Share("recount", "completed", TRUE),
            Share("announce", "completed", TRUE), 0, 1, 0)
  OBVIOUS
<1>12. Unmoved(Share("fail", "running", w), Share("refail", "failed", w))
  OBVIOUS
<1>13. Moves(Share("refail", "failed", w), Share("lament", "failed", w), 0, 0, 1)
  OBVIOUS
<1>14. \A a \in {"announce", "lament"}, s \in {"completed", "failed"} :
         Unmoved(Share(a, s, w), Share("ack", s, w))
  OBVIOUS
<1>15. \A s \in {"none", "completed", "failed"} :
          Unmoved(Share("ack", s, w), Share("over", s, w))
  OBVIOUS
<1> HIDE DEF Unmoved, Begun, Moves
<1>16. QED
  BY <1>1, <1>2, <1>3, <1>4, <1>5, <1>6, <1>7, <1>8, <1>9, <1>10, <1>11, <1>12,
     <1>13, <1>14, <1>15

Ready == Inv /\ OpsBelong /\ Uncapped /\ Undisturbed /\ Calls /\ Fit /\ Add

\* What the invariant says of a call past its first await.
LEMMA OfCall ==
    ASSUME Ready, NEW j \in JobIds, pc[j] \in Awaits, pc[j] # "create"
    PROVE  /\ op[j] \in OpIds /\ op[j] # None /\ job[j].user \in Users
           /\ ops[op[j]].user = job[j].user /\ Where[op[j]] = pc[j]
           /\ Fits(pc[j], ops[op[j]].status, op[j] \in wrote)
<1> USE DEF Ready, Inv
<1>1. op[j] # None /\ op[j] \in OpIds
  BY DEF Calls, Live, TypeOK
<1>2. job[j].user \in Users /\ ops[op[j]].user = job[j].user
  BY <1>1 DEF CallsAreHeld, OpsBelong, Awaits
<1>3. Where[op[j]] = pc[j]
  BY <1>1, WhereIs
<1>4. Fits(Where[op[j]], ops[op[j]].status, op[j] \in wrote)
  BY <1>1 DEF Fit
<1>5. QED
  BY <1>1, <1>2, <1>3, <1>4

\* A call moves on from one await to another.
LEMMA CallSettles ==
    ASSUME Ready, Inv', NEW j \in JobIds, pc[j] \in Awaits, pc[j] # "create",
           op' = op, NEW a \in Awaits \ {"create"}, pc' = [pc EXCEPT ![j] = a],
           NEW old, NEW new, NEW before \in BOOLEAN, NEW after \in BOOLEAN,
           \A p \in OpIds : p # op[j] => ops'[p] = ops[p] /\ (p \in wrote' <=> p \in wrote),
           ops'[op[j]].user = ops[op[j]].user,
           ops[op[j]].status = old, ops'[op[j]].status = new,
           op[j] \in wrote <=> before, op[j] \in wrote' <=> after,
           NEW z, sync' = [sync EXCEPT ![job[j].user] = z],
           Fits(a, new, after),
           Follows(sync[job[j].user], z, Share(pc[j], old, before), Share(a, new, after))
    PROVE  Calls' /\ Fit' /\ Add'
<1> DEFINE o == op[j]
           u == job[j].user
<1>1. o \in OpIds /\ u \in Users /\ ops[o].user = u /\ Where[o] = pc[j]
  BY OfCall
<1>2. pc'[j] = a /\ \A i \in JobIds : i # j => pc'[i] = pc[i] /\ op'[i] = op[i]
  BY DEF Ready, Inv, TypeOK
<1>3. Where'[o] = a /\ \A p \in OpIds : p # o => Where'[p] = Where[p]
  BY <1>1, <1>2, WhereMoves DEF Ready
<1>4. Calls'
  BY <1>1, <1>2, ProcessorAssumption DEF Ready, Calls, Live
<1>5. (o \in wrote) = before /\ (o \in wrote') = after
  OBVIOUS
<1>6. /\ Fits(Where'[o], ops'[o].status, o \in wrote')
      /\ Follows(sync[u], z, Share(Where[o], ops[o].status, o \in wrote),
                 Share(Where'[o], ops'[o].status, o \in wrote'))
  BY <1>1, <1>3, <1>5
<1> HIDE DEF o, u
<1>7. Fit' /\ Add'
  BY <1>1, <1>3, <1>6, OneSettles, ZenonT(60) DEF Ready, o, u
<1>8. QED
  BY <1>4, <1>7

\* No call of the database fails now: its update is made.
LEMMA UpdatesMade ==
    ASSUME Undisturbed, Undisturbed', NEW j \in JobIds
    PROVE  /\ \A s : MarkSync(j, s) => sync' = [sync EXCEPT ![job[j].user] = s]
           /\ \A status : UpdateOp(j, status) /\ op[j] # None
                            => ops' = [ops EXCEPT ![op[j]].status = status]
           /\ ~DbFault
<1>1. ~DbFault
  BY DEF Undisturbed, DbFault
<1>2. QED
  BY <1>1 DEF MarkSync, UpdateOp

\* A user's record that is not written stays.
LEMMA SyncStays ==
    ASSUME Inv, sync' = sync, NEW u
    PROVE  sync' = [sync EXCEPT ![u] = sync[u]]
BY DEF Inv, TypeOK

\* The first start is counted, and owed, whether the breaker is open or not.
LEMMA MarkStartedSettles ==
    ASSUME Ready, Inv', Undisturbed', NEW j \in JobIds, MarkStarted(j)
    PROVE  Calls' /\ Fit' /\ Add'
<1> DEFINE o == op[j]
           u == job[j].user
<1>1. pc[j] = "start" /\ pc[j] \in Awaits /\ pc[j] # "create" /\ op' = op
  BY DEF Awaits, MarkStarted
<1>2. /\ o \in OpIds /\ o # None /\ ops[o].status = "running" /\ ops[o] \in Operation
      /\ u \in Users /\ o \notin wrote
  BY <1>1, OfCall DEF Ready, Inv, TypeOK, Fits
<1>3. ops' = ops
  BY DEF MarkStarted
<1>4. PICK a \in {"restart", "fail"} : pc' = [pc EXCEPT ![j] = a]
  BY DEF MarkStarted, Goto
<1>5. sync' = [sync EXCEPT ![u] = Started(sync[u])]
  BY UpdatesMade DEF Ready, MarkStarted
<1>6. /\ \A p \in OpIds : p # o => ops'[p] = ops[p] /\ (p \in wrote' <=> p \in wrote)
      /\ ops'[o].user = ops[o].user /\ ops'[o].status = "running"
      /\ o \in wrote <=> FALSE
      /\ o \in wrote' <=> FALSE
  BY <1>2, <1>3 DEF Ready, Inv, TypeOK, Operation, MarkStarted
<1>7. a \in Awaits \ {"create"}
  BY <1>4 DEF Awaits
<1>8. /\ Fits(a, "running", FALSE)
      /\ Follows(sync[u], Started(sync[u]),
                 Share("start", "running", FALSE), Share(a, "running", FALSE))
  BY Ledger DEF Fits, Follows
<1>9. QED
  BY <1>1, <1>2, <1>4, <1>5, <1>6, <1>7, <1>8, CallSettles

\* The second start is counted and owed.
LEMMA MarkStartedAgainSettles ==
    ASSUME Ready, Inv', Undisturbed', NEW j \in JobIds, MarkStartedAgain(j)
    PROVE  Calls' /\ Fit' /\ Add'
<1> DEFINE o == op[j]
           u == job[j].user
<1>1. pc[j] = "restart" /\ pc[j] \in Awaits /\ pc[j] # "create" /\ op' = op
  BY DEF Awaits, MarkStartedAgain
<1>2. /\ o \in OpIds /\ o # None /\ ops[o].status = "running" /\ ops[o] \in Operation
      /\ u \in Users /\ o \notin wrote
  BY <1>1, OfCall DEF Ready, Inv, TypeOK, Fits
<1>3. ops' = ops
  BY DEF MarkStartedAgain
<1>4. PICK a \in {"fetch"} : pc' = [pc EXCEPT ![j] = a]
  BY DEF MarkStartedAgain, Goto
<1>5. sync' = [sync EXCEPT ![u] = Started(sync[u])]
  BY UpdatesMade DEF Ready, MarkStartedAgain
<1>6. /\ \A p \in OpIds : p # o => ops'[p] = ops[p] /\ (p \in wrote' <=> p \in wrote)
      /\ ops'[o].user = ops[o].user /\ ops'[o].status = "running"
      /\ o \in wrote <=> FALSE
      /\ o \in wrote' <=> FALSE
  BY <1>2, <1>3 DEF Ready, Inv, TypeOK, Operation, MarkStartedAgain
<1>7. a \in Awaits \ {"create"}
  BY <1>4 DEF Awaits
<1>8. /\ Fits(a, "running", FALSE)
      /\ Follows(sync[u], Started(sync[u]),
                 Share("restart", "running", FALSE), Share(a, "running", FALSE))
  BY Ledger DEF Fits, Follows
<1>9. QED
  BY <1>1, <1>2, <1>4, <1>5, <1>6, <1>7, <1>8, CallSettles

\* Fetching counts nothing.
LEMMA FetchSettles ==
    ASSUME Ready, Inv', Undisturbed', NEW j \in JobIds, Fetch(j)
    PROVE  Calls' /\ Fit' /\ Add'
<1> DEFINE o == op[j]
           u == job[j].user
<1>1. pc[j] = "fetch" /\ pc[j] \in Awaits /\ pc[j] # "create" /\ op' = op
  BY DEF Awaits, Fetch
<1>2. /\ o \in OpIds /\ o # None /\ ops[o].status = "running" /\ ops[o] \in Operation
      /\ u \in Users /\ o \notin wrote
  BY <1>1, OfCall DEF Ready, Inv, TypeOK, Fits
<1>3. ops' = ops
  BY DEF Fetch
<1>4. PICK a \in {"save", "unsynced"} : pc' = [pc EXCEPT ![j] = a]
  BY DEF Fetch, Goto
<1>5. sync' = [sync EXCEPT ![u] = sync[u]]
  BY SyncStays DEF Ready, Fetch
<1>6. /\ \A p \in OpIds : p # o => ops'[p] = ops[p] /\ (p \in wrote' <=> p \in wrote)
      /\ ops'[o].user = ops[o].user /\ ops'[o].status = "running"
      /\ o \in wrote <=> FALSE
      /\ o \in wrote' <=> FALSE
  BY <1>2, <1>3 DEF Ready, Inv, TypeOK, Operation, Fetch
<1>7. a \in Awaits \ {"create"}
  BY <1>4 DEF Awaits
<1>8. /\ Fits(a, "running", FALSE)
      /\ Follows(sync[u], sync[u], Share("fetch", "running", FALSE), Share(a, "running", FALSE))
  BY Ledger DEF Fits, Follows
<1>9. QED
  BY <1>1, <1>2, <1>4, <1>5, <1>6, <1>7, <1>8, CallSettles

\* The holdings are committed.
LEMMA SaveCommitsSettles ==
    ASSUME Ready, Inv', Undisturbed', NEW j \in JobIds, Save(j), wrote' = wrote \cup {op[j]}
    PROVE  Calls' /\ Fit' /\ Add'
<1> DEFINE o == op[j]
           u == job[j].user
<1>1. pc[j] = "save" /\ pc[j] \in Awaits /\ pc[j] # "create" /\ op' = op
  BY DEF Awaits, Save
<1>2. /\ o \in OpIds /\ o # None /\ ops[o].status = "running" /\ ops[o] \in Operation
      /\ u \in Users /\ o \notin wrote
  BY <1>1, OfCall DEF Ready, Inv, TypeOK, Fits
<1>3. wrote' # wrote /\ ~DbFault
  BY <1>2, UpdatesMade DEF Ready
<1>4. PICK a \in {"synced"} : pc' = [pc EXCEPT ![j] = a]
  BY <1>3, UpdatesMade DEF Ready, Save, Goto
<1>5. sync' = [sync EXCEPT ![u] = sync[u]]
  BY SyncStays DEF Ready, Save
<1>6. /\ \A p \in OpIds : p # o => ops'[p] = ops[p] /\ (p \in wrote' <=> p \in wrote)
      /\ ops'[o].user = ops[o].user /\ ops'[o].status = "running"
      /\ o \in wrote <=> FALSE
      /\ o \in wrote' <=> TRUE
  BY <1>2, <1>3 DEF Ready, Inv, TypeOK, Operation, Save
<1>7. a \in Awaits \ {"create"}
  BY <1>4 DEF Awaits
<1>8. /\ Fits(a, "running", TRUE)
      /\ Follows(sync[u], sync[u], Share("save", "running", FALSE), Share(a, "running", TRUE))
  BY Ledger DEF Fits, Follows
<1>9. QED
  BY <1>1, <1>2, <1>4, <1>5, <1>6, <1>7, <1>8, CallSettles

\* The transaction is rolled back.
LEMMA SaveRollsBackSettles ==
    ASSUME Ready, Inv', Undisturbed', NEW j \in JobIds, Save(j), wrote' = wrote
    PROVE  Calls' /\ Fit' /\ Add'
<1> DEFINE o == op[j]
           u == job[j].user
<1>1. pc[j] = "save" /\ pc[j] \in Awaits /\ pc[j] # "create" /\ op' = op
  BY DEF Awaits, Save
<1>2. /\ o \in OpIds /\ o # None /\ ops[o].status = "running" /\ ops[o] \in Operation
      /\ u \in Users /\ o \notin wrote
  BY <1>1, OfCall DEF Ready, Inv, TypeOK, Fits
<1>3. wrote' # wrote \cup {o} /\ ~DbFault
  BY <1>2, UpdatesMade DEF Ready
<1>4. PICK a \in {"unsynced"} : pc' = [pc EXCEPT ![j] = a]
  BY <1>3, UpdatesMade DEF Ready, Save, Goto
<1>5. sync' = [sync EXCEPT ![u] = sync[u]]
  BY SyncStays DEF Ready, Save
<1>6. /\ \A p \in OpIds : p # o => ops'[p] = ops[p] /\ (p \in wrote' <=> p \in wrote)
      /\ ops'[o].user = ops[o].user /\ ops'[o].status = "running"
      /\ o \in wrote <=> FALSE
      /\ o \in wrote' <=> FALSE
  BY <1>2, <1>3 DEF Ready, Inv, TypeOK, Operation, Save
<1>7. a \in Awaits \ {"create"}
  BY <1>4 DEF Awaits
<1>8. /\ Fits(a, "running", FALSE)
      /\ Follows(sync[u], sync[u], Share("save", "running", FALSE), Share(a, "running", FALSE))
  BY Ledger DEF Fits, Follows
<1>9. QED
  BY <1>1, <1>2, <1>4, <1>5, <1>6, <1>7, <1>8, CallSettles

\* The success is counted once.
LEMMA MarkSyncedSettles ==
    ASSUME Ready, Inv', Undisturbed', NEW j \in JobIds, MarkSynced(j)
    PROVE  Calls' /\ Fit' /\ Add'
<1> DEFINE o == op[j]
           u == job[j].user
<1>1. pc[j] = "synced" /\ pc[j] \in Awaits /\ pc[j] # "create" /\ op' = op
  BY DEF Awaits, MarkSynced
<1>2. /\ o \in OpIds /\ o # None /\ ops[o].status = "running" /\ ops[o] \in Operation
      /\ u \in Users /\ o \in wrote
  BY <1>1, OfCall DEF Ready, Inv, TypeOK, Fits
<1>3. ops' = ops
  BY DEF MarkSynced
<1>4. PICK a \in {"verify"} : pc' = [pc EXCEPT ![j] = a]
  BY DEF MarkSynced, Goto
<1>5. sync' = [sync EXCEPT ![u] = Succeeded(sync[u])]
  BY UpdatesMade DEF Ready, MarkSynced
<1>6. /\ \A p \in OpIds : p # o => ops'[p] = ops[p] /\ (p \in wrote' <=> p \in wrote)
      /\ ops'[o].user = ops[o].user /\ ops'[o].status = "running"
      /\ o \in wrote <=> TRUE
      /\ o \in wrote' <=> TRUE
  BY <1>2, <1>3 DEF Ready, Inv, TypeOK, Operation, MarkSynced
<1>7. a \in Awaits \ {"create"}
  BY <1>4 DEF Awaits
<1>8. /\ Fits(a, "running", TRUE)
      /\ Follows(sync[u], Succeeded(sync[u]),
                 Share("synced", "running", TRUE), Share(a, "running", TRUE))
  BY Ledger DEF Fits, Follows
<1>9. QED
  BY <1>1, <1>2, <1>4, <1>5, <1>6, <1>7, <1>8, CallSettles

\* A call that fails after its success owes two failures, one more than it started.
LEMMA VerifySettles ==
    ASSUME Ready, Inv', Undisturbed', NEW j \in JobIds, Verify(j)
    PROVE  Calls' /\ Fit' /\ Add'
<1> DEFINE o == op[j]
           u == job[j].user
<1>1. pc[j] = "verify" /\ pc[j] \in Awaits /\ pc[j] # "create" /\ op' = op
  BY DEF Awaits, Verify
<1>2. /\ o \in OpIds /\ o # None /\ ops[o].status = "running" /\ ops[o] \in Operation
      /\ u \in Users /\ o \in wrote
  BY <1>1, OfCall DEF Ready, Inv, TypeOK, Fits
<1>3. ops' = ops
  BY DEF Verify
<1>4. PICK a \in {"complete", "unsynced"} : pc' = [pc EXCEPT ![j] = a]
  BY DEF Verify, Goto
<1>5. sync' = [sync EXCEPT ![u] = sync[u]]
  BY SyncStays DEF Ready, Verify
<1>6. /\ \A p \in OpIds : p # o => ops'[p] = ops[p] /\ (p \in wrote' <=> p \in wrote)
      /\ ops'[o].user = ops[o].user /\ ops'[o].status = "running"
      /\ o \in wrote <=> TRUE
      /\ o \in wrote' <=> TRUE
  BY <1>2, <1>3 DEF Ready, Inv, TypeOK, Operation, Verify
<1>7. a \in Awaits \ {"create"}
  BY <1>4 DEF Awaits
<1>8. /\ Fits(a, "running", TRUE)
      /\ Follows(sync[u], sync[u], Share("verify", "running", TRUE), Share(a, "running", TRUE))
  BY Ledger DEF Fits, Follows
<1>9. QED
  BY <1>1, <1>2, <1>4, <1>5, <1>6, <1>7, <1>8, CallSettles

\* The failure is counted once.
LEMMA MarkUnsyncedSettles ==
    ASSUME Ready, Inv', Undisturbed', NEW j \in JobIds, MarkUnsynced(j)
    PROVE  Calls' /\ Fit' /\ Add'
<1> DEFINE o == op[j]
           u == job[j].user
<1>1. pc[j] = "unsynced" /\ pc[j] \in Awaits /\ pc[j] # "create" /\ op' = op
  BY DEF Awaits, MarkUnsynced
<1>2. /\ o \in OpIds /\ o # None /\ ops[o].status = "running" /\ ops[o] \in Operation
      /\ u \in Users
  BY <1>1, OfCall DEF Ready, Inv, TypeOK, Fits
<1>3. ops' = ops
  BY DEF MarkUnsynced
<1>4. PICK a \in {"fail"} : pc' = [pc EXCEPT ![j] = a]
  BY DEF MarkUnsynced, Goto
<1>5. sync' = [sync EXCEPT ![u] = Failed(sync[u])]
  BY UpdatesMade DEF Ready, MarkUnsynced
<1>6. /\ \A p \in OpIds : p # o => ops'[p] = ops[p] /\ (p \in wrote' <=> p \in wrote)
      /\ ops'[o].user = ops[o].user /\ ops'[o].status = "running"
      /\ o \in wrote' <=> o \in wrote
  BY <1>2, <1>3 DEF Ready, Inv, TypeOK, Operation, MarkUnsynced
<1>7. a \in Awaits \ {"create"}
  BY <1>4 DEF Awaits
<1>8. CASE o \in wrote
  <2>1. /\ Fits(a, "running", TRUE)
        /\ Follows(sync[u], Failed(sync[u]),
                   Share("unsynced", "running", TRUE), Share(a, "running", TRUE))
    BY Ledger DEF Fits, Follows
  <2>2. o \in wrote <=> TRUE
    BY <1>8
  <2>3. QED
    BY <1>1, <1>2, <1>4, <1>5, <1>6, <1>7, <2>1, <2>2, CallSettles
<1>9. CASE o \notin wrote
  <2>1. /\ Fits(a, "running", FALSE)
        /\ Follows(sync[u], Failed(sync[u]),
                   Share("unsynced", "running", FALSE), Share(a, "running", FALSE))
    BY Ledger DEF Fits, Follows
  <2>2. o \in wrote <=> FALSE
    BY <1>9
  <2>3. QED
    BY <1>1, <1>2, <1>4, <1>5, <1>6, <1>7, <2>1, <2>2, CallSettles
<1>10. QED
  BY <1>8, <1>9

\* The record says completed before the success is counted again.
LEMMA CompleteOpSettles ==
    ASSUME Ready, Inv', Undisturbed', NEW j \in JobIds, CompleteOp(j)
    PROVE  Calls' /\ Fit' /\ Add'
<1> DEFINE o == op[j]
           u == job[j].user
<1>1. pc[j] = "complete" /\ pc[j] \in Awaits /\ pc[j] # "create" /\ op' = op
  BY DEF Awaits, CompleteOp
<1>2. /\ o \in OpIds /\ o # None /\ ops[o].status = "running" /\ ops[o] \in Operation
      /\ u \in Users /\ o \in wrote
  BY <1>1, OfCall DEF Ready, Inv, TypeOK, Fits
<1>3. ops' = [ops EXCEPT ![o].status = "completed"]
  BY <1>2, UpdatesMade DEF Ready, CompleteOp
<1>4. PICK a \in {"recount"} : pc' = [pc EXCEPT ![j] = a]
  BY DEF CompleteOp, Goto
<1>5. sync' = [sync EXCEPT ![u] = sync[u]]
  BY SyncStays DEF Ready, CompleteOp
<1>6. /\ \A p \in OpIds : p # o => ops'[p] = ops[p] /\ (p \in wrote' <=> p \in wrote)
      /\ ops'[o].user = ops[o].user /\ ops'[o].status = "completed"
      /\ o \in wrote <=> TRUE
      /\ o \in wrote' <=> TRUE
  BY <1>2, <1>3 DEF Ready, Inv, TypeOK, Operation, CompleteOp
<1>7. a \in Awaits \ {"create"}
  BY <1>4 DEF Awaits
<1>8. /\ Fits(a, "completed", TRUE)
      /\ Follows(sync[u], sync[u],
                 Share("complete", "running", TRUE), Share(a, "completed", TRUE))
  BY Ledger DEF Fits, Follows
<1>9. QED
  BY <1>1, <1>2, <1>4, <1>5, <1>6, <1>7, <1>8, CallSettles

\* The success is counted twice.
LEMMA MarkSyncedAgainSettles ==
    ASSUME Ready, Inv', Undisturbed', NEW j \in JobIds, MarkSyncedAgain(j)
    PROVE  Calls' /\ Fit' /\ Add'
<1> DEFINE o == op[j]
           u == job[j].user
<1>1. pc[j] = "recount" /\ pc[j] \in Awaits /\ pc[j] # "create" /\ op' = op
  BY DEF Awaits, MarkSyncedAgain
<1>2. /\ o \in OpIds /\ o # None /\ ops[o].status = "completed" /\ ops[o] \in Operation
      /\ u \in Users /\ o \in wrote
  BY <1>1, OfCall DEF Ready, Inv, TypeOK, Fits
<1>3. ops' = ops
  BY DEF MarkSyncedAgain
<1>4. PICK a \in {"announce"} : pc' = [pc EXCEPT ![j] = a]
  BY DEF MarkSyncedAgain, Goto
<1>5. sync' = [sync EXCEPT ![u] = Succeeded(sync[u])]
  BY UpdatesMade DEF Ready, MarkSyncedAgain
<1>6. /\ \A p \in OpIds : p # o => ops'[p] = ops[p] /\ (p \in wrote' <=> p \in wrote)
      /\ ops'[o].user = ops[o].user /\ ops'[o].status = "completed"
      /\ o \in wrote <=> TRUE
      /\ o \in wrote' <=> TRUE
  BY <1>2, <1>3 DEF Ready, Inv, TypeOK, Operation, MarkSyncedAgain
<1>7. a \in Awaits \ {"create"}
  BY <1>4 DEF Awaits
<1>8. /\ Fits(a, "completed", TRUE)
      /\ Follows(sync[u], Succeeded(sync[u]),
                 Share("recount", "completed", TRUE), Share(a, "completed", TRUE))
  BY Ledger DEF Fits, Follows
<1>9. QED
  BY <1>1, <1>2, <1>4, <1>5, <1>6, <1>7, <1>8, CallSettles

\* The record says failed before the failure is counted for the last time.
LEMMA FailOpSettles ==
    ASSUME Ready, Inv', Undisturbed', NEW j \in JobIds, FailOp(j)
    PROVE  Calls' /\ Fit' /\ Add'
<1> DEFINE o == op[j]
           u == job[j].user
<1>1. pc[j] = "fail" /\ pc[j] \in Awaits /\ pc[j] # "create" /\ op' = op
  BY DEF Awaits, FailOp
<1>2. /\ o \in OpIds /\ o # None /\ ops[o].status = "running" /\ ops[o] \in Operation
      /\ u \in Users
  BY <1>1, OfCall DEF Ready, Inv, TypeOK, Fits
<1>3. ops' = [ops EXCEPT ![o].status = "failed"]
  BY <1>2, UpdatesMade DEF Ready, FailOp
<1>4. PICK a \in {"refail"} : pc' = [pc EXCEPT ![j] = a]
  BY DEF FailOp, Goto
<1>5. sync' = [sync EXCEPT ![u] = sync[u]]
  BY SyncStays DEF Ready, FailOp
<1>6. /\ \A p \in OpIds : p # o => ops'[p] = ops[p] /\ (p \in wrote' <=> p \in wrote)
      /\ ops'[o].user = ops[o].user /\ ops'[o].status = "failed"
      /\ o \in wrote' <=> o \in wrote
  BY <1>2, <1>3 DEF Ready, Inv, TypeOK, Operation, FailOp
<1>7. a \in Awaits \ {"create"}
  BY <1>4 DEF Awaits
<1>8. CASE o \in wrote
  <2>1. /\ Fits(a, "failed", TRUE)
        /\ Follows(sync[u], sync[u], Share("fail", "running", TRUE), Share(a, "failed", TRUE))
    BY Ledger DEF Fits, Follows
  <2>2. o \in wrote <=> TRUE
    BY <1>8
  <2>3. QED
    BY <1>1, <1>2, <1>4, <1>5, <1>6, <1>7, <2>1, <2>2, CallSettles
<1>9. CASE o \notin wrote
  <2>1. /\ Fits(a, "failed", FALSE)
        /\ Follows(sync[u], sync[u], Share("fail", "running", FALSE), Share(a, "failed", FALSE))
    BY Ledger DEF Fits, Follows
  <2>2. o \in wrote <=> FALSE
    BY <1>9
  <2>3. QED
    BY <1>1, <1>2, <1>4, <1>5, <1>6, <1>7, <2>1, <2>2, CallSettles
<1>10. QED
  BY <1>8, <1>9

\* The failure is counted for the last time.
LEMMA MarkUnsyncedAgainSettles ==
    ASSUME Ready, Inv', Undisturbed', NEW j \in JobIds, MarkUnsyncedAgain(j)
    PROVE  Calls' /\ Fit' /\ Add'
<1> DEFINE o == op[j]
           u == job[j].user
<1>1. pc[j] = "refail" /\ pc[j] \in Awaits /\ pc[j] # "create" /\ op' = op
  BY DEF Awaits, MarkUnsyncedAgain
<1>2. /\ o \in OpIds /\ o # None /\ ops[o].status = "failed" /\ ops[o] \in Operation
      /\ u \in Users
  BY <1>1, OfCall DEF Ready, Inv, TypeOK, Fits
<1>3. ops' = ops
  BY DEF MarkUnsyncedAgain
<1>4. PICK a \in {"lament"} : pc' = [pc EXCEPT ![j] = a]
  BY DEF MarkUnsyncedAgain, Goto
<1>5. sync' = [sync EXCEPT ![u] = Failed(sync[u])]
  BY UpdatesMade DEF Ready, MarkUnsyncedAgain
<1>6. /\ \A p \in OpIds : p # o => ops'[p] = ops[p] /\ (p \in wrote' <=> p \in wrote)
      /\ ops'[o].user = ops[o].user /\ ops'[o].status = "failed"
      /\ o \in wrote' <=> o \in wrote
  BY <1>2, <1>3 DEF Ready, Inv, TypeOK, Operation, MarkUnsyncedAgain
<1>7. a \in Awaits \ {"create"}
  BY <1>4 DEF Awaits
<1>8. CASE o \in wrote
  <2>1. /\ Fits(a, "failed", TRUE)
        /\ Follows(sync[u], Failed(sync[u]),
                   Share("refail", "failed", TRUE), Share(a, "failed", TRUE))
    BY Ledger DEF Fits, Follows
  <2>2. o \in wrote <=> TRUE
    BY <1>8
  <2>3. QED
    BY <1>1, <1>2, <1>4, <1>5, <1>6, <1>7, <2>1, <2>2, CallSettles
<1>9. CASE o \notin wrote
  <2>1. /\ Fits(a, "failed", FALSE)
        /\ Follows(sync[u], Failed(sync[u]),
                   Share("refail", "failed", FALSE), Share(a, "failed", FALSE))
    BY Ledger DEF Fits, Follows
  <2>2. o \in wrote <=> FALSE
    BY <1>9
  <2>3. QED
    BY <1>1, <1>2, <1>4, <1>5, <1>6, <1>7, <2>1, <2>2, CallSettles
<1>10. QED
  BY <1>8, <1>9

\* A call gets an unused id; its record has no share in the counters yet.
LEMMA CreateOpSettles ==
    ASSUME Ready, Inv', Undisturbed', NEW j \in JobIds, CreateOp(j)
    PROVE  Calls' /\ Fit' /\ Add'
<1> USE DEF Ready, Inv
<1> DEFINE u == job[j].user
<1>1. /\ ~CreateThrows(j) /\ pc[j] = "create" /\ op[j] = None /\ u \in Users
      /\ pc' = [pc EXCEPT ![j] = "start"] /\ sync' = sync /\ wrote' = wrote
  BY UpdatesMade DEF CreateOp, CreateThrows, StagesAgree, CallsAreHeld, Goto
<1>2. PICK o \in Unused : /\ ops' = [ops EXCEPT ![o] = [status |-> "running", user |-> u]]
                          /\ op' = [op EXCEPT ![j] = o]
  BY <1>1 DEF CreateOp
<1>3. o \in OpIds /\ o # None /\ ops[o].status = "none"
  BY ProcessorAssumption DEF Unused
<1>4. Where[o] = "over" /\ o \notin wrote
  BY <1>3 DEF Fit, Fits
<1>5. /\ ops'[o].status = "running" /\ ops'[o].user = u
      /\ \A p \in OpIds : p # o => ops'[p] = ops[p]
  BY <1>2, <1>3 DEF TypeOK
<1>6. /\ pc'[j] = "start" /\ op'[j] = o
      /\ \A i \in JobIds : i # j => pc'[i] = pc[i] /\ op'[i] = op[i]
  BY <1>1, <1>2, <1>3 DEF TypeOK
<1>7. Where'[o] = "start" /\ \A p \in OpIds : p # o => Where'[p] = Where[p]
  BY <1>1, <1>3, <1>6, WhereMoves
<1>8. Calls'
  BY <1>3, <1>6 DEF Calls, Live
<1>9. /\ Fits("start", "running", FALSE)
      /\ Follows(sync[u], sync[u],
                 Share("over", "none", FALSE), Share("start", "running", FALSE))
      /\ \A part \in Parts : Share("over", "none", FALSE)[part] = 0
      /\ sync' = [sync EXCEPT ![u] = sync[u]]
  BY <1>1, Ledger, NoShare, SyncStays DEF Fits, Follows
<1>10. (o \in wrote) = FALSE /\ (o \in wrote') = FALSE
  BY <1>1, <1>4
<1>11. /\ Fits(Where'[o], ops'[o].status, o \in wrote')
       /\ Follows(sync[u], sync[u], Share(Where[o], ops[o].status, o \in wrote),
                  Share(Where'[o], ops'[o].status, o \in wrote'))
       /\ \A part \in Parts : Share(Where[o], ops[o].status, o \in wrote)[part] = 0
  BY <1>3, <1>4, <1>5, <1>7, <1>9, <1>10
<1>12. \A p \in OpIds : p # o => /\ ops'[p] = ops[p] /\ Where'[p] = Where[p]
                                 /\ p \in wrote' <=> p \in wrote
  BY <1>1, <1>5, <1>7
<1>13. sync' = [sync EXCEPT ![u] = sync[u]] /\ u \in Users /\ ops'[o].user = u
  BY <1>1, <1>5, <1>9
<1> HIDE DEF u, Ready, Inv
<1>14. Inv /\ Uncapped /\ Fit /\ Add
  BY DEF Ready
<1>15. Fit' /\ Add'
  BY <1>3, <1>11, <1>12, <1>13, <1>14, OneSettles
<1>16. QED
  BY <1>8, <1>15

\* What a call publishes is not counted.
LEMMA PublishSettles ==
    ASSUME Ready, Inv', Undisturbed', NEW j \in JobIds, Publish(j)
    PROVE  Calls' /\ Fit' /\ Add'
<1> DEFINE o == op[j]
           u == job[j].user
           status == ops[o].status
<1>1. pc[j] \in {"announce", "lament"} /\ pc[j] \in Awaits /\ pc[j] # "create" /\ op' = op
  BY DEF Awaits, Publish
<1>2. o \in OpIds /\ u \in Users /\ status \in {"completed", "failed"}
  BY <1>1, OfCall DEF Fits
<1>3. pc' = [pc EXCEPT ![j] = "ack"] /\ "ack" \in Awaits \ {"create"}
  BY DEF Publish, Goto, Awaits
<1>4. sync' = [sync EXCEPT ![u] = sync[u]]
  BY SyncStays DEF Ready, Publish
<1>5. ops' = ops /\ wrote' = wrote
  BY DEF Publish
<1> HIDE DEF status
<1>6. ASSUME NEW w \in BOOLEAN
      PROVE  /\ Fits("ack", status, w)
             /\ Follows(sync[u], sync[u], Share(pc[j], status, w), Share("ack", status, w))
  BY <1>1, <1>2, Ledger DEF Fits, Follows
<1>7. ops[o].status = status /\ ops'[o].status = status
  BY <1>5 DEF status
<1>8. CASE o \in wrote
  <2>1. (o \in wrote <=> TRUE) /\ (o \in wrote' <=> TRUE)
    BY <1>5, <1>8
  <2>2. QED
    BY <1>1, <1>2, <1>3, <1>4, <1>5, <1>6, <1>7, <2>1, CallSettles
<1>9. CASE o \notin wrote
  <2>1. (o \in wrote <=> FALSE) /\ (o \in wrote' <=> FALSE)
    BY <1>5, <1>9
  <2>2. QED
    BY <1>1, <1>2, <1>3, <1>4, <1>5, <1>6, <1>7, <2>1, CallSettles
<1>10. QED
  BY <1>8, <1>9

\* The call is over, and owes nothing any more.
LEMMA AckSettles ==
    ASSUME Ready, Inv', Undisturbed', NEW j \in JobIds, Ack(j)
    PROVE  Calls' /\ Fit' /\ Add'
<1> USE DEF Ready, Inv
<1> DEFINE o == op[j]
           u == job[j].user
           status == ops[o].status
<1>1. pc[j] = "ack" /\ pc[j] \in Awaits /\ pc[j] # "create"
  BY DEF Awaits, Ack
<1>2. /\ o \in OpIds /\ o # None /\ u \in Users /\ ops[o].user = u /\ Where[o] = "ack"
      /\ status \in {"completed", "failed"}
  <2>1. /\ o \in OpIds /\ o # None /\ u \in Users /\ ops[o].user = u /\ Where[o] = "ack"
        /\ Fits("ack", status, o \in wrote)
    BY <1>1, OfCall
  <2>2. QED
    BY <2>1 DEF Fits, TypeOK, Operation
<1>3. /\ op'[j] = None /\ pc'[j] = "idle" /\ ops' = ops /\ wrote' = wrote
      /\ \A i \in JobIds : i # j => pc'[i] = pc[i] /\ op'[i] = op[i]
  BY DEF Ack, TypeOK
<1>4. \A i \in JobIds : op[i] = o => i = j
  BY <1>2 DEF OpsAreOwned
<1>5. Where'[o] = "over"
  BY <1>2, <1>3, <1>4 DEF Where
<1>6. ASSUME NEW p \in OpIds, p # o PROVE Where'[p] = Where[p]
  <2>1. p # None
    BY <1>6, ProcessorAssumption
  <2>2. \A i \in JobIds : (op'[i] = p <=> op[i] = p) /\ (op[i] = p => pc'[i] = pc[i])
    BY <1>3, <1>6, <2>1
  <2>3. (CHOOSE i \in JobIds : op'[i] = p) = (CHOOSE i \in JobIds : op[i] = p)
    BY <2>2
  <2>4. QED
    BY <2>1, <2>2, <2>3 DEF Where
<1>7. Calls'
  BY <1>3 DEF Calls, Live, Awaits
<1>8. sync' = [sync EXCEPT ![u] = sync[u]]
  BY SyncStays DEF Ack
<1> HIDE DEF status
<1>9. ASSUME NEW w \in BOOLEAN
      PROVE  /\ Fits("over", status, w)
             /\ Follows(sync[u], sync[u], Share("ack", status, w), Share("over", status, w))
  BY <1>2, Ledger DEF Fits, Follows
<1>10. /\ Fits(Where'[o], ops'[o].status, o \in wrote')
       /\ Follows(sync[u], sync[u], Share(Where[o], ops[o].status, o \in wrote),
                  Share(Where'[o], ops'[o].status, o \in wrote'))
  <2>1. ops[o].status = status /\ ops'[o].status = status
    BY <1>3 DEF status
  <2>2. CASE o \in wrote
    <3>1. (o \in wrote) = TRUE /\ (o \in wrote') = TRUE
      BY <1>3, <2>2
    <3>2. QED
      BY <1>2, <1>5, <1>9, <2>1, <3>1
  <2>3. CASE o \notin wrote
    <3>1. (o \in wrote) = FALSE /\ (o \in wrote') = FALSE
      BY <1>3, <2>3
    <3>2. QED
      BY <1>2, <1>5, <1>9, <2>1, <3>1
  <2>4. QED
    BY <2>2, <2>3
<1>11. /\ ops'[o].user = u
       /\ \A p \in OpIds : p # o => ops'[p] = ops[p] /\ (p \in wrote' <=> p \in wrote)
  BY <1>2, <1>3
<1> HIDE DEF o, u
<1>12. Fit' /\ Add'
  BY <1>2, <1>5, <1>6, <1>8, <1>10, <1>11, OneSettles DEF o, u
<1>13. QED
  BY <1>7, <1>12

\* The steps of the queue, of a breaker and of a process that starts.
LEMMA QuietSettles ==
    ASSUME Ready, UNCHANGED <<ops, op, wrote, sync>>,
           \A i \in JobIds : \/ pc'[i] = pc[i]
                             \/ op[i] = None /\ pc'[i] \in {"create", "idle"}
    PROVE  Calls' /\ Fit' /\ Add'
<1> USE DEF Ready, Inv
<1>1. Calls'
  BY DEF Calls, Live, Awaits
<1>2. Where' = Where
  <2>1. ASSUME NEW p \in OpIds PROVE Where'[p] = Where[p]
    <3>1. \A i \in JobIds : op[i] = p => pc'[i] = pc[i]
      BY ProcessorAssumption
    <3>2. QED
      BY <3>1 DEF Where
  <2>2. QED
    BY <2>1 DEF Where
<1>3. Fit'
  BY <1>2 DEF Fit
<1>4. Add'
  <2>1. ASSUME NEW u \in Users PROVE Tally(u)' = Tally(u)
    <3>1. \A part \in Parts : Sharing(u, part)' = Sharing(u, part)
      BY <1>2 DEF Sharing
    <3>2. QED
      BY <3>1 DEF Tally
  <2>2. QED
    BY <2>1 DEF Add
<1>5. QED
  BY <1>1, <1>3, <1>4

\* Nothing undoes a failure or a crash.
LEMMA UndisturbedBefore ==
    ASSUME Inv, [Next]_vars, Undisturbed'
    PROVE  Undisturbed /\ \A w \in Workers : ~Crash(w)
<1> USE ProcessorAssumption DEF Inv, TypeOK, Undisturbed, DbFault
<1>1. faults \in Nat /\ crashes \in Nat
  OBVIOUS
<1>2. ASSUME NEW j \in JobIds, Process(j)
      PROVE  crashes' = crashes /\ (faults' = faults \/ DbFault)
  BY <1>2 DEF Process, CreateOp, CreateThrows, MarkStarted, MarkStartedAgain, Fetch, Save,
     MarkSynced, Verify, MarkUnsynced, CompleteOp, MarkSyncedAgain, FailOp,
     MarkUnsyncedAgain, Publish, Ack, MarkSync, UpdateOp
<1>3. \A w \in Workers : Crash(w) => crashes' = crashes + 1
  BY DEF Crash
<1>4. CASE \E w \in Workers : Crash(w)
  BY <1>1, <1>3, <1>4
<1>5. CASE ~ \E w \in Workers : Crash(w)
  <2>1. crashes' = crashes /\ (faults' = faults \/ DbFault)
    BY <1>2, <1>5 DEF Next, Worker, Environment, AddJob, CancelJob, Pick, Stalled, Restart,
       CoolDown, vars
  <2>2. QED
    BY <1>1, <1>5, <2>1, SMTT(30)
<1>6. QED
  BY <1>4, <1>5

\* As long as nothing fails, every step keeps the counters in step with the records.
LEMMA SettledKept ==
    ASSUME Inv, Inv', OpsBelong, Uncapped, Settled, [Next]_vars
    PROVE  Settled'
<1> SUFFICES ASSUME Undisturbed' PROVE Calls' /\ Fit' /\ Add'
  BY DEF Settled
<1>1. Ready /\ \A w \in Workers : ~Crash(w)
  BY UndisturbedBefore DEF Ready, Settled
<1>2. ASSUME NEW j \in JobIds, Save(j) PROVE Calls' /\ Fit' /\ Add'
  BY <1>1, <1>2, SaveCommitsSettles, SaveRollsBackSettles DEF Save
<1>3. ASSUME NEW j \in JobIds, Process(j) PROVE Calls' /\ Fit' /\ Add'
  BY <1>1, <1>2, <1>3, CreateOpSettles, MarkStartedSettles, MarkStartedAgainSettles,
     FetchSettles, MarkSyncedSettles, VerifySettles, MarkUnsyncedSettles,
     CompleteOpSettles, MarkSyncedAgainSettles, FailOpSettles, MarkUnsyncedAgainSettles,
     PublishSettles, AckSettles
     DEF Process
<1>4. ASSUME NEW j \in JobIds, Stalled(j) \/ \E w \in Workers : Pick(w, j)
      PROVE  Calls' /\ Fit' /\ Add'
  <2>1. op[j] = None
    BY <1>4 DEF Stalled, Pick, Inv, CallsAreHeld, StagesAgree, TypeOK
  <2>2. \A i \in JobIds : pc'[i] = pc[i] \/ (op[i] = None /\ pc'[i] \in {"create", "idle"})
    BY <1>4, <2>1, ZenonT(60) DEF Stalled, Pick, Inv, TypeOK
  <2>3. QED
    BY <1>1, <1>4, <2>2, QuietSettles DEF Stalled, Pick
<1>5. CASE UNCHANGED <<ops, op, wrote, sync, pc>>
  BY <1>1, <1>5, QuietSettles
<1>6. CASE Worker
  BY <1>3, <1>4, <1>6 DEF Worker
<1>7. QED
  BY <1>1, <1>5, <1>6
     DEF Next, Environment, AddJob, CancelJob, Restart, CoolDown, vars

\* A user at rest has no operation a call holds: the tally is that of the outcomes.
LEMMA RestSettles ==
    ASSUME Ready, NEW u \in Users, AtRest(u)
    PROVE  LET of(status) == {o \in OpIds : ops[o].user = u /\ ops[o].status = status}
               late == of("failed") \cap wrote
           IN  /\ sync[u].status # "running"
               /\ sync[u].ok = 2 * Cardinality(of("completed")) + Cardinality(late)
               /\ sync[u].total + Cardinality(late) = sync[u].ok + sync[u].bad
<1> USE DEF Ready, Inv
<1> DEFINE of(status) == {o \in OpIds : ops[o].user = u /\ ops[o].status = status}
           late == of("failed") \cap wrote
           done == of("completed")
<1>1. ASSUME NEW o \in OpIds, ops[o].user = u PROVE Where[o] = "over"
  <2>1. ASSUME NEW i \in JobIds, op[i] = o PROVE FALSE
    <3>1. o # None /\ job[i].user = u
      BY <1>1, <2>1, ProcessorAssumption DEF OpsBelong
    <3>2. pc[i] # "idle"
      BY <2>1, <3>1 DEF StagesAgree
    <3>3. job[i].state = "active"
      BY <3>2 DEF CallsAreHeld
    <3>4. QED
      BY <3>1, <3>3 DEF AtRest
  <2>2. QED
    BY <2>1 DEF Where
<1>2. ASSUME NEW o \in OpIds, ops[o].user = u
      PROVE  /\ ops[o].status \in {"none", "completed", "failed"}
             /\ ops[o].status = "none" => o \notin wrote
             /\ ops[o].status = "completed" => o \in wrote
  <2>1. Fits("over", ops[o].status, o \in wrote)
    BY <1>1, <1>2 DEF Fit
  <2>2. ops[o] \in Operation
    BY DEF TypeOK
  <2>3. QED
    BY <2>1, <2>2 DEF Fits, Operation, CompletedMeansSaved
<1>3. ASSUME NEW o \in OpIds, ops[o].user = u
      PROVE  LET x == Share(Where[o], ops[o].status, o \in wrote)
             IN  /\ x["owed1"] = 0 /\ x["owed2"] = 0
                 /\ x["ok1"] = 1 <=> o \in done \cup late
                 /\ x["ok2"] = 1 <=> o \in done
                 /\ x["late"] = 1 <=> o \in late
  BY <1>1, <1>2, <1>3 DEF Share, Once
<1>4. /\ Sharing(u, "owed1") = {} /\ Sharing(u, "owed2") = {}
      /\ Sharing(u, "ok1") = done \cup late /\ Sharing(u, "ok2") = done
      /\ Sharing(u, "late") = late
  BY <1>3 DEF Sharing
<1>5. /\ IsFiniteSet(done) /\ IsFiniteSet(late) /\ done \cap late = {}
      /\ Cardinality(done) \in Nat /\ Cardinality(late) \in Nat
  <2>1. done \subseteq OpIds /\ late \subseteq OpIds /\ done \cap late = {}
    OBVIOUS
  <2> HIDE DEF done, late
  <2>2. QED
    BY <2>1, ProcessorAssumption, FS_Subset, FS_CardinalityType
<1> HIDE DEF done, late
<1>6. Cardinality(done \cup late) = Cardinality(done) + Cardinality(late)
  <2>1. Cardinality(done \cup late)
          = Cardinality(done) + Cardinality(late) - Cardinality(done \cap late)
    BY <1>5, FS_Union
  <2>2. Cardinality(done \cap late) = 0
    BY <1>5, FS_EmptySet
  <2>3. QED
    BY <1>5, <2>1, <2>2
<1>7. /\ Tally(u)["owed1"] = 0 /\ Tally(u)["owed2"] = 0
      /\ Tally(u)["ok1"] = Cardinality(done) + Cardinality(late)
      /\ Tally(u)["ok2"] = Cardinality(done)
      /\ Tally(u)["late"] = Cardinality(late)
  BY <1>4, <1>6, FS_EmptySet DEF Tally, Parts
<1>8. AddsUp(sync[u], Tally(u))
  BY DEF Add
<1>9. sync[u].total \in Nat /\ sync[u].ok \in Nat /\ sync[u].bad \in Nat
  BY ProcessorAssumption DEF TypeOK, SyncStatus
<1>10. sync[u].status # "running"
  BY <1>7, <1>8 DEF AddsUp
<1>11. sync[u].ok = 2 * Cardinality(done) + Cardinality(late)
  BY <1>5, <1>7, <1>8, <1>9 DEF AddsUp
<1>12. sync[u].total + Cardinality(late) = sync[u].ok + sync[u].bad
  BY <1>5, <1>7, <1>8, <1>9 DEF AddsUp
<1>13. QED
  BY <1>10, <1>11, <1>12 DEF done, late

\* However the awaits of a user's calls interleave, when they are over the status is
\* not 'running' and the counters have lost no update: for as many operations as the
\* model's bound on the counters lets them count.
THEOREM StatusesSettle ==
    ASSUME Uncapped
    PROVE  Spec => []StatusSettles
<1>1. Init => OpsBelong /\ Settled
  <2> SUFFICES ASSUME Init PROVE OpsBelong /\ Settled
    OBVIOUS
  <2>1. OpsBelong /\ Calls
    BY DEF Init, OpsBelong, Calls, Live, Awaits
  <2>2. \A o \in OpIds : Where[o] = "over" /\ ops[o].status = "none" /\ o \notin wrote
    BY ProcessorAssumption DEF Init, Where
  <2>3. Fit
    BY <2>2 DEF Fit, Fits
  <2>4. ASSUME NEW u \in Users PROVE AddsUp(sync[u], Tally(u))
    <3>1. ASSUME NEW part \in Parts PROVE Sharing(u, part) = {}
      BY ProcessorAssumption DEF Init, Sharing
    <3>2. \A part \in Parts : Tally(u)[part] = 0
      BY <3>1, FS_EmptySet DEF Tally
    <3>3. /\ sync[u].total = 0 /\ sync[u].ok = 0 /\ sync[u].bad = 0
          /\ sync[u].status = "pending"
      BY DEF Init
    <3>4. QED
      BY <3>2, <3>3 DEF AddsUp, Parts
  <2>5. QED
    BY <2>1, <2>3, <2>4 DEF Settled, Add
<1>2. Inv /\ OpsBelong /\ Settled /\ [Next]_vars => OpsBelong' /\ Settled'
  BY NextInv, OpsBelongKept, SettledKept
<1>3. Inv /\ OpsBelong /\ Settled => StatusSettles
  BY RestSettles DEF StatusSettles, Settled, Ready
<1>4. QED
  BY <1>1, <1>2, <1>3, InvHolds, PTL DEF Spec

------------------------------------------------------------------------------
(* The scheduler: orphans silence their users *)

LoopsTyped == loop \in [Workers -> [Loops -> Loop]]

PipelineInv == Inv /\ LoopsTyped

\* A batch puts its jobs where no call runs.
LEMMA AddBatchInv ==
    ASSUME PipelineInv, NEW w \in Workers, NEW l \in Loops, AddBatch(w, l)
    PROVE  Inv'
<1> USE DEF PipelineInv, Inv
<1> DEFINE chosen == loop[w][l].users \ loop[w][l].busy
<1>1. chosen \subseteq Users
  BY DEF LoopsTyped, Loop
<1>2. PICK added \in SUBSET chosen : \E place \in [added -> FreeJobs] :
         /\ \A u, v \in added : place[u] = place[v] => u = v
         /\ job' = [j \in JobIds |->
                      IF \E u \in added : place[u] = j
                      THEN [state |-> "waiting",
                            user |-> CHOOSE u \in added : place[u] = j,
                            force |-> FALSE, by |-> None, stalls |-> 0]
                      ELSE job[j]]
  BY DEF AddBatch
<1>3. PICK place \in [added -> FreeJobs] :
         job' = [j \in JobIds |->
                      IF \E u \in added : place[u] = j
                      THEN [state |-> "waiting",
                            user |-> CHOOSE u \in added : place[u] = j,
                            force |-> FALSE, by |-> None, stalls |-> 0]
                      ELSE job[j]]
  BY <1>2
<1>4. ASSUME NEW j \in JobIds
      PROVE  /\ job'[j] \in Job
             /\ \/ job'[j] = job[j]
                \/ job[j].state = "free" /\ job'[j].user \in Users
  <2>1. CASE \E u \in added : place[u] = j
    <3>1. (CHOOSE u \in added : place[u] = j) \in Users
      BY <1>1, <1>2, <2>1
    <3>2. job[j].state = "free"
      BY <1>3, <2>1 DEF FreeJobs
    <3>3. job'[j] = [state |-> "waiting", user |-> CHOOSE u \in added : place[u] = j,
                     force |-> FALSE, by |-> None, stalls |-> 0]
      BY <1>3, <2>1
    <3>4. QED
      BY <3>1, <3>2, <3>3 DEF Job, JobState
  <2>2. CASE ~ \E u \in added : place[u] = j
    BY <1>3, <2>2 DEF TypeOK
  <2>3. QED
    BY <2>1, <2>2
<1>5. UNCHANGED <<pc, op, ops, sync, wrote, events, breaker, up, crashes>>
  BY DEF AddBatch
<1>6. faults' \in 0 .. MaxFaults
  BY ProcessorAssumption DEF AddBatch, DbFault, TypeOK
<1>7. TypeOK'
  <2>1. job' \in [JobIds -> Job]
    BY <1>3, <1>4
  <2>2. QED
    BY <1>5, <1>6, <2>1 DEF TypeOK
<1>8. CallsAreHeld'
  BY <1>4, <1>5 DEF CallsAreHeld
<1>9. OpsAreOwned' /\ StagesAgree' /\ CompletedMeansSaved'
  BY <1>5 DEF OpsAreOwned, StagesAgree, CompletedMeansSaved
<1>10. QED
  BY <1>7, <1>8, <1>9

\* Time that passes changes nothing the invariant speaks of.
LEMMA TickInv ==
    ASSUME Inv, Tick
    PROVE  Inv'
<1> USE DEF Inv
<1>1. ASSUME NEW u \in Users PROVE sync'[u] \in SyncStatus
  <2>1. sync[u] \in SyncStatus /\ Older(sync[u].age) \in Nat
    BY PipelineAssumption DEF TypeOK, SyncStatus, Older
  <2>2. sync'[u] = [sync[u] EXCEPT !.age = Older(sync[u].age)]
    BY DEF Tick
  <2>3. QED
    BY <2>1, <2>2 DEF SyncStatus
<1>2. sync' \in [Users -> SyncStatus]
  BY <1>1 DEF Tick
<1>3. TypeOK'
  BY <1>2 DEF Tick, TypeOK
<1>4. CallsAreHeld' /\ OpsAreOwned' /\ StagesAgree' /\ CompletedMeansSaved'
  BY DEF Tick, CallsAreHeld, OpsAreOwned, StagesAgree, CompletedMeansSaved
<1>5. QED
  BY <1>3, <1>4

\* Each loop keeps to its record: what it selects and what it reads are users.
LEMMA LoopsStayTyped ==
    ASSUME LoopsTyped, [PipelineNext]_pipeVars
    PROVE  LoopsTyped'
<1>1. Asleep \in Loop
  BY DEF Asleep, Loop
<1>2. ASSUME NEW w \in Workers, NEW l \in Loops, NEW r \in Loop,
             loop' = [loop EXCEPT ![w][l] = r]
      PROVE  LoopsTyped'
  BY <1>2 DEF LoopsTyped
<1>3. CASE UNCHANGED loop
  BY <1>3 DEF LoopsTyped
<1>4. ASSUME NEW w \in Workers, SelectMain(w) \/ SelectStale(w) PROVE LoopsTyped'
  <2>1. PICK l \in Loops, at \in {"reload", "read"}, users \in SUBSET Users :
           SetLoop(w, l, at, users, {})
    <3>1. CASE SelectMain(w)
      BY <3>1 DEF SelectMain, Loops
    <3>2. CASE SelectStale(w)
      <4> DEFINE stale == {u \in Known(w) : age[w][u] >= Stale}
      <4>1. stale \in SUBSET Users /\ SetLoop(w, "stale", "read", stale, {})
        BY <3>2 DEF SelectStale, Known
      <4>2. QED
        BY <4>1 DEF Loops
    <3>3. QED
      BY <1>4, <3>1, <3>2
  <2> DEFINE r == [at |-> at, users |-> users, busy |-> {}, current |-> TRUE]
  <2>2. r \in Loop
    BY DEF Loop
  <2>3. loop' = [loop EXCEPT ![w][l] = r]
    BY <2>1 DEF SetLoop
  <2> HIDE DEF r
  <2>4. QED
    BY <1>2, <2>2, <2>3
<1>5. ASSUME NEW w \in Workers, NEW l \in Loops, ReadActive(w, l) PROVE LoopsTyped'
  <2>1. loop[w][l] \in Loop
    BY DEF LoopsTyped
  <2>2. CASE loop' = [loop EXCEPT ![w][l].at = "add", ![w][l].busy = {u \in Users : Running(u)}]
    <3> DEFINE busy == {u \in Users : Running(u)}
               r == [loop[w][l] EXCEPT !.at = "add", !.busy = busy]
    <3>0. busy \in SUBSET Users
      OBVIOUS
    <3>2. loop' = [loop EXCEPT ![w][l] = r]
      BY <2>2 DEF LoopsTyped
    <3> HIDE DEF busy
    <3>1. r \in Loop
      BY <2>1, <3>0 DEF Loop
    <3> HIDE DEF r
    <3>3. QED
      BY <1>2, <3>1, <3>2
  <2>3. CASE loop' = [loop EXCEPT ![w][l].at = "add"]
    <3> DEFINE r == [loop[w][l] EXCEPT !.at = "add"]
    <3>1. r \in Loop
      BY <2>1 DEF Loop
    <3>2. loop' = [loop EXCEPT ![w][l] = r]
      BY <2>3
    <3> HIDE DEF r
    <3>3. QED
      BY <1>2, <3>1, <3>2
  <2>4. QED
    BY <1>5, <2>2, <2>3 DEF ReadActive
<1>6. ASSUME NEW w \in Workers, NEW l \in Loops, AddBatch(w, l) PROVE LoopsTyped'
  <2> DEFINE r == [Asleep EXCEPT !.at = IF l = "main" THEN "reload" ELSE "sleep"]
  <2>1. r \in Loop
    BY DEF Asleep, Loop
  <2>2. loop' = [loop EXCEPT ![w][l] = r]
    BY <1>6 DEF AddBatch
  <2> HIDE DEF r
  <2>3. QED
    BY <1>2, <2>1, <2>2
<1>7. ASSUME NEW w \in Workers, Reload(w) PROVE LoopsTyped'
  <2>1. CASE loop' = [loop EXCEPT ![w]["main"] = Asleep]
    BY <1>1, <1>2, <2>1 DEF Loops
  <2>2. CASE \E b \in BOOLEAN : loop' = [loop EXCEPT ![w]["main"] = Asleep, ![w]["stale"].current = b]
    <3>1. PICK b \in BOOLEAN : loop' = [loop EXCEPT ![w]["main"] = Asleep, ![w]["stale"].current = b]
      BY <2>2
    <3>2. loop[w]["stale"] \in Loop
      BY DEF LoopsTyped, Loops
    <3>3. [loop[w]["stale"] EXCEPT !.current = b] \in Loop
      BY <3>2 DEF Loop
    <3>4. [loop[w] EXCEPT !["main"] = Asleep, !["stale"].current = b] \in [Loops -> Loop]
      BY <1>1, <3>3 DEF LoopsTyped, Loops
    <3>5. loop' = [loop EXCEPT ![w] = [loop[w] EXCEPT !["main"] = Asleep, !["stale"].current = b]]
      BY <3>1 DEF LoopsTyped
    <3>6. QED
      BY <3>4, <3>5 DEF LoopsTyped
  <2>3. QED
    BY <1>7, <2>1, <2>2 DEF Reload, ReloadUsers, SkipReload
<1>8. ASSUME NEW w \in Workers, CrashScheduler(w) PROVE LoopsTyped'
  BY <1>1, <1>8 DEF CrashScheduler, LoopsTyped
<1>9. CASE UNCHANGED pipeVars
  BY <1>3, <1>9 DEF pipeVars, schedVars
<1>10. QED
  BY <1>3, <1>4, <1>5, <1>6, <1>7, <1>8, <1>9
     DEF PipelineNext, Scheduler, RestartScheduler, Tick, schedVars

\* What the processor's invariant needs, the scheduler leaves alone.
LEMMA PipelineNextInv ==
    ASSUME PipelineInv, [PipelineNext]_pipeVars
    PROVE  PipelineInv'
<1> USE DEF PipelineInv
<1> SUFFICES Inv'
  BY LoopsStayTyped
<1>1. ASSUME [Next]_vars PROVE Inv'
  BY <1>1, NextInv
<1>2. CASE UNCHANGED vars
  BY <1>1, <1>2
<1>3. ASSUME NEW w \in Workers, Scheduler(w) PROVE Inv'
  <2>1. CASE SelectMain(w) \/ SelectStale(w) \/ Reload(w)
    BY <1>2, <2>1 DEF SelectMain, SelectStale, Reload, ReloadUsers, SkipReload
  <2>2. ASSUME NEW l \in Loops, ReadActive(w, l) PROVE Inv'
    <3>1. faults' \in 0 .. MaxFaults
      BY <2>2, ProcessorAssumption DEF ReadActive, DbFault, Inv, TypeOK
    <3>2. UNCHANGED <<job, pc, op, ops, sync, wrote, events, breaker, up, crashes>>
      BY <2>2 DEF ReadActive
    <3>3. QED
      BY <3>1, <3>2 DEF Inv, TypeOK, CallsAreHeld, OpsAreOwned, StagesAgree, CompletedMeansSaved
  <2>3. QED
    BY <1>3, <2>1, <2>2, AddBatchInv DEF Scheduler
<1>4. ASSUME NEW w \in Workers, CrashScheduler(w) \/ RestartScheduler(w) PROVE Inv'
  BY <1>4, CrashInv, RestartInv DEF CrashScheduler, RestartScheduler
<1>5. CASE Worker \/ \E w \in Workers, u \in Users : CoolDown(w, u)
  BY <1>1, <1>5 DEF Next, Environment
<1>6. Inv'
  BY <1>2, <1>3, <1>4, <1>5, TickInv DEF PipelineNext, pipeVars
<1>7. QED
  BY <1>6

\* The invariant of the processor holds with the scheduler as the only source of jobs.
LEMMA PipelineInvHolds == PipelineSpec => []PipelineInv
<1>1. PipelineInit => PipelineInv
  BY InitInv DEF PipelineInit, PipelineInv, LoopsTyped, Asleep, Loop
<1>2. PipelineInv /\ [PipelineNext]_pipeVars => PipelineInv'
  BY PipelineNextInv
<1>3. QED
  BY <1>1, <1>2, PTL DEF PipelineSpec

\* No call has an orphan's id, and none is ever given one.
LEMMA OrphansStay ==
    ASSUME PipelineInv, [PipelineNext]_pipeVars, NEW o \in Orphans
    PROVE  o \in Orphans' /\ ops'[o] = ops[o]
<1> USE DEF PipelineInv, Inv
<1> DEFINE Away == \A i \in JobIds : op'[i] = o => op[i] = o
           Kept == ops'[o] = ops[o] /\ \A i \in JobIds : Live(i)' /\ op'[i] = o => Live(i) /\ op[i] = o
<1>1. o \in OpIds /\ ops[o].status = "running" /\ o # None
      /\ \A i \in JobIds : Live(i) => op[i] # o
  BY ProcessorAssumption DEF Orphans
<1>2. ASSUME Kept PROVE o \in Orphans' /\ ops'[o] = ops[o]
  BY <1>1, <1>2 DEF Orphans
<1>3. CASE ops' = ops /\ pc' = pc /\ op' = op
  <2>1. Kept
    BY <1>3 DEF Live
  <2>2. QED
    BY <1>2, <2>1
<1>4. ASSUME NEW j \in JobIds, Process(j) PROVE Kept
  <2>1. Live(j)
    BY <1>4 DEF Live, Awaits, Process, CreateOp, MarkStarted, MarkStartedAgain, Fetch, Save,
       MarkSynced, Verify, MarkUnsynced, CompleteOp, MarkSyncedAgain, FailOp,
       MarkUnsyncedAgain, Publish, Ack
  <2>2. \A i \in JobIds : i # j => pc'[i] = pc[i] /\ op'[i] = op[i]
    BY <1>4 DEF TypeOK, Process, CreateOp, CreateThrows, MarkStarted, MarkStartedAgain, Fetch, Save,
       MarkSynced, Verify, MarkUnsynced, CompleteOp, MarkSyncedAgain, FailOp,
       MarkUnsyncedAgain, Publish, Ack, Goto
  <2>3. CASE CreateOp(j)
    <3>1. CASE ops' = ops /\ op' = op
      BY <1>1, <2>1, <2>2, <3>1 DEF Live
    <3>2. CASE \E p \in Unused : /\ ops' = [ops EXCEPT ![p] = [status |-> "running", user |-> job[j].user]]
                                 /\ op' = [op EXCEPT ![j] = p]
      <4>1. PICK p \in Unused : /\ ops' = [ops EXCEPT ![p] = [status |-> "running", user |-> job[j].user]]
                                /\ op' = [op EXCEPT ![j] = p]
        BY <3>2
      <4>2. p # o
        BY <1>1 DEF Unused
      <4>3. ops'[o] = ops[o] /\ op'[j] = p
        BY <1>1, <4>1, <4>2 DEF TypeOK
      <4>4. QED
        BY <2>2, <4>2, <4>3 DEF Live
    <3>3. QED
      BY <2>3, <3>1, <3>2 DEF CreateOp
  <2>4. CASE ~CreateOp(j)
    <3>1. op'[j] \in {op[j], None}
      BY <1>4, <2>4 DEF TypeOK, Process, MarkStarted, MarkStartedAgain, Fetch, Save,
         MarkSynced, Verify, MarkUnsynced, CompleteOp, MarkSyncedAgain, FailOp,
         MarkUnsyncedAgain, Publish, Ack
    <3>2. ops'[o] = ops[o]
      <4>1. CASE CompleteOp(j) \/ FailOp(j)
        BY <1>1, <2>1, <4>1 DEF CompleteOp, FailOp, UpdateOp, TypeOK
      <4>2. CASE ~(CompleteOp(j) \/ FailOp(j))
        BY <1>4, <2>4, <4>2 DEF Process, MarkStarted, MarkStartedAgain, Fetch, Save,
           MarkSynced, Verify, MarkUnsynced, MarkSyncedAgain, MarkUnsyncedAgain, Publish, Ack
      <4>3. QED
        BY <4>1, <4>2
    <3>3. QED
      BY <1>1, <2>1, <2>2, <3>1, <3>2 DEF Live
  <2>5. QED
    BY <2>3, <2>4
<1>5. ASSUME NEW j \in JobIds, NEW w \in Workers, Pick(w, j) PROVE Kept
  <2>1. op[j] = None
    BY <1>5 DEF Pick, CallsAreHeld, StagesAgree, TypeOK
  <2>2. QED
    BY <1>1, <1>5, <2>1 DEF Pick, Live, TypeOK
<1>6. ASSUME NEW j \in JobIds, Stalled(j) PROVE Kept
  BY <1>6 DEF Stalled, Live, Awaits, TypeOK
<1>7. ASSUME NEW w \in Workers, Crash(w) PROVE Kept
  BY <1>1, <1>7 DEF Crash, Live
<1> HIDE DEF Kept
<1>8. CASE Worker
  BY <1>2, <1>4, <1>5, <1>6, <1>8 DEF Worker
<1>9. ASSUME NEW w \in Workers, Scheduler(w) \/ RestartScheduler(w)
      PROVE  ops' = ops /\ pc' = pc /\ op' = op
  BY <1>9 DEF Scheduler, SelectMain, SelectStale, ReadActive, AddBatch, Reload, ReloadUsers, SkipReload,
     RestartScheduler, Restart, vars
<1>10. ASSUME NEW w \in Workers, NEW u \in Users, CoolDown(w, u)
       PROVE  ops' = ops /\ pc' = pc /\ op' = op
  BY <1>10 DEF CoolDown
<1>11. QED
  BY <1>2, <1>3, <1>7, <1>8, <1>9, <1>10
     DEF PipelineNext, Tick, CrashScheduler, pipeVars, vars

\* A batch that did not know of the user's orphan when it was selected knows when
\* it has asked MongoDB.
LEMMA BatchesKnow ==
    ASSUME PipelineInv, [PipelineNext]_pipeVars, faults' = faults,
           NEW u \in Users, Silenced(u), NEW w \in Workers, NEW l \in Loops,
           loop'[w][l].at = "add"
    PROVE  u \in loop'[w][l].busy
<1> USE DEF PipelineInv, Inv
<1>1. loop[w][l].at = "add" => u \in loop[w][l].busy
  BY DEF Silenced
<1>2. CASE loop'[w][l].at = loop[w][l].at /\ loop'[w][l].busy = loop[w][l].busy
  BY <1>1, <1>2
<1>3. Running(u)
  BY DEF Silenced, Orphaned, Orphans, Running
<1>4. ASSUME NEW x \in Workers, SelectMain(x) \/ SelectStale(x) \/ (\E k \in Loops : AddBatch(x, k))
      PROVE  loop'[w][l] = loop[w][l] \/ loop'[w][l].at # "add"
  <2>1. \E r : \E k \in Loops : r.at # "add" /\ loop' = [loop EXCEPT ![x][k] = r]
    <3>1. CASE SelectMain(x)
      BY <3>1 DEF SelectMain, SetLoop, Loops
    <3>2. CASE SelectStale(x)
      BY <3>2 DEF SelectStale, SetLoop, Loops
    <3>3. CASE \E k \in Loops : AddBatch(x, k)
      BY <3>3 DEF AddBatch, Asleep
    <3>4. QED
      BY <1>4, <3>1, <3>2, <3>3
  <2>2. QED
    BY <2>1 DEF LoopsTyped
<1>5. ASSUME NEW x \in Workers, NEW k \in Loops, ReadActive(x, k)
      PROVE  u \in loop'[w][l].busy
  <2>1. loop' = [loop EXCEPT ![x][k].at = "add", ![x][k].busy = {v \in Users : Running(v)}]
    BY <1>5, ProcessorAssumption DEF ReadActive, DbFault, TypeOK
  <2>2. CASE x = w /\ k = l
    <3>1. loop[w][l] \in Loop
      BY DEF LoopsTyped
    <3>2. loop'[w][l] = [loop[w][l] EXCEPT !.at = "add", !.busy = {v \in Users : Running(v)}]
      BY <2>1, <2>2 DEF LoopsTyped
    <3>3. QED
      BY <1>3, <3>1, <3>2 DEF Loop
  <2>3. CASE x # w \/ k # l
    <3>1. loop'[w][l] = loop[w][l]
      BY <2>1, <2>3 DEF LoopsTyped
    <3>2. QED
      BY <1>1, <3>1
  <2>4. QED
    BY <2>2, <2>3
<1>6. ASSUME NEW x \in Workers, Reload(x) PROVE u \in loop'[w][l].busy
  <2>1. CASE loop' = [loop EXCEPT ![x]["main"] = Asleep]
    BY <1>1, <2>1 DEF LoopsTyped, Loops, Asleep
  <2>2. CASE \E b \in BOOLEAN : loop' = [loop EXCEPT ![x]["main"] = Asleep, ![x]["stale"].current = b]
    <3>1. loop[w][l] \in Loop
      BY DEF LoopsTyped
    <3>2. loop'[w][l].at = "add" => loop'[w][l].at = loop[w][l].at /\ loop'[w][l].busy = loop[w][l].busy
      BY <2>2, <3>1 DEF LoopsTyped, Loops, Asleep, Loop
    <3>3. QED
      BY <1>1, <3>2
  <2>3. QED
    BY <1>6, <2>1, <2>2 DEF Reload, ReloadUsers, SkipReload
<1>7. ASSUME NEW x \in Workers, CrashScheduler(x) PROVE u \in loop'[w][l].busy
  BY <1>1, <1>7 DEF CrashScheduler, Asleep, LoopsTyped
<1>8. CASE UNCHANGED loop
  BY <1>1, <1>8
<1>9. QED
  BY <1>1, <1>4, <1>5, <1>6, <1>7, <1>8
     DEF PipelineNext, Scheduler, RestartScheduler, Tick, schedVars, pipeVars

\* A user with an orphaned operation is never given a job again: every batch that
\* asks MongoDB learns of the orphan, and nothing ever closes it.
THEOREM OrphansSilence == PipelineSpec => OrphanSilences
<1> DEFINE NoJob(u) == \A j \in JobIds : job[j].state = "free" /\ job'[j].state # "free"
                                            => job'[j].user # u
           Stays == \A u \in Users :
                      Silenced(u) /\ faults' = faults =>
                          /\ Silenced(u)'
                          /\ \A j \in JobIds : job[j].state = "free" /\ job'[j].state # "free"
                                                   => job'[j].user # u
<1>1. ASSUME PipelineInv, [PipelineNext]_pipeVars, NEW u \in Users, Silenced(u), faults' = faults
      PROVE  Silenced(u)' /\ NoJob(u)
  <2> USE <1>1 DEF PipelineInv, Inv
  <2>1. Orphaned(u)'
    BY OrphansStay DEF Silenced, Orphaned
  <2>2. Silenced(u)'
    BY <2>1, BatchesKnow DEF Silenced
  <2>3. ASSUME \E w \in Workers, l \in Loops : AddBatch(w, l) PROVE NoJob(u)
    <3>1. PICK w \in Workers, l \in Loops : AddBatch(w, l)
      BY <2>3
    <3>2. u \in loop[w][l].busy
      BY <3>1 DEF AddBatch, Silenced
    <3> DEFINE chosen == loop[w][l].users \ loop[w][l].busy
    <3>3. PICK added \in SUBSET chosen : \E place \in [added -> FreeJobs] :
             job' = [j \in JobIds |->
                       IF \E v \in added : place[v] = j
                       THEN [state |-> "waiting",
                             user |-> CHOOSE v \in added : place[v] = j,
                             force |-> FALSE, by |-> None, stalls |-> 0]
                       ELSE job[j]]
      BY <3>1 DEF AddBatch
    <3>4. PICK place \in [added -> FreeJobs] :
             job' = [j \in JobIds |->
                       IF \E v \in added : place[v] = j
                       THEN [state |-> "waiting",
                             user |-> CHOOSE v \in added : place[v] = j,
                             force |-> FALSE, by |-> None, stalls |-> 0]
                       ELSE job[j]]
      BY <3>3
    <3>5. u \notin added
      BY <3>2, <3>3
    <3>6. ASSUME NEW j \in JobIds, job[j].state = "free", job'[j].state # "free"
          PROVE  job'[j].user # u
      <4>1. \E v \in added : place[v] = j
        BY <3>4, <3>6
      <4>2. job'[j].user = CHOOSE v \in added : place[v] = j
        BY <3>4, <4>1
      <4>3. (CHOOSE v \in added : place[v] = j) \in added
        BY <4>1
      <4>4. QED
        BY <3>5, <4>2, <4>3
    <3>7. QED
      BY <3>6
  <2>4. ASSUME ~ \E w \in Workers, l \in Loops : AddBatch(w, l) PROVE NoJob(u)
    <3>1. ASSUME NEW j \in JobIds, Process(j) PROVE NoJob(u)
      <4>1. pc[j] # "idle"
        BY <3>1 DEF Process, CreateOp, MarkStarted, MarkStartedAgain, Fetch, Save,
           MarkSynced, Verify, MarkUnsynced, CompleteOp, MarkSyncedAgain, FailOp,
           MarkUnsyncedAgain, Publish, Ack
      <4>2. job[j].state # "free"
        BY <4>1 DEF CallsAreHeld
      <4>3. \A i \in JobIds : i # j => job'[i] = job[i]
        BY <3>1 DEF TypeOK, Process, CreateOp, MarkStarted, MarkStartedAgain, Fetch, Save,
           MarkSynced, Verify, MarkUnsynced, CompleteOp, MarkSyncedAgain, FailOp,
           MarkUnsyncedAgain, Publish, Ack
      <4>4. QED
        BY <4>2, <4>3
    <3>2. ASSUME NEW j \in JobIds, Stalled(j) \/ \E w \in Workers : Pick(w, j) PROVE NoJob(u)
      <4>1. job[j].state # "free"
        BY <3>2 DEF Stalled, Pick, CallsAreHeld
      <4>2. \A i \in JobIds : i # j => job'[i] = job[i]
        BY <3>2 DEF Stalled, Pick, TypeOK
      <4>3. QED
        BY <4>1, <4>2
    <3>3. CASE job' = job
      BY <3>3
    <3> HIDE DEF NoJob
    <3>4. CASE Worker
      BY <3>1, <3>2, <3>4 DEF Worker
    <3>5. QED
      BY <2>4, <3>3, <3>4, ZenonT(60)
         DEF PipelineNext, Scheduler, SelectMain, SelectStale, ReadActive, Reload, ReloadUsers, SkipReload,
             CrashScheduler, Crash, RestartScheduler, Restart, Tick, CoolDown, pipeVars, vars
  <2>5. QED
    BY <2>2, <2>3, <2>4
<1>2. PipelineInv /\ [PipelineNext]_pipeVars => [Stays]_pipeVars
  BY <1>1
<1>3. QED
  BY <1>2, PipelineInvHolds, PTL DEF PipelineSpec, OrphanSilences
==============================================================================
