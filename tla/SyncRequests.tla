---------------------------- MODULE SyncRequests ----------------------------
(***************************************************************************)
(* What a sync on demand promises who triggers it: a call is turned away   *)
(* or admitted, and keeps the one answer it is given.  Of a call turned    *)
(* away no job ever comes; of an admitted one a single job may come, which *)
(* success must wait for.  Failure promises nothing: the job may be queued *)
(* already, or still come.                                                 *)
(***************************************************************************)
EXTENDS Naturals

CONSTANTS Calls

VARIABLES
    told,       \* what each caller knows
    queued      \* how often each call's job was queued

RequestsInit ==
    /\ told = [c \in Calls |-> "nothing"]
    /\ queued = [c \in Calls |-> 0]

\* The duplicate check and the rate limit decide once.
Admit(c) ==
    /\ told[c] = "nothing"
    /\ told' \in {[told EXCEPT ![c] = answer] : answer \in {"admitted", "busy", "limited"}}
    /\ UNCHANGED queued

Queue(c) ==
    /\ told[c] \in {"admitted", "failed"} /\ queued[c] = 0
    /\ queued' = [queued EXCEPT ![c] = 1]
    /\ UNCHANGED told

Report(c) ==
    /\ told[c] = "admitted"
    /\ \/ queued[c] = 1 /\ told' = [told EXCEPT ![c] = "success"]
       \/ told' = [told EXCEPT ![c] = "failed"]
    /\ UNCHANGED queued

RequestsNext == \E c \in Calls : Admit(c) \/ Queue(c) \/ Report(c)

RequestsSpec == RequestsInit /\ [][RequestsNext]_<<told, queued>>
=============================================================================
