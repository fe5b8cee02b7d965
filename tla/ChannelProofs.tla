--------------------------- MODULE ChannelProofs ---------------------------
(***************************************************************************)
(* A sync on demand queues one job at most, and reports success only if it *)
(* did, for any number of users, calls and workers, and whether or not the *)
(* core and the worker name their lists alike.                             *)
(*                                                                         *)
(* Everything that can say "queued" is followed back to the job: the       *)
(* result of a call, the answers in Redis under either prefix, and what a  *)
(* worker's poll loop is about to answer.  Every request on its way is one *)
(* that was admitted, so that the channel implements SyncRequests.         *)
(*                                                                         *)
(* The last part is about what the syncs of one wallet leave in the table  *)
(* of holdings, for any number of syncs and assets.                        *)
(***************************************************************************)
EXTENDS SyncChannel, Holdings, FiniteSetTheorems, TLAPS

EndedCalls == {c \in Calls : call[c].at = "end"}

\* A call is counted once at most, when it ends.
CountsEnds == \A u \in Users : limit[u].count <= Cardinality(EndedCalls)

\* A loop that has taken a request is about to add or to answer it, and one that
\* polls has errors to spare.
PollersAgree ==
    \A w \in Workers :
        /\ poller[w].at = "poll" => poller[w].errors < MaxErrors
        /\ poller[w].at \in {"add", "answer"} => poller[w].req \in Calls
        /\ poller[w].at = "answer" /\ poller[w].outcome = "queued" => jobs[poller[w].req] = 1

\* Who says that a request was queued.
Says(p, c) == \E i \in 1..Len(answers[p][c]) : answers[p][c][i] = "queued"
QueuedIsTrue == \A c \in Calls, p \in Prefixes : Says(p, c) => jobs[c] = 1

\* A call says nothing before it ends.
OpenCalls == \A c \in Calls : call[c].at # "end" => call[c].result = "none"

ChannelInv == /\ ChannelTypeOK /\ CountsEnds /\ PollersAgree /\ QueuedIsTrue /\ OpenCalls
              /\ SuccessIsOneJob

------------------------------------------------------------------------------
(* Counting the calls that have ended                                      *)

LEMMA EndsAreFinite ==
    /\ IsFiniteSet(EndedCalls) /\ Cardinality(EndedCalls) \in 0..Cardinality(Calls)
    /\ Cardinality(Calls) \in Nat
<1>1. IsFiniteSet(Calls) /\ EndedCalls \subseteq Calls
  BY ChannelAssumption DEF EndedCalls
<1>2. IsFiniteSet(EndedCalls) /\ Cardinality(EndedCalls) <= Cardinality(Calls)
  BY <1>1, FS_Subset
<1>3. Cardinality(EndedCalls) \in Nat /\ Cardinality(Calls) \in Nat
  BY <1>1, <1>2, FS_CardinalityType
<1>4. QED
  BY <1>2, <1>3

\* A step of a call that has not ended: it ends, or the ended ones stay the same.
LEMMA EndsGrow ==
    ASSUME ChannelTypeOK, NEW c \in Calls, call[c].at # "end",
           NEW r, call' = [call EXCEPT ![c] = r]
    PROVE  /\ r.at = "end" => Cardinality(EndedCalls') = Cardinality(EndedCalls) + 1
           /\ r.at # "end" => Cardinality(EndedCalls') = Cardinality(EndedCalls)
           /\ Cardinality(EndedCalls') <= Cardinality(Calls)
<1>1. \A d \in Calls : call'[d] = IF d = c THEN r ELSE call[d]
  BY DEF ChannelTypeOK
<1>2. ASSUME r.at = "end" PROVE Cardinality(EndedCalls') = Cardinality(EndedCalls) + 1
  <2>1. EndedCalls' = EndedCalls \cup {c} /\ c \notin EndedCalls
    BY <1>1, <1>2 DEF EndedCalls
  <2>2. Cardinality(EndedCalls \cup {c}) = Cardinality(EndedCalls) + 1
    BY <2>1, EndsAreFinite, FS_AddElement
  <2>3. QED
    BY <2>1, <2>2
<1>3. ASSUME r.at # "end" PROVE Cardinality(EndedCalls') = Cardinality(EndedCalls)
  <2>1. EndedCalls' = EndedCalls
    BY <1>1, <1>3 DEF EndedCalls
  <2>2. QED
    BY <2>1
<1>4. Cardinality(EndedCalls') <= Cardinality(Calls)
  <2>1. IsFiniteSet(Calls) /\ EndedCalls' \subseteq Calls
    BY ChannelAssumption DEF EndedCalls
  <2>2. QED
    BY <2>1, FS_Subset
<1>5. QED
  BY <1>2, <1>3, <1>4

\* An entry of the rate limit, counted or cleared.
Entry == [count : 0 .. Cardinality(Calls), over : BOOLEAN]

LEMMA ClearedFacts ==
    ASSUME ChannelTypeOK, CountsEnds, NEW u \in Users
    PROVE  /\ Cleared(u) \in [Users -> Entry]
           /\ \A v \in Users : Cleared(u)[v].count <= Cardinality(EndedCalls)
BY EndsAreFinite DEF Cleared, Entry, CountsEnds, ChannelTypeOK

\* A call that ends is one more to be counted.
LEMMA CountedFacts ==
    ASSUME ChannelTypeOK, CountsEnds, NEW c \in Calls, Counted(c),
           Cardinality(EndedCalls) + 1 <= Cardinality(Calls)
    PROVE  /\ limit' \in [Users -> Entry]
           /\ \A u \in Users : limit'[u].count <= Cardinality(EndedCalls) + 1
<1> DEFINE u == call[c].user
<1>1. u \in Users /\ limit \in [Users -> Entry]
  BY DEF ChannelTypeOK, Call, Entry
<1>2. 0 \in 0..Cardinality(Calls) /\ Cardinality(EndedCalls) \in Nat /\ Cardinality(Calls) \in Nat
  BY EndsAreFinite
<1>3. /\ Cleared(u) \in [Users -> Entry]
      /\ \A v \in Users : Cleared(u)[v].count <= Cardinality(EndedCalls)
  BY <1>1, ClearedFacts
<1> DEFINE l == Cleared(u)
           e == [l[u] EXCEPT !.count = @ + 1]
<1>4. Counted(c) => limit' = limit \/ limit' = [l EXCEPT ![u] = e]
  BY DEF Counted
<1> HIDE DEF l, u
<1>5. l[u] \in Entry /\ l[u].count <= Cardinality(EndedCalls)
  BY <1>1, <1>3 DEF l
<1>6. e \in Entry /\ e.count <= Cardinality(EndedCalls) + 1
  BY <1>2, <1>5 DEF Entry
<1> HIDE DEF e
<1>7. CASE limit' = limit
  BY <1>1, <1>2, <1>7 DEF CountsEnds, Entry
<1>8. CASE limit' = [l EXCEPT ![u] = e]
  <2>1. \A v \in Users : limit'[v] = IF v = u THEN e ELSE l[v]
    BY <1>3, <1>8 DEF l
  <2>2. \A v \in Users : l[v].count \in Nat
    BY <1>2, <1>3 DEF l, Entry
  <2>3. QED
    BY <1>1, <1>2, <1>3, <1>6, <1>8, <2>1, <2>2 DEF l
<1>9. QED
  BY <1>4, <1>7, <1>8

------------------------------------------------------------------------------
(* The core                                                                *)

\* A step of the core adds no job and no answer, and leaves the workers alone.
CoreLeaves ==
    /\ UNCHANGED <<jobs, poller>>
    /\ answers' \in [Prefixes -> [Calls -> Seq(Outcomes)]]
    /\ \A p \in Prefixes, c \in Calls : Says(p, c)' => Says(p, c)

\* A step of a call goes on, or ends it; success was said by an answer.
LEMMA CoreStep ==
    ASSUME ChannelInv, NEW c \in Calls, call[c].at # "end",
           NEW r \in Call, call' = [call EXCEPT ![c] = r],
           CoreLeaves, polls' \subseteq Calls, inbox' \in [Prefixes -> Seq(Calls)],
           faults' \in 0..MaxFaults, restarts' = restarts,
           \/ limit' \in {limit, Cleared(call[c].user)}
           \/ r.at = "end" /\ Counted(c),
           r.result = "success" => \E p \in Prefixes : Says(p, c),
           r.at # "end" => r.result = "none"
    PROVE  ChannelInv'
<1>1. ChannelTypeOK /\ CountsEnds /\ PollersAgree /\ QueuedIsTrue /\ OpenCalls
      /\ SuccessIsOneJob
  BY DEF ChannelInv
<1>2. call' \in [Calls -> Call] /\ \A d \in Calls : call'[d] = IF d = c THEN r ELSE call[d]
  BY <1>1 DEF ChannelTypeOK
<1>3. /\ r.at = "end" => Cardinality(EndedCalls') = Cardinality(EndedCalls) + 1
      /\ r.at # "end" => Cardinality(EndedCalls') = Cardinality(EndedCalls)
      /\ Cardinality(EndedCalls') <= Cardinality(Calls)
      /\ Cardinality(EndedCalls) \in Nat /\ Cardinality(Calls) \in Nat
  <2>1. Cardinality(EndedCalls) \in Nat /\ Cardinality(Calls) \in Nat
    BY EndsAreFinite
  <2>2. /\ r.at = "end" => Cardinality(EndedCalls') = Cardinality(EndedCalls) + 1
        /\ r.at # "end" => Cardinality(EndedCalls') = Cardinality(EndedCalls)
        /\ Cardinality(EndedCalls') <= Cardinality(Calls)
    BY <1>1, EndsGrow
  <2>3. QED
    BY <2>1, <2>2
<1>4. limit' \in [Users -> Entry] /\ \A u \in Users : limit'[u].count <= Cardinality(EndedCalls')
  <2>1. CASE limit' \in {limit, Cleared(call[c].user)}
    <3>1. call[c].user \in Users
      BY <1>1 DEF ChannelTypeOK, Call
    <3>2. limit \in [Users -> Entry] /\ \A u \in Users : limit[u].count <= Cardinality(EndedCalls)
      BY <1>1 DEF ChannelTypeOK, CountsEnds, Entry
    <3>3. limit' \in [Users -> Entry] /\ \A u \in Users : limit'[u].count <= Cardinality(EndedCalls)
      BY <1>1, <2>1, <3>1, <3>2, ClearedFacts
    <3>4. \A u \in Users : limit'[u].count \in Nat
      BY <1>3, <3>3 DEF Entry
    <3>5. QED
      BY <1>3, <3>3, <3>4
  <2>2. CASE r.at = "end" /\ Counted(c)
    BY <1>1, <1>3, <2>2, CountedFacts
  <2>3. QED
    BY <2>1, <2>2
<1>5. ChannelTypeOK'
  BY <1>1, <1>2, <1>4 DEF ChannelTypeOK, CoreLeaves, Entry
<1>6. PollersAgree' /\ QueuedIsTrue'
  BY <1>1 DEF PollersAgree, QueuedIsTrue, CoreLeaves
<1>7. SuccessIsOneJob'
  BY <1>1, <1>2 DEF SuccessIsOneJob, QueuedIsTrue, CoreLeaves
<1>8. CountsEnds' /\ OpenCalls'
  BY <1>1, <1>2, <1>4 DEF CountsEnds, OpenCalls
<1>9. QED
  BY <1>5, <1>6, <1>7, <1>8 DEF ChannelInv

\* Where the call goes on to, or ends, without success.
LEMMA PlainStep ==
    ASSUME ChannelInv, NEW c \in Calls, call[c].at # "end",
           \/ \E at \in {"check", "ensure", "push", "wait"} : Await(c, at)
           \/ \E result \in {"failed", "busy", "limited"} : End(c, result),
           UNCHANGED <<answers, jobs, poller, restarts>>, polls' \subseteq Calls,
           inbox' \in [Prefixes -> Seq(Calls)], faults' \in 0..MaxFaults,
           \/ limit' \in {limit, Cleared(call[c].user)}
           \/ End(c, "failed") /\ Counted(c)
    PROVE  ChannelInv'
<1>1. call \in [Calls -> Call] /\ call[c] \in Call /\ call[c].result = "none"
  BY DEF ChannelInv, ChannelTypeOK, OpenCalls
<1>2. CoreLeaves
  BY DEF CoreLeaves, Says, ChannelInv, ChannelTypeOK
<1>3. CASE \E at \in {"check", "ensure", "push", "wait"} : Await(c, at)
  <2>1. PICK at \in {"check", "ensure", "push", "wait"} : Await(c, at)
    BY <1>3
  <2> DEFINE r == [call[c] EXCEPT !.at = at]
  <2>2. r \in Call /\ call' = [call EXCEPT ![c] = r] /\ r.at = at /\ r.result = call[c].result
    BY <1>1, <2>1 DEF Await, Call
  <2>3. ~End(c, "failed")
    <3>1. call'[c].at = at
      BY <1>1, <2>2
    <3>2. End(c, "failed") => call'[c].at = "end"
      BY <1>1 DEF End, Call
    <3>3. QED
      BY <2>1, <3>1, <3>2
  <2> HIDE DEF r
  <2>4. QED
    BY <1>1, <1>2, <2>1, <2>2, <2>3, CoreStep
<1>4. CASE \E result \in {"failed", "busy", "limited"} : End(c, result)
  <2>1. PICK result \in {"failed", "busy", "limited"} : End(c, result)
    BY <1>4
  <2> DEFINE r == [call[c] EXCEPT !.at = "end", !.result = result]
  <2>2. r \in Call /\ call' = [call EXCEPT ![c] = r] /\ r.at = "end" /\ r.result = result
    BY <1>1, <2>1 DEF End, Call
  <2> HIDE DEF r
  <2>3. QED
    BY <1>2, <2>1, <2>2, CoreStep
<1>5. QED
  BY <1>3, <1>4

LEMMA CallFacts ==
    ASSUME ChannelInv, NEW c \in Calls
    PROVE  /\ call[c] \in Call /\ call[c].user \in Users
           /\ faults \in 0..MaxFaults /\ polls \subseteq Calls
           /\ inbox \in [Prefixes -> Seq(Calls)]
           /\ answers \in [Prefixes -> [Calls -> Seq(Outcomes)]]
           /\ Fault => faults' \in 0..MaxFaults
BY ChannelAssumption DEF ChannelInv, ChannelTypeOK, Call, Fault

LEMMA TriggerInv == ASSUME ChannelInv, NEW c \in Calls, Trigger(c) PROVE ChannelInv'
BY PlainStep, CallFacts DEF Trigger

LEMMA EnsureInv == ASSUME ChannelInv, NEW c \in Calls, Ensure(c) PROVE ChannelInv'
BY PlainStep, CallFacts DEF Ensure

LEMMA TimeoutInv == ASSUME ChannelInv, NEW c \in Calls, Timeout(c) PROVE ChannelInv'
BY PlainStep, CallFacts DEF Timeout

LEMMA CheckInv == ASSUME ChannelInv, NEW c \in Calls, Check(c) PROVE ChannelInv'
<1>1. /\ call[c].at # "end" /\ UNCHANGED <<polls, inbox, answers, jobs, poller, faults, restarts>>
      /\ limit' \in {limit, Cleared(call[c].user)}
  BY DEF Check
<1>2. \/ \E at \in {"check", "ensure", "push", "wait"} : Await(c, at)
      \/ \E result \in {"failed", "busy", "limited"} : End(c, result)
  BY DEF Check
<1>3. QED
  BY <1>1, <1>2, PlainStep, CallFacts

LEMMA PushInv == ASSUME ChannelInv, NEW c \in Calls, Push(c) PROVE ChannelInv'
<1>1. call[c].at # "end" /\ UNCHANGED <<answers, jobs, poller, restarts>>
  BY DEF Push
<1>2. /\ \/ Await(c, "wait") /\ limit' = limit
         \/ End(c, "failed") /\ Counted(c)
      /\ polls' \subseteq Calls /\ faults' \in 0..MaxFaults
  BY CallFacts DEF Push
<1>3. inbox' \in [Prefixes -> Seq(Calls)]
  <2>1. inbox[CorePrefix] \in Seq(Calls) /\ inbox \in [Prefixes -> Seq(Calls)]
    BY CallFacts DEF Prefixes
  <2>2. /\ Append(inbox[CorePrefix], c) \in Seq(Calls) /\ <<c, c>> \in Seq(Calls)
        /\ inbox[CorePrefix] \o <<c, c>> \in Seq(Calls)
    BY <2>1
  <2>3. QED
    BY <2>1, <2>2 DEF Push
<1>4. QED
  BY <1>1, <1>2, <1>3, PlainStep

\* The poll loop of a call that has ended: nobody listens to what it finds.
LEMMA RestingStep ==
    ASSUME ChannelInv, CoreLeaves, UNCHANGED <<call, inbox, restarts>>,
           faults' \in 0..MaxFaults, polls' \subseteq Calls,
           limit' \in [Users -> Entry],
           \A u \in Users : limit'[u].count <= Cardinality(EndedCalls)
    PROVE  ChannelInv'
<1>1. ChannelTypeOK'
  BY DEF ChannelInv, ChannelTypeOK, CoreLeaves, Entry
<1>2. CountsEnds' /\ OpenCalls' /\ SuccessIsOneJob'
  BY DEF ChannelInv, CountsEnds, EndedCalls, OpenCalls, SuccessIsOneJob, CoreLeaves
<1>3. PollersAgree' /\ QueuedIsTrue'
  BY DEF ChannelInv, PollersAgree, QueuedIsTrue, CoreLeaves
<1>4. QED
  BY <1>1, <1>2, <1>3 DEF ChannelInv

LEMMA LimitFacts ==
    ASSUME ChannelInv
    PROVE  limit \in [Users -> Entry] /\ \A u \in Users : limit[u].count <= Cardinality(EndedCalls)
BY DEF ChannelInv, ChannelTypeOK, CountsEnds, Entry

LEMMA PollFailsInv == ASSUME ChannelInv, NEW c \in Calls, PollFails(c) PROVE ChannelInv'
<1>1. CASE call[c].at = "wait"
  BY <1>1, PlainStep, CallFacts DEF PollFails, Return
<1>2. CASE call[c].at # "wait"
  <2>1. CoreLeaves
    BY CallFacts DEF PollFails, CoreLeaves, Says
  <2>2. QED
    BY <1>2, <2>1, RestingStep, LimitFacts, CallFacts DEF PollFails, Return
<1>3. QED
  BY <1>1, <1>2

\* Success is what an answer in Redis said.
LEMMA ReceiveInv == ASSUME ChannelInv, NEW c \in Calls, Receive(c) PROVE ChannelInv'
<1> DEFINE list == answers[CorePrefix][c]
<1>1. list \in Seq(Outcomes) /\ list # << >> /\ CorePrefix \in Prefixes
  BY CallFacts DEF Receive, Prefixes
<1>2. /\ Tail(list) \in Seq(Outcomes) /\ Head(list) \in Outcomes /\ Head(list) = list[1]
      /\ Len(Tail(list)) = Len(list) - 1 /\ Len(list) \in Nat \ {0}
      /\ \A i \in 1..Len(Tail(list)) : Tail(list)[i] = list[i + 1]
  BY <1>1
<1>3. /\ answers' = [answers EXCEPT ![CorePrefix] = [@ EXCEPT ![c] = Tail(list)]]
      /\ UNCHANGED <<inbox, jobs, poller, faults, restarts>> /\ polls' \subseteq Calls
      /\ Return(c, Head(list))
  BY CallFacts DEF Receive
<1> DEFINE rest == Tail(list)
<1> HIDE DEF list
<1>4. /\ answers' \in [Prefixes -> [Calls -> Seq(Outcomes)]]
      /\ \A p \in Prefixes, d \in Calls :
            answers'[p][d] = IF p = CorePrefix /\ d = c THEN rest ELSE answers[p][d]
  BY <1>1, <1>2, <1>3, CallFacts
<1>5. \A i \in 1..Len(rest) : rest[i] = list[i + 1] /\ i + 1 \in 1..Len(list)
  BY <1>2
<1> HIDE DEF rest
<1>6. CoreLeaves
  <2>1. ASSUME NEW p \in Prefixes, NEW d \in Calls, Says(p, d)' PROVE Says(p, d)
    <3>1. CASE p = CorePrefix /\ d = c
      BY <1>4, <1>5, <2>1, <3>1 DEF Says, list
    <3>2. CASE ~(p = CorePrefix /\ d = c)
      BY <1>4, <2>1, <3>2 DEF Says
    <3>3. QED
      BY <3>1, <3>2
  <2>2. QED
    BY <1>3, <1>4, <2>1 DEF CoreLeaves
<1>7. CASE call[c].at = "wait"
  <2> DEFINE result == IF Head(list) = "failed" THEN "failed" ELSE "success"
             r == [call[c] EXCEPT !.at = "end", !.result = result]
  <2>1. call' = [call EXCEPT ![c] = r] /\ Counted(c)
    BY <1>3, <1>7 DEF Return, End
  <2>2. result \in {"failed", "success"} /\ (result = "success" => Says(CorePrefix, c))
    BY <1>2 DEF Says, list, Outcomes
  <2> HIDE DEF result
  <2>3. r \in Call /\ r.at = "end" /\ r.result = result
    BY <2>2, CallFacts DEF Call
  <2> HIDE DEF r
  <2>4. QED
    BY <1>1, <1>3, <1>6, <1>7, <2>1, <2>2, <2>3, CoreStep, CallFacts
<1>8. CASE call[c].at # "wait"
  BY <1>3, <1>6, <1>8, RestingStep, LimitFacts, CallFacts DEF Return
<1>9. QED
  BY <1>7, <1>8

------------------------------------------------------------------------------
(* The worker, and the clock                                               *)

Poller == [at : {"poll", "add", "answer", "off"}, req : Calls \cup {None}, outcome : Outcomes,
           errors : 0 .. MaxErrors]

PollerAgrees(p, queued) ==
    /\ p.at = "poll" => p.errors < MaxErrors
    /\ p.at \in {"add", "answer"} => p.req \in Calls
    /\ p.at = "answer" /\ p.outcome = "queued" => queued[p.req] = 1

\* A step of one worker leaves the calls alone; a job that is there stays.
LEMMA WorkerStep ==
    ASSUME ChannelInv, NEW w \in Workers, NEW p \in Poller, poller' = [poller EXCEPT ![w] = p],
           UNCHANGED <<call, polls, limit>>, faults' \in 0..MaxFaults, restarts' \in 0..MaxRestarts,
           inbox' \in [Prefixes -> Seq(Calls)],
           answers' \in [Prefixes -> [Calls -> Seq(Outcomes)]],
           jobs' \in [Calls -> Nat],
           \A c \in Calls : jobs'[c] \in {jobs[c], 1},
           PollerAgrees(p, jobs'),
           \A q \in Prefixes, c \in Calls : Says(q, c)' => Says(q, c) \/ jobs'[c] = 1
    PROVE  ChannelInv'
<1>1. ChannelTypeOK /\ CountsEnds /\ PollersAgree /\ QueuedIsTrue /\ OpenCalls /\ SuccessIsOneJob
  BY DEF ChannelInv
<1>2. \A v \in Workers : poller'[v] = IF v = w THEN p ELSE poller[v]
  BY <1>1 DEF ChannelTypeOK
<1>3. poller' \in [Workers -> Poller]
  BY <1>1 DEF ChannelTypeOK, Poller
<1>4. ChannelTypeOK'
  BY <1>1, <1>3 DEF ChannelTypeOK, Poller
<1>5. CountsEnds' /\ OpenCalls'
  BY <1>1 DEF CountsEnds, EndedCalls, OpenCalls
<1>6. SuccessIsOneJob' /\ QueuedIsTrue'
  <2>1. \A c \in Calls : jobs[c] = 1 => jobs'[c] = 1
    OBVIOUS
  <2>2. \A c \in Calls : jobs'[c] <= 1 /\ (call'[c].result = "success" => jobs'[c] = 1)
    <3> SUFFICES ASSUME NEW c \in Calls
                 PROVE  jobs'[c] <= 1 /\ (call'[c].result = "success" => jobs'[c] = 1)
      OBVIOUS
    <3>1. jobs[c] <= 1 /\ (call[c].result = "success" => jobs[c] = 1) /\ call' = call
      BY <1>1 DEF SuccessIsOneJob
    <3>2. jobs'[c] = jobs[c] \/ jobs'[c] = 1
      OBVIOUS
    <3>3. QED
      BY <3>1, <3>2
  <2>3. \A c \in Calls, q \in Prefixes : Says(q, c)' => jobs'[c] = 1
    BY <1>1, <2>1 DEF QueuedIsTrue
  <2>4. QED
    BY <2>2, <2>3 DEF SuccessIsOneJob, QueuedIsTrue
<1>7. PollersAgree'
  <2> SUFFICES ASSUME NEW v \in Workers
               PROVE  PollerAgrees(poller'[v], jobs')
    BY DEF PollersAgree, PollerAgrees
  <2>1. CASE v = w
    BY <1>2, <2>1
  <2>2. CASE v # w
    <3> DEFINE q == poller[v]
    <3>1. PollerAgrees(q, jobs)
      BY <1>1 DEF PollersAgree, PollerAgrees
    <3>2. \A c \in Calls : jobs[c] = 1 => jobs'[c] = 1
      OBVIOUS
    <3> HIDE DEF q
    <3>3. PollerAgrees(q, jobs')
      BY <3>1, <3>2 DEF PollerAgrees
    <3>4. QED
      BY <1>2, <2>2, <3>3 DEF q
  <2>3. QED
    BY <2>1, <2>2
<1>8. QED
  BY <1>4, <1>5, <1>6, <1>7 DEF ChannelInv

LEMMA WorkerFacts ==
    ASSUME ChannelInv, NEW w \in Workers
    PROVE  /\ poller[w] \in Poller /\ PollerAgrees(poller[w], jobs)
           /\ faults \in 0..MaxFaults /\ restarts \in 0..MaxRestarts
           /\ jobs \in [Calls -> Nat] /\ inbox \in [Prefixes -> Seq(Calls)]
           /\ answers \in [Prefixes -> [Calls -> Seq(Outcomes)]]
           /\ Fault => faults' \in 0..MaxFaults
BY ChannelAssumption
   DEF ChannelInv, ChannelTypeOK, Poller, PollersAgree, PollerAgrees, Fault

LEMMA FreshAgrees == Fresh \in Poller /\ \A queued : PollerAgrees(Fresh, queued)
BY ChannelAssumption DEF Fresh, Poller, PollerAgrees, Outcomes

LEMMA TakeInv == ASSUME ChannelInv, NEW w \in Workers, Take(w) PROVE ChannelInv'
<1> DEFINE list == inbox[WorkerPrefix]
           p == [poller[w] EXCEPT !.at = "add", !.req = Head(list)]
<1>1. /\ poller' = [poller EXCEPT ![w] = p] /\ inbox' = [inbox EXCEPT ![WorkerPrefix] = Tail(list)]
      /\ list # << >> /\ UNCHANGED <<call, polls, limit, answers, jobs, faults, restarts>>
  BY DEF Take
<1>2. list \in Seq(Calls)
  BY WorkerFacts DEF Prefixes
<1>3. Head(list) \in Calls /\ Tail(list) \in Seq(Calls)
  BY <1>1, <1>2
<1> HIDE DEF list
<1>4. p \in Poller /\ p.at = "add" /\ p.req \in Calls
  BY <1>3, WorkerFacts DEF Poller
<1> HIDE DEF p
<1>5. inbox' \in [Prefixes -> Seq(Calls)]
  BY <1>1, <1>3, WorkerFacts
<1>6. PollerAgrees(p, jobs')
  BY <1>4 DEF PollerAgrees
<1>7. \A q \in Prefixes, c \in Calls : Says(q, c)' => Says(q, c)
  BY <1>1 DEF Says
<1>8. QED
  BY <1>1, <1>4, <1>5, <1>6, <1>7, WorkerStep, WorkerFacts

LEMMA PollInv ==
    ASSUME ChannelInv, NEW w \in Workers, PollEmpty(w) \/ PollError(w)
    PROVE  ChannelInv'
<1>1. /\ poller[w].at = "poll" /\ UNCHANGED <<call, polls, limit, inbox, answers, jobs, restarts>>
      /\ faults' \in 0..MaxFaults
  BY WorkerFacts DEF PollEmpty, PollError
<1>2. poller[w].errors \in 0..MaxErrors /\ poller[w].errors < MaxErrors /\ MaxErrors \in Nat \ {0}
  BY <1>1, ChannelAssumption, WorkerFacts DEF PollerAgrees, Poller
<1>3. PICK p \in Poller : poller' = [poller EXCEPT ![w] = p] /\ PollerAgrees(p, jobs)
  <2>1. CASE PollEmpty(w)
    <3> DEFINE p == [poller[w] EXCEPT !.errors = 0]
    <3>1. poller[w] \in Poller /\ poller' = [poller EXCEPT ![w] = p]
      BY <2>1, WorkerFacts DEF PollEmpty
    <3>2. p \in Poller /\ p.at = "poll" /\ p.errors = 0
      BY <1>1, <1>2, <3>1 DEF Poller
    <3> HIDE DEF p
    <3>3. PollerAgrees(p, jobs)
      BY <1>2, <3>2 DEF PollerAgrees
    <3>4. QED
      BY <3>1, <3>2, <3>3
  <2>2. CASE PollError(w)
    <3> DEFINE n == poller[w].errors + 1
               at == IF n >= MaxErrors THEN "off" ELSE "poll"
               p == [poller[w] EXCEPT !.errors = n, !.at = at]
    <3>1. n \in 0..MaxErrors /\ at \in {"off", "poll"} /\ (at = "poll" => n < MaxErrors)
      BY <1>2
    <3>2. poller' = [poller EXCEPT ![w] = p]
      BY <2>2 DEF PollError
    <3> HIDE DEF n, at
    <3>3. p \in Poller /\ p.at = at /\ p.errors = n
      BY <3>1, WorkerFacts DEF Poller
    <3> HIDE DEF p
    <3>4. PollerAgrees(p, jobs)
      BY <3>1, <3>3 DEF PollerAgrees
    <3>5. QED
      BY <3>2, <3>3, <3>4
  <2>3. QED
    BY <2>1, <2>2
<1>4. \A q \in Prefixes, c \in Calls : Says(q, c)' => Says(q, c)
  BY <1>1 DEF Says
<1>5. QED
  BY <1>1, <1>3, <1>4, WorkerStep, WorkerFacts

\* BullMQ knows a job by its id: adding it again changes nothing.
LEMMA AddInv == ASSUME ChannelInv, NEW w \in Workers, Add(w) PROVE ChannelInv'
<1> DEFINE r == poller[w].req
<1>1. /\ r \in Calls /\ UNCHANGED <<call, polls, limit, inbox, answers, restarts>>
      /\ faults' \in 0..MaxFaults
  BY WorkerFacts DEF Add, PollerAgrees
<1>2. jobs' \in [Calls -> Nat] /\ \A c \in Calls : jobs'[c] \in {jobs[c], 1}
  <2>1. JobAdded(r) \/ jobs' = jobs
    BY Zenon DEF Add
  <2>2. jobs \in [Calls -> Nat]
    BY WorkerFacts
  <2>3. QED
    BY <1>1, <2>1, <2>2 DEF JobAdded
<1>3. PICK o \in Outcomes : /\ poller' = [poller EXCEPT ![w] = [@ EXCEPT !.at = "answer", !.outcome = o]]
                            /\ o = "queued" => JobAdded(r)
  BY DEF Add, Outcomes
<1>4. JobAdded(r) => jobs'[r] = 1
  BY <1>1, WorkerFacts DEF JobAdded
<1> DEFINE p == [poller[w] EXCEPT !.at = "answer", !.outcome = o]
<1>5. p \in Poller /\ p.at = "answer" /\ p.outcome = o /\ p.req = r
  BY WorkerFacts DEF Poller
<1>6. poller' = [poller EXCEPT ![w] = p]
  BY <1>3
<1> HIDE DEF p, r
<1>7. PollerAgrees(p, jobs')
  BY <1>1, <1>3, <1>4, <1>5 DEF PollerAgrees
<1>8. \A q \in Prefixes, c \in Calls : Says(q, c)' => Says(q, c)
  BY <1>1 DEF Says
<1>9. QED
  BY <1>1, <1>2, <1>5, <1>6, <1>7, <1>8, WorkerStep, WorkerFacts

\* The answer says what the loop found.
LEMMA AnswerInv == ASSUME ChannelInv, NEW w \in Workers, Answer(w) PROVE ChannelInv'
<1> DEFINE r == poller[w].req
           o == poller[w].outcome
           list == answers[WorkerPrefix][r]
<1>1. /\ r \in Calls /\ o \in Outcomes /\ (o = "queued" => jobs[r] = 1)
      /\ UNCHANGED <<call, polls, limit, inbox, jobs, restarts>>
      /\ faults' \in 0..MaxFaults /\ poller' = [poller EXCEPT ![w] = Fresh]
  BY WorkerFacts DEF Answer, PollerAgrees, Poller
<1>2. \/ answers' = answers
      \/ answers' = [answers EXCEPT ![WorkerPrefix] = [@ EXCEPT ![r] = Append(list, o)]]
  BY DEF Answer
<1>3. list \in Seq(Outcomes)
  BY <1>1, WorkerFacts DEF Prefixes
<1> DEFINE longer == Append(list, o)
<1> HIDE DEF o, r, list
<1>4. /\ longer \in Seq(Outcomes) /\ Len(list) \in Nat /\ Len(longer) = Len(list) + 1
      /\ \A i \in 1..Len(list) : longer[i] = list[i]
      /\ longer[Len(list) + 1] = o
  BY <1>1, <1>3
<1>5. \A i \in 1..Len(longer) : longer[i] = o \/ (i \in 1..Len(list) /\ longer[i] = list[i])
  BY <1>4
<1> HIDE DEF longer
<1>6. CASE answers' = answers
  <2>1. \A q \in Prefixes, c \in Calls : Says(q, c)' => Says(q, c)
    BY <1>6 DEF Says
  <2>2. QED
    BY <1>1, <1>6, <2>1, FreshAgrees, WorkerStep, WorkerFacts
<1>7. CASE answers' = [answers EXCEPT ![WorkerPrefix] = [@ EXCEPT ![r] = longer]]
  <2>1. /\ answers' \in [Prefixes -> [Calls -> Seq(Outcomes)]]
        /\ \A q \in Prefixes, c \in Calls :
              answers'[q][c] = IF q = WorkerPrefix /\ c = r THEN longer ELSE answers[q][c]
    BY <1>1, <1>4, <1>7, WorkerFacts
  <2>2. ASSUME NEW q \in Prefixes, NEW c \in Calls, Says(q, c)'
        PROVE  Says(q, c) \/ jobs'[c] = 1
    <3>1. CASE q = WorkerPrefix /\ c = r
      BY <1>1, <1>5, <2>1, <2>2, <3>1, ZenonT(60) DEF Says, list
    <3>2. CASE ~(q = WorkerPrefix /\ c = r)
      BY <2>1, <2>2, <3>2 DEF Says
    <3>3. QED
      BY <3>1, <3>2
  <2>3. QED
    BY <1>1, <2>1, <2>2, FreshAgrees, WorkerStep, WorkerFacts
<1>8. QED
  BY <1>2, <1>6, <1>7 DEF longer

LEMMA RestartInv == ASSUME ChannelInv, NEW w \in Workers, RestartWorker(w) PROVE ChannelInv'
<1>1. /\ UNCHANGED <<call, polls, limit, inbox, answers, jobs, faults>>
      /\ restarts' \in 0..MaxRestarts /\ poller' = [poller EXCEPT ![w] = Fresh]
  BY ChannelAssumption, WorkerFacts DEF RestartWorker
<1>2. \A q \in Prefixes, c \in Calls : Says(q, c)' => Says(q, c)
  BY <1>1 DEF Says
<1>3. QED
  BY <1>1, <1>2, FreshAgrees, WorkerStep, WorkerFacts

LEMMA WindowInv == ASSUME ChannelInv, NEW u \in Users, WindowEnds(u) PROVE ChannelInv'
<1>1. limit' \in [Users -> Entry] /\ \A v \in Users : limit'[v].count <= Cardinality(EndedCalls)
  BY LimitFacts DEF WindowEnds, Entry
<1>2. UNCHANGED <<call, polls, inbox, answers, jobs, poller, faults, restarts>>
  BY DEF WindowEnds
<1>3. CoreLeaves
  BY <1>2 DEF CoreLeaves, Says, ChannelInv, ChannelTypeOK
<1>4. QED
  BY <1>1, <1>2, <1>3, RestingStep DEF ChannelInv, ChannelTypeOK

LEMMA ChannelInitInv == ASSUME Init PROVE ChannelInv
<1>1. 0 \in 0..Cardinality(Calls) /\ Cardinality(EndedCalls) \in Nat /\ << >> \in Seq(Calls)
      /\ << >> \in Seq(Outcomes)
  BY EndsAreFinite
<1>2. ChannelTypeOK
  BY <1>1, ChannelAssumption, FreshAgrees DEF Init, ChannelTypeOK, Call, Poller
<1>3. CountsEnds /\ OpenCalls /\ SuccessIsOneJob
  BY <1>1 DEF Init, CountsEnds, OpenCalls, SuccessIsOneJob
<1>4. PollersAgree
  BY FreshAgrees DEF Init, PollersAgree, PollerAgrees
<1>5. QueuedIsTrue
  BY DEF Init, QueuedIsTrue, Says
<1>6. QED
  BY <1>2, <1>3, <1>4, <1>5 DEF ChannelInv

LEMMA ChannelNextInv == ASSUME ChannelInv, [Next]_vars PROVE ChannelInv'
<1>1. CASE UNCHANGED vars
  BY <1>1 DEF vars, ChannelInv, ChannelTypeOK, CountsEnds, EndedCalls, PollersAgree, QueuedIsTrue,
              Says, OpenCalls, SuccessIsOneJob
<1>2. ASSUME NEW c \in Calls, Core(c) PROVE ChannelInv'
  BY <1>2, TriggerInv, CheckInv, EnsureInv, PushInv, ReceiveInv, PollFailsInv, TimeoutInv DEF Core
<1>3. ASSUME NEW w \in Workers, Listener(w) PROVE ChannelInv'
  BY <1>3, TakeInv, PollInv, AddInv, AnswerInv DEF Listener
<1>4. QED
  BY <1>1, <1>2, <1>3, RestartInv, WindowInv DEF Next

LEMMA ChannelInvHolds == Spec => []ChannelInv
<1>1. Init => ChannelInv
  BY ChannelInitInv
<1>2. ChannelInv /\ [Next]_vars => ChannelInv'
  BY ChannelNextInv
<1>3. QED
  BY <1>1, <1>2, PTL DEF Spec

\* Every list, entry, poll loop and call is what the code's types say; above all,
\* the rate limit counts no call twice.
THEOREM ChannelTypeCorrect == Spec => []ChannelTypeOK
<1>1. ChannelInv => ChannelTypeOK
  BY DEF ChannelInv
<1>2. QED
  BY <1>1, ChannelInvHolds, PTL

\* However requests and answers are sent twice, lost or late: a request's job is
\* queued once at most, and a call that reports success has its job.
THEOREM OneJobPerSuccess == Spec => []SuccessIsOneJob
<1>1. ChannelInv => SuccessIsOneJob
  BY DEF ChannelInv
<1>2. QED
  BY <1>1, ChannelInvHolds, PTL

------------------------------------------------------------------------------
(* The channel implements SyncRequests.  A request that is on its way, in a  *)
(* list or in a worker, is one of a call that was admitted, and so is every  *)
(* job.                                                                      *)

Telling == [c \in Calls |-> Told(c)]
AdmittedCalls == {c \in Calls : Told(c) \in {"admitted", "failed", "success"}}

Followed ==
    /\ inbox \in [Prefixes -> Seq(AdmittedCalls)]
    /\ \A w \in Workers : poller[w].at = "add" => poller[w].req \in AdmittedCalls

\* What a caller knows once its call has moved.
LEMMA CallTells ==
    ASSUME ChannelInv, NEW c \in Calls, NEW r \in Call, call' = [call EXCEPT ![c] = r]
    PROVE  /\ Told(c)' = IF r.result # "none" THEN r.result
                         ELSE IF r.at \in {"idle", "check"} THEN "nothing" ELSE "admitted"
           /\ \A d \in Calls : d # c => Told(d)' = Told(d)
           /\ Telling' = [Telling EXCEPT ![c] = Told(c)']
<1>1. \A d \in Calls : call'[d] = IF d = c THEN r ELSE call[d]
  BY DEF ChannelInv, ChannelTypeOK
<1>2. \A d \in Calls : d # c => Told(d)' = Told(d)
  BY <1>1 DEF Told
<1>3. Told(c)' = IF r.result # "none" THEN r.result
                 ELSE IF r.at \in {"idle", "check"} THEN "nothing" ELSE "admitted"
  BY <1>1 DEF Told
<1>4. Telling' = [Telling EXCEPT ![c] = Told(c)']
  BY <1>2 DEF Telling
<1>5. QED
  BY <1>2, <1>3, <1>4

\* An open call goes on to another await, or ends.
LEMMA AwaitTells ==
    ASSUME ChannelInv, NEW c \in Calls, call[c].at # "end",
           NEW at \in {"check", "ensure", "push", "wait"}, Await(c, at)
    PROVE  /\ Told(c)' = IF at = "check" THEN "nothing" ELSE "admitted"
           /\ \A d \in Calls : d # c => Told(d)' = Told(d)
           /\ Telling' = [Telling EXCEPT ![c] = Told(c)']
<1> DEFINE r == [call[c] EXCEPT !.at = at]
<1>1. call[c] \in Call /\ call[c].result = "none" /\ call' = [call EXCEPT ![c] = r]
  BY CallFacts DEF ChannelInv, OpenCalls, Await
<1>2. r \in Call /\ r.at = at /\ r.result = "none"
  BY <1>1 DEF Call
<1> HIDE DEF r
<1>3. QED
  BY <1>1, <1>2, CallTells

LEMMA EndTells ==
    ASSUME ChannelInv, NEW c \in Calls,
           NEW result \in {"success", "failed", "busy", "limited"}, End(c, result)
    PROVE  /\ Told(c)' = result
           /\ \A d \in Calls : d # c => Told(d)' = Told(d)
           /\ Telling' = [Telling EXCEPT ![c] = Told(c)']
<1> DEFINE r == [call[c] EXCEPT !.at = "end", !.result = result]
<1>1. call[c] \in Call /\ call' = [call EXCEPT ![c] = r]
  BY CallFacts DEF End
<1>2. r \in Call /\ r.result = result
  BY <1>1 DEF Call
<1> HIDE DEF r
<1>3. QED
  BY <1>1, <1>2, CallTells

\* What the caller of an open call knows.
LEMMA OpenTold ==
    ASSUME ChannelInv, NEW c \in Calls, call[c].at # "end"
    PROVE  Told(c) = IF call[c].at \in {"idle", "check"} THEN "nothing" ELSE "admitted"
BY DEF ChannelInv, OpenCalls, Told

Stutters == Telling' = Telling /\ jobs' = jobs

\* A call that was admitted waits for its answer, and is given it.
LEMMA AnsweredCall ==
    ASSUME ChannelInv, NEW c \in Calls, call[c].at \in {"push", "wait"}, jobs' = jobs,
           NEW result \in {"success", "failed"}, End(c, result),
           result = "success" => jobs[c] = 1
    PROVE  Requests!Report(c) /\ Told(c)' \in {"failed", "success"}
           /\ \A d \in Calls : d # c => Told(d)' = Told(d)
<1>1. Told(c)' = result /\ Telling' = [Telling EXCEPT ![c] = Told(c)']
      /\ \A d \in Calls : d # c => Told(d)' = Told(d)
  BY EndTells
<1>2. Telling' = [Telling EXCEPT ![c] = result]
  BY <1>1
<1>3. Telling[c] = "admitted"
  BY OpenTold DEF Telling
<1>4. Requests!Report(c)
  BY <1>2, <1>3 DEF Requests!Report, Telling
<1>5. QED
  BY <1>1, <1>4

\* A step of a call: admitted calls stay admitted.
CallMoves(c) ==
    /\ \A d \in Calls : d # c => Told(d)' = Told(d)
    /\ Told(c) \in {"admitted", "failed", "success"} => Told(c)' \in {"admitted", "failed", "success"}
    /\ Requests!Admit(c) \/ Requests!Report(c) \/ Stutters

LEMMA TriggerMoves == ASSUME ChannelInv, NEW c \in Calls, Trigger(c) PROVE CallMoves(c)
<1>1. Told(c) = "nothing" /\ call[c].at # "end" /\ jobs' = jobs
  BY OpenTold DEF Trigger
<1>2. CASE Await(c, "ensure")
  <2>1. Told(c)' = "admitted" /\ Telling' = [Telling EXCEPT ![c] = Told(c)']
        /\ \A d \in Calls : d # c => Told(d)' = Told(d)
    BY <1>1, <1>2, AwaitTells
  <2>2. Requests!Admit(c)
    BY <1>1, <2>1 DEF Requests!Admit, Telling
  <2>3. QED
    BY <1>1, <2>1, <2>2 DEF CallMoves
<1>3. CASE Await(c, "check")
  <2>1. Told(c)' = "nothing" /\ \A d \in Calls : d # c => Told(d)' = Told(d)
    BY <1>1, <1>3, AwaitTells
  <2>2. Stutters
    BY <1>1, <2>1 DEF Stutters, Telling
  <2>3. QED
    BY <1>1, <2>1, <2>2 DEF CallMoves
<1>4. QED
  BY <1>2, <1>3 DEF Trigger

LEMMA CheckMoves == ASSUME ChannelInv, NEW c \in Calls, Check(c) PROVE CallMoves(c)
<1>1. Told(c) = "nothing" /\ call[c].at # "end" /\ jobs' = jobs
  BY OpenTold DEF Check
<1>2. Await(c, "ensure") \/ End(c, "busy") \/ End(c, "limited")
  BY DEF Check
<1>3. Told(c)' \in {"admitted", "busy", "limited"} /\ Telling' = [Telling EXCEPT ![c] = Told(c)']
      /\ \A d \in Calls : d # c => Told(d)' = Told(d)
  BY <1>1, <1>2, AwaitTells, EndTells
<1>4. Requests!Admit(c)
  BY <1>1, <1>3 DEF Requests!Admit, Telling
<1>5. QED
  BY <1>1, <1>3, <1>4 DEF CallMoves

\* From one await of an admitted call to another the caller learns nothing.
LEMMA GoesOn ==
    ASSUME ChannelInv, NEW c \in Calls, call[c].at \in {"ensure", "push"}, jobs' = jobs,
           NEW at \in {"push", "wait"}, Await(c, at)
    PROVE  CallMoves(c)
<1>1. Told(c) = "admitted" /\ call[c].at # "end"
  BY OpenTold
<1>2. Told(c)' = "admitted" /\ \A d \in Calls : d # c => Told(d)' = Told(d)
  BY <1>1, AwaitTells
<1>3. Stutters
  BY <1>1, <1>2 DEF Stutters, Telling
<1>4. QED
  BY <1>2, <1>3 DEF CallMoves

LEMMA EnsureMoves == ASSUME ChannelInv, NEW c \in Calls, Ensure(c) PROVE CallMoves(c)
BY GoesOn DEF Ensure

LEMMA PushMoves == ASSUME ChannelInv, NEW c \in Calls, Push(c) PROVE CallMoves(c)
<1>1. call[c].at = "push" /\ jobs' = jobs /\ (Await(c, "wait") \/ End(c, "failed"))
  BY DEF Push
<1>2. CASE Await(c, "wait")
  BY <1>1, <1>2, GoesOn
<1>3. CASE End(c, "failed")
  BY <1>1, <1>3, AnsweredCall DEF CallMoves
<1>4. QED
  BY <1>1, <1>2, <1>3

\* A promise settled before hears no more.
LEMMA ReturnMoves ==
    ASSUME ChannelInv, NEW c \in Calls, NEW outcome \in Outcomes, Return(c, outcome), jobs' = jobs,
           outcome = "queued" => jobs[c] = 1
    PROVE  CallMoves(c)
<1>1. CASE call[c].at = "wait"
  <2>1. End(c, "failed") \/ (End(c, "success") /\ jobs[c] = 1)
    BY <1>1 DEF Return, Outcomes
  <2>2. QED
    BY <1>1, <2>1, AnsweredCall DEF CallMoves
<1>2. CASE call[c].at # "wait"
  <2>1. call' = call
    BY <1>2 DEF Return
  <2>2. QED
    BY <2>1 DEF CallMoves, Stutters, Telling, Told
<1>3. QED
  BY <1>1, <1>2

LEMMA ReceiveMoves == ASSUME ChannelInv, NEW c \in Calls, Receive(c) PROVE CallMoves(c)
<1> DEFINE list == answers[CorePrefix][c]
<1>1. list \in Seq(Outcomes) /\ list # << >> /\ CorePrefix \in Prefixes
  BY CallFacts DEF Receive, Prefixes
<1>2. Head(list) \in Outcomes /\ Head(list) = list[1] /\ 1 \in 1..Len(list)
  BY <1>1
<1>3. Head(list) = "queued" => jobs[c] = 1
  BY <1>1, <1>2 DEF ChannelInv, QueuedIsTrue, Says
<1>4. Return(c, Head(list)) /\ jobs' = jobs
  BY DEF Receive
<1> HIDE DEF list
<1>5. QED
  BY <1>2, <1>3, <1>4, ReturnMoves

LEMMA PollFailsMoves == ASSUME ChannelInv, NEW c \in Calls, PollFails(c) PROVE CallMoves(c)
BY ReturnMoves DEF PollFails, Outcomes

LEMMA TimeoutMoves == ASSUME ChannelInv, NEW c \in Calls, Timeout(c) PROVE CallMoves(c)
BY AnsweredCall DEF Timeout, CallMoves

LEMMA CoreMoves == ASSUME ChannelInv, NEW c \in Calls, Core(c) PROVE CallMoves(c)
BY TriggerMoves, CheckMoves, EnsureMoves, PushMoves, ReceiveMoves, PollFailsMoves, TimeoutMoves
   DEF Core

\* No step of the core takes an admission back, and what it sends is admitted.
LEMMA CoreFollowed ==
    ASSUME ChannelInv, Followed, NEW c \in Calls, Core(c)
    PROVE  Followed'
<1>1. AdmittedCalls \subseteq AdmittedCalls'
  <2> SUFFICES ASSUME NEW d \in AdmittedCalls PROVE d \in AdmittedCalls'
    OBVIOUS
  <2>1. d \in Calls /\ Told(d) \in {"admitted", "failed", "success"}
    BY DEF AdmittedCalls
  <2>2. Told(d)' \in {"admitted", "failed", "success"}
    BY <2>1, CoreMoves DEF CallMoves
  <2>3. QED
    BY <2>1, <2>2 DEF AdmittedCalls
<1>2. poller' = poller
  BY DEF Core, Trigger, Check, Ensure, Push, Receive, PollFails, Timeout
<1>3. inbox \in [Prefixes -> Seq(AdmittedCalls')]
  BY <1>1 DEF Followed
<1>4. inbox' \in [Prefixes -> Seq(AdmittedCalls')]
  <2>1. CASE Push(c)
    <3>1. Told(c)' \in {"admitted", "failed", "success"}
      <4>1. Told(c) = "admitted"
        BY <2>1, OpenTold DEF Push
      <4>2. QED
        BY <2>1, <4>1, PushMoves DEF CallMoves
    <3>2. c \in AdmittedCalls' /\ CorePrefix \in Prefixes
      BY <3>1 DEF AdmittedCalls, Prefixes
    <3>3. inbox[CorePrefix] \in Seq(AdmittedCalls')
      BY <1>3, <3>2
    <3>4. /\ Append(inbox[CorePrefix], c) \in Seq(AdmittedCalls')
          /\ inbox[CorePrefix] \o <<c, c>> \in Seq(AdmittedCalls')
      BY <3>2, <3>3
    <3>5. QED
      BY <1>3, <2>1, <3>4 DEF Push
  <2>2. CASE ~Push(c)
    <3>1. inbox' = inbox
      BY <2>2 DEF Core, Trigger, Check, Ensure, Receive, PollFails, Timeout
    <3>2. QED
      BY <1>3, <3>1
  <2>3. QED
    BY <2>1, <2>2
<1>5. QED
  BY <1>1, <1>2, <1>4 DEF Followed

\* A worker adds what it took.
LEMMA WorkersFollowed ==
    ASSUME ChannelInv, Followed, UNCHANGED call, NEW w \in Workers,
           Listener(w) \/ RestartWorker(w)
    PROVE  Followed'
<1>1. AdmittedCalls' = AdmittedCalls
  BY DEF AdmittedCalls, Told
<1>2. poller \in [Workers -> Poller]
  BY DEF ChannelInv, ChannelTypeOK, Poller
<1>3. CASE Take(w)
  <2> DEFINE list == inbox[WorkerPrefix]
  <2>1. list \in Seq(AdmittedCalls) /\ list # << >>
    BY <1>3 DEF Followed, Take, Prefixes
  <2>2. Head(list) \in AdmittedCalls /\ Tail(list) \in Seq(AdmittedCalls)
    BY <2>1
  <2>3. inbox' = [inbox EXCEPT ![WorkerPrefix] = Tail(list)] /\ inbox' \in [Prefixes -> Seq(AdmittedCalls)]
    BY <1>3, <2>2 DEF Take, Followed
  <2>4. \A v \in Workers : IF v = w THEN poller'[v].req = Head(list) ELSE poller'[v] = poller[v]
    BY <1>2, <1>3 DEF Take, Poller
  <2> HIDE DEF list
  <2>5. QED
    BY <1>1, <2>2, <2>3, <2>4 DEF Followed
<1>4. CASE ~Take(w)
  <2>1. inbox' = inbox
    BY <1>4 DEF Listener, PollEmpty, PollError, Add, Answer, RestartWorker
  <2>2. \A v \in Workers : poller'[v].at # "add" \/ poller'[v] = poller[v]
    BY <1>2, <1>4 DEF Listener, PollEmpty, PollError, Add, Answer, RestartWorker, Fresh, Poller
  <2>3. QED
    BY <1>1, <2>1, <2>2 DEF Followed
<1>5. QED
  BY <1>3, <1>4

LEMMA WorkersLeaveCalls ==
    ASSUME NEW w \in Workers, Listener(w) \/ RestartWorker(w)
    PROVE  call' = call
BY DEF Listener, Take, PollEmpty, PollError, Add, Answer, RestartWorker

LEMMA FollowedNext == ASSUME ChannelInv, Followed, [Next]_vars PROVE Followed'
<1>1. CASE UNCHANGED vars \/ \E u \in Users : WindowEnds(u)
  <2>1. UNCHANGED <<call, inbox, poller>>
    BY <1>1 DEF vars, WindowEnds
  <2>2. QED
    BY <2>1 DEF Followed, AdmittedCalls, Told
<1>2. ASSUME NEW c \in Calls, Core(c) PROVE Followed'
  BY <1>2, CoreFollowed
<1>3. ASSUME NEW w \in Workers, Listener(w) \/ RestartWorker(w) PROVE Followed'
  BY <1>3, WorkersLeaveCalls, WorkersFollowed
<1>4. QED
  BY <1>1, <1>2, <1>3 DEF Next

LEMMA FollowedHolds == Spec => []Followed
<1>1. Init => Followed
  BY DEF Init, Followed, Fresh
<1>2. ChannelInv /\ Followed /\ [Next]_vars => Followed'
  BY FollowedNext
<1>3. QED
  BY <1>1, <1>2, ChannelInvHolds, PTL DEF Spec

\* Only BullMQ's first job of a request is one.
LEMMA AddQueues ==
    ASSUME ChannelInv, Followed, NEW w \in Workers, Add(w)
    PROVE  (\E c \in Calls : Requests!Queue(c)) \/ Stutters
<1> DEFINE r == poller[w].req
<1>1. r \in Calls /\ Told(r) \in {"admitted", "failed", "success"}
  BY DEF Add, Followed, AdmittedCalls
<1>2. call' = call
  BY DEF Add
<1>3. Telling' = Telling
  BY <1>2 DEF Telling, Told
<1>4. JobAdded(r) \/ jobs' = jobs
  BY Zenon DEF Add
<1>5. jobs \in [Calls -> Nat] /\ jobs[r] <= 1
  BY <1>1 DEF ChannelInv, ChannelTypeOK, SuccessIsOneJob
<1>6. Told(r) = "success" => jobs[r] = 1
  BY <1>1 DEF ChannelInv, SuccessIsOneJob, Told
<1> HIDE DEF r
<1>7. CASE jobs' = jobs \/ jobs[r] = 1
  <2>1. jobs' = jobs
    BY <1>4, <1>5, <1>7 DEF JobAdded
  <2>2. QED
    BY <1>3, <2>1 DEF Stutters
<1>8. CASE JobAdded(r) /\ jobs[r] # 1
  <2>1. jobs[r] = 0 /\ jobs' = [jobs EXCEPT ![r] = 1]
    BY <1>1, <1>5, <1>8 DEF JobAdded
  <2>2. Telling[r] \in {"admitted", "failed"}
    BY <1>1, <1>6, <1>8 DEF Telling
  <2>3. Requests!Queue(r)
    BY <1>3, <2>1, <2>2 DEF Requests!Queue, Telling
  <2>4. QED
    BY <1>1, <2>3
<1>9. QED
  BY <1>4, <1>7, <1>8

LEMMA StepIsRequestsStep ==
    ASSUME ChannelInv, Followed, [Next]_vars
    PROVE  [Requests!RequestsNext]_<<Telling, jobs>>
<1>1. CASE UNCHANGED vars \/ \E u \in Users : WindowEnds(u)
  BY <1>1 DEF vars, WindowEnds, Telling, Told
<1>2. ASSUME NEW c \in Calls, Core(c)
      PROVE  Requests!RequestsNext \/ Stutters
  BY <1>2, CoreMoves DEF CallMoves, Requests!RequestsNext
<1>3. ASSUME NEW w \in Workers, Listener(w) \/ RestartWorker(w)
      PROVE  Requests!RequestsNext \/ Stutters
  <2>1. CASE Add(w)
    BY <2>1, AddQueues DEF Requests!RequestsNext
  <2>2. CASE ~Add(w)
    <3>1. call' = call /\ jobs' = jobs
      BY <1>3, <2>2 DEF Listener, Take, PollEmpty, PollError, Answer, RestartWorker
    <3>2. QED
      BY <3>1 DEF Stutters, Telling, Told
  <2>3. QED
    BY <2>1, <2>2
<1>4. QED
  BY <1>1, <1>2, <1>3 DEF Next, Stutters

\* The lists, prefixes, poll loops and timers of core and worker, with whatever is
\* lost, late or sent twice, are to the callers of triggerUserSync the requests of
\* SyncRequests: admitted or turned away, queued once, and answered once.
THEOREM ChannelImplements == Spec => ImplementsRequests
<1>1. Init => Requests!RequestsInit
  BY DEF Init, Requests!RequestsInit, Told
<1>2. ChannelInv /\ Followed /\ [Next]_vars
        => [Requests!RequestsNext]_<<Telling, jobs>>
  BY StepIsRequestsStep
<1>3. QED
  BY <1>1, <1>2, ChannelInvHolds, FollowedHolds, PTL
     DEF Spec, ImplementsRequests, Requests!RequestsSpec, Telling

------------------------------------------------------------------------------
(* Holdings: the save that was committed last stands.  At COMMIT a row the  *)
(* save has neither written nor deleted must be one another save inserted   *)
(* while it was open.  So the invariant says of every open save and every   *)
(* committed row: the DELETE has still to reach it, has deleted it, or      *)
(* could not see it.  The second part must survive the commits of others,   *)
(* which is what the locks are for.                                         *)

Typed ==
    /\ holdings \in [Assets -> Rows \cup {NoHolding}]
    /\ save \in [PortfolioSyncs -> Saves]

\* Two open saves know of each other and hold no lock in common.
Apart ==
    \A s, t \in Open : s # t =>
        /\ t \in save[s].met
        /\ (save[s].gone \cup save[s].put) \cap (save[t].gone \cup save[t].put) = {}

\* A row is still doomed, deleted, or of a save met.
Accounted ==
    \A s \in Open :
        /\ save[s].pc = "upsert" => save[s].doomed = {}
        /\ \A a \in Assets : holdings[a] # NoHolding =>
              \/ <<a, holdings[a].made>> \in save[s].doomed
              \/ a \in save[s].gone
              \/ holdings[a].made \in save[s].met

HoldingsInv == Typed /\ Apart /\ Accounted /\ LastSaveStands

LEMMA EmptySaves ==
    /\ NoSave.pc = "idle" /\ SaveEnded.pc = "ended"
    /\ NoSave \in Saves /\ SaveEnded \in Saves
BY DEF NoSave, SaveEnded, Saves

LEMMA HoldingsInitInv == HoldingsInit => HoldingsInv
<1> SUFFICES ASSUME HoldingsInit PROVE HoldingsInv
  OBVIOUS
<1>1. Open = {}
  BY EmptySaves DEF HoldingsInit, Open
<1>2. Typed
  BY EmptySaves DEF HoldingsInit, Typed, Rows, Savers
<1>3. LastSaveStands
  BY DEF HoldingsInit, LastSaveStands, NoHolding
<1>4. QED
  BY <1>1, <1>2, <1>3 DEF HoldingsInv, Apart, Accounted

LEMMA BeginKeeps ==
    ASSUME HoldingsInv, NEW s \in PortfolioSyncs, BeginSave(s)
    PROVE  HoldingsInv'
<1>1. PICK answer \in SUBSET Assets :
        save' = [t \in PortfolioSyncs |->
            IF t = s THEN [pc |-> "delete", answer |-> answer, doomed |-> Seen,
                           gone |-> {}, put |-> {}, met |-> Open]
            ELSE IF t \in Open THEN [save[t] EXCEPT !.met = @ \cup {s}]
            ELSE save[t]]
  BY DEF BeginSave, Fetched
<1>2. UNCHANGED <<holdings, lastSave>> /\ s \notin Open
  BY DEF BeginSave, Open
<1>3. Seen \subseteq Assets \X Savers /\ Open \subseteq PortfolioSyncs
  BY DEF HoldingsInv, Typed, Saves, Seen, Rows, Open
<1>4. /\ save'[s].pc = "delete" /\ save'[s].doomed = Seen /\ save'[s].met = Open
      /\ save'[s].gone = {} /\ save'[s].put = {}
  BY <1>1
<1>5. \A t \in PortfolioSyncs \ {s} :
        /\ save'[t].pc = save[t].pc /\ save'[t].doomed = save[t].doomed
        /\ save'[t].gone = save[t].gone /\ save'[t].put = save[t].put
        /\ save[t].met \subseteq save'[t].met
        /\ t \in Open => s \in save'[t].met
  BY <1>1 DEF HoldingsInv, Typed, Saves
<1>6. Open' = Open \cup {s}
  BY <1>4, <1>5 DEF Open
<1>7. Typed'
  BY <1>1, <1>2, <1>3, SMTT(30) DEF HoldingsInv, Typed, Saves
<1>8. Apart'
  BY <1>2, <1>3, <1>4, <1>5, <1>6 DEF HoldingsInv, Apart
<1>9. Accounted'
  BY <1>2, <1>3, <1>4, <1>5, <1>6 DEF HoldingsInv, Accounted, Seen
<1>10. QED
  BY <1>2, <1>7, <1>8, <1>9 DEF HoldingsInv, LastSaveStands

LEMMA DeletingSaves ==
    ASSUME NEW r \in Saves, NEW d \in SUBSET (Assets \X Savers), NEW g \in SUBSET Assets
    PROVE  [r EXCEPT !.doomed = d, !.gone = g] \in Saves
BY DEF Saves

LEMMA DeleteRowKeeps ==
    ASSUME HoldingsInv, NEW s \in PortfolioSyncs, DeleteRow(s)
    PROVE  HoldingsInv'
<1>1. PICK row \in save[s].doomed :
        /\ FreeFor(s, row[1])
        /\ save' = [save EXCEPT ![s].doomed = @ \ {row},
                                ![s].gone = IF row \in Seen THEN @ \cup {row[1]} ELSE @]
  BY DEF DeleteRow
<1>2. UNCHANGED <<holdings, lastSave>> /\ s \in Open /\ save[s].pc = "delete"
  BY DEF DeleteRow, Open
<1>3. row \in Assets \X Savers /\ row = <<row[1], row[2]>> /\ row[1] \in Assets
  BY DEF HoldingsInv, Typed, Saves
<1>4. /\ save'[s].pc = "delete" /\ save'[s].doomed = save[s].doomed \ {row}
      /\ save'[s].gone = IF row \in Seen THEN save[s].gone \cup {row[1]} ELSE save[s].gone
      /\ save'[s].put = save[s].put /\ save'[s].met = save[s].met
  BY <1>1, <1>2 DEF HoldingsInv, Typed, Saves
<1>5. \A t \in PortfolioSyncs \ {s} : save'[t] = save[t]
  BY <1>1 DEF HoldingsInv, Typed, Saves
<1>6. Open' = Open
  BY <1>2, <1>4, <1>5 DEF Open
<1>7. Typed'
  <2> DEFINE gone == IF row \in Seen THEN save[s].gone \cup {row[1]} ELSE save[s].gone
  <2>1. gone \in SUBSET Assets /\ save[s].doomed \ {row} \in SUBSET (Assets \X Savers)
    BY <1>3 DEF HoldingsInv, Typed, Saves
  <2>2. save' = [save EXCEPT ![s] = [save[s] EXCEPT !.doomed = save[s].doomed \ {row}, !.gone = gone]]
    BY <1>1 DEF HoldingsInv, Typed, Saves
  <2>3. save[s] \in Saves
    BY DEF HoldingsInv, Typed
  <2> HIDE DEF gone
  <2>4. [save[s] EXCEPT !.doomed = save[s].doomed \ {row}, !.gone = gone] \in Saves
    BY <2>1, <2>3, DeletingSaves
  <2>5. QED
    BY <1>2, <2>2, <2>4 DEF HoldingsInv, Typed
<1>8. Apart'
  <2>1. \A t \in Open \ {s} : row[1] \notin save[t].gone \cup save[t].put
    BY <1>1 DEF FreeFor
  <2>2. save'[s].gone \subseteq save[s].gone \cup {row[1]}
    BY <1>4
  <2>3. QED
    BY <1>2, <1>4, <1>5, <1>6, <2>1, <2>2 DEF HoldingsInv, Apart, Open
<1>9. Accounted'
  <2>1. ASSUME NEW a \in Assets, holdings[a] # NoHolding, <<a, holdings[a].made>> = row
        PROVE  a \in save'[s].gone
    BY <1>4, <2>1 DEF Seen
  <2>2. QED
    BY <1>2, <1>4, <1>5, <1>6, <2>1 DEF HoldingsInv, Accounted, Open
<1>10. QED
  BY <1>2, <1>7, <1>8, <1>9 DEF HoldingsInv, LastSaveStands

LEMMA DeleteDoneKeeps ==
    ASSUME HoldingsInv, NEW s \in PortfolioSyncs, DeleteDone(s)
    PROVE  HoldingsInv'
<1>1. /\ UNCHANGED <<holdings, lastSave>> /\ s \in Open
      /\ save[s].doomed = {} /\ save' = [save EXCEPT ![s].pc = "upsert"]
  BY DEF DeleteDone, Open
<1>2. \A t \in PortfolioSyncs :
        /\ save'[t].doomed = save[t].doomed /\ save'[t].gone = save[t].gone
        /\ save'[t].put = save[t].put /\ save'[t].met = save[t].met
        /\ save'[t].pc = IF t = s THEN "upsert" ELSE save[t].pc
  BY <1>1 DEF HoldingsInv, Typed, Saves
<1>3. Open' = Open
  BY <1>1, <1>2 DEF Open
<1>4. Typed'
  BY <1>1, SMTT(30) DEF HoldingsInv, Typed, Saves
<1>5. Apart'
  BY <1>2, <1>3 DEF HoldingsInv, Apart, Open
<1>6. Accounted'
  BY <1>1, <1>2, <1>3 DEF HoldingsInv, Accounted, Open
<1>7. QED
  BY <1>1, <1>4, <1>5, <1>6 DEF HoldingsInv, LastSaveStands

LEMMA UpsertKeeps ==
    ASSUME HoldingsInv, NEW s \in PortfolioSyncs, UpsertRow(s)
    PROVE  HoldingsInv'
<1>1. PICK a \in save[s].answer : FreeFor(s, a) /\ save' = [save EXCEPT ![s].put = @ \cup {a}]
  BY DEF UpsertRow
<1>2. UNCHANGED <<holdings, lastSave>> /\ s \in Open /\ a \in Assets
  BY <1>1 DEF UpsertRow, Open, HoldingsInv, Typed, Saves
<1>3. /\ save'[s].doomed = save[s].doomed /\ save'[s].gone = save[s].gone
      /\ save'[s].pc = save[s].pc /\ save'[s].met = save[s].met
      /\ save'[s].put = save[s].put \cup {a}
  BY <1>1 DEF HoldingsInv, Typed, Saves
<1>4. \A t \in PortfolioSyncs \ {s} : save'[t] = save[t]
  BY <1>1 DEF HoldingsInv, Typed, Saves
<1>5. Open' = Open
  BY <1>2, <1>3, <1>4 DEF Open
<1>6. Typed'
  BY <1>1, <1>2, SMTT(30) DEF HoldingsInv, Typed, Saves
<1>7. Apart'
  <2>1. \A t \in Open \ {s} : a \notin save[t].gone \cup save[t].put
    BY <1>1 DEF FreeFor
  <2>2. QED
    BY <1>2, <1>3, <1>4, <1>5, <2>1 DEF HoldingsInv, Apart, Open
<1>8. Accounted'
  BY <1>2, <1>3, <1>4, <1>5 DEF HoldingsInv, Accounted, Open
<1>9. QED
  BY <1>2, <1>6, <1>7, <1>8 DEF HoldingsInv, LastSaveStands

\* A save that ends lets go of its locks; the others keep theirs.
LEMMA EndedStep ==
    ASSUME Typed, Apart, NEW s \in PortfolioSyncs, save' = [save EXCEPT ![s] = SaveEnded]
    PROVE  /\ Open' = Open \ {s} /\ Apart'
           /\ \A t \in PortfolioSyncs \ {s} : save'[t] = save[t]
           /\ holdings' \in [Assets -> Rows \cup {NoHolding}] => Typed'
<1>1. save'[s] = SaveEnded /\ \A t \in PortfolioSyncs \ {s} : save'[t] = save[t]
  BY DEF Typed
<1>2. Open' = Open \ {s}
  BY <1>1, EmptySaves DEF Open
<1>3. Apart'
  BY <1>1, <1>2 DEF Apart, Open
<1>4. holdings' \in [Assets -> Rows \cup {NoHolding}] => Typed'
  BY EmptySaves DEF Typed
<1>5. QED
  BY <1>1, <1>2, <1>3, <1>4

LEMMA RollbackKeeps ==
    ASSUME HoldingsInv, NEW s \in PortfolioSyncs, RollbackSave(s)
    PROVE  HoldingsInv'
<1>1. UNCHANGED <<holdings, lastSave>> /\ save' = [save EXCEPT ![s] = SaveEnded]
  BY DEF RollbackSave
<1>2. Typed' /\ Apart' /\ Open' = Open \ {s} /\ \A t \in PortfolioSyncs \ {s} : save'[t] = save[t]
  BY <1>1, EndedStep DEF HoldingsInv, Typed, Saves
<1>3. Accounted'
  BY <1>1, <1>2 DEF HoldingsInv, Accounted, Open
<1>4. QED
  BY <1>1, <1>2, <1>3 DEF HoldingsInv, LastSaveStands

LEMMA CommitKeeps ==
    ASSUME HoldingsInv, NEW s \in PortfolioSyncs, CommitSave(s)
    PROVE  HoldingsInv'
<1>1. /\ save[s].pc = "upsert" /\ save[s].put = save[s].answer
      /\ holdings' = [a \in Assets |-> RowAfter(s, a)]
      /\ lastSave' = [by |-> s, answer |-> save[s].answer, met |-> save[s].met]
      /\ save' = [save EXCEPT ![s] = SaveEnded]
  BY DEF CommitSave
<1>2. s \in Open /\ s \in Savers
  BY <1>1 DEF Open, Savers
<1>3. ASSUME NEW a \in Assets
      PROVE  RowAfter(s, a) \in Rows \cup {NoHolding}
  BY <1>2 DEF RowAfter, Rows, HoldingsInv, Typed
<1>4. Typed' /\ Apart' /\ Open' = Open \ {s} /\ \A t \in PortfolioSyncs \ {s} : save'[t] = save[t]
  BY <1>1, <1>3, EndedStep DEF HoldingsInv
<1>5. \A a \in Assets : \A w \in Savers : [made |-> w, by |-> s] # NoHolding
  BY DEF NoHolding
<1>6. Accounted'
  <2> SUFFICES ASSUME NEW t \in Open \ {s}, NEW a \in Assets, holdings'[a] # NoHolding
               PROVE  \/ <<a, holdings'[a].made>> \in save[t].doomed
                      \/ a \in save[t].gone
                      \/ holdings'[a].made \in save[t].met
    BY <1>4 DEF HoldingsInv, Accounted, Open
  <2>1. s \in save[t].met
    BY <1>2 DEF HoldingsInv, Apart
  <2>2. CASE holdings'[a].made = s
    BY <2>1, <2>2
  <2>3. CASE holdings'[a].made # s
    <3>1. holdings[a] # NoHolding /\ holdings'[a].made = holdings[a].made
      BY <1>1, <2>3 DEF RowAfter
    <3>2. QED
      BY <3>1 DEF HoldingsInv, Accounted, Open
  <2>4. QED
    BY <2>2, <2>3
<1>7. LastSaveStands'
  <2> SUFFICES ASSUME NEW a \in Assets
               PROVE  IF a \in save[s].put
                      THEN holdings'[a] # NoHolding /\ holdings'[a].by = s
                      ELSE holdings'[a] # NoHolding => holdings'[a].made \in save[s].met
    BY <1>1 DEF LastSaveStands
  <2>1. CASE a \in save[s].put
    BY <1>1, <1>5, <2>1 DEF RowAfter, NoHolding
  <2>2. CASE a \notin save[s].put
    BY <1>1, <1>2, <2>2 DEF RowAfter, HoldingsInv, Accounted
  <2>3. QED
    BY <2>1, <2>2
<1>8. QED
  BY <1>4, <1>6, <1>7 DEF HoldingsInv

LEMMA HoldingsNextInv == HoldingsInv /\ [HoldingsNext]_holdingVars => HoldingsInv'
<1> SUFFICES ASSUME HoldingsInv, [HoldingsNext]_holdingVars PROVE HoldingsInv'
  OBVIOUS
<1>1. CASE UNCHANGED holdingVars
  BY <1>1 DEF holdingVars, HoldingsInv, Typed, Apart, Accounted, LastSaveStands, Open
<1>2. ASSUME NEW s \in PortfolioSyncs, BeginSave(s) \/ DeleteRow(s) \/ DeleteDone(s)
                                       \/ UpsertRow(s) \/ CommitSave(s) \/ RollbackSave(s)
      PROVE  HoldingsInv'
  BY <1>2, BeginKeeps, DeleteRowKeeps, DeleteDoneKeeps, UpsertKeeps, CommitKeeps, RollbackKeeps
<1>3. QED
  BY <1>1, <1>2 DEF HoldingsNext

(* Of two saves that are open together, the one PostgreSQL commits last    *)
(* has every asset it fetched in the table, whatever the other did, and    *)
(* of other rows only those it could not see: the transaction of           *)
(* savePortfolioHoldings for any number of syncs and assets.               *)
THEOREM SavesStand == HoldingsSpec => []LastSaveStands
<1>1. HoldingsInit => HoldingsInv
  BY HoldingsInitInv
<1>2. HoldingsInv /\ [HoldingsNext]_holdingVars => HoldingsInv'
  BY HoldingsNextInv
<1>3. HoldingsInv => LastSaveStands
  BY DEF HoldingsInv
<1>4. QED
  BY <1>1, <1>2, <1>3, PTL DEF HoldingsSpec
=============================================================================
