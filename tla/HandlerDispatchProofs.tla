----------------------- MODULE HandlerDispatchProofs -----------------------
(***************************************************************************)
(* Theorems about HandlerDispatch for any number of jobs and workers, any   *)
(* lease, clock lag and retry limit.                                        *)
(***************************************************************************)
EXTENDS HandlerDispatch, GenerationQueueProofs

-----------------------------------------------------------------------------
(* The inductive invariant.                                                 *)

Busy(w) == pc[w] \notin {"idle", "claim", "dead"}

\* The row has crossed the boundary: nothing makes it claimable again.
Beyond(j) == status[j] \notin {"absent", "queued", "running"}

HasJob(w) == Busy(w) \/ beating[w] \/ marked[w] => Busy(w) /\ job[w] \in Jobs

\* What a worker knows of a row that is still its own: the row is active in the
\* attempt the worker read, and one about to be sent back was never dispatched.
OwnRun(w) ==
  Busy(w) /\ owner[job[w]] = w =>
    /\ status[job[w]] \in ActiveStates
    /\ pc[w] # "enter" => attempts[job[w]] = attempt[w]
    /\ pc[w] = "requeue" => status[job[w]] = "running"

InLimit(w) == pc[w] = "requeue" => attempt[w] <= RetryLimit

\* Every retry is followed by a claim before the next one, so the attempts are
\* ahead of the retries whenever the row is claimed.
Retries(j) ==
  /\ retries[j] <= RetryLimit
  /\ retries[j] <= attempts[j]
  /\ status[j] \notin {"absent", "queued"} => retries[j] < attempts[j]

Effects(j) == effects[j] <= 1 /\ (effects[j] > 0 => Beyond(j))

\* A request still to be made is the first for its job, and nobody else makes it.
ToSend(w) == marked[w] => Beyond(job[w]) /\ effects[job[w]] = 0

SentAlone == \A v, w \in Workers : marked[v] /\ marked[w] /\ job[v] = job[w] => v = w

HandlerInv ==
  /\ HandlerTypeOK
  /\ LeaseShape
  /\ \A w \in Workers : HasJob(w) /\ OwnRun(w) /\ InLimit(w) /\ ToSend(w)
  /\ \A j \in Jobs : Retries(j) /\ Effects(j)
  /\ SentAlone

USE DEF Lags, Lapsed, NoRemote, ActiveStates, TerminalStates, QueueStates,
        Busy, Beyond, HasJob, OwnRun, InLimit, Retries, Effects, ToSend,
        queueVars, threadVars, handlerVars, At, Quietly

LEMMA QueueInvOfHandlerInv == HandlerInv => QueueInv
BY DEF HandlerInv, HandlerTypeOK, QueueInv

-----------------------------------------------------------------------------
(* Every step keeps it.  The table keeps its types and the shape of its     *)
(* leases by the lemmas of GenerationQueueProofs.                           *)

LEMMA GotoTypes ==
  ASSUME HandlerTypeOK, QueueTypeOK', NEW w \in Workers, Quietly,
         NEW label \in {"idle", "claim", "returned", "retryable", "raised", "commit",
                         "requeue", "review", "fail", "cancel"},
         Goto(w, label)
  PROVE  HandlerTypeOK'
BY DEF HandlerTypeOK, Goto

LEMMA LetGoTypes ==
  ASSUME HandlerTypeOK, QueueTypeOK', NEW w \in Workers,
         NEW label \in {"idle", "dead"}, LetGo(w, label),
         effects' \in [Jobs -> Nat], retries' \in [Jobs -> Nat]
  PROVE  HandlerTypeOK'
BY AttemptAssumption DEF HandlerTypeOK, LetGo

\* Steps that only move a worker.
LEMMA MoveInv ==
  ASSUME HandlerInv, NEW w \in Workers,
         Crash(w) \/ Enter(w) \/ HandlerEnds(w) \/ Returned(w) \/ Retryable(w) \/ Raised(w)
  PROVE  HandlerInv'
<1>0. UNCHANGED <<queueVars, effects, retries>> /\ HandlerTypeOK
  BY DEF Crash, Enter, HandlerEnds, Returned, Retryable, Raised, HandlerInv
<1>a. QueueTypeOK' /\ LeaseShape'
  BY <1>0 DEF HandlerInv, HandlerTypeOK, QueueTypeOK, LeaseShape
<1>1. HandlerTypeOK' /\ LeaseShape'
  <2>0. effects' \in [Jobs -> Nat] /\ retries' \in [Jobs -> Nat]
    BY <1>0 DEF HandlerTypeOK
  <2>1. CASE Enter(w)
    <3>1. CASE LetGo(w, "idle")
      BY <1>0, <1>a, <2>0, <3>1, LetGoTypes
    <3>2. CASE ~LetGo(w, "idle")
      <4>1. job[w] \in Jobs
        BY <2>1 DEF Enter, HandlerInv
      <4>2. attempts[job[w]] \in 0 .. AttemptCap
        BY <1>0, <4>1 DEF HandlerTypeOK, QueueTypeOK
      <4> QED BY <1>0, <1>a, <2>1, <3>2, <4>2 DEF Enter, HandlerTypeOK
    <3> QED BY <3>1, <3>2
  <2>2. CASE Crash(w)
    BY <1>0, <1>a, <2>0, <2>2, LetGoTypes DEF Crash
  <2>3. CASE HandlerEnds(w) \/ Returned(w) \/ Retryable(w) \/ Raised(w)
    BY <1>0, <1>a, <2>3, GotoTypes DEF HandlerEnds, Returned, Retryable, Raised
  <2> QED BY <1>a, <2>1, <2>2, <2>3
<1> USE DEF Crash, Enter, HandlerEnds, Returned, Retryable, Raised, Goto, LetGo
<1>2. \A v \in Workers : (HasJob(v) /\ OwnRun(v) /\ InLimit(v) /\ ToSend(v))'
  BY RetryLimitAssumption DEF HandlerInv, HandlerTypeOK, QueueTypeOK
<1>3. \A j \in Jobs : (Retries(j) /\ Effects(j))'
  BY DEF HandlerInv
<1>4. SentAlone'
  BY DEF HandlerInv, HandlerTypeOK, SentAlone
<1> QED BY <1>1, <1>2, <1>3, <1>4 DEF HandlerInv

LEMMA RecoverInv ==
  ASSUME HandlerInv, NEW w \in Workers, Recover(w)
  PROVE  HandlerInv'
<1> PICK d \in Lags : RecoverExpired(d)
  BY DEF Recover
<1> USE DEF Recover, Goto, RecoverExpired
<1>1. QueueInv'
  BY QueueInvOfHandlerInv, RecoverExpiredInv
<1>2. HandlerTypeOK' /\ LeaseShape'
  BY <1>1 DEF QueueInv, HandlerInv, HandlerTypeOK
<1>3. \A v \in Workers : (HasJob(v) /\ OwnRun(v) /\ InLimit(v) /\ ToSend(v))'
  BY OwnerAssumption DEF HandlerInv, HandlerTypeOK, QueueTypeOK
<1>4. \A j \in Jobs : (Retries(j) /\ Effects(j))'
  BY DEF HandlerInv, HandlerTypeOK, QueueTypeOK
<1>5. SentAlone'
  BY DEF HandlerInv, HandlerTypeOK, SentAlone
<1> QED BY <1>2, <1>3, <1>4, <1>5 DEF HandlerInv

\* What is known of a row that waits in the queue.
LEMMA QueuedRow ==
  ASSUME HandlerInv, NEW j \in Jobs, status[j] = "queued"
  PROVE  /\ owner[j] = NoOwner
         /\ effects[j] = 0
         /\ retries[j] \in Nat /\ retries[j] <= RetryLimit /\ retries[j] <= attempts[j]
         /\ attempts[j] \in 0 .. AttemptCap
<1>1. effects[j] \in Nat /\ retries[j] \in Nat /\ attempts[j] \in 0 .. AttemptCap
  BY DEF HandlerInv, HandlerTypeOK, QueueTypeOK
<1>2. owner[j] = NoOwner
  BY DEF HandlerInv, LeaseShape
<1>3. Retries(j) /\ Effects(j)
  BY DEF HandlerInv
<1> QED BY <1>1, <1>2, <1>3

LEMMA ClaimInv ==
  ASSUME HandlerInv, NEW w \in Workers, Claim(w)
  PROVE  HandlerInv'
<1>1. CASE Queued = {} /\ Goto(w, "idle") /\ UNCHANGED queueVars
  BY <1>1 DEF Claim, Goto, HandlerInv, HandlerTypeOK, QueueTypeOK, LeaseShape, SentAlone
<1>2. CASE \E j \in Jobs : /\ ClaimNext(w, j)
                          /\ pc'      = [pc EXCEPT ![w] = "enter"]
                          /\ job'     = [job EXCEPT ![w] = j]
                          /\ beating' = [beating EXCEPT ![w] = TRUE]
                          /\ UNCHANGED <<attempt, marked>>
  <2> PICK j \in Jobs : /\ ClaimNext(w, j)
                        /\ pc'      = [pc EXCEPT ![w] = "enter"]
                        /\ job'     = [job EXCEPT ![w] = j]
                        /\ beating' = [beating EXCEPT ![w] = TRUE]
                        /\ UNCHANGED <<attempt, marked>>
    BY <1>2
  <2> USE DEF Claim, ClaimNext, IsHead, Oldest, TopPriority, Queued
  <2>1. QueueInv'
    BY QueueInvOfHandlerInv, ClaimNextInv
  <2>2. HandlerTypeOK' /\ LeaseShape'
    BY <2>1 DEF QueueInv, HandlerInv, HandlerTypeOK
  <2>3. \A v \in Workers : (HasJob(v) /\ OwnRun(v) /\ InLimit(v) /\ ToSend(v))'
    <3> SUFFICES ASSUME NEW v \in Workers
                 PROVE  (HasJob(v) /\ OwnRun(v) /\ InLimit(v) /\ ToSend(v))'
      OBVIOUS
    <3>1. ~marked[w]
      BY DEF HandlerInv
    <3>2. CASE v = w
      BY <3>1, <3>2 DEF HandlerInv, HandlerTypeOK, QueueTypeOK
    <3>3. CASE v # w
      <4>1. /\ pc'[v] = pc[v] /\ job'[v] = job[v] /\ beating'[v] = beating[v]
            /\ attempt'[v] = attempt[v] /\ marked'[v] = marked[v]
        BY <3>3 DEF HandlerInv, HandlerTypeOK
      <4>2. HasJob(v) /\ OwnRun(v) /\ InLimit(v) /\ ToSend(v)
        BY DEF HandlerInv
      <4>3. HasJob(v)' /\ InLimit(v)'
        BY <4>1, <4>2
      <4>4. CASE job[v] = j
        <5>1. owner'[job[v]] = w /\ ~marked[v]
          BY <4>2, <4>4 DEF HandlerInv, HandlerTypeOK, QueueTypeOK
        <5> QED BY <3>3, <4>1, <4>3, <5>1
      <4>5. CASE Busy(v) /\ job[v] # j
        <5>1. /\ owner'[job[v]] = owner[job[v]] /\ status'[job[v]] = status[job[v]]
              /\ attempts'[job[v]] = attempts[job[v]]
          BY <4>2, <4>5 DEF HandlerInv, HandlerTypeOK, QueueTypeOK
        <5>2. effects' = effects
          BY DEF Claim
        <5> HIDE DEF Claim, ClaimNext
        <5> QED BY <4>1, <4>2, <4>3, <4>5, <5>1, <5>2
      <4>6. CASE ~Busy(v)
        BY <4>1, <4>2, <4>3, <4>6
      <4> QED BY <4>4, <4>5, <4>6
    <3> QED BY <3>2, <3>3
  <2>4. \A i \in Jobs : (Retries(i) /\ Effects(i))'
    <3>1. status[j] = "queued"
      OBVIOUS
    <3>2. attempts'[j] = IF attempts[j] < AttemptCap THEN attempts[j] + 1 ELSE attempts[j]
      BY DEF HandlerInv, HandlerTypeOK, QueueTypeOK
    <3>3. Retries(j)' /\ Effects(j)'
      <4> HIDE DEF ClaimNext, Claim
      <4>1. UNCHANGED <<effects, retries>>
        BY DEF Claim
      <4>2. AttemptCap \in Nat /\ RetryLimit \in Nat /\ RetryLimit < AttemptCap
        BY RetryLimitAssumption, AttemptAssumption
      <4> QED BY <3>1, <3>2, <4>1, <4>2, QueuedRow
    <3>4. \A i \in Jobs \ {j} : attempts'[i] = attempts[i] /\ status'[i] = status[i]
      BY DEF HandlerInv, HandlerTypeOK, QueueTypeOK
    <3>5. \A i \in Jobs \ {j} : Retries(i)' /\ Effects(i)'
      BY <3>4 DEF HandlerInv
    <3> QED BY <3>3, <3>5
  <2>5. SentAlone'
    BY DEF HandlerInv, HandlerTypeOK, SentAlone
  <2> QED BY <2>2, <2>3, <2>4, <2>5 DEF HandlerInv
<1> QED BY <1>1, <1>2 DEF Claim

\* The renewal thread, and the calls a handler may make.
LEMMA RenewInv ==
  ASSUME HandlerInv, NEW w \in Workers, Renew(w)
  PROVE  HandlerInv'
<1> USE DEF Renew, Heartbeat
<1>1. QueueInv'
  BY QueueInvOfHandlerInv, HeartbeatInv DEF HandlerInv, QueueInv, QueueTypeOK, LeaseShape
<1>2. HandlerTypeOK' /\ LeaseShape'
  BY <1>1 DEF QueueInv, HandlerInv, HandlerTypeOK
<1>3. \A v \in Workers : (HasJob(v) /\ OwnRun(v) /\ InLimit(v) /\ ToSend(v))'
  BY DEF HandlerInv, HandlerTypeOK
<1>4. \A j \in Jobs : (Retries(j) /\ Effects(j))'
  BY DEF HandlerInv
<1>5. SentAlone'
  BY DEF HandlerInv, SentAlone
<1> QED BY <1>2, <1>3, <1>4, <1>5 DEF HandlerInv

LEMMA HandlerCallInv ==
  ASSUME HandlerInv, NEW w \in Workers, HandlerCall(w)
  PROVE  HandlerInv'
<1>0. job[w] \in Jobs
  BY DEF HandlerCall, HandlerInv
<1> PICK d \in Lags :
      \/ /\ \E r \in RemoteIds \union {NoRemote} : MarkDispatched(job[w], w, r, d)
         /\ marked' = [marked EXCEPT ![w] = TRUE]
      \/ (\E r \in RemoteIds : RecordRemote(job[w], w, r, d)) /\ UNCHANGED marked
      \/ Heartbeat(job[w], w, d) /\ UNCHANGED marked
  BY DEF HandlerCall
<1>1. QueueInv'
  BY <1>0, QueueInvOfHandlerInv, RemoteAssumption, HeartbeatInv, MarkDispatchedInv, RecordRemoteInv
<1>2. HandlerTypeOK' /\ LeaseShape'
  BY <1>1 DEF QueueInv, HandlerInv, HandlerTypeOK, HandlerCall
<1> USE DEF HandlerCall, MarkDispatched, CanMarkDispatched, RecordRemote, CanRecordRemote, Heartbeat
<1>3. \A v \in Workers : (HasJob(v) /\ OwnRun(v) /\ InLimit(v) /\ ToSend(v))'
  BY <1>0 DEF HandlerInv, HandlerTypeOK, QueueTypeOK
<1>4. \A j \in Jobs : (Retries(j) /\ Effects(j))'
  BY <1>0 DEF HandlerInv, HandlerTypeOK, QueueTypeOK
<1>5. SentAlone'
  BY <1>0 DEF HandlerInv, HandlerTypeOK, SentAlone
<1> QED BY <1>2, <1>3, <1>4, <1>5 DEF HandlerInv

LEMMA HandlerEffectInv ==
  ASSUME HandlerInv, NEW w \in Workers, HandlerEffect(w)
  PROVE  HandlerInv'
<1> USE DEF HandlerEffect
<1>1. HandlerTypeOK' /\ LeaseShape'
  BY DEF HandlerInv, HandlerTypeOK, QueueTypeOK, LeaseShape
<1>2. \A v \in Workers : (HasJob(v) /\ OwnRun(v) /\ InLimit(v) /\ ToSend(v))'
  BY DEF HandlerInv, HandlerTypeOK, SentAlone
<1>3. \A j \in Jobs : (Retries(j) /\ Effects(j))'
  BY DEF HandlerInv, HandlerTypeOK
<1>4. SentAlone'
  BY DEF HandlerInv, HandlerTypeOK, SentAlone
<1> QED BY <1>1, <1>2, <1>3, <1>4 DEF HandlerInv

\* The row that goes back is one its worker runs, in an attempt within the limit.
LEMMA RequeuedRow ==
  ASSUME HandlerInv, NEW w \in Workers, At(w, "requeue"), CanRequeue(job[w], w)
  PROVE  /\ job[w] \in Jobs
         /\ status[job[w]] = "running"
         /\ attempts[job[w]] = attempt[w]
         /\ retries[job[w]] + 1 <= RetryLimit
         /\ retries[job[w]] + 1 <= attempts[job[w]]
BY RetryLimitAssumption DEF HandlerInv, HandlerTypeOK, QueueTypeOK, CanRequeue

LEMMA SendBackInv ==
  ASSUME HandlerInv, NEW w \in Workers, SendBack(w)
  PROVE  HandlerInv'
<1>1. CASE ~CanRequeue(job[w], w) /\ UNCHANGED <<queueVars, retries>>
  <2> USE <1>1 DEF SendBack
  <2>1. HandlerTypeOK'
    BY LetGoTypes DEF HandlerInv, HandlerTypeOK, QueueTypeOK
  <2>2. LeaseShape'
    BY DEF HandlerInv, LeaseShape
  <2> QED BY <2>1, <2>2 DEF LetGo, HandlerInv, HandlerTypeOK, SentAlone
<1>2. CASE Requeue(job[w], w) /\ retries' = [retries EXCEPT ![job[w]] = @ + 1]
  <2> USE <1>2 DEF SendBack, LetGo, Requeue
  <2>1. /\ job[w] \in Jobs
        /\ status[job[w]] = "running"
        /\ retries[job[w]] + 1 <= RetryLimit
        /\ retries[job[w]] + 1 <= attempts[job[w]]
    BY RequeuedRow
  <2>2. HandlerTypeOK' /\ LeaseShape'
    <3>1. QueueTypeOK' /\ LeaseShape'
      BY <2>1, LeaseAssumption DEF HandlerInv, HandlerTypeOK, QueueTypeOK, LeaseShape
    <3>2. retries' \in [Jobs -> Nat] /\ effects' \in [Jobs -> Nat]
      BY DEF HandlerInv, HandlerTypeOK
    <3>3. LetGo(w, "idle") /\ HandlerTypeOK
      BY DEF HandlerInv
    <3> QED BY <3>1, <3>2, <3>3, LetGoTypes
  <2>3. \A v \in Workers : (HasJob(v) /\ OwnRun(v) /\ InLimit(v) /\ ToSend(v))'
    BY <2>1, OwnerAssumption DEF HandlerInv, HandlerTypeOK, QueueTypeOK
  <2>4. \A j \in Jobs : (Retries(j) /\ Effects(j))'
    BY <2>1 DEF HandlerInv, HandlerTypeOK, QueueTypeOK
  <2>5. SentAlone'
    BY DEF HandlerInv, HandlerTypeOK, SentAlone
  <2> QED BY <2>2, <2>3, <2>4, <2>5 DEF HandlerInv
<1> QED BY <1>1, <1>2 DEF SendBack

LEMMA LastCallInv ==
  ASSUME HandlerInv, NEW w \in Workers, LastCall(w)
  PROVE  HandlerInv'
<1>0. job[w] \in Jobs
  BY DEF LastCall, HandlerInv
<1> PICK d \in Lags :
      \/ FinalizeSuccess(job[w], w, NoRemote, d) \/ NeedsReview(job[w], w, d)
      \/ Fail(job[w], w, d) \/ Transition(job[w], w, "cancelled", d)
      \/ UNCHANGED queueVars
  BY DEF LastCall
<1>1. QueueInv'
  <2>1. CASE UNCHANGED queueVars
    BY <2>1, QueueInvOfHandlerInv DEF QueueInv, QueueTypeOK, LeaseShape
  <2>2. CASE ~UNCHANGED queueVars
    BY <1>0, <2>2, QueueInvOfHandlerInv, FinalizeSuccessInv, SettleInv, TransitionInv
       DEF NeedsReview, Fail
  <2> QED BY <2>1, <2>2
<1>2. HandlerTypeOK' /\ LeaseShape'
  BY <1>1, LetGoTypes DEF QueueInv, HandlerInv, HandlerTypeOK, LastCall
<1> USE DEF LastCall, LetGo, FinalizeSuccess, CanFinalize, NeedsReview, Fail, Settle,
            CanSettle, Holds, Transition, CanTransition
<1>3. \A v \in Workers : (HasJob(v) /\ OwnRun(v) /\ InLimit(v) /\ ToSend(v))'
  BY <1>0 DEF HandlerInv, HandlerTypeOK, QueueTypeOK
<1>4. \A j \in Jobs : (Retries(j) /\ Effects(j))'
  <2>1. \A j \in Jobs : status'[j] # status[j] => status[j] \in ActiveStates /\ Beyond(j)'
    BY <1>0 DEF HandlerInv, HandlerTypeOK, QueueTypeOK, Transitions
  <2>2. UNCHANGED <<attempts, retries, effects>>
    OBVIOUS
  <2> QED BY <2>1, <2>2 DEF HandlerInv
<1>5. SentAlone'
  BY DEF HandlerInv, HandlerTypeOK, SentAlone
<1> QED BY <1>2, <1>3, <1>4, <1>5 DEF HandlerInv

\* The API's inserts and cancellations, and time.
LEMMA OutsideInv ==
  ASSUME HandlerInv, UNCHANGED threadVars, Quietly,
         \/ \E j \in Jobs, p \in Priorities : Enqueue(j, p, 0)
         \/ \E j \in Jobs : RequestCancel(j)
         \/ Tick
  PROVE  HandlerInv'
<1>1. QueueInv'
  BY QueueInvOfHandlerInv, EnqueueInv, RequestCancelInv, TickInv, PriorityAssumption,
     LeaseAssumption
<1>2. HandlerTypeOK' /\ LeaseShape'
  BY <1>1 DEF QueueInv, HandlerInv, HandlerTypeOK
<1> USE DEF Enqueue, RequestCancel, Tick
<1>3. \A v \in Workers : (HasJob(v) /\ OwnRun(v) /\ InLimit(v) /\ ToSend(v))'
  BY OwnerAssumption DEF HandlerInv, HandlerTypeOK, QueueTypeOK, LeaseShape
<1>4. \A j \in Jobs : (Retries(j) /\ Effects(j))'
  BY DEF HandlerInv, HandlerTypeOK, QueueTypeOK
<1>5. SentAlone'
  BY DEF HandlerInv, SentAlone
<1> QED BY <1>2, <1>3, <1>4, <1>5 DEF HandlerInv

LEMMA HandlerNextInv == HandlerInv /\ [HandlerNext]_handlerVars => HandlerInv'
<1> SUFFICES ASSUME HandlerInv, [HandlerNext]_handlerVars PROVE HandlerInv'
  OBVIOUS
<1>1. CASE UNCHANGED handlerVars
  BY <1>1 DEF HandlerInv, HandlerTypeOK, QueueTypeOK, LeaseShape, SentAlone
<1>2. CASE HandlerNext
  BY <1>2, MoveInv, RecoverInv, ClaimInv, RenewInv, HandlerCallInv, HandlerEffectInv,
     SendBackInv, LastCallInv, OutsideInv
     DEF HandlerNext
<1> QED BY <1>1, <1>2

LEMMA HandlerInitInv == HandlerInit => HandlerInv
BY QueueInitInv, RetryLimitAssumption, AttemptAssumption
   DEF HandlerInit, QueueInit, QueueInv, HandlerInv, HandlerTypeOK, SentAlone

LEMMA HandlerInvHolds == HandlerSpec => []HandlerInv
BY HandlerInitInv, HandlerNextInv, PTL DEF HandlerSpec

-----------------------------------------------------------------------------
(* The theorems.                                                            *)

\* Every variable keeps its type.
THEOREM HandlerTypeCorrect == HandlerSpec => []HandlerTypeOK
<1>1. HandlerInv => HandlerTypeOK
  BY DEF HandlerInv
<1> QED BY <1>1, HandlerInvHolds, PTL

\* A handler that marks the boundary before it asks a provider for anything asks
\* at most once per job: however often the job is retried, whichever workers
\* stall or die, and however late the marked request is sent.
THEOREM HandlerEffectHappensOnce == HandlerSpec => []EffectHappensOnce
<1>1. HandlerInv => EffectHappensOnce
  BY DEF HandlerInv, EffectHappensOnce
<1> QED BY <1>1, HandlerInvHolds, PTL

\* _requeue, which asks for the owner only, takes back nothing but a row its
\* caller runs in the attempt it counted, and no job more than RetryLimit times.
THEOREM RequeueStaysOwn == HandlerSpec => RequeueTakesOwnRun
<1> DEFINE Step == \A w \in Workers :
              At(w, "requeue") /\ ~At(w, "requeue")' /\ retries'[job[w]] > retries[job[w]]
                => /\ status[job[w]] = "running" /\ attempts[job[w]] = attempt[w]
                   /\ retries'[job[w]] <= RetryLimit
<1>1. HandlerInv /\ [HandlerNext]_handlerVars => [Step]_handlerVars
  <2> SUFFICES ASSUME HandlerInv, HandlerNext, NEW w \in Workers,
                      At(w, "requeue"), ~At(w, "requeue")',
                      retries'[job[w]] > retries[job[w]]
               PROVE  /\ status[job[w]] = "running" /\ attempts[job[w]] = attempt[w]
                      /\ retries'[job[w]] <= RetryLimit
    OBVIOUS
  <2>1. job[w] \in Jobs /\ retries[job[w]] \in Nat
    BY DEF HandlerInv, HandlerTypeOK
  <2>2. PICK v \in Workers : SendBack(v)
    BY <2>1 DEF HandlerNext, Recover, Claim, Renew, Crash, Enter, HandlerCall, HandlerEffect,
         HandlerEnds, Returned, Retryable, Raised, LastCall, Goto
  <2>3. v = w
    BY <2>2 DEF SendBack, LetGo, HandlerInv, HandlerTypeOK
  <2>4. CanRequeue(job[w], w) /\ retries' = [retries EXCEPT ![job[w]] = @ + 1]
    BY <2>1, <2>2, <2>3 DEF SendBack, Requeue
  <2>5. retries'[job[w]] = retries[job[w]] + 1
    BY <2>1, <2>4 DEF HandlerInv, HandlerTypeOK
  <2> QED BY <2>4, <2>5, RequeuedRow
<1> QED BY <1>1, HandlerInvHolds, PTL DEF HandlerSpec, RequeueTakesOwnRun

-----------------------------------------------------------------------------
(* The refinement of HandledJob.  It needs what a worker that waits with a  *)
(* decision still knows of the row the decision was about.                  *)

Known(w) ==
  /\ pc[w] = "enter" => ~marked[w]
  /\ pc[w] = "cancel" => cancelReq[job[w]]
  /\ pc[w] = "fail" /\ owner[job[w]] = w => status[job[w]] = "running"
  /\ pc[w] = "handler" /\ marked[w] =>
       \/ status[job[w]] = "waiting_provider" /\ owner[job[w]] = w
       \/ status[job[w]] = "needs_review"

\* Nothing dispatch_once or its handlers call leads to processing, and no
\* cancellation is older than its row.
RowsKnown == \A j \in Jobs : status[j] # "processing" /\ (status[j] = "absent" => ~cancelReq[j])

KnownInv == RowsKnown /\ \A w \in Workers : Known(w)

LEMMA MoveKnown ==
  ASSUME HandlerInv, KnownInv, NEW w \in Workers,
         Crash(w) \/ Enter(w) \/ HandlerEnds(w) \/ Returned(w) \/ Retryable(w) \/ Raised(w)
  PROVE  KnownInv'
<1>1. UNCHANGED queueVars /\ RowsKnown'
  BY DEF Crash, Enter, HandlerEnds, Returned, Retryable, Raised, KnownInv, RowsKnown
<1>2. ASSUME NEW v \in Workers \ {w} PROVE Known(v)'
  <2>1. pc'[v] = pc[v] /\ job'[v] = job[v] /\ marked'[v] = marked[v]
    BY DEF Crash, Enter, HandlerEnds, Returned, Retryable, Raised, Goto, LetGo, HandlerInv, HandlerTypeOK
  <2> QED BY <1>1, <2>1 DEF KnownInv, Known
<1>3. Known(w)'
  <2> USE DEF HandlerInv, HandlerTypeOK, KnownInv, Known
  <2>1. CASE Crash(w)
    BY <2>1 DEF Crash, LetGo
  <2>2. CASE Enter(w)
    BY <1>1, <2>2 DEF Enter, LetGo
  <2>3. CASE HandlerEnds(w)
    BY <2>3 DEF HandlerEnds, Goto
  <2>4. CASE Returned(w)
    BY <1>1, <2>4 DEF Returned, Goto
  <2>5. CASE Retryable(w)
    BY <1>1, <2>5 DEF Retryable, Goto
  <2>6. CASE Raised(w)
    BY <1>1, <2>6 DEF Raised, Goto
  <2> QED BY <2>1, <2>2, <2>3, <2>4, <2>5, <2>6
<1> QED BY <1>1, <1>2, <1>3 DEF KnownInv

LEMMA RecoverKnown ==
  ASSUME HandlerInv, KnownInv, NEW w \in Workers, Recover(w)
  PROVE  KnownInv'
<1> PICK d \in Lags : RecoverExpired(d)
  BY DEF Recover
<1>1. RowsKnown'
  BY DEF RecoverExpired, KnownInv, RowsKnown, HandlerInv, HandlerTypeOK, QueueTypeOK
<1>2. ASSUME NEW v \in Workers PROVE Known(v)'
  <2>1. /\ job' = job /\ marked' = marked /\ cancelReq' = cancelReq
        /\ pc'[v] = pc[v] \/ pc'[v] = "claim"
    BY DEF Recover, Goto, RecoverExpired, HandlerInv, HandlerTypeOK
  <2>2. ASSUME pc[v] \in {"fail", "handler"} PROVE job[v] \in Jobs
    BY <2>2 DEF HandlerInv
  <2>3. ASSUME NEW j \in Jobs
        PROVE  /\ owner'[j] = v => owner[j] = v /\ status'[j] = status[j]
               /\ status[j] = "waiting_provider" =>
                    (owner'[j] = owner[j] /\ status'[j] = status[j]) \/ status'[j] = "needs_review"
               /\ status[j] = "needs_review" => status'[j] = status[j]
    BY OwnerAssumption DEF RecoverExpired, HandlerInv, HandlerTypeOK, QueueTypeOK
  <2>4. Known(v)
    BY DEF KnownInv
  <2> QED BY <2>1, <2>2, <2>3, <2>4 DEF Known
<1> QED BY <1>1, <1>2 DEF KnownInv

LEMMA ClaimKnown ==
  ASSUME HandlerInv, KnownInv, NEW w \in Workers, Claim(w)
  PROVE  KnownInv'
<1>1. RowsKnown' /\ cancelReq' = cancelReq /\ marked' = marked
  BY DEF Claim, ClaimNext, KnownInv, RowsKnown, HandlerInv, HandlerTypeOK, QueueTypeOK, Goto
<1>2. ASSUME NEW v \in Workers \ {w} PROVE Known(v)'
  <2>1. pc'[v] = pc[v] /\ job'[v] = job[v]
    BY DEF Claim, Goto, HandlerInv, HandlerTypeOK
  <2>2. ASSUME pc[v] \in {"fail", "handler"} PROVE job[v] \in Jobs
    BY <2>2 DEF HandlerInv
  <2>3. ASSUME NEW j \in Jobs
        PROVE  \/ status'[j] = status[j] /\ owner'[j] = owner[j]
               \/ status[j] = "queued" /\ status'[j] = "running" /\ owner'[j] = w
    BY DEF Claim, ClaimNext, IsHead, Oldest, TopPriority, Queued, HandlerInv, HandlerTypeOK, QueueTypeOK
  <2>4. Known(v)
    BY DEF KnownInv
  <2> QED BY <1>1, <2>1, <2>2, <2>3, <2>4 DEF Known
<1>3. Known(w)'
  <2>1. pc'[w] \in {"enter", "idle"} /\ ~marked[w]
    BY DEF Claim, Goto, HandlerInv, HandlerTypeOK
  <2> QED BY <1>1, <2>1 DEF Known
<1> QED BY <1>1, <1>2, <1>3 DEF KnownInv

LEMMA RenewKnown ==
  ASSUME HandlerInv, KnownInv, NEW w \in Workers, Renew(w)
  PROVE  KnownInv'
BY DEF Renew, Heartbeat, KnownInv, Known, RowsKnown

LEMMA HandlerCallKnown ==
  ASSUME HandlerInv, KnownInv, NEW w \in Workers, HandlerCall(w)
  PROVE  KnownInv'
<1>0. job[w] \in Jobs /\ pc' = pc /\ job' = job /\ pc[w] = "handler"
  BY DEF HandlerCall, HandlerInv
<1>1. CASE \E d \in Lags, r \in RemoteIds \union {NoRemote} : MarkDispatched(job[w], w, r, d)
  <2>1. /\ owner[job[w]] = w /\ status[job[w]] = "running" /\ UNCHANGED <<owner, cancelReq>>
        /\ status' = [status EXCEPT ![job[w]] = "waiting_provider"]
    BY <1>1 DEF MarkDispatched, CanMarkDispatched
  <2>2. RowsKnown'
    BY <1>0, <2>1 DEF KnownInv, RowsKnown, HandlerInv, HandlerTypeOK, QueueTypeOK
  <2>3. \A v \in Workers \ {w} : marked'[v] = marked[v]
    BY DEF HandlerCall, HandlerInv, HandlerTypeOK
  <2>4. \A j \in Jobs : status'[j] = IF j = job[w] THEN "waiting_provider" ELSE status[j]
    BY <2>1 DEF HandlerInv, HandlerTypeOK, QueueTypeOK
  <2>5. ASSUME NEW v \in Workers \ {w} PROVE Known(v)'
    <3>1. ASSUME pc[v] \in {"fail", "handler"} PROVE job[v] \in Jobs
      BY <3>1 DEF HandlerInv
    <3>2. Known(v)
      BY DEF KnownInv
    <3> QED BY <1>0, <2>1, <2>3, <2>4, <3>1, <3>2 DEF Known
  <2>6. Known(w)'
    BY <1>0, <2>1, <2>4 DEF Known
  <2> QED BY <2>2, <2>5, <2>6 DEF KnownInv
<1>2. CASE UNCHANGED <<status, owner, cancelReq, marked>>
  BY <1>0, <1>2 DEF KnownInv, Known, RowsKnown
<1> QED BY <1>1, <1>2 DEF HandlerCall, RecordRemote, Heartbeat

LEMMA HandlerEffectKnown ==
  ASSUME HandlerInv, KnownInv, NEW w \in Workers, HandlerEffect(w)
  PROVE  KnownInv'
BY DEF HandlerEffect, KnownInv, Known, RowsKnown, HandlerInv, HandlerTypeOK

\* The last call of a worker changes no row but its own.
LEMMA EndsKnown ==
  ASSUME HandlerInv, KnownInv, NEW w \in Workers, SendBack(w) \/ LastCall(w)
  PROVE  KnownInv'
<1>0. job[w] \in Jobs
  BY DEF SendBack, LastCall, HandlerInv
<1>1. /\ \A v \in Workers \ {w} : pc'[v] = pc[v] /\ job'[v] = job[v] /\ marked'[v] = marked[v]
      /\ pc'[w] = "idle" /\ cancelReq' = cancelReq
  BY DEF SendBack, LastCall, LetGo, HandlerInv, HandlerTypeOK, Requeue, FinalizeSuccess, NeedsReview,
     Fail, Settle, Transition
<1>2. \/ UNCHANGED <<status, owner>>
      \/ /\ owner[job[w]] = w /\ status[job[w]] \in ActiveStates
         /\ \E s \in QueueStates \ {"processing"} : status' = [status EXCEPT ![job[w]] = s]
         /\ owner' = owner \/ owner' = [owner EXCEPT ![job[w]] = NoOwner]
  <2>1. CASE SendBack(w)
    <3>1. CASE UNCHANGED queueVars
      BY <3>1
    <3>2. CASE Requeue(job[w], w)
      <4>1. owner[job[w]] = w /\ status[job[w]] = "running"
        BY <2>1, <3>2, RequeuedRow DEF SendBack, Requeue, CanRequeue
      <4>2. /\ status' = [status EXCEPT ![job[w]] = "queued"]
            /\ owner' = [owner EXCEPT ![job[w]] = NoOwner]
        BY <3>2 DEF Requeue
      <4>3. "queued" \in QueueStates \ {"processing"} /\ "running" \in ActiveStates
        OBVIOUS
      <4> QED BY <4>1, <4>2, <4>3
    <3> QED BY <2>1, <3>1, <3>2 DEF SendBack
  <2>2. CASE LastCall(w)
    BY <2>2 DEF LastCall, FinalizeSuccess, CanFinalize, NeedsReview, Fail, Settle, CanSettle, Holds,
       Transition, CanTransition, Transitions
  <2> QED BY <2>1, <2>2
<1>3. \A j \in Jobs : \/ status'[j] = status[j] /\ owner'[j] = owner[j]
                      \/ j = job[w] /\ owner[j] = w /\ status[j] \in ActiveStates
                         /\ owner'[j] \in {w, NoOwner} /\ status'[j] \notin {"processing", "absent"}
  BY <1>0, <1>2 DEF HandlerInv, HandlerTypeOK, QueueTypeOK
<1>4. RowsKnown'
  BY <1>1, <1>3 DEF KnownInv, RowsKnown
<1>5. ASSUME NEW v \in Workers \ {w} PROVE Known(v)'
  <2>1. ASSUME pc[v] \in {"fail", "handler"} PROVE job[v] \in Jobs
    BY <2>1 DEF HandlerInv
  <2>2. Known(v)
    BY DEF KnownInv
  <2> QED BY <1>1, <1>3, <2>1, <2>2, OwnerAssumption DEF Known
<1>6. Known(w)'
  BY <1>1 DEF Known
<1> QED BY <1>4, <1>5, <1>6 DEF KnownInv

LEMMA OutsideKnown ==
  ASSUME HandlerInv, KnownInv, UNCHANGED threadVars,
         \/ \E j \in Jobs, p \in Priorities : Enqueue(j, p, 0)
         \/ \E j \in Jobs : RequestCancel(j)
         \/ Tick
  PROVE  KnownInv'
<1>1. /\ owner' = owner
      /\ \A j \in Jobs : /\ cancelReq[j] => cancelReq'[j]
                         /\ status'[j] = status[j] \/ (status[j] = "absent" /\ status'[j] = "queued")
                         /\ status[j] = "absent" => cancelReq'[j] = cancelReq[j]
  BY DEF Enqueue, RequestCancel, Tick, HandlerInv, HandlerTypeOK, QueueTypeOK
<1>2. RowsKnown'
  BY <1>1 DEF KnownInv, RowsKnown
<1>3. ASSUME NEW v \in Workers PROVE Known(v)'
  <2>1. ASSUME pc[v] \in {"cancel", "fail", "handler"} PROVE job[v] \in Jobs
    BY <2>1 DEF HandlerInv
  <2>2. Known(v)
    BY DEF KnownInv
  <2> QED BY <1>1, <2>1, <2>2 DEF Known
<1> QED BY <1>2, <1>3 DEF KnownInv

LEMMA KnownNext == HandlerInv /\ KnownInv /\ [HandlerNext]_handlerVars => KnownInv'
<1> SUFFICES ASSUME HandlerInv, KnownInv, [HandlerNext]_handlerVars PROVE KnownInv'
  OBVIOUS
<1>1. CASE UNCHANGED handlerVars
  BY <1>1 DEF KnownInv, Known, RowsKnown
<1>2. CASE HandlerNext
  BY <1>2, MoveKnown, RecoverKnown, ClaimKnown, RenewKnown, HandlerCallKnown, HandlerEffectKnown,
     EndsKnown, OutsideKnown
     DEF HandlerNext
<1> QED BY <1>1, <1>2

LEMMA KnownHolds == HandlerSpec => []KnownInv
<1>1. HandlerInit => KnownInv
  BY DEF HandlerInit, QueueInit, KnownInv, Known, RowsKnown
<1> QED BY <1>1, KnownNext, HandlerInvHolds, PTL DEF HandlerSpec

\* What one step does to one job is a step of that job in HandledJob, or nothing.
LEMMA QuietMaps ==
  ASSUME NEW i \in Jobs,
         status'[i] = status[i], cancelReq'[i] = cancelReq[i], effects'[i] = effects[i], retries'[i] = retries[i]
  PROVE  Handled!JobStep(i)
BY DEF Handled!JobStep, StageOf

LEMMA MoveMaps ==
  ASSUME NEW i \in Jobs, StageOf(i)' \in Handled!Moves(StageOf(i)), effects'[i] = effects[i], retries'[i] = retries[i]
  PROVE  Handled!JobStep(i)
BY DEF Handled!JobStep, Handled!Move

LEMMA RecoverMaps ==
  ASSUME HandlerInv, KnownInv, NEW w \in Workers, Recover(w), NEW i \in Jobs
  PROVE  Handled!JobStep(i)
<1>1. UNCHANGED <<cancelReq, effects, retries>>
  BY DEF Recover, RecoverExpired
<1>2. \/ status'[i] = status[i]
      \/ status[i] = "running" /\ status'[i] = "queued"
      \/ status[i] = "waiting_provider" /\ status'[i] = "needs_review"
  BY DEF Recover, RecoverExpired, HandlerInv, HandlerTypeOK, QueueTypeOK, KnownInv, RowsKnown
<1>3. StageOf(i)' = StageOf(i) \/ (StageOf(i) = "sent" /\ StageOf(i)' = "needs_review")
  BY <1>1, <1>2 DEF StageOf
<1>4. CASE StageOf(i)' = StageOf(i)
  BY <1>1, <1>4 DEF Handled!JobStep
<1> QED BY <1>1, <1>3, <1>4, MoveMaps DEF Handled!Moves

LEMMA ClaimMaps ==
  ASSUME HandlerInv, NEW w \in Workers, Claim(w), NEW i \in Jobs
  PROVE  Handled!JobStep(i)
<1>1. UNCHANGED <<cancelReq, effects, retries>>
  BY DEF Claim, ClaimNext
<1>2. status'[i] = status[i] \/ (status[i] = "queued" /\ status'[i] = "running")
  BY DEF Claim, ClaimNext, IsHead, Oldest, TopPriority, Queued, HandlerInv, HandlerTypeOK, QueueTypeOK
<1>3. StageOf(i)' = StageOf(i)
  BY <1>1, <1>2 DEF StageOf
<1> QED BY <1>1, <1>3 DEF Handled!JobStep

\* mark_dispatched sends an open job; the other calls of a handler change no stage.
LEMMA HandlerCallMaps ==
  ASSUME HandlerInv, NEW w \in Workers, HandlerCall(w), NEW i \in Jobs
  PROVE  Handled!JobStep(i)
<1>1. UNCHANGED <<cancelReq, effects, retries>>
  BY DEF HandlerCall, MarkDispatched, RecordRemote, Heartbeat
<1>2. \/ status'[i] = status[i]
      \/ status[i] = "running" /\ ~cancelReq[i] /\ status'[i] = "waiting_provider"
  BY DEF HandlerCall, MarkDispatched, CanMarkDispatched, RecordRemote, Heartbeat,
     HandlerInv, HandlerTypeOK, QueueTypeOK
<1>3. CASE status'[i] = status[i]
  BY <1>1, <1>3, QuietMaps
<1>4. CASE status[i] = "running" /\ ~cancelReq[i] /\ status'[i] = "waiting_provider"
  <2>1. StageOf(i) = "open" /\ StageOf(i)' = "sent"
    BY <1>1, <1>4 DEF StageOf
  <2> QED BY <1>1, <2>1, MoveMaps DEF Handled!Moves
<1> QED BY <1>2, <1>3, <1>4

LEMMA HandlerEffectMaps ==
  ASSUME HandlerInv, KnownInv, NEW w \in Workers, HandlerEffect(w), NEW i \in Jobs
  PROVE  Handled!JobStep(i)
<1>1. UNCHANGED <<status, cancelReq, retries>> /\ job[w] \in Jobs
  BY DEF HandlerEffect, HandlerInv
<1>2. CASE i # job[w]
  <2>1. effects'[i] = effects[i]
    BY <1>2 DEF HandlerEffect, HandlerInv, HandlerTypeOK
  <2> QED BY <1>1, <2>1, QuietMaps
<1>3. CASE i = job[w]
  <2>1. effects[i] = 0 /\ effects'[i] = 1
    BY <1>1, <1>3 DEF HandlerEffect, HandlerInv, HandlerTypeOK
  <2>2. status[i] \in {"waiting_provider", "needs_review"}
    BY <1>3 DEF HandlerEffect, KnownInv, Known
  <2>3. StageOf(i) \in {"sent", "needs_review"} /\ StageOf(i)' = StageOf(i)
    BY <1>1, <2>2 DEF StageOf
  <2> QED BY <1>1, <2>1, <2>3 DEF Handled!JobStep, Handled!Request
<1> QED BY <1>2, <1>3

LEMMA SendBackMaps ==
  ASSUME HandlerInv, NEW w \in Workers, SendBack(w), NEW i \in Jobs
  PROVE  Handled!JobStep(i)
<1>1. CASE UNCHANGED <<queueVars, retries>>
  BY <1>1, QuietMaps DEF SendBack
<1>2. CASE Requeue(job[w], w) /\ retries' = [retries EXCEPT ![job[w]] = @ + 1]
  <2>1. /\ job[w] \in Jobs /\ status[job[w]] = "running" /\ retries[job[w]] + 1 <= RetryLimit
        /\ UNCHANGED <<cancelReq, effects>>
    BY <1>2, RequeuedRow DEF SendBack, Requeue
  <2>2. CASE i # job[w]
    <3>1. status'[i] = status[i] /\ retries'[i] = retries[i]
      BY <1>2, <2>2 DEF Requeue, HandlerInv, HandlerTypeOK, QueueTypeOK
    <3> QED BY <2>1, <3>1, QuietMaps
  <2>3. CASE i = job[w]
    <3>1. status'[i] = "queued" /\ retries'[i] = retries[i] + 1 /\ retries[i] \in Nat /\ effects[i] \in Nat
      BY <1>2, <2>1, <2>3 DEF Requeue, HandlerInv, HandlerTypeOK, QueueTypeOK
    <3>2. effects[i] = 0
      BY <2>1, <2>3, <3>1 DEF HandlerInv
    <3>3. retries[i] < RetryLimit
      BY <2>1, <2>3, <3>1, RetryLimitAssumption
    <3>4. StageOf(i) \in {"open", "withdrawn"} /\ StageOf(i)' = StageOf(i)
      BY <2>1, <2>3, <3>1 DEF StageOf
    <3> QED BY <2>1, <3>1, <3>2, <3>3, <3>4 DEF Handled!JobStep, Handled!Return
  <2> QED BY <2>2, <2>3
<1> QED BY <1>1, <1>2 DEF SendBack

LEMMA LastCallMaps ==
  ASSUME HandlerInv, KnownInv, NEW w \in Workers, LastCall(w), NEW i \in Jobs
  PROVE  Handled!JobStep(i)
<1>0. job[w] \in Jobs /\ UNCHANGED <<effects, retries>>
  BY DEF LastCall, HandlerInv
<1>1. CASE UNCHANGED <<status, cancelReq>>
  BY <1>0, <1>1, QuietMaps
<1>2. ASSUME ~UNCHANGED <<status, cancelReq>>
      PROVE  /\ cancelReq' = cancelReq /\ owner[job[w]] = w
             /\ status[job[w]] \in ActiveStates
             /\ \/ /\ ~cancelReq[job[w]] /\ status' = [status EXCEPT ![job[w]] = "succeeded"]
                \/ status' = [status EXCEPT ![job[w]] = "needs_review"]
                \/ pc[w] = "fail" /\ status' = [status EXCEPT ![job[w]] = "failed"]
                \/ pc[w] = "cancel" /\ status' = [status EXCEPT ![job[w]] = "cancelled"]
  BY <1>2 DEF LastCall, FinalizeSuccess, CanFinalize, NeedsReview, Fail, Settle, CanSettle, Holds,
     Transition, CanTransition, Transitions
<1>3. ASSUME ~UNCHANGED <<status, cancelReq>> PROVE Handled!JobStep(i)
  <2>1. CASE i # job[w]
    <3>1. status'[i] = status[i] /\ cancelReq'[i] = cancelReq[i]
      BY <1>2, <1>3, <2>1 DEF HandlerInv, HandlerTypeOK, QueueTypeOK
    <3> QED BY <1>0, <3>1, QuietMaps
  <2>2. CASE i = job[w]
    <3>1. status[i] \in {"running", "waiting_provider"}
      BY <1>0, <1>2, <1>3, <2>2 DEF KnownInv, RowsKnown
    <3>2. \/ ~cancelReq[i] /\ status'[i] = "succeeded"
          \/ status'[i] = "needs_review"
          \/ pc[w] = "fail" /\ status'[i] = "failed"
          \/ pc[w] = "cancel" /\ status'[i] = "cancelled"
      BY <1>0, <1>2, <1>3, <2>2 DEF HandlerInv, HandlerTypeOK, QueueTypeOK
    <3>3. /\ pc[w] = "fail" => status[i] = "running"
          /\ pc[w] = "cancel" => cancelReq[i]
      BY <1>2, <1>3, <2>2 DEF KnownInv, Known
    <3>4. StageOf(i)' = status'[i] /\ StageOf(i) = IF status[i] = "waiting_provider" THEN "sent"
                                                   ELSE IF cancelReq[i] THEN "withdrawn" ELSE "open"
      BY <3>1, <3>2 DEF StageOf
    <3>5. StageOf(i)' \in Handled!Moves(StageOf(i))
      BY <3>1, <3>2, <3>3, <3>4 DEF Handled!Moves
    <3> QED BY <1>0, <3>5, MoveMaps
  <2> QED BY <2>1, <2>2
<1> QED BY <1>1, <1>3

LEMMA OutsideMaps ==
  ASSUME HandlerInv, KnownInv, Quietly, NEW i \in Jobs,
         \/ \E j \in Jobs, p \in Priorities : Enqueue(j, p, 0)
         \/ \E j \in Jobs : RequestCancel(j)
         \/ Tick
  PROVE  Handled!JobStep(i)
<1>1. CASE \E j \in Jobs, p \in Priorities : Enqueue(j, p, 0)
  <2>1. cancelReq' = cancelReq /\ (status'[i] = status[i] \/ (status[i] = "absent" /\ status'[i] = "queued"))
    BY <1>1 DEF Enqueue, HandlerInv, HandlerTypeOK, QueueTypeOK
  <2>2. CASE status'[i] = status[i]
    BY <2>1, <2>2, QuietMaps
  <2>3. CASE status[i] = "absent" /\ status'[i] = "queued"
    <3>1. StageOf(i) = "absent" /\ StageOf(i)' = "open"
      BY <2>1, <2>3 DEF StageOf, KnownInv, RowsKnown
    <3> QED BY <3>1, MoveMaps DEF Handled!Moves
  <2> QED BY <2>1, <2>2, <2>3
<1>2. CASE \E j \in Jobs : RequestCancel(j)
  <2> PICK j \in Jobs : RequestCancel(j)
    BY <1>2
  <2>1. /\ status' = status /\ status[j] \notin TerminalStates \union {"absent"}
        /\ cancelReq' = [cancelReq EXCEPT ![j] = TRUE] /\ cancelReq \in [Jobs -> BOOLEAN]
        /\ status \in [Jobs -> QueueStates \union {"absent"}]
    BY DEF RequestCancel, HandlerInv, HandlerTypeOK, QueueTypeOK
  <2>2. CASE i # j \/ cancelReq[i]
    BY <2>1, <2>2, QuietMaps
  <2>3. CASE i = j /\ ~cancelReq[i]
    <3>1. cancelReq'[i] /\ status[i] \in {"queued"} \union ActiveStates
      BY <2>1, <2>3
    <3>2. StageOf(i)' = StageOf(i) \/ (StageOf(i) = "open" /\ StageOf(i)' = "withdrawn")
      BY <2>1, <2>3, <3>1 DEF StageOf
    <3>3. CASE StageOf(i)' = StageOf(i)
      BY <3>3 DEF Handled!JobStep
    <3> QED BY <3>2, <3>3, MoveMaps DEF Handled!Moves
  <2> QED BY <2>2, <2>3
<1>3. CASE Tick
  BY <1>3, QuietMaps DEF Tick
<1> QED BY <1>1, <1>2, <1>3

LEMMA NextMaps ==
  HandlerInv /\ HandlerInv' /\ KnownInv /\ [HandlerNext]_handlerVars => [Handled!Next]_(Handled!handledVars)
<1> SUFFICES ASSUME HandlerInv, HandlerInv', KnownInv, [HandlerNext]_handlerVars
             PROVE  [Handled!Next]_(Handled!handledVars)
  OBVIOUS
<1>1. CASE UNCHANGED handlerVars
  BY <1>1 DEF StageOf, Handled!handledVars
<1>2. CASE HandlerNext
  <2>1. [j \in Jobs |-> StageOf(j)'] \in [Jobs -> Handled!Stages]
    BY DEF HandlerInv, HandlerTypeOK, QueueTypeOK, StageOf, Handled!Stages, Handled!Ends
  <2>2. effects' \in [Jobs -> Nat] /\ retries' \in [Jobs -> Nat]
    BY DEF HandlerInv, HandlerTypeOK
  <2>3. ASSUME NEW i \in Jobs PROVE Handled!JobStep(i)
    <3>1. ASSUME NEW w \in Workers,
                 \/ Crash(w) \/ Enter(w) \/ HandlerEnds(w) \/ Returned(w) \/ Retryable(w) \/ Raised(w)
          PROVE  Handled!JobStep(i)
      BY <3>1, QuietMaps DEF Crash, Enter, HandlerEnds, Returned, Retryable, Raised
    <3>2. ASSUME NEW w \in Workers, Renew(w) PROVE Handled!JobStep(i)
      BY <3>2, QuietMaps DEF Renew, Heartbeat
    <3> QED BY <1>2, <3>1, <3>2, RecoverMaps, ClaimMaps, HandlerCallMaps, HandlerEffectMaps,
               SendBackMaps, LastCallMaps, OutsideMaps
               DEF HandlerNext
  <2> QED BY <2>1, <2>2, <2>3 DEF Handled!Next
<1> QED BY <1>1, <1>2

\* Workers, handlers and except clauses implement HandledJob: past the boundary
\* a job is neither run again nor reported as failed, a withdrawn one is neither
\* sent nor done, and what is sent again was never sent.
THEOREM RefinesHandledJob == HandlerSpec => ImplementsHandledJob
<1>1. HandlerInit => Handled!Init
  BY DEF HandlerInit, QueueInit, StageOf, Handled!Init
<1> QED BY <1>1, NextMaps, HandlerInvHolds, KnownHolds, PTL DEF HandlerSpec, Handled!Spec, ImplementsHandledJob

=============================================================================
