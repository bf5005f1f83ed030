---------------------- MODULE ConnectorDispatchProofs ----------------------
(***************************************************************************)
(* Theorems about ConnectorDispatch for any number of jobs, workers and     *)
(* incarnations, any lease, clock lag and poll limit, with and without      *)
(* local faults.                                                            *)
(***************************************************************************)
EXTENDS ConnectorDispatch, GenerationQueueProofs

USE DEF Lags, Lapsed, NoRemote, ActiveStates, TerminalStates, QueueStates, Labels,
        queueVars, workerVars, providerVars, At, Elsewhere

HasJob(w) == beating[w] \/ pc[w] \notin {"idle", "claim", "dead"} => job[w] \in Jobs

-----------------------------------------------------------------------------
(* Types.  They need to know of a thread only that one that works has a row,*)
(* so they hold also where the rest of the invariant below does not.        *)

Typed == QueueInv /\ ThreadTypeOK /\ \A w \in Workers : HasJob(w)

LEMMA GotoTypes ==
  ASSUME ThreadTypeOK, NEW w \in Workers, NEW l \in Labels, Goto(w, l),
         UNCHANGED <<submits, gen, staged>>
  PROVE  ThreadTypeOK'
BY DEF ThreadTypeOK, Goto

LEMMA LeaveTypes ==
  ASSUME ThreadTypeOK, NEW w \in Workers, Leave(w), UNCHANGED <<submits, gen, staged>>
  PROVE  ThreadTypeOK'
BY PollAssumption DEF ThreadTypeOK, Leave

\* The rows: every step is one operation on the table, or none.
LEMMA RowsTyped ==
  ASSUME Typed, Next
  PROVE  QueueInv'
<1> USE DEF Typed
<1>1. CASE UNCHANGED queueVars
  BY <1>1 DEF QueueInv, QueueTypeOK, LeaseShape
<1>2. ASSUME NEW w \in Workers, \/ Beat(w) \/ PollBeat(w) \/ RetryBeat(w)
                               \/ ResultBeat(w) \/ FetchBeat(w) \/ Renew(w)
      PROVE  QueueInv'
  <2>1. job[w] \in Jobs
    BY <1>2 DEF HasJob, Beat, PollBeat, RetryBeat, ResultBeat, FetchBeat, Renew, BeatThen
  <2>2. PICK d \in Lags : Heartbeat(job[w], w, d) \/ UNCHANGED queueVars
    BY <1>2 DEF Beat, PollBeat, RetryBeat, ResultBeat, FetchBeat, Renew, BeatThen
  <2> QED BY <1>1, <2>1, <2>2, HeartbeatInv
<1>3. ASSUME NEW w \in Workers, Recover(w) \/ Reap(w) PROVE QueueInv'
  BY <1>3, RecoverExpiredInv DEF Recover, Reap
<1>4. ASSUME NEW w \in Workers, Claim(w) PROVE QueueInv'
  BY <1>4, ClaimNextInv DEF Claim
<1>5. ASSUME NEW w \in Workers, Mark(w) PROVE QueueInv'
  <2>1. job[w] \in Jobs
    BY <1>5 DEF HasJob, Mark
  <2> QED BY <1>1, <1>5, <2>1, MarkDispatchedInv DEF Mark
<1>6. ASSUME NEW w \in Workers, Record(w) PROVE QueueInv'
  <2>1. job[w] \in Jobs /\ rid[w] \in Nat
    BY <1>6 DEF HasJob, Record, ThreadTypeOK
  <2> QED BY <1>1, <1>6, <2>1, RecordRemoteInv DEF Record
<1>7. ASSUME NEW w \in Workers, Commit(w) PROVE QueueInv'
  <2>1. job[w] \in Jobs /\ rid[w] \in Nat
    BY <1>7 DEF HasJob, Commit, ThreadTypeOK
  <2> QED BY <1>1, <1>7, <2>1, FinalizeSuccessInv DEF Commit
<1>8. ASSUME NEW w \in Workers, Review(w) \/ Failing(w) \/ Cancelling(w) PROVE QueueInv'
  <2>1. job[w] \in Jobs
    BY <1>8 DEF HasJob, Review, Failing, Cancelling
  <2> QED BY <1>1, <1>8, <2>1, SettleInv, TransitionInv
         DEF Review, Failing, Cancelling, NeedsReview, Fail
<1>9. ASSUME NEW j \in Jobs, Submit(j) \/ Cancel(j) PROVE QueueInv'
  BY <1>9, EnqueueInv, RequestCancelInv, LeaseAssumption DEF Submit, Cancel
<1>10. CASE TimePasses
  BY <1>10, TickInv DEF TimePasses
<1>11. ASSUME ~UNCHANGED queueVars
       PROVE  \/ \E w \in Workers :
                   \/ Beat(w) \/ PollBeat(w) \/ RetryBeat(w) \/ ResultBeat(w) \/ FetchBeat(w)
                   \/ Renew(w) \/ Recover(w) \/ Reap(w) \/ Claim(w) \/ Mark(w) \/ Record(w)
                   \/ Commit(w) \/ Review(w) \/ Failing(w) \/ Cancelling(w)
              \/ \E j \in Jobs : Submit(j) \/ Cancel(j)
              \/ TimePasses
  <2>1. \A w \in Workers : (\/ ClaimNothing(w) \/ Check(w) \/ Precheck(w) \/ PostAnswered(w)
                            \/ PostUnanswered(w) \/ PostRefused(w)) => UNCHANGED queueVars
    BY DEF ClaimNothing, Check, Precheck, PostAnswered, PostUnanswered, PostRefused
  <2>2. \A w \in Workers : (\/ Poll(w) \/ ReadStatus(w) \/ TellProvider(w) \/ Stage(w)
                            \/ Finish(w) \/ Reaped(w)) => UNCHANGED queueVars
    BY DEF Poll, ReadStatus, TellProvider, Stage, Finish, Reaped
  <2>3. \A w \in Workers : (\/ OnQueueError(w) \/ OnError(w) \/ OnCancelled(w)
                            \/ LocalFault(w) \/ Crash(w) \/ RenewalDies(w)) => UNCHANGED queueVars
    BY DEF OnQueueError, OnError, OnCancelled, LocalFault, Crash, RenewalDies
  <2>4. \A j \in Jobs : ProviderFinishes(j) => UNCHANGED queueVars
    BY DEF ProviderFinishes
  <2> QED BY <1>11, <2>1, <2>2, <2>3, <2>4 DEF Next, Work
<1> QED BY <1>1, <1>2, <1>3, <1>4, <1>5, <1>6, <1>7, <1>8, <1>9, <1>10, <1>11

\* The threads: every step of one moves it to a label or makes it leave.
LEMMA ThreadsTyped ==
  ASSUME Typed, Next
  PROVE  ThreadTypeOK' /\ \A v \in Workers : HasJob(v)'
<1> USE DEF Typed
<1>1. ASSUME NEW w \in Workers, NEW l \in Labels \ {"idle", "claim", "dead"}, Goto(w, l),
             ~(pc[w] \in {"idle", "claim", "dead"}), UNCHANGED <<submits, gen, staged>>
      PROVE  ThreadTypeOK' /\ \A v \in Workers : HasJob(v)'
  <2>1. ThreadTypeOK'
    BY <1>1, GotoTypes
  <2>2. job' = job /\ beating' = beating /\ pc' = [pc EXCEPT ![w] = l] /\ pc \in [Workers -> Labels]
    BY <1>1 DEF Goto, ThreadTypeOK
  <2>3. job[w] \in Jobs
    BY <1>1 DEF HasJob
  <2>4. ASSUME NEW v \in Workers PROVE HasJob(v)'
    BY <2>2, <2>3 DEF HasJob
  <2> QED BY <2>1, <2>4
<1>2. ASSUME NEW w \in Workers, Leave(w), UNCHANGED <<submits, gen, staged>>
      PROVE  ThreadTypeOK' /\ \A v \in Workers : HasJob(v)'
  <2>1. ThreadTypeOK'
    BY <1>2, LeaveTypes
  <2>2. ASSUME NEW v \in Workers PROVE HasJob(v)'
    BY <1>2 DEF HasJob, Leave, ThreadTypeOK
  <2> QED BY <2>1, <2>2
<1>3. ASSUME NEW w \in Workers, Recover(w) \/ ClaimNothing(w)
      PROVE  ThreadTypeOK' /\ \A v \in Workers : HasJob(v)'
  <2>1. \/ Goto(w, "claim") \/ Goto(w, "idle")
    BY <1>3 DEF Recover, ClaimNothing
  <2>2. UNCHANGED <<submits, gen, staged>>
    BY <1>3 DEF Recover, ClaimNothing
  <2>3. ThreadTypeOK'
    BY <2>1, <2>2, GotoTypes
  <2>4. ASSUME NEW v \in Workers PROVE HasJob(v)'
    BY <2>1 DEF HasJob, Goto, ThreadTypeOK
  <2> QED BY <2>3, <2>4
<1>4. ASSUME NEW w \in Workers, Claim(w)
      PROVE  ThreadTypeOK' /\ \A v \in Workers : HasJob(v)'
  BY <1>4 DEF Claim, HasJob, ThreadTypeOK
<1>5. ASSUME NEW w \in Workers, \/ Check(w) \/ Precheck(w) \/ PostRefused(w) \/ Poll(w)
                               \/ Finish(w) \/ OnQueueError(w) \/ OnError(w)
                               \/ OnCancelled(w) \/ Reap(w) \/ Reaped(w) \/ LocalFault(w)
      PROVE  ThreadTypeOK' /\ \A v \in Workers : HasJob(v)'
  BY <1>1, <1>2, <1>5 DEF Check, Precheck, PostRefused, Poll, Finish, OnQueueError, OnError,
       OnCancelled, Reap, Reaped, LocalFault
<1>6. ASSUME NEW w \in Workers, \/ Beat(w) \/ PollBeat(w) \/ RetryBeat(w)
                               \/ ResultBeat(w) \/ FetchBeat(w) \/ Mark(w) \/ Record(w)
      PROVE  ThreadTypeOK' /\ \A v \in Workers : HasJob(v)'
  BY <1>1, <1>6 DEF Beat, PollBeat, RetryBeat, ResultBeat, FetchBeat, BeatThen, Mark, Record
<1>7. ASSUME NEW w \in Workers, Commit(w) \/ Review(w) \/ Failing(w) \/ Cancelling(w)
      PROVE  ThreadTypeOK' /\ \A v \in Workers : HasJob(v)'
  BY <1>2, <1>7 DEF Commit, Review, Failing, Cancelling
<1>8. ASSUME NEW w \in Workers, PostAnswered(w) \/ PostUnanswered(w)
      PROVE  ThreadTypeOK' /\ \A v \in Workers : HasJob(v)'
  <2>1. job[w] \in Jobs
    BY <1>8 DEF PostAnswered, PostUnanswered, HasJob
  <2> QED BY <1>8, <2>1 DEF PostAnswered, PostUnanswered, Accept, Goto, HasJob, ThreadTypeOK
<1>9. ASSUME NEW w \in Workers, ReadStatus(w)
      PROVE  ThreadTypeOK' /\ \A v \in Workers : HasJob(v)'
  <2>1. CASE Goto(w, "resultbeat") \/ Goto(w, "onError")
    BY <1>1, <1>9, <2>1 DEF ReadStatus
  <2>2. CASE ~(Goto(w, "resultbeat") \/ Goto(w, "onError"))
    BY <1>9, <2>2, PollAssumption DEF ReadStatus, HasJob, ThreadTypeOK
  <2> QED BY <2>1, <2>2
<1>10. ASSUME NEW w \in Workers, TellProvider(w) \/ Stage(w)
       PROVE  ThreadTypeOK' /\ \A v \in Workers : HasJob(v)'
  <2>1. job[w] \in Jobs
    BY <1>10 DEF TellProvider, Stage, HasJob
  <2>2. CASE TellProvider(w)
    BY <2>1, <2>2 DEF TellProvider, Goto, HasJob, ThreadTypeOK
  <2>3. CASE Stage(w)
    BY <2>1, <2>3 DEF Stage, Goto, HasJob, ThreadTypeOK
  <2> QED BY <1>10, <2>2, <2>3
<1>11. ASSUME NEW w \in Workers, Crash(w)
       PROVE  ThreadTypeOK' /\ \A v \in Workers : HasJob(v)'
  BY <1>11, PollAssumption DEF Crash, HasJob, ThreadTypeOK
<1>12. ASSUME NEW w \in Workers, Renew(w) \/ RenewalDies(w)
       PROVE  ThreadTypeOK' /\ \A v \in Workers : HasJob(v)'
  BY <1>12 DEF Renew, RenewalDies, HasJob, ThreadTypeOK
<1>13. ASSUME NEW j \in Jobs, Submit(j) \/ Cancel(j) \/ ProviderFinishes(j)
       PROVE  ThreadTypeOK' /\ \A v \in Workers : HasJob(v)'
  BY <1>13 DEF Submit, Cancel, ProviderFinishes, HasJob, ThreadTypeOK
<1>14. CASE TimePasses
  BY <1>14 DEF TimePasses, HasJob, ThreadTypeOK
<1> QED BY <1>3, <1>4, <1>5, <1>6, <1>7, <1>8, <1>9, <1>10, <1>11, <1>12, <1>13, <1>14
           DEF Next, Work

LEMMA TypedStep ==
  ASSUME Typed, Next
  PROVE  Typed'
BY RowsTyped, ThreadsTyped DEF Typed

-----------------------------------------------------------------------------
(* The inductive invariant.  First the rows.                                *)

\* The row has crossed the boundary; recovery cannot make it claimable again.
Beyond(j) == status[j] \notin {"absent", "queued", "running"}

RowInv ==
  \A j \in Jobs :
    /\ status[j] # "processing"
    /\ status[j] = "absent" => ~cancelReq[j]
    /\ submits[j] > 0 => Beyond(j) /\ submits[j] = 1
    /\ submits[j] > 0 /\ Provider[j] = "openai" => gen[j] = "done"
    /\ status[j] = "succeeded" =>
         submits[j] = 1 /\ gen[j] = "done" /\ remote[j] = 1 /\ staged[j]
    /\ status[j] = "cancelled" /\ submits[j] > 0 => gen[j] \in {"done", "cancelling"}

(* Then what a worker at a label knows of the row it claimed.  It may have  *)
(* lost the row long ago: most of it holds only while the row is its own.   *)

Mine(w) == owner[job[w]] = w /\ status[job[w]] \in ActiveStates

UnsentLabels  == {"check", "precheck", "beat", "mark", "fail"}
DoneLabels    == {"resultbeat", "fetch", "refetch", "finish", "commit"}
ChargedLabels == {"record", "poll", "pollbeat", "status", "retrybeat", "tellcancel"}
                   \union DoneLabels

UnsentInv(w) == pc[w] \in UnsentLabels /\ Mine(w) => status[job[w]] = "running"

\* A POST about to be made is the first one, also when its worker lost the row.
PostInv(w) ==
  pc[w] = "post" =>
    /\ submits[job[w]] = 0
    /\ \/ status[job[w]] = "waiting_provider" /\ owner[job[w]] = w
       \/ status[job[w]] = "needs_review"

ChargedInv(w) ==
  /\ pc[w] \in ChargedLabels => submits[job[w]] = 1 /\ rid[w] = 1
  /\ pc[w] \in DoneLabels => gen[job[w]] = "done"
  /\ pc[w] \in {"finish", "commit"} => staged[job[w]]

CancelInv(w) ==
  /\ pc[w] = "cancel" => cancelReq[job[w]]
  /\ pc[w] \in {"onCancelled", "cancel"} /\ Mine(w) /\ status[job[w]] = "waiting_provider"
       => submits[job[w]] = 1 /\ gen[job[w]] \in {"done", "cancelling"}

ThreadInv(w) ==
  HasJob(w) /\ UnsentInv(w) /\ PostInv(w) /\ ChargedInv(w) /\ CancelInv(w)

\* Two workers never stand before the POST of the same job.
PostAlone ==
  \A v, w \in Workers : pc[v] = "post" /\ pc[w] = "post" /\ job[v] = job[w] => v = w

IInv ==
  /\ QueueInv
  /\ ThreadTypeOK
  /\ RowInv
  /\ \A w \in Workers : ThreadInv(w)
  /\ PostAlone

USE DEF UnsentLabels, DoneLabels, ChargedLabels

-----------------------------------------------------------------------------
(* Every step keeps it.  Types are kept by TypedStep; here come the rows,   *)
(* the threads and the workers before a POST.                               *)

USE DEF IInv

LEMMA IInvIsTyped == IInv => Typed
BY DEF Typed, ThreadInv

\* Steps that only move a thread.
LEMMA QuietStepInv ==
  ASSUME IInv, NEW w \in Workers,
         ClaimNothing(w) \/ Check(w) \/ Precheck(w) \/ PostRefused(w) \/ Poll(w) \/ ReadStatus(w) \/ Finish(w) \/
         OnQueueError(w) \/ OnError(w) \/ OnCancelled(w) \/ Reaped(w) \/ LocalFault(w) \/ Crash(w) \/ RenewalDies(w)
  PROVE  IInv'
<1>1. QueueInv' /\ ThreadTypeOK'
  BY IInvIsTyped, TypedStep DEF Typed, Next, Work
<1>2. RowInv'
  BY DEF ClaimNothing, Check, Precheck, PostRefused, Poll, ReadStatus, Finish, OnQueueError,
         OnError, OnCancelled, Reaped, LocalFault, Crash, RenewalDies, RowInv, Beyond
<1>3. \A v \in Workers : ThreadInv(v)'
  <2> USE DEF RowInv, ThreadTypeOK, ThreadInv, HasJob, UnsentInv, PostInv, ChargedInv, CancelInv, Mine, Goto, Leave
  <2>1. CASE ClaimNothing(w) \/ Check(w) \/ Precheck(w) \/ PostRefused(w)
    BY <2>1 DEF ClaimNothing, Check, Precheck, PostRefused
  <2>2. CASE Poll(w) \/ ReadStatus(w) \/ Finish(w) \/ Reaped(w)
    BY <2>2 DEF Poll, ReadStatus, Finish, Reaped
  <2>3. CASE OnQueueError(w) \/ OnError(w) \/ OnCancelled(w)
    BY <2>3 DEF OnQueueError, OnError, OnCancelled
  <2>4. CASE LocalFault(w) \/ Crash(w) \/ RenewalDies(w)
    BY <2>4 DEF LocalFault, Crash, RenewalDies
  <2> QED BY <2>1, <2>2, <2>3, <2>4
<1>4. PostAlone'
  BY DEF ClaimNothing, Check, Precheck, PostRefused, Poll, ReadStatus, Finish, OnQueueError,
         OnError, OnCancelled, Reaped, LocalFault, Crash, RenewalDies, PostAlone,
         ThreadTypeOK, Goto, Leave
<1> QED BY <1>1, <1>2, <1>3, <1>4

\* The renewals, inline and by the renewal thread.
LEMMA BeatInv ==
  ASSUME IInv, NEW w \in Workers,
         Beat(w) \/ PollBeat(w) \/ RetryBeat(w) \/ ResultBeat(w) \/ FetchBeat(w) \/ Renew(w)
  PROVE  IInv'
<1>1. QueueInv' /\ ThreadTypeOK'
  BY IInvIsTyped, TypedStep DEF Typed, Next, Work
<1>2. RowInv'
  BY DEF Beat, PollBeat, RetryBeat, ResultBeat, FetchBeat, Renew, BeatThen, Heartbeat,
         RowInv, Beyond
<1>3. \A v \in Workers : ThreadInv(v)'
  BY DEF Beat, PollBeat, RetryBeat, ResultBeat, FetchBeat, Renew, BeatThen, Heartbeat,
         ThreadTypeOK, ThreadInv, HasJob, UnsentInv, PostInv, ChargedInv, CancelInv, Mine,
         Goto
<1>4. PostAlone'
  BY DEF Beat, PollBeat, RetryBeat, ResultBeat, FetchBeat, Renew, BeatThen, PostAlone,
         ThreadTypeOK, Goto
<1> QED BY <1>1, <1>2, <1>3, <1>4

\* The reaper: what it takes from a worker is no longer that worker's.
LEMMA RecoverInv ==
  ASSUME IInv, NEW w \in Workers, Recover(w) \/ Reap(w)
  PROVE  IInv'
<1>1. QueueInv' /\ ThreadTypeOK'
  BY IInvIsTyped, TypedStep DEF Typed, Next, Work
<1>2. RowInv'
  BY DEF Recover, Reap, RecoverExpired, RowInv, Beyond
<1>3. \A v \in Workers : ThreadInv(v)'
  BY DEF Recover, Reap, RecoverExpired, ThreadTypeOK, ThreadInv, HasJob, UnsentInv, PostInv,
         ChargedInv, CancelInv, Mine, Goto
<1>4. PostAlone'
  BY DEF Recover, Reap, PostAlone, ThreadTypeOK, Goto
<1> QED BY <1>1, <1>2, <1>3, <1>4

LEMMA ClaimInv ==
  ASSUME IInv, NEW w \in Workers, Claim(w)
  PROVE  IInv'
<1>1. QueueInv' /\ ThreadTypeOK'
  BY IInvIsTyped, TypedStep DEF Typed, Next, Work
<1>2. RowInv'
  BY DEF Claim, ClaimNext, IsHead, Oldest, TopPriority, Queued, RowInv, Beyond
<1>3. \A v \in Workers : ThreadInv(v)'
  BY DEF Claim, ClaimNext, IsHead, Oldest, TopPriority, Queued, ThreadTypeOK, ThreadInv, HasJob, UnsentInv,
         PostInv, ChargedInv, CancelInv, Mine
<1>4. PostAlone'
  BY DEF Claim, PostAlone
<1> QED BY <1>1, <1>2, <1>3, <1>4

\* Crossing the boundary: the row is running, so it was never charged.
LEMMA MarkInv ==
  ASSUME IInv, NEW w \in Workers, Mark(w)
  PROVE  IInv'
<1>1. job[w] \in Jobs
  BY DEF Mark, ThreadInv, HasJob
<1>2. QueueInv' /\ ThreadTypeOK'
  BY IInvIsTyped, TypedStep DEF Typed, Next, Work
<1>3. RowInv'
  BY DEF Mark, MarkDispatched, RowInv, Beyond, QueueInv, QueueTypeOK
<1>4. \A v \in Workers : ThreadInv(v)'
  BY DEF Mark, MarkDispatched, CanMarkDispatched, RowInv, Beyond, QueueInv, QueueTypeOK,
         ThreadTypeOK, ThreadInv, HasJob, UnsentInv, PostInv, ChargedInv, CancelInv, Mine,
         Goto
<1>5. PostAlone'
  BY DEF Mark, MarkDispatched, CanMarkDispatched, PostAlone, ThreadTypeOK, ThreadInv,
         PostInv, Goto
<1> QED BY <1>2, <1>3, <1>4, <1>5

\* The charge.
LEMMA PostStepInv ==
  ASSUME IInv, NEW w \in Workers, PostAnswered(w) \/ PostUnanswered(w)
  PROVE  IInv'
<1>1. job[w] \in Jobs
  BY DEF PostAnswered, PostUnanswered, ThreadInv, HasJob
<1>2. QueueInv' /\ ThreadTypeOK'
  BY IInvIsTyped, TypedStep DEF Typed, Next, Work
<1>3. RowInv'
  BY DEF PostAnswered, PostUnanswered, Accept, RowInv, Beyond, ThreadTypeOK, ThreadInv,
         PostInv
<1>4. \A v \in Workers : ThreadInv(v)'
  <2>1. ThreadInv(w)'
    BY DEF PostAnswered, PostUnanswered, Accept, ThreadTypeOK, ThreadInv, HasJob, UnsentInv,
           PostInv, ChargedInv, CancelInv, Goto
  <2>2. ASSUME NEW v \in Workers \ {w} PROVE ThreadInv(v)'
    <3>1. CASE job[v] = job[w]
      BY <3>1 DEF PostAnswered, PostUnanswered, PostAlone, ThreadTypeOK, ThreadInv, HasJob,
                  UnsentInv, PostInv, ChargedInv, CancelInv, Mine, Goto
    <3>2. CASE job[v] # job[w]
      <4>1. /\ UNCHANGED queueVars /\ staged' = staged
            /\ pc'[v] = pc[v] /\ job'[v] = job[v] /\ beating'[v] = beating[v] /\ rid'[v] = rid[v]
        BY <2>2 DEF PostAnswered, PostUnanswered, ThreadTypeOK, Goto
      <4>2. job[v] \in Jobs => submits'[job[v]] = submits[job[v]] /\ gen'[job[v]] = gen[job[v]]
        BY <3>2 DEF PostAnswered, PostUnanswered, Accept, ThreadTypeOK
      <4> QED BY <4>1, <4>2 DEF ThreadTypeOK, ThreadInv, HasJob, UnsentInv, PostInv, ChargedInv, CancelInv, Mine
    <3> QED BY <3>1, <3>2
  <2> QED BY <2>1, <2>2
<1>5. PostAlone'
  BY DEF PostAnswered, PostUnanswered, PostAlone, ThreadTypeOK, Goto
<1> QED BY <1>2, <1>3, <1>4, <1>5

LEMMA RecordInv ==
  ASSUME IInv, NEW w \in Workers, Record(w)
  PROVE  IInv'
<1>1. job[w] \in Jobs
  BY DEF Record, ThreadInv, HasJob
<1>2. QueueInv' /\ ThreadTypeOK'
  BY IInvIsTyped, TypedStep DEF Typed, Next, Work
<1>3. RowInv'
  BY DEF Record, RecordRemote, CanRecordRemote, RowInv, Beyond, QueueInv, QueueTypeOK
<1>4. \A v \in Workers : ThreadInv(v)'
  <2>1. /\ UNCHANGED <<status, owner, cancelReq, submits, gen, staged>>
        /\ At(w, "record")
        /\ Goto(w, "onQueueError") \/ Goto(w, IF Provider[job[w]] = "fal" THEN "poll" ELSE "fetch")
    BY DEF Record, RecordRemote
  <2>2. CASE Goto(w, "onQueueError")
    BY <2>1, <2>2 DEF ThreadInv, HasJob, UnsentInv, PostInv, ChargedInv, CancelInv, Mine,
                      Goto
  <2>3. CASE Goto(w, IF Provider[job[w]] = "fal" THEN "poll" ELSE "fetch")
    BY <2>1, <2>3, ProviderAssumption
       DEF RowInv, ThreadInv, HasJob, UnsentInv, PostInv, ChargedInv, CancelInv, Mine, Goto
  <2> QED BY <2>1, <2>2, <2>3
<1>5. PostAlone'
  BY DEF Record, PostAlone, ThreadTypeOK, Goto
<1> QED BY <1>2, <1>3, <1>4, <1>5

LEMMA TellProviderInv ==
  ASSUME IInv, NEW w \in Workers, TellProvider(w)
  PROVE  IInv'
<1>1. job[w] \in Jobs
  BY DEF TellProvider, ThreadInv, HasJob
<1>2. QueueInv' /\ ThreadTypeOK'
  BY IInvIsTyped, TypedStep DEF Typed, Next, Work
<1>3. RowInv'
  BY DEF TellProvider, RowInv, Beyond, ThreadTypeOK
<1>4. \A v \in Workers : ThreadInv(v)'
  BY DEF TellProvider, ThreadTypeOK, ThreadInv, HasJob, UnsentInv, PostInv, ChargedInv,
         CancelInv, Mine, Goto
<1>5. PostAlone'
  BY DEF TellProvider, PostAlone, ThreadTypeOK, Goto
<1> QED BY <1>2, <1>3, <1>4, <1>5

LEMMA StageInv ==
  ASSUME IInv, NEW w \in Workers, Stage(w)
  PROVE  IInv'
<1>1. job[w] \in Jobs
  BY DEF Stage, ThreadInv, HasJob
<1>2. QueueInv' /\ ThreadTypeOK'
  BY IInvIsTyped, TypedStep DEF Typed, Next, Work
<1>3. RowInv'
  BY DEF Stage, RowInv, Beyond, ThreadTypeOK
<1>4. \A v \in Workers : ThreadInv(v)'
  BY DEF Stage, ThreadTypeOK, ThreadInv, HasJob, UnsentInv, PostInv, ChargedInv, CancelInv,
         Mine, Goto
<1>5. PostAlone'
  BY DEF Stage, PostAlone, ThreadTypeOK, Goto
<1> QED BY <1>2, <1>3, <1>4, <1>5

LEMMA CommitInv ==
  ASSUME IInv, NEW w \in Workers, Commit(w)
  PROVE  IInv'
<1>1. job[w] \in Jobs
  BY DEF Commit, ThreadInv, HasJob
<1>2. QueueInv' /\ ThreadTypeOK'
  BY IInvIsTyped, TypedStep DEF Typed, Next, Work
<1>3. RowInv'
  BY DEF Commit, FinalizeSuccess, RowInv, Beyond, QueueInv, QueueTypeOK, ThreadInv, ChargedInv
<1>4. \A v \in Workers : ThreadInv(v)'
  BY DEF Commit, FinalizeSuccess, QueueInv, QueueTypeOK, ThreadTypeOK, ThreadInv, HasJob,
         UnsentInv, PostInv, ChargedInv, CancelInv, Mine, Leave
<1>5. PostAlone'
  BY DEF Commit, PostAlone, Leave
<1> QED BY <1>2, <1>3, <1>4, <1>5

LEMMA SettlingInv ==
  ASSUME IInv, NEW w \in Workers, Review(w) \/ Failing(w)
  PROVE  IInv'
<1>1. job[w] \in Jobs
  BY DEF Review, Failing, ThreadInv, HasJob
<1>2. QueueInv' /\ ThreadTypeOK'
  BY IInvIsTyped, TypedStep DEF Typed, Next, Work
<1>3. RowInv'
  BY DEF Review, Failing, NeedsReview, Fail, Settle, RowInv, Beyond, QueueInv, QueueTypeOK
<1>4. \A v \in Workers : ThreadInv(v)'
  BY <1>1, OwnerAssumption DEF Review, Failing, NeedsReview, Fail, Settle, CanSettle, Holds,
                               RowInv, Beyond, QueueInv, QueueTypeOK, LeaseShape,
                               ThreadTypeOK, ThreadInv, HasJob, UnsentInv, PostInv,
                               ChargedInv, CancelInv, Mine, Goto, Leave
<1>5. PostAlone'
  BY DEF Review, Failing, PostAlone, ThreadTypeOK, Leave
<1> QED BY <1>2, <1>3, <1>4, <1>5

LEMMA CancellingInv ==
  ASSUME IInv, NEW w \in Workers, Cancelling(w)
  PROVE  IInv'
<1>1. job[w] \in Jobs
  BY DEF Cancelling, ThreadInv, HasJob
<1>2. QueueInv' /\ ThreadTypeOK'
  BY IInvIsTyped, TypedStep DEF Typed, Next, Work
<1>3. RowInv'
  BY DEF Cancelling, Transition, CanTransition, Transitions, RowInv, Beyond, QueueInv,
         QueueTypeOK, ThreadInv, CancelInv, Mine
<1>4. \A v \in Workers : ThreadInv(v)'
  BY DEF Cancelling, Transition, CanTransition, Transitions, QueueInv, QueueTypeOK,
         ThreadTypeOK, ThreadInv, HasJob, UnsentInv, PostInv, ChargedInv, CancelInv, Mine,
         Leave
<1>5. PostAlone'
  BY DEF Cancelling, PostAlone, Leave
<1> QED BY <1>2, <1>3, <1>4, <1>5

\* The rest of the world.
LEMMA SubmitInv ==
  ASSUME IInv, NEW j \in Jobs, Submit(j)
  PROVE  IInv'
<1>1. QueueInv' /\ ThreadTypeOK'
  BY IInvIsTyped, TypedStep DEF Typed, Next, Work
<1>2. RowInv'
  BY DEF Submit, Enqueue, RowInv, Beyond
<1>3. \A v \in Workers : ThreadInv(v)'
  BY DEF Submit, Enqueue, ThreadInv, HasJob, UnsentInv, PostInv, ChargedInv, CancelInv, Mine
<1>4. PostAlone'
  BY DEF Submit, PostAlone
<1> QED BY <1>1, <1>2, <1>3, <1>4

LEMMA CancelStepInv ==
  ASSUME IInv, NEW j \in Jobs, Cancel(j)
  PROVE  IInv'
<1>1. QueueInv' /\ ThreadTypeOK'
  BY IInvIsTyped, TypedStep DEF Typed, Next, Work
<1>2. RowInv'
  BY DEF Cancel, RequestCancel, RowInv, Beyond
<1>3. \A v \in Workers : ThreadInv(v)'
  BY DEF Cancel, RequestCancel, ThreadInv, HasJob, UnsentInv, PostInv, ChargedInv,
         CancelInv, Mine
<1>4. PostAlone'
  BY DEF Cancel, PostAlone
<1> QED BY <1>1, <1>2, <1>3, <1>4

LEMMA ProviderFinishesInv ==
  ASSUME IInv, NEW j \in Jobs, ProviderFinishes(j)
  PROVE  IInv'
<1>1. QueueInv' /\ ThreadTypeOK'
  BY IInvIsTyped, TypedStep DEF Typed, Next, Work
<1>2. RowInv'
  BY DEF ProviderFinishes, RowInv, Beyond
<1>3. \A v \in Workers : ThreadInv(v)'
  BY DEF ProviderFinishes, ThreadInv, HasJob, UnsentInv, PostInv, ChargedInv, CancelInv,
         Mine
<1>4. PostAlone'
  BY DEF ProviderFinishes, PostAlone
<1> QED BY <1>1, <1>2, <1>3, <1>4

LEMMA TimePassesInv ==
  ASSUME IInv, TimePasses
  PROVE  IInv'
<1>1. QueueInv' /\ ThreadTypeOK'
  BY IInvIsTyped, TypedStep DEF Typed, Next, Work
<1>2. RowInv'
  BY DEF TimePasses, Tick, RowInv, Beyond
<1>3. \A v \in Workers : ThreadInv(v)'
  BY DEF TimePasses, Tick, ThreadInv, HasJob, UnsentInv, PostInv, ChargedInv, CancelInv,
         Mine
<1>4. PostAlone'
  BY DEF TimePasses, PostAlone
<1> QED BY <1>1, <1>2, <1>3, <1>4

LEMMA InitInv == Init => IInv
<1> SUFFICES ASSUME Init PROVE IInv
  OBVIOUS
<1>1. QueueInv
  BY QueueInitInv DEF Init
<1>2. ThreadTypeOK
  BY PollAssumption DEF Init, ThreadTypeOK
<1>3. RowInv
  BY DEF Init, QueueInit, RowInv
<1>4. \A w \in Workers : ThreadInv(w)
  BY DEF Init, ThreadInv, HasJob, UnsentInv, PostInv, ChargedInv, CancelInv
<1>5. PostAlone
  BY DEF Init, PostAlone
<1> QED BY <1>1, <1>2, <1>3, <1>4, <1>5

LEMMA NextInv == IInv /\ [Next]_vars => IInv'
<1> SUFFICES ASSUME IInv, [Next]_vars PROVE IInv'
  OBVIOUS
<1>1. ASSUME NEW w \in Workers, Work(w) PROVE IInv'
  BY <1>1, QuietStepInv, BeatInv, RecoverInv, ClaimInv, MarkInv, PostStepInv, RecordInv,
     TellProviderInv, StageInv, CommitInv, SettlingInv, CancellingInv
     DEF Work
<1>2. ASSUME NEW w \in Workers, Renew(w) \/ RenewalDies(w) \/ LocalFault(w) \/ Crash(w)
      PROVE  IInv'
  BY <1>2, QuietStepInv, BeatInv
<1>3. ASSUME NEW j \in Jobs, Submit(j) \/ Cancel(j) \/ ProviderFinishes(j) PROVE IInv'
  BY <1>3, SubmitInv, CancelStepInv, ProviderFinishesInv
<1>4. CASE TimePasses
  BY <1>4, TimePassesInv
<1>5. CASE UNCHANGED vars
  BY <1>5 DEF vars, QueueInv, QueueTypeOK, LeaseShape, ThreadTypeOK, RowInv, Beyond,
              ThreadInv, HasJob, UnsentInv, PostInv, ChargedInv, CancelInv, Mine, PostAlone
<1> QED BY <1>1, <1>2, <1>3, <1>4, <1>5 DEF Next

LEMMA IInvHolds == Spec => []IInv
BY InitInv, NextInv, PTL DEF Spec

-----------------------------------------------------------------------------
(* The theorems.                                                            *)

\* Every variable of the workers, the provider and the table keeps its type.
THEOREM TypeCorrect == Spec => []TypeOK
<1>1. IInv => TypeOK
  BY DEF QueueInv, TypeOK
<1> QED BY <1>1, IInvHolds, PTL

\* BRD.md 14: at most one accepted generation request per job, whatever crashes,
\* stalls, loses its lease or fails locally, and with any number of workers.
THEOREM SubmitsOnce == Spec => []SingleSubmission
<1>1. IInv => SingleSubmission
  BY DEF RowInv, ThreadTypeOK, SingleSubmission
<1> QED BY <1>1, IInvHolds, PTL

\* A succeeded row was charged once, finished, identified and has its artifact.
THEOREM SuccessWhole == Spec => []SuccessIsWhole
<1>1. IInv => SuccessIsWhole
  BY DEF RowInv, SuccessIsWhole
<1> QED BY <1>1, IInvHolds, PTL

\* A charged row is cancelled only once the provider was told, or had finished.
THEOREM CancelIsHonest == Spec => []CancelledLeavesNothingRunning
<1>1. IInv => CancelledLeavesNothingRunning
  BY DEF RowInv, CancelledLeavesNothingRunning
<1> QED BY <1>1, IInvHolds, PTL

-----------------------------------------------------------------------------
(* The refinement.  What one step does to one job is a step of that job in  *)
(* PaidGeneration, or nothing.                                              *)


LEMMA QuietStepMaps ==
  ASSUME IInv, NEW w \in Workers, ClaimNothing(w) \/ Check(w) \/ Precheck(w) \/ PostRefused(w) \/ Poll(w) \/ ReadStatus(w) \/
         Finish(w) \/ OnQueueError(w) \/ OnError(w) \/ OnCancelled(w) \/ Reaped(w) \/ LocalFault(w) \/
         Crash(w) \/ RenewalDies(w), NEW i \in Jobs
  PROVE  Paid!JobStep(i)
BY DEF ClaimNothing, Check, Precheck, PostRefused, Poll, ReadStatus, Finish, OnQueueError,
       OnError, OnCancelled, Reaped, LocalFault, Crash, RenewalDies, Paid!JobStep, StageOf

LEMMA BeatMaps ==
  ASSUME IInv, NEW w \in Workers, Beat(w) \/ PollBeat(w) \/ RetryBeat(w) \/ ResultBeat(w) \/ FetchBeat(w) \/ Renew(w), NEW i \in Jobs
  PROVE  Paid!JobStep(i)
BY DEF Beat, PollBeat, RetryBeat, ResultBeat, FetchBeat, Renew, BeatThen, Heartbeat,
       Paid!JobStep, StageOf

LEMMA RecoverMaps ==
  ASSUME IInv, NEW w \in Workers, Recover(w) \/ Reap(w), NEW i \in Jobs
  PROVE  Paid!JobStep(i)
BY DEF Recover, Reap, RecoverExpired, RowInv, Paid!JobStep, Paid!Moves, StageOf

LEMMA ClaimMaps ==
  ASSUME IInv, NEW w \in Workers, Claim(w), NEW i \in Jobs
  PROVE  Paid!JobStep(i)
BY DEF Claim, ClaimNext, IsHead, Oldest, TopPriority, Queued, Paid!JobStep, StageOf

LEMMA MarkMaps ==
  ASSUME IInv, NEW w \in Workers, Mark(w), NEW i \in Jobs
  PROVE  Paid!JobStep(i)
BY DEF Mark, MarkDispatched, CanMarkDispatched, QueueInv, QueueTypeOK, Paid!JobStep,
       Paid!Moves, StageOf

LEMMA PostMaps ==
  ASSUME IInv, NEW w \in Workers, PostAnswered(w) \/ PostUnanswered(w), NEW i \in Jobs
  PROVE  Paid!JobStep(i)
BY DEF PostAnswered, PostUnanswered, Accept, ThreadInv, PostInv, ThreadTypeOK, Paid!JobStep,
       Paid!MayCharge, StageOf

LEMMA RecordMaps ==
  ASSUME IInv, NEW w \in Workers, Record(w), NEW i \in Jobs
  PROVE  Paid!JobStep(i)
BY DEF Record, RecordRemote, Paid!JobStep, StageOf

LEMMA ToldMaps ==
  ASSUME IInv, NEW w \in Workers, TellProvider(w) \/ Stage(w), NEW i \in Jobs
  PROVE  Paid!JobStep(i)
BY DEF TellProvider, Stage, Paid!JobStep, StageOf

LEMMA CommitMaps ==
  ASSUME IInv, NEW w \in Workers, Commit(w), NEW i \in Jobs
  PROVE  Paid!JobStep(i)
BY DEF Commit, FinalizeSuccess, CanFinalize, Holds, RowInv, Beyond, ThreadInv, ChargedInv,
       QueueInv, QueueTypeOK, Paid!JobStep, Paid!Moves, StageOf

LEMMA SettlingMaps ==
  ASSUME IInv, NEW w \in Workers, Review(w) \/ Failing(w), NEW i \in Jobs
  PROVE  Paid!JobStep(i)
BY DEF Review, Failing, NeedsReview, Fail, Settle, CanSettle, Holds, RowInv, ThreadInv,
       UnsentInv, Mine, QueueInv, QueueTypeOK, Paid!JobStep, Paid!Moves, StageOf

LEMMA CancellingMaps ==
  ASSUME IInv, NEW w \in Workers, Cancelling(w), NEW i \in Jobs
  PROVE  Paid!JobStep(i)
BY DEF Cancelling, Transition, CanTransition, Transitions, RowInv, ThreadInv, CancelInv,
       Mine, QueueInv, QueueTypeOK, Paid!JobStep, Paid!Moves, StageOf

LEMMA SubmitMaps ==
  ASSUME IInv, NEW j \in Jobs, Submit(j), NEW i \in Jobs
  PROVE  Paid!JobStep(i)
BY DEF Submit, Enqueue, RowInv, Paid!JobStep, Paid!Moves, StageOf

LEMMA CancelStepMaps ==
  ASSUME IInv, NEW j \in Jobs, Cancel(j), NEW i \in Jobs
  PROVE  Paid!JobStep(i)
BY DEF Cancel, RequestCancel, Paid!JobStep, Paid!Moves, StageOf

LEMMA ProviderMaps ==
  ASSUME IInv, NEW j \in Jobs, ProviderFinishes(j), NEW i \in Jobs
  PROVE  Paid!JobStep(i)
BY DEF ProviderFinishes, Paid!JobStep, StageOf

LEMMA TimeMaps ==
  ASSUME IInv, TimePasses, NEW i \in Jobs
  PROVE  Paid!JobStep(i)
BY DEF TimePasses, Tick, Paid!JobStep, StageOf

LEMMA NextMaps == IInv /\ IInv' /\ [Next]_vars => [Paid!Next]_(Paid!paidVars)
<1> SUFFICES ASSUME IInv, IInv', [Next]_vars PROVE [Paid!Next]_(Paid!paidVars)
  OBVIOUS
<1>1. CASE UNCHANGED vars
  BY <1>1 DEF vars, StageOf, Paid!paidVars
<1>2. CASE Next
  <2>1. [j \in Jobs |-> StageOf(j)'] \in [Jobs -> Paid!Stages] /\ submits' \in [Jobs -> Nat]
    BY DEF QueueInv, QueueTypeOK, RowInv, ThreadTypeOK, StageOf, Paid!Stages, Paid!Ends
  <2>2. ASSUME NEW i \in Jobs PROVE Paid!JobStep(i)
    <3>1. ASSUME NEW w \in Workers, Work(w) PROVE Paid!JobStep(i)
      BY <3>1, QuietStepMaps, BeatMaps, RecoverMaps, ClaimMaps, MarkMaps, PostMaps,
         RecordMaps, ToldMaps, CommitMaps, SettlingMaps, CancellingMaps
         DEF Work
    <3>2. ASSUME NEW w \in Workers, Renew(w) \/ RenewalDies(w) \/ LocalFault(w) \/ Crash(w)
          PROVE  Paid!JobStep(i)
      BY <3>2, QuietStepMaps, BeatMaps
    <3>3. ASSUME NEW j \in Jobs, Submit(j) \/ Cancel(j) \/ ProviderFinishes(j)
          PROVE  Paid!JobStep(i)
      BY <3>3, SubmitMaps, CancelStepMaps, ProviderMaps
    <3> QED BY <1>2, <3>1, <3>2, <3>3, TimeMaps DEF Next
  <2> QED BY <2>1, <2>2 DEF Paid!Next
<1> QED BY <1>1, <1>2

\* The workers over the queue implement PaidGeneration: whatever happens to a
\* job happens to it in the order the abstract specification allows.
THEOREM RefinesPaidGeneration == Spec => ImplementsPaidGeneration
<1>1. Init => Paid!Init
  BY DEF Init, QueueInit, StageOf, Paid!Init
<1> QED BY <1>1, NextMaps, IInvHolds, PTL DEF Spec, Paid!Spec, ImplementsPaidGeneration

=============================================================================
