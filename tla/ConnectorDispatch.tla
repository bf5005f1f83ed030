-------------------------- MODULE ConnectorDispatch --------------------------
(***************************************************************************)
(* Worker processes that take generation jobs from the queue and run each  *)
(* through a paid image provider: Worker.run_once (worker.py),              *)
(* run_connector_dispatch (connectors/task.py) and the dispatch methods of  *)
(* FalClient and OpenAIImageClient (connectors/fal.py, connectors/openai.py)*)
(* over the table of GenerationQueue.                                       *)
(*                                                                          *)
(* A step of a worker is one database transaction or one provider request;  *)
(* everything a worker does between two of them is local to it.  A process  *)
(* may die before any step.  A member of Workers is one process             *)
(* incarnation: a restarted process has a fresh worker id.                  *)
(***************************************************************************)
EXTENDS GenerationQueue

CONSTANTS
  NoJob,
  Provider,       \* provider_id frozen in each row: "fal" or "openai"
  Malformed,      \* rows frozen without an origin or an idempotency key
  MaxPolls,       \* max_poll_attempts of FalClient
  MaxRows,        \* bound: rows a run submits
  Calm            \* TRUE: no local fault, and renewal threads keep their pace

ASSUME NoJobAssumption     == NoJob \notin Jobs
ASSUME ProviderAssumption  == Provider \in [Jobs -> {"fal", "openai"}]
ASSUME MalformedAssumption == Malformed \subseteq Jobs
ASSUME PollAssumption      == MaxPolls \in Nat \ {0}
ASSUME RowsAssumption      == MaxRows \in Nat
ASSUME CalmAssumption      == Calm \in BOOLEAN

VARIABLES
  pc,        \* where each worker's main thread is
  job,       \* the row it claimed
  beating,   \* its lease renewal thread is running
  rid,       \* request_id the provider answered with
  polls,     \* status polls made so far
  submits,   \* POSTs of the job the provider accepted (each one is charged)
  gen,       \* what the provider is doing with it
  staged     \* an artifact of the job is in the artifact store

workerVars   == <<pc, job, beating, rid, polls>>
providerVars == <<submits, gen>>
vars == <<queueVars, workerVars, providerVars, staged>>

\* Labels of the main thread.  "idle" .. "commit" is the straight path; the rest
\* are the except clauses and settling calls of run_connector_dispatch.
Labels ==
  {"idle", "claim", "check", "precheck", "beat", "mark", "post", "record",
   "poll", "pollbeat", "status", "retrybeat", "tellcancel", "resultbeat",
   "fetch", "refetch", "finish", "commit",
   "onQueueError", "onError", "onCancelled", "reap", "reaped",
   "review", "fail", "cancel", "dead"}

ThreadTypeOK ==
  /\ pc      \in [Workers -> Labels]
  /\ job     \in [Workers -> Jobs \union {NoJob}]
  /\ beating \in [Workers -> BOOLEAN]
  /\ rid     \in [Workers -> Nat]
  /\ polls   \in [Workers -> 0 .. MaxPolls]
  /\ submits \in [Jobs -> Nat]
  /\ gen     \in [Jobs -> {"none", "working", "done", "cancelling"}]
  /\ staged  \in [Jobs -> BOOLEAN]

TypeOK == QueueTypeOK /\ ThreadTypeOK

Init ==
  /\ QueueInit
  /\ pc      = [w \in Workers |-> "idle"]
  /\ job     = [w \in Workers |-> NoJob]
  /\ beating = [w \in Workers |-> FALSE]
  /\ rid     = [w \in Workers |-> NoRemote]
  /\ polls   = [w \in Workers |-> 0]
  /\ submits = [j \in Jobs |-> 0]
  /\ gen     = [j \in Jobs |-> "none"]
  /\ staged  = [j \in Jobs |-> FALSE]

-----------------------------------------------------------------------------
At(w, label)   == pc[w] = label
Goto(w, label) == /\ pc' = [pc EXCEPT ![w] = label]
                  /\ UNCHANGED <<job, beating, rid, polls>>

\* run_once returns or raises: the finally clause stops the renewal thread and
\* the loop of _run goes round again.
Leave(w) ==
  /\ pc'      = [pc EXCEPT ![w] = "idle"]
  /\ job'     = [job EXCEPT ![w] = NoJob]
  /\ beating' = [beating EXCEPT ![w] = FALSE]
  /\ rid'     = [rid EXCEPT ![w] = NoRemote]
  /\ polls'   = [polls EXCEPT ![w] = 0]

Elsewhere == UNCHANGED <<providerVars, staged>>   \* no provider, no artifact store

\* The renewals the connectors make before a request (execution.heartbeat):
\* on to label when the lease still holds, QueueError when it does not.
BeatThen(w, from, label) ==
  /\ At(w, from)
  /\ \E d \in Lags :
       \/ Heartbeat(job[w], w, d) /\ Goto(w, label)
       \/ /\ ~CanHeartbeat(job[w], w, d)
          /\ Goto(w, "onQueueError")
          /\ UNCHANGED queueVars
  /\ Elsewhere

-----------------------------------------------------------------------------
(* worker.py: run_once.                                                     *)

Recover(w) ==
  /\ At(w, "idle")
  /\ \E d \in Lags : RecoverExpired(d)
  /\ Goto(w, "claim")
  /\ Elsewhere

Claim(w) ==
  /\ At(w, "claim")
  /\ \E j \in Jobs :
       /\ ClaimNext(w, j)
       /\ pc'      = [pc EXCEPT ![w] = "check"]
       /\ job'     = [job EXCEPT ![w] = j]
       /\ beating' = [beating EXCEPT ![w] = TRUE]
  /\ UNCHANGED <<rid, polls>>
  /\ Elsewhere

ClaimNothing(w) ==
  /\ At(w, "claim")
  /\ Queued = {}
  /\ Goto(w, "idle")
  /\ UNCHANGED queueVars
  /\ Elsewhere

\* The renewal thread.  It stops for good at the first exception, a refused
\* renewal or any other (a locked database, say).
Renew(w) ==
  /\ beating[w]
  /\ \E d \in Lags : Heartbeat(job[w], w, d)
  /\ UNCHANGED workerVars
  /\ Elsewhere

RenewalDies(w) ==
  /\ beating[w]
  /\ Calm => \E d \in Lags : ~CanHeartbeat(job[w], w, d)
  /\ beating' = [beating EXCEPT ![w] = FALSE]
  /\ UNCHANGED <<queueVars, pc, job, rid, polls>>
  /\ Elsewhere

\* The process dies.  Some incarnation is always left: the supervisor restarts.
Crash(w) ==
  /\ ~At(w, "dead")
  /\ \E v \in Workers \ {w} : ~At(v, "dead")
  /\ pc'      = [pc EXCEPT ![w] = "dead"]
  /\ job'     = [job EXCEPT ![w] = NoJob]
  /\ beating' = [beating EXCEPT ![w] = FALSE]
  /\ rid'     = [rid EXCEPT ![w] = NoRemote]
  /\ polls'   = [polls EXCEPT ![w] = 0]
  /\ UNCHANGED queueVars
  /\ Elsewhere

-----------------------------------------------------------------------------
(* task.py: run_connector_dispatch up to connector.dispatch.                *)

\* Read the row, then a cancelled job is settled as cancelled, a row without
\* identity as failed, a job whose connector is not configured at the moment
\* as needs_review.
Check(w) ==
  /\ At(w, "check")
  /\ \/ cancelReq[job[w]] /\ Goto(w, "cancel")
     \/ /\ ~cancelReq[job[w]]
        /\ IF job[w] \in Malformed THEN Goto(w, "fail")
           ELSE Goto(w, "review") \/ Goto(w, "precheck")
  /\ UNCHANGED queueVars
  /\ Elsewhere

\* The head of both dispatch methods: the frozen payload is validated, then the
\* cancellation flag is read again.
Precheck(w) ==
  /\ At(w, "precheck")
  /\ \/ Goto(w, "onError")                             \* INVALID_REQUEST and kin
     \/ cancelReq[job[w]] /\ Goto(w, "onCancelled")
     \/ ~cancelReq[job[w]] /\ Goto(w, "beat")
  /\ UNCHANGED queueVars
  /\ Elsewhere

Beat(w) == BeatThen(w, "beat", "mark")

\* Mutant of Mark: the POST is sent before the boundary is persisted.
MarkUnsaved(w) ==
  /\ At(w, "mark")
  /\ \E d \in Lags : CanMarkDispatched(job[w], w, d)
  /\ Goto(w, "post")
  /\ UNCHANGED queueVars
  /\ Elsewhere

\* execution.mark_dispatched(None): the durable boundary before the POST.
Mark(w) ==
  /\ At(w, "mark")
  /\ \E d \in Lags :
       \/ MarkDispatched(job[w], w, NoRemote, d) /\ Goto(w, "post")
       \/ /\ ~CanMarkDispatched(job[w], w, d)
          /\ Goto(w, "onQueueError")
          /\ UNCHANGED queueVars
  /\ Elsewhere

-----------------------------------------------------------------------------
(* The paid request.  fal answers with a request id and works on; openai    *)
(* answers when the image is done.                                          *)

Accept(j) == /\ submits' = [submits EXCEPT ![j] = @ + 1]
             /\ gen'     = [gen EXCEPT ![j] = IF Provider[j] = "fal" THEN "working" ELSE "done"]

PostAnswered(w) ==
  /\ At(w, "post")
  /\ Accept(job[w])
  /\ rid' = [rid EXCEPT ![w] = submits[job[w]] + 1]
  /\ pc'  = [pc EXCEPT ![w] = "record"]
  /\ UNCHANGED <<queueVars, job, beating, polls, staged>>

\* The provider took the request and the answer was lost, late or unusable.
PostUnanswered(w) ==
  /\ At(w, "post")
  /\ Accept(job[w])
  /\ Goto(w, "onError")
  /\ UNCHANGED <<queueVars, staged>>

\* Deadline passed, no connection, or the provider refused the request.
PostRefused(w) ==
  /\ At(w, "post")
  /\ Goto(w, "onError")
  /\ UNCHANGED queueVars
  /\ Elsewhere

Record(w) ==
  /\ At(w, "record")
  /\ \E d \in Lags :
       \/ /\ RecordRemote(job[w], w, rid[w], d)
          /\ Goto(w, IF Provider[job[w]] = "fal" THEN "poll" ELSE "fetch")
       \/ /\ ~CanRecordRemote(job[w], w, rid[w], d)
          /\ Goto(w, "onQueueError")
          /\ UNCHANGED queueVars
  /\ Elsewhere

-----------------------------------------------------------------------------
(* fal.py: the poll loop and the result.                                    *)

Poll(w) ==
  /\ At(w, "poll")
  /\ Goto(w, IF cancelReq[job[w]] THEN "tellcancel" ELSE "pollbeat")
  /\ UNCHANGED queueVars
  /\ Elsewhere

PollBeat(w) == BeatThen(w, "pollbeat", "status")

\* Mutant of ReadStatus: also the last attempt is forgiven.
ReadStatusForEver(w) ==
  /\ At(w, "status")
  /\ \/ gen[job[w]] = "done" /\ Goto(w, "resultbeat")
     \/ Goto(w, "onError")
     \/ /\ \/ gen[job[w]] = "working" /\ pc' = [pc EXCEPT ![w] = "poll"]
           \/ pc' = [pc EXCEPT ![w] = "retrybeat"]
        /\ polls' = [polls EXCEPT ![w] = @ + 1]
        /\ UNCHANGED <<job, beating, rid>>
  /\ UNCHANGED queueVars
  /\ Elsewhere

\* One GET of the status.  A time-out or a 5xx is forgiven unless it was the
\* last attempt; any other failure, or attempts exhausted, ends the dispatch.
ReadStatus(w) ==
  /\ At(w, "status")
  /\ \/ gen[job[w]] = "done" /\ Goto(w, "resultbeat")
     \/ Goto(w, "onError")
     \/ /\ polls[w] + 1 < MaxPolls
        /\ \/ gen[job[w]] = "working" /\ pc' = [pc EXCEPT ![w] = "poll"]
           \/ pc' = [pc EXCEPT ![w] = "retrybeat"]
        /\ polls' = [polls EXCEPT ![w] = @ + 1]
        /\ UNCHANGED <<job, beating, rid>>
  /\ UNCHANGED queueVars
  /\ Elsewhere

RetryBeat(w) == BeatThen(w, "retrybeat", "poll")

\* Mutant of TellProvider: whatever the provider answers counts as told.
TellProviderHopefully(w) ==
  /\ At(w, "tellcancel")
  /\ \/ /\ gen[job[w]] = "working"
        /\ gen' = [gen EXCEPT ![job[w]] = "cancelling"]
     \/ UNCHANGED gen
  /\ Goto(w, "onCancelled")
  /\ UNCHANGED <<queueVars, submits, staged>>

\* PUT .../cancel.  Only CANCELLATION_REQUESTED counts as told.
TellProvider(w) ==
  /\ At(w, "tellcancel")
  /\ \/ /\ gen[job[w]] = "working"
        /\ gen' = [gen EXCEPT ![job[w]] = "cancelling"]
        /\ Goto(w, "onCancelled") \/ Goto(w, "onError")   \* or the answer is lost
     \/ Goto(w, "onError") /\ UNCHANGED gen
  /\ UNCHANGED <<queueVars, submits, staged>>

ResultBeat(w) == BeatThen(w, "resultbeat", "fetch")

\* Mutant of Stage: the result is reported although nothing was stored.
StageOptional(w) ==
  /\ \/ At(w, "fetch")
     \/ At(w, "refetch")
  /\ \/ staged' = [staged EXCEPT ![job[w]] = TRUE]
     \/ UNCHANGED staged
  /\ Goto(w, "finish") \/ Goto(w, "onError")
  /\ UNCHANGED <<queueVars, providerVars>>

\* GET the result, download and validate the image, stage_bytes.  It may go
\* wrong on either side of the moment the artifact is stored.
Stage(w) ==
  /\ \/ At(w, "fetch")
     \/ At(w, "refetch")
  /\ \/ staged' = [staged EXCEPT ![job[w]] = TRUE] /\ Goto(w, "finish")
     \/ staged' = [staged EXCEPT ![job[w]] = TRUE] /\ Goto(w, "onError")
     \/ UNCHANGED staged /\ Goto(w, "onError")
  /\ UNCHANGED <<queueVars, providerVars>>

\* fal's download is tried once more after a renewal of the lease.
FetchBeat(w) == /\ At(w, "fetch") /\ Provider[job[w]] = "fal"
                /\ BeatThen(w, "fetch", "refetch")

\* finalize_success: the read, then the compare-and-set.  A QueueError of the
\* compare-and-set leaves run_connector_dispatch unhandled.
Finish(w) ==
  /\ At(w, "finish")
  /\ Goto(w, IF cancelReq[job[w]] THEN "cancel" ELSE "commit")
  /\ UNCHANGED queueVars
  /\ Elsewhere

Commit(w) ==
  /\ At(w, "commit")
  /\ \E d \in Lags :
       \/ FinalizeSuccess(job[w], w, rid[w], d)
       \/ ~CanFinalize(job[w], w, d) /\ UNCHANGED queueVars
  /\ Leave(w)
  /\ Elsewhere

-----------------------------------------------------------------------------
(* task.py: the except clauses, each of which reads the row afresh.         *)

\* except QueueError
OnQueueError(w) ==
  /\ At(w, "onQueueError")
  /\ LET j == job[w]
     IN  \/ status[j] = "waiting_provider" /\ Goto(w, "reap")
         \/ status[j] # "waiting_provider" /\ cancelReq[j] /\ Goto(w, "cancel")
         \/ status[j] # "waiting_provider" /\ ~cancelReq[j] /\ Leave(w)   \* raise
  /\ UNCHANGED queueVars
  /\ Elsewhere

\* Mutant of OnError: the status is not looked at, the job simply fails.
OnErrorFails(w) ==
  /\ At(w, "onError")
  /\ Goto(w, "fail")
  /\ UNCHANGED queueVars
  /\ Elsewhere

\* except ConnectorError with a code other than CANCELLED, except Exception
OnError(w) ==
  /\ At(w, "onError")
  /\ Goto(w, IF status[job[w]] = "waiting_provider" THEN "reap" ELSE "fail")
  /\ UNCHANGED queueVars
  /\ Elsewhere

\* except ConnectorError with code CANCELLED; a connector raises it only after
\* it has read the flag, and the flag is never cleared.
OnCancelled(w) ==
  /\ At(w, "onCancelled")
  /\ Goto(w, IF cancelReq[job[w]] THEN "cancel"
             ELSE IF status[job[w]] = "waiting_provider" THEN "reap" ELSE "fail")
  /\ UNCHANGED queueVars
  /\ Elsewhere

\* needs_review_after_provider_boundary
Reap(w) ==
  /\ At(w, "reap")
  /\ \E d \in Lags : RecoverExpired(d)
  /\ Goto(w, "reaped")
  /\ Elsewhere

Reaped(w) ==
  /\ At(w, "reaped")
  /\ \/ status[job[w]] = "needs_review" /\ Leave(w)
     \/ status[job[w]] # "needs_review" /\ Goto(w, "review")
  /\ UNCHANGED queueVars
  /\ Elsewhere

\* The settling calls; a refused one raises QueueError out of run_once.
Review(w) ==
  /\ At(w, "review")
  /\ \E d \in Lags :
       \/ NeedsReview(job[w], w, d)
       \/ ~CanSettle(job[w], w, d) /\ UNCHANGED queueVars
  /\ Leave(w)
  /\ Elsewhere

Failing(w) ==
  /\ At(w, "fail")
  /\ \E d \in Lags :
       \/ Fail(job[w], w, d)
       \/ ~CanSettle(job[w], w, d) /\ UNCHANGED queueVars
  /\ Leave(w)
  /\ Elsewhere

Cancelling(w) ==
  /\ At(w, "cancel")
  /\ \E d \in Lags :
       \/ Transition(job[w], w, "cancelled", d)
       \/ ~CanTransition(job[w], w, "cancelled", d) /\ UNCHANGED queueVars
  /\ Leave(w)
  /\ Elsewhere

\* A call of the worker itself raises: the database stays locked beyond the busy
\* timeout, the registry cannot be built.  Inside connector.dispatch this is the
\* "except Exception" clause; anywhere else it ends run_once, and _run goes on.
LocalFault(w) ==
  /\ ~Calm
  /\ \/ /\ pc[w] \in {"precheck", "beat", "mark", "record", "poll", "pollbeat",
                      "retrybeat", "resultbeat", "fetch", "refetch"}
        /\ Goto(w, "onError")
     \/ /\ pc[w] \in {"claim", "check", "finish", "commit", "onQueueError", "onError",
                      "onCancelled", "reap", "reaped", "review", "fail", "cancel"}
        /\ Leave(w)
  /\ UNCHANGED queueVars
  /\ Elsewhere

-----------------------------------------------------------------------------
(* The rest of the world.                                                   *)

\* enqueue_browser_job inserts with priority 0 under BEGIN IMMEDIATE.
Submit(j) ==
  /\ Cardinality(Rows) < MaxRows
  /\ Enqueue(j, 0, 0)
  /\ UNCHANGED workerVars
  /\ Elsewhere

\* request_owned_cancel
Cancel(j) ==
  /\ RequestCancel(j)
  /\ UNCHANGED workerVars
  /\ Elsewhere

ProviderFinishes(j) ==
  /\ gen[j] = "working"
  /\ gen' = [gen EXCEPT ![j] = "done"]
  /\ UNCHANGED <<queueVars, workerVars, submits, staged>>

\* In a calm run a lease whose renewal thread lives is renewed before it lapses.
TimePasses ==
  /\ Calm => \A w \in Workers :
       beating[w] /\ Holds(job[w], w, 0) => lease[job[w]] > 0
  /\ Tick
  /\ UNCHANGED workerVars
  /\ Elsewhere

\* One step of the main thread of w.
Work(w) ==
  \/ Recover(w) \/ Claim(w) \/ ClaimNothing(w)
  \/ Check(w) \/ Precheck(w) \/ Beat(w) \/ Mark(w)
  \/ PostAnswered(w) \/ PostUnanswered(w) \/ PostRefused(w) \/ Record(w)
  \/ Poll(w) \/ PollBeat(w) \/ ReadStatus(w) \/ RetryBeat(w) \/ TellProvider(w)
  \/ ResultBeat(w) \/ Stage(w) \/ FetchBeat(w) \/ Finish(w) \/ Commit(w)
  \/ OnQueueError(w) \/ OnError(w) \/ OnCancelled(w) \/ Reap(w) \/ Reaped(w)
  \/ Review(w) \/ Failing(w) \/ Cancelling(w)

Next ==
  \/ \E w \in Workers : Work(w) \/ Renew(w) \/ RenewalDies(w) \/ LocalFault(w) \/ Crash(w)
  \/ \E j \in Jobs : Submit(j) \/ Cancel(j) \/ ProviderFinishes(j)
  \/ TimePasses

Spec == Init /\ [][Next]_vars

\* Threads that live are scheduled and the clock runs.  Nothing is assumed of
\* the provider, the user, faults or crashes.
Fairness ==
  /\ \A w \in Workers : WF_vars(Work(w)) /\ WF_vars(Renew(w))
  /\ WF_vars(TimePasses)

LiveSpec == Spec /\ Fairness

-----------------------------------------------------------------------------
(* Properties.                                                              *)

\* BRD.md 14, ERD.md:326: whatever crashes, stalls, expires or is retried, the
\* provider accepts at most one generation request for a job.
SingleSubmission == \A j \in Jobs : submits[j] <= 1

\* A job that ended as succeeded is whole: its one request was accepted, the
\* provider finished it, its id is on the row and an artifact was staged.
SuccessIsWhole ==
  \A j \in Jobs :
    status[j] = "succeeded" =>
      submits[j] = 1 /\ gen[j] = "done" /\ remote[j] = 1 /\ staged[j]

\* DESIGN.md:211, ARCHITECTURE.md "Cancel": a charged job is shown as cancelled
\* only when nothing runs on at the provider behind the user's back: it was
\* told to cancel, or it had finished.
CancelledLeavesNothingRunning ==
  \A j \in Jobs :
    status[j] = "cancelled" /\ submits[j] > 0 => gen[j] \in {"done", "cancelling"}

\* The workers over the queue implement the abstract promise about money:
\* in particular a job withdrawn before the boundary is never charged, and a
\* charged job never becomes claimable again nor ends as failed.
StageOf(j) ==
  CASE status[j] \in {"queued", "running"} -> IF cancelReq[j] THEN "withdrawn" ELSE "open"
    [] status[j] = "waiting_provider"      -> "sent"
    [] OTHER                               -> status[j]

Paid == INSTANCE PaidGeneration
          WITH stage <- [j \in Jobs |-> StageOf(j)], charges <- submits

ImplementsPaidGeneration == Paid!Spec

\* Whatever faults occur, a job that crossed the paid boundary does not stay in
\* waiting_provider: its worker settles it or the reaper hands it to a human.
SentJobSettles ==
  \A j \in Jobs : status[j] = "waiting_provider" ~> status[j] \in TerminalStates

\* In a calm run every queued job ends, also when its workers crash, its
\* cancellation is requested at a bad moment or the provider never finishes.
EveryJobSettles ==
  \A j \in Jobs : status[j] = "queued" ~> status[j] \in TerminalStates

=============================================================================
