--------------------------- MODULE HandlerDispatch ---------------------------
(***************************************************************************)
(* Jobs that are not connector jobs: Worker.run_once hands them to          *)
(* QueueStore.dispatch_once, which runs a registered handler and settles    *)
(* the row by what the handler did.  The handler is any program that keeps  *)
(* the one rule docs/ARCHITECTURE.md gives it: it persists the boundary     *)
(* (mark_dispatched) before it asks a provider for anything.  This is the   *)
(* only caller of _requeue.                                                 *)
(***************************************************************************)
EXTENDS GenerationQueue

CONSTANTS
  NoJob,
  RetryLimit    \* retry_limits.get(job_type, 0)

ASSUME NoJobIsNoRow         == NoJob \notin Jobs
ASSUME RetryLimitAssumption == RetryLimit \in 0 .. (AttemptCap - 1)

VARIABLES
  pc,         \* where each worker's main thread is
  job,        \* the row it claimed
  beating,    \* its lease renewal thread is running
  attempt,    \* attempt_count as dispatch_once read it at its start
  marked,     \* the handler's mark_dispatched has returned
  effects,    \* paid requests sent for the job
  retries     \* times _requeue sent the job back

threadVars  == <<pc, job, beating, attempt, marked>>
handlerVars == <<queueVars, threadVars, effects, retries>>

HandlerTypeOK ==
  /\ QueueTypeOK
  /\ pc      \in [Workers -> {"idle", "claim", "enter", "handler", "returned",
                              "retryable", "raised", "commit", "requeue",
                              "review", "fail", "cancel", "dead"}]
  /\ job     \in [Workers -> Jobs \union {NoJob}]
  /\ beating \in [Workers -> BOOLEAN]
  /\ attempt \in [Workers -> 0 .. AttemptCap]
  /\ marked  \in [Workers -> BOOLEAN]
  /\ effects \in [Jobs -> Nat]
  /\ retries \in [Jobs -> Nat]

HandlerInit ==
  /\ QueueInit
  /\ pc      = [w \in Workers |-> "idle"]
  /\ job     = [w \in Workers |-> NoJob]
  /\ beating = [w \in Workers |-> FALSE]
  /\ attempt = [w \in Workers |-> 0]
  /\ marked  = [w \in Workers |-> FALSE]
  /\ effects = [j \in Jobs |-> 0]
  /\ retries = [j \in Jobs |-> 0]

At(w, label)   == pc[w] = label
Goto(w, label) == pc' = [pc EXCEPT ![w] = label] /\ UNCHANGED <<job, beating, attempt, marked>>
Quietly        == UNCHANGED <<effects, retries>>

\* The worker lets go of its row: on to the next round, or dead.
LetGo(w, label) ==
  /\ pc'      = [pc EXCEPT ![w] = label]
  /\ job'     = [job EXCEPT ![w] = NoJob]
  /\ beating' = [beating EXCEPT ![w] = FALSE]
  /\ attempt' = [attempt EXCEPT ![w] = 0]
  /\ marked'  = [marked EXCEPT ![w] = FALSE]

-----------------------------------------------------------------------------
(* Worker.run_once                                                          *)

Recover(w) ==
  /\ At(w, "idle")
  /\ \E d \in Lags : RecoverExpired(d)
  /\ Goto(w, "claim")
  /\ Quietly

Claim(w) ==
  /\ At(w, "claim")
  /\ \/ \E j \in Jobs : /\ ClaimNext(w, j)
                        /\ pc'      = [pc EXCEPT ![w] = "enter"]
                        /\ job'     = [job EXCEPT ![w] = j]
                        /\ beating' = [beating EXCEPT ![w] = TRUE]
                        /\ UNCHANGED <<attempt, marked>>
     \/ Queued = {} /\ Goto(w, "idle") /\ UNCHANGED queueVars
  /\ Quietly

Renew(w) ==
  /\ beating[w]
  /\ \/ \E d \in Lags : Heartbeat(job[w], w, d) /\ UNCHANGED beating
     \/ beating' = [beating EXCEPT ![w] = FALSE] /\ UNCHANGED queueVars
  /\ UNCHANGED <<pc, job, attempt, marked>>
  /\ Quietly

Crash(w) ==
  /\ ~At(w, "dead")
  /\ \E v \in Workers \ {w} : ~At(v, "dead")
  /\ LetGo(w, "dead")
  /\ UNCHANGED queueVars
  /\ Quietly

-----------------------------------------------------------------------------
(* dispatch_once                                                            *)

\* The row is read once; a job type without a handler waits for a human.
Enter(w) ==
  /\ At(w, "enter")
  /\ IF ~(owner[job[w]] = w /\ status[job[w]] \in ActiveStates)
     THEN LetGo(w, "idle")                                     \* QueueError
     ELSE /\ \/ cancelReq[job[w]] /\ pc' = [pc EXCEPT ![w] = "cancel"]
             \/ ~cancelReq[job[w]] /\ \E label \in {"review", "handler"} :
                                        pc' = [pc EXCEPT ![w] = label]
          /\ attempt' = [attempt EXCEPT ![w] = attempts[job[w]]]
          /\ UNCHANGED <<job, beating, marked>>
  /\ UNCHANGED queueVars
  /\ Quietly

\* The calls JobExecution offers.  A refused one raises into the handler, which
\* may swallow the exception: nothing changes then.
HandlerCall(w) ==
  /\ At(w, "handler")
  /\ LET j == job[w]
     IN  \E d \in Lags :
       \/ /\ \E r \in RemoteIds \union {NoRemote} : MarkDispatched(j, w, r, d)
          /\ marked' = [marked EXCEPT ![w] = TRUE]
       \/ (\E r \in RemoteIds : RecordRemote(j, w, r, d)) /\ UNCHANGED marked
       \/ Heartbeat(j, w, d) /\ UNCHANGED marked
  /\ UNCHANGED <<pc, job, beating, attempt>>
  /\ Quietly

\* The handler's one paid request; it may be sent long after mark_dispatched.
HandlerEffect(w) ==
  /\ At(w, "handler")
  /\ marked[w]
  /\ effects' = [effects EXCEPT ![job[w]] = @ + 1]
  /\ marked'  = [marked EXCEPT ![w] = FALSE]
  /\ UNCHANGED <<queueVars, pc, job, beating, attempt, retries>>

HandlerEnds(w) ==
  /\ At(w, "handler")
  /\ \E label \in {"returned", "retryable", "raised"} : Goto(w, label)
  /\ UNCHANGED queueVars
  /\ Quietly

Returned(w) ==
  /\ At(w, "returned")
  /\ Goto(w, IF cancelReq[job[w]] THEN "cancel" ELSE "commit")
  /\ UNCHANGED queueVars
  /\ Quietly

\* Mutant of Retryable: the boundary is not looked at.
RetryableBlindly(w) ==
  /\ At(w, "retryable")
  /\ Goto(w, IF attempt[w] <= RetryLimit THEN "requeue" ELSE "fail")
  /\ UNCHANGED queueVars
  /\ Quietly

\* except RetryableJobError
Retryable(w) ==
  /\ At(w, "retryable")
  /\ Goto(w, IF status[job[w]] \in {"waiting_provider", "processing"} THEN "review"
             ELSE IF attempt[w] <= RetryLimit THEN "requeue"
             ELSE "fail")
  /\ UNCHANGED queueVars
  /\ Quietly

\* Mutant of Raised: a failure is a failure, however far the job got.
RaisedBlindly(w) ==
  /\ At(w, "raised")
  /\ Goto(w, "fail")
  /\ UNCHANGED queueVars
  /\ Quietly

\* except Exception
Raised(w) ==
  /\ At(w, "raised")
  /\ Goto(w, IF status[job[w]] \in {"waiting_provider", "processing"} THEN "review"
             ELSE "fail")
  /\ UNCHANGED queueVars
  /\ Quietly

SendBack(w) ==
  /\ At(w, "requeue")
  /\ LET j == job[w]
     IN  \/ Requeue(j, w) /\ retries' = [retries EXCEPT ![j] = @ + 1]
         \/ ~CanRequeue(j, w) /\ UNCHANGED <<queueVars, retries>>
  /\ LetGo(w, "idle")
  /\ UNCHANGED effects

\* The remaining last calls; a refused one raises QueueError out of run_once.
LastCall(w) ==
  /\ LET j == job[w]
     IN  \E d \in Lags :
       \/ At(w, "commit") /\ FinalizeSuccess(j, w, NoRemote, d)
       \/ At(w, "commit") /\ ~CanFinalize(j, w, d) /\ UNCHANGED queueVars
       \/ At(w, "review") /\ NeedsReview(j, w, d)
       \/ At(w, "fail")   /\ Fail(j, w, d)
       \/ pc[w] \in {"review", "fail"} /\ ~CanSettle(j, w, d) /\ UNCHANGED queueVars
       \/ At(w, "cancel") /\ Transition(j, w, "cancelled", d)
       \/ /\ At(w, "cancel")
          /\ ~CanTransition(j, w, "cancelled", d)
          /\ UNCHANGED queueVars
  /\ LetGo(w, "idle")
  /\ Quietly

-----------------------------------------------------------------------------
HandlerNext ==
  \/ \E w \in Workers :
       \/ Recover(w) \/ Claim(w) \/ Renew(w) \/ Crash(w)
       \/ Enter(w) \/ HandlerCall(w) \/ HandlerEffect(w) \/ HandlerEnds(w)
       \/ Returned(w) \/ Retryable(w) \/ Raised(w) \/ SendBack(w) \/ LastCall(w)
  \/ /\ \/ \E j \in Jobs, p \in Priorities : Enqueue(j, p, 0)
        \/ \E j \in Jobs : RequestCancel(j)
        \/ Tick
     /\ UNCHANGED threadVars
     /\ Quietly

HandlerSpec == HandlerInit /\ [][HandlerNext]_handlerVars

-----------------------------------------------------------------------------
(* Properties.                                                              *)

\* docs/OPERATIONS.md:54: a handler that marks the boundary first never runs
\* again for a job whose paid request it may have sent, through whichever
\* sequence of retryable errors, expiries and stalled workers the job goes.
EffectHappensOnce == \A j \in Jobs : effects[j] <= 1

\* _requeue does not ask for a status.  Still it only ever takes back a row the
\* caller itself is running: no settled or sent row, and nobody else's; and
\* however many workers take part, not more often than retry_limits allow.
RequeueTakesOwnRun ==
  [][\A w \in Workers :
       At(w, "requeue") /\ ~At(w, "requeue")' /\ retries'[job[w]] > retries[job[w]]
         => /\ status[job[w]] = "running" /\ attempts[job[w]] = attempt[w]
            /\ retries'[job[w]] <= RetryLimit]_handlerVars

\* A row as HandledJob sees it.
StageOf(j) ==
  CASE status[j] \in {"queued", "running"}              -> IF cancelReq[j] THEN "withdrawn" ELSE "open"
    [] status[j] \in {"waiting_provider", "processing"} -> "sent"
    [] OTHER                                            -> status[j]

Handled == INSTANCE HandledJob
             WITH stage <- [j \in Jobs |-> StageOf(j)], requests <- effects,
                  returns <- retries, Limit <- RetryLimit

\* docs/OPERATIONS.md:54: the workers, handlers and except clauses of
\* dispatch_once implement the abstract promise about a handled job: although
\* decided from a status read some calls earlier, a job past the boundary is
\* never open again nor failed, and a withdrawn one neither sent nor done.
ImplementsHandledJob == Handled!Spec

=============================================================================
