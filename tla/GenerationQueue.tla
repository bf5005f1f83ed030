--------------------------- MODULE GenerationQueue ---------------------------
(***************************************************************************)
(* The durable job queue: table generation_job and the operations QueueStore*)
(* performs on it (apps/api/src/gandiwa_api/queue.py).  Each operator below *)
(* is one SQLite transaction; SQLite admits one writer at a time, so a      *)
(* transaction is one atomic step.                                          *)
(*                                                                          *)
(* Time is relative: lease[j] is the number of ticks until lease_expires_at *)
(* and is negative once the lease has lapsed.  Most operations read the     *)
(* clock before SQLite gives them the write lock, so the "now" they compare *)
(* with may be up to MaxLag ticks old; that age is the parameter d.         *)
(***************************************************************************)
EXTENDS Integers, FiniteSets

CONSTANTS
  Jobs,        \* row ids (uuid4 text in the code: a set with an arbitrary order)
  Workers,     \* worker ids; a restarted process takes a fresh one
  NoOwner,     \* lease_owner IS NULL
  LeaseTTL,    \* lease_seconds, in ticks
  MaxLag,      \* bound: how stale a clock reading may be when its statement runs
  Priorities,  \* bound: the priorities rows are inserted with
  RemoteIds,   \* bound: the provider ids a caller may present
  AttemptCap   \* bound: attempt_count saturates here

ASSUME JobsAssumption     == Jobs \subseteq Nat /\ IsFiniteSet(Jobs)
ASSUME OwnerAssumption    == NoOwner \notin Workers
ASSUME LeaseAssumption    == LeaseTTL \in Nat \ {0} /\ MaxLag \in 0 .. LeaseTTL
ASSUME PriorityAssumption == Priorities \subseteq Nat
ASSUME RemoteAssumption   == RemoteIds \subseteq Nat \ {0}
ASSUME AttemptAssumption  == AttemptCap \in Nat \ {0}

VARIABLES
  status,     \* status column; "absent" while no row has this id
  owner,      \* lease_owner; NoOwner also stands for lease_expires_at IS NULL,
              \*   every statement writes the two columns together
  lease,      \* lease_expires_at - now, meaningful while owner # NoOwner
  cancelReq,  \* cancel_requested_at IS NOT NULL
  attempts,   \* attempt_count
  remote,     \* remote_job_id, NoRemote for NULL
  prio,       \* priority
  stamp       \* created_at, counted in rows inserted so far

queueVars == <<status, owner, lease, cancelReq, attempts, remote, prio, stamp>>

NoRemote       == 0
Lags           == 0 .. MaxLag
Lapsed         == -(1 + MaxLag)      \* the lease stops counting down here
ActiveStates   == {"running", "waiting_provider", "processing"}
TerminalStates == {"needs_review", "succeeded", "failed", "cancelled"}
QueueStates    == {"queued"} \union ActiveStates \union TerminalStates

\* _TRANSITIONS: what transition() may do to a row in state s.
Transitions(s) ==
  CASE s = "running"          -> ActiveStates \union TerminalStates
    [] s = "waiting_provider" -> {"running", "processing"} \union TerminalStates
    [] s = "processing"       -> {"waiting_provider"} \union TerminalStates
    [] OTHER                  -> {}

QueueTypeOK ==
  /\ status    \in [Jobs -> QueueStates \union {"absent"}]
  /\ owner     \in [Jobs -> Workers \union {NoOwner}]
  /\ lease     \in [Jobs -> Lapsed .. LeaseTTL]
  /\ cancelReq \in [Jobs -> BOOLEAN]
  /\ attempts  \in [Jobs -> 0 .. AttemptCap]
  /\ remote    \in [Jobs -> Nat]
  /\ prio      \in [Jobs -> Nat]
  /\ stamp     \in [Jobs -> Nat]

QueueInit ==
  /\ status    = [j \in Jobs |-> "absent"]
  /\ owner     = [j \in Jobs |-> NoOwner]
  /\ lease     = [j \in Jobs |-> Lapsed]
  /\ cancelReq = [j \in Jobs |-> FALSE]
  /\ attempts  = [j \in Jobs |-> 0]
  /\ remote    = [j \in Jobs |-> NoRemote]
  /\ prio      = [j \in Jobs |-> 0]
  /\ stamp     = [j \in Jobs |-> 0]

-----------------------------------------------------------------------------
(* Reading the table.                                                       *)

Rows   == {j \in Jobs : status[j] # "absent"}
Queued == {j \in Jobs : status[j] = "queued"}

\* Mutants of Ahead: newest first; created_at alone, its ties left open.
AheadNewestFirst(k, j) ==
  \/ prio[k] > prio[j]
  \/ prio[k] = prio[j] /\ stamp[k] > stamp[j]
  \/ prio[k] = prio[j] /\ stamp[k] = stamp[j] /\ k < j

AheadTied(k, j) ==
  \/ prio[k] > prio[j]
  \/ prio[k] = prio[j] /\ stamp[k] < stamp[j]

\* The text of queued_position: the rows its join counts before row j.
Ahead(k, j) ==
  \/ prio[k] > prio[j]
  \/ prio[k] = prio[j] /\ stamp[k] < stamp[j]
  \/ prio[k] = prio[j] /\ stamp[k] = stamp[j] /\ k < j

Position(j) == 1 + Cardinality({k \in Queued \ {j} : Ahead(k, j)})

\* The text of claim_next: ORDER BY priority DESC, created_at ASC, id ASC LIMIT 1,
\* one key after the other.  It shares nothing with Ahead.
TopPriority == {j \in Queued : \A k \in Queued : prio[j] >= prio[k]}
Oldest      == {j \in TopPriority : \A k \in TopPriority : stamp[j] <= stamp[k]}
IsHead(j)   == j \in Oldest /\ \A k \in Oldest : j <= k

\* Mutant of LeaseOver: <= instead of <.
LeaseOverEarly(j, d) == owner[j] # NoOwner /\ lease[j] + d <= 0

\* lease_expires_at >= :now, for a :now that is d ticks old.
LeaseLive(j, d) == lease[j] + d >= 0
LeaseOver(j, d) == owner[j] # NoOwner /\ lease[j] + d < 0

\* The WHERE clause the owner's updates share.
Holds(j, w, d) == owner[j] = w /\ status[j] \in ActiveStates /\ LeaseLive(j, d)

-----------------------------------------------------------------------------
(* Writing the table.  CanX is the WHERE clause of X: when it is false the  *)
(* statement changes no row and the method raises QueueError.               *)

Enqueue(j, p, d) ==
  /\ status[j] = "absent"
  /\ LET now == Cardinality(Rows)
     IN  stamp' = [stamp EXCEPT ![j] = IF now >= d THEN now - d ELSE 0]
  /\ status' = [status EXCEPT ![j] = "queued"]
  /\ prio'   = [prio EXCEPT ![j] = p]
  /\ UNCHANGED <<owner, lease, cancelReq, attempts, remote>>

\* BEGIN IMMEDIATE comes first, so this one reads the clock under the lock.
ClaimNext(w, j) ==
  /\ IsHead(j)
  /\ status'   = [status EXCEPT ![j] = "running"]
  /\ owner'    = [owner EXCEPT ![j] = w]
  /\ lease'    = [lease EXCEPT ![j] = LeaseTTL]
  /\ attempts' = [attempts EXCEPT ![j] = IF @ < AttemptCap THEN @ + 1 ELSE @]
  /\ UNCHANGED <<cancelReq, remote, prio, stamp>>

CanHeartbeat(j, w, d) == Holds(j, w, d)

Heartbeat(j, w, d) ==
  /\ CanHeartbeat(j, w, d)
  /\ lease' = [lease EXCEPT ![j] = LeaseTTL - d]
  /\ UNCHANGED <<status, owner, cancelReq, attempts, remote, prio, stamp>>

RequestCancel(j) ==
  /\ status[j] \notin TerminalStates \union {"absent"}
  /\ cancelReq' = [cancelReq EXCEPT ![j] = TRUE]
  /\ UNCHANGED <<status, owner, lease, attempts, remote, prio, stamp>>

\* Mutant of CanTransition: a requested cancellation blocks every target.
CanTransitionUnlessCancelled(j, w, target, d) ==
  /\ target \in Transitions(status[j])
  /\ owner[j] = w
  /\ LeaseLive(j, d)
  /\ ~cancelReq[j]

CanTransition(j, w, target, d) ==
  /\ target \in Transitions(status[j])
  /\ owner[j] = w
  /\ LeaseLive(j, d)
  /\ target = "cancelled" \/ ~cancelReq[j]

Transition(j, w, target, d) ==
  /\ CanTransition(j, w, target, d)
  /\ status' = [status EXCEPT ![j] = target]
  /\ UNCHANGED <<owner, lease, cancelReq, attempts, remote, prio, stamp>>

CanMarkDispatched(j, w, d) ==
  /\ owner[j] = w
  /\ status[j] = "running"
  /\ ~cancelReq[j]
  /\ LeaseLive(j, d)

\* remote_job_id = COALESCE(r, remote_job_id)
MarkDispatched(j, w, r, d) ==
  /\ CanMarkDispatched(j, w, d)
  /\ status' = [status EXCEPT ![j] = "waiting_provider"]
  /\ remote' = [remote EXCEPT ![j] = IF r = NoRemote THEN @ ELSE r]
  /\ UNCHANGED <<owner, lease, cancelReq, attempts, prio, stamp>>

\* Cancellation does not block this one.
CanRecordRemote(j, w, r, d) ==
  /\ owner[j] = w
  /\ status[j] = "waiting_provider"
  /\ LeaseLive(j, d)
  /\ remote[j] \in {NoRemote, r}

RecordRemote(j, w, r, d) ==
  /\ CanRecordRemote(j, w, r, d)
  /\ remote' = [remote EXCEPT ![j] = r]
  /\ UNCHANGED <<status, owner, lease, cancelReq, attempts, prio, stamp>>

\* Mutants of RecoverExpired: lease_owner is not cleared; every lapsed row goes
\* back to the queue; the statement for rows beyond the boundary is missing.
RecoverExpiredKeepsOwner(d) ==
  LET over == {j \in Jobs : status[j] \in ActiveStates /\ LeaseOver(j, d)}
  IN  /\ status' = [j \in Jobs |->
                      IF j \notin over THEN status[j]
                      ELSE IF status[j] = "running" THEN "queued"
                      ELSE "needs_review"]
      /\ UNCHANGED <<owner, lease, cancelReq, attempts, remote, prio, stamp>>

RecoverExpiredBlindly(d) ==
  LET over == {j \in Jobs : status[j] \in ActiveStates /\ LeaseOver(j, d)}
  IN  /\ status' = [j \in Jobs |-> IF j \in over THEN "queued" ELSE status[j]]
      /\ owner'  = [j \in Jobs |-> IF j \in over THEN NoOwner ELSE owner[j]]
      /\ lease'  = [j \in Jobs |-> IF j \in over THEN Lapsed ELSE lease[j]]
      /\ UNCHANGED <<cancelReq, attempts, remote, prio, stamp>>

RecoverExpiredRunningOnly(d) ==
  LET over == {j \in Jobs : status[j] = "running" /\ LeaseOver(j, d)}
  IN  /\ status' = [j \in Jobs |-> IF j \in over THEN "queued" ELSE status[j]]
      /\ owner'  = [j \in Jobs |-> IF j \in over THEN NoOwner ELSE owner[j]]
      /\ lease'  = [j \in Jobs |-> IF j \in over THEN Lapsed ELSE lease[j]]
      /\ UNCHANGED <<cancelReq, attempts, remote, prio, stamp>>

\* One transaction, two statements: rows that lapsed before the boundary are
\* claimable again, rows that lapsed after it wait for a human.
RecoverExpired(d) ==
  LET over == {j \in Jobs : status[j] \in ActiveStates /\ LeaseOver(j, d)}
  IN  /\ status' = [j \in Jobs |->
                      IF j \notin over THEN status[j]
                      ELSE IF status[j] = "running" THEN "queued"
                      ELSE "needs_review"]
      /\ owner'  = [j \in Jobs |-> IF j \in over THEN NoOwner ELSE owner[j]]
      /\ lease'  = [j \in Jobs |-> IF j \in over THEN Lapsed ELSE lease[j]]
      /\ UNCHANGED <<cancelReq, attempts, remote, prio, stamp>>

\* Mutant of CanFinalize: AND cancel_requested_at IS NULL is missing.
CanFinalizeCancelled(j, w, d) == Holds(j, w, d)

CanFinalize(j, w, d) == Holds(j, w, d) /\ ~cancelReq[j]

\* The compare-and-set of finalize_success (and of dispatch_once, r = NoRemote).
FinalizeSuccess(j, w, r, d) ==
  /\ CanFinalize(j, w, d)
  /\ status' = [status EXCEPT ![j] = "succeeded"]
  /\ remote' = [remote EXCEPT ![j] = IF r = NoRemote THEN @ ELSE r]
  /\ UNCHANGED <<owner, lease, cancelReq, attempts, prio, stamp>>

\* Mutant of CanSettle: AND status IN (...) is missing.
CanSettleAnyStatus(j, w, d) == owner[j] = w /\ LeaseLive(j, d)

\* _needs_review and _fail
CanSettle(j, w, d) == Holds(j, w, d)

Settle(j, w, target, d) ==
  /\ CanSettle(j, w, d)
  /\ status' = [status EXCEPT ![j] = target]
  /\ UNCHANGED <<owner, lease, cancelReq, attempts, remote, prio, stamp>>

NeedsReview(j, w, d) == Settle(j, w, "needs_review", d)
Fail(j, w, d)        == Settle(j, w, "failed", d)

\* Mutant of CanRequeue: the caller's ownership is not checked.
CanRequeueAnyones(j, w) == j \in Rows

\* _requeue asks for the owner only: neither status, lease nor cancellation.
CanRequeue(j, w) == owner[j] = w

Requeue(j, w) ==
  /\ CanRequeue(j, w)
  /\ status' = [status EXCEPT ![j] = "queued"]
  /\ owner'  = [owner EXCEPT ![j] = NoOwner]
  /\ lease'  = [lease EXCEPT ![j] = Lapsed]
  /\ UNCHANGED <<cancelReq, attempts, remote, prio, stamp>>

\* Time passes for every lease at once; the lease of a row that is not active
\* is never read again and is dropped.
Tick ==
  /\ \E j \in Jobs : lease[j] > Lapsed
  /\ lease' = [j \in Jobs |-> IF status[j] \in ActiveStates /\ lease[j] > Lapsed
                              THEN lease[j] - 1 ELSE Lapsed]
  /\ UNCHANGED <<status, owner, cancelReq, attempts, remote, prio, stamp>>

-----------------------------------------------------------------------------
(* The store under arbitrary callers: any worker may call any public        *)
(* operation (and the two settling helpers) on any row at any time.         *)
(* _requeue is left to its only caller, dispatch_once (HandlerDispatch).     *)

LeasedCall(j, w, d) ==
  \/ Heartbeat(j, w, d)
  \/ \E target \in QueueStates \ {"queued"} : Transition(j, w, target, d)
  \/ \E r \in RemoteIds \union {NoRemote} : MarkDispatched(j, w, r, d)
  \/ \E r \in RemoteIds : RecordRemote(j, w, r, d)
  \/ \E r \in RemoteIds \union {NoRemote} : FinalizeSuccess(j, w, r, d)
  \/ NeedsReview(j, w, d)
  \/ Fail(j, w, d)

QueueNext ==
  \/ \E j \in Jobs, p \in Priorities, d \in Lags : Enqueue(j, p, d)
  \/ \E j \in Jobs : RequestCancel(j)
  \/ \E w \in Workers, j \in Jobs : ClaimNext(w, j)
  \/ \E j \in Jobs, w \in Workers, d \in Lags : LeasedCall(j, w, d)
  \/ \E d \in Lags : RecoverExpired(d)
  \/ Tick

QueueSpec == QueueInit /\ [][QueueNext]_queueVars

-----------------------------------------------------------------------------
(* Properties of the store.                                                 *)

\* A row has an owner exactly while somebody may act on it: a row that waits in
\* the queue has none and an active row has one.  claim_next, recover_expired
\* and every guarded UPDATE rely on it, and no single statement establishes it.
LeaseShape ==
  \A j \in Jobs :
    /\ status[j] \in {"absent", "queued"} => owner[j] = NoOwner
    /\ status[j] \in ActiveStates => owner[j] \in Workers

\* A row that reached needs_review, succeeded, failed or cancelled keeps that
\* state whatever a late worker, a second worker or the reaper calls afterwards.
TerminalIsFinal ==
  [][\A j \in Jobs : status[j] \in TerminalStates => status'[j] = status[j]]_queueVars

\* Once cancel_requested_at is set no caller can push the row over the paid
\* boundary or finish it as succeeded, however its calls interleave with the
\* request: only recovery, a claim or a settling write may still move it.
CancelStopsProgress ==
  [][\A j \in Jobs :
       cancelReq[j] /\ status'[j] # status[j]
         => status'[j] \notin {"waiting_provider", "processing", "succeeded"}]_queueVars

\* An active row changes hands only through expiry and the queue: nobody takes
\* a row from a worker whose lease still holds at some clock reading, and the
\* worker that loses it loses it to nobody.
HandoverOnlyByExpiry ==
  [][\A j \in Jobs :
       owner[j] # NoOwner /\ owner'[j] # owner[j]
         => owner'[j] = NoOwner /\ lease[j] < 0]_queueVars

\* claim_next and queued_position are two SQL texts for one order.  A claim takes
\* the row advertised as first and moves every row that goes on waiting up by
\* exactly one place, whatever ties and stale created_at values there are.
ClaimMovesQueueUp ==
  [][\A j \in Jobs : status[j] = "queued" /\ status'[j] = "running" =>
       /\ Position(j) = 1
       /\ \A k \in Queued \ {j} : Position(k)' = Position(k) - 1]_queueVars

\* A waiting job is pushed back only by a newcomer of higher priority, by a row
\* that returns from an expired claim (it keeps its old created_at), or by an
\* insert whose clock reading was stale.
PushedBackOnlyByPrivilege ==
  [][\A j \in Jobs :
       status[j] = "queued" /\ status'[j] = "queued" /\ Position(j)' > Position(j)
         => \E k \in Jobs \ {j} :
              /\ status[k] # "queued" /\ status'[k] = "queued"
              /\ \/ status[k] = "running"
                 \/ prio'[k] > prio[j]
                 \/ stamp'[k] < Cardinality(Rows)]_queueVars

=============================================================================
