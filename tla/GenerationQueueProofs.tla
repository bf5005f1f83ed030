----------------------- MODULE GenerationQueueProofs -----------------------
(***************************************************************************)
(* Theorems about GenerationQueue for every set of rows and workers, every  *)
(* lease length and every clock lag.                                        *)
(***************************************************************************)
EXTENDS GenerationQueue, FiniteSetTheorems, TLAPS

QueueInv == QueueTypeOK /\ LeaseShape

USE DEF Lags, Lapsed, NoRemote, ActiveStates, TerminalStates, QueueStates

LEMMA LagIsSmall ==
  ASSUME NEW d \in Lags
  PROVE  d \in Nat /\ d <= MaxLag /\ MaxLag \in Nat /\ LeaseTTL \in Nat /\ MaxLag <= LeaseTTL
BY LeaseAssumption

LEMMA RowsAreCounted == Cardinality(Rows) \in Nat
BY JobsAssumption, FS_Subset, FS_CardinalityType DEF Rows

-----------------------------------------------------------------------------
(* Every operation keeps the types and the shape of the leases.             *)

LEMMA EnqueueInv ==
  ASSUME QueueInv, NEW j \in Jobs, NEW p \in Nat, NEW d \in Lags, Enqueue(j, p, d)
  PROVE  QueueInv'
BY LagIsSmall, RowsAreCounted DEF QueueInv, QueueTypeOK, LeaseShape, Enqueue

LEMMA ClaimNextInv ==
  ASSUME QueueInv, NEW j \in Jobs, NEW w \in Workers, ClaimNext(w, j)
  PROVE  QueueInv'
BY LeaseAssumption, AttemptAssumption
   DEF QueueInv, QueueTypeOK, LeaseShape, ClaimNext

LEMMA HeartbeatInv ==
  ASSUME QueueInv, NEW j \in Jobs, NEW w \in Workers, NEW d \in Lags, Heartbeat(j, w, d)
  PROVE  QueueInv'
BY LagIsSmall DEF QueueInv, QueueTypeOK, LeaseShape, Heartbeat

LEMMA RequestCancelInv ==
  ASSUME QueueInv, NEW j \in Jobs, RequestCancel(j)
  PROVE  QueueInv'
BY DEF QueueInv, QueueTypeOK, LeaseShape, RequestCancel

LEMMA TransitionInv ==
  ASSUME QueueInv, NEW j \in Jobs, NEW w \in Workers, NEW d \in Lags,
         NEW target \in QueueStates \ {"queued"}, Transition(j, w, target, d)
  PROVE  QueueInv'
BY OwnerAssumption DEF QueueInv, QueueTypeOK, LeaseShape, Transition, CanTransition

LEMMA MarkDispatchedInv ==
  ASSUME QueueInv, NEW j \in Jobs, NEW w \in Workers, NEW d \in Lags,
         NEW r \in Nat, MarkDispatched(j, w, r, d)
  PROVE  QueueInv'
BY OwnerAssumption DEF QueueInv, QueueTypeOK, LeaseShape, MarkDispatched, CanMarkDispatched

LEMMA RecordRemoteInv ==
  ASSUME QueueInv, NEW j \in Jobs, NEW w \in Workers, NEW d \in Lags,
         NEW r \in Nat, RecordRemote(j, w, r, d)
  PROVE  QueueInv'
BY DEF QueueInv, QueueTypeOK, LeaseShape, RecordRemote

LEMMA FinalizeSuccessInv ==
  ASSUME QueueInv, NEW j \in Jobs, NEW w \in Workers, NEW d \in Lags,
         NEW r \in Nat, FinalizeSuccess(j, w, r, d)
  PROVE  QueueInv'
BY DEF QueueInv, QueueTypeOK, LeaseShape, FinalizeSuccess

LEMMA SettleInv ==
  ASSUME QueueInv, NEW j \in Jobs, NEW w \in Workers, NEW d \in Lags,
         NEW target \in TerminalStates, Settle(j, w, target, d)
  PROVE  QueueInv'
BY DEF QueueInv, QueueTypeOK, LeaseShape, Settle

LEMMA RecoverExpiredInv ==
  ASSUME QueueInv, NEW d \in Lags, RecoverExpired(d)
  PROVE  QueueInv'
BY LeaseAssumption DEF QueueInv, QueueTypeOK, LeaseShape, RecoverExpired, LeaseOver

LEMMA TickInv ==
  ASSUME QueueInv, Tick
  PROVE  QueueInv'
BY LeaseAssumption DEF QueueInv, QueueTypeOK, LeaseShape, Tick

LEMMA LeasedCallInv ==
  ASSUME QueueInv, NEW j \in Jobs, NEW w \in Workers, NEW d \in Lags, LeasedCall(j, w, d)
  PROVE  QueueInv'
<1>1. CASE Heartbeat(j, w, d)
  BY <1>1, HeartbeatInv
<1>2. CASE \E target \in QueueStates \ {"queued"} : Transition(j, w, target, d)
  BY <1>2, TransitionInv
<1>3. CASE \E r \in RemoteIds \union {NoRemote} : MarkDispatched(j, w, r, d)
  BY <1>3, MarkDispatchedInv, RemoteAssumption
<1>4. CASE \E r \in RemoteIds : RecordRemote(j, w, r, d)
  BY <1>4, RecordRemoteInv, RemoteAssumption
<1>5. CASE \E r \in RemoteIds \union {NoRemote} : FinalizeSuccess(j, w, r, d)
  BY <1>5, FinalizeSuccessInv, RemoteAssumption
<1>6. CASE NeedsReview(j, w, d)
  BY <1>6, SettleInv DEF NeedsReview
<1>7. CASE Fail(j, w, d)
  BY <1>7, SettleInv DEF Fail
<1> QED BY <1>1, <1>2, <1>3, <1>4, <1>5, <1>6, <1>7 DEF LeasedCall

LEMMA QueueNextInv == QueueInv /\ [QueueNext]_queueVars => QueueInv'
<1> SUFFICES ASSUME QueueInv, [QueueNext]_queueVars PROVE QueueInv'
  OBVIOUS
<1>1. CASE \E j \in Jobs, p \in Priorities, d \in Lags : Enqueue(j, p, d)
  BY <1>1, EnqueueInv, PriorityAssumption
<1>2. CASE \E j \in Jobs : RequestCancel(j)
  BY <1>2, RequestCancelInv
<1>3. CASE \E w \in Workers, j \in Jobs : ClaimNext(w, j)
  BY <1>3, ClaimNextInv
<1>4. CASE \E j \in Jobs, w \in Workers, d \in Lags : LeasedCall(j, w, d)
  BY <1>4, LeasedCallInv
<1>5. CASE \E d \in Lags : RecoverExpired(d)
  BY <1>5, RecoverExpiredInv
<1>6. CASE Tick
  BY <1>6, TickInv
<1>7. CASE UNCHANGED queueVars
  BY <1>7 DEF queueVars, QueueInv, QueueTypeOK, LeaseShape
<1> QED BY <1>1, <1>2, <1>3, <1>4, <1>5, <1>6, <1>7 DEF QueueNext

LEMMA QueueInitInv == QueueInit => QueueInv
BY LeaseAssumption, AttemptAssumption DEF QueueInit, QueueInv, QueueTypeOK, LeaseShape

-----------------------------------------------------------------------------
(* The theorems.                                                            *)

LEMMA QueueInvHolds == QueueSpec => []QueueInv
BY QueueInitInv, QueueNextInv, PTL DEF QueueSpec

\* Every column keeps its type under arbitrary callers; in particular no lease
\* ever outlasts LeaseTTL, however stale the clock reading behind a renewal.
THEOREM QueueTypeCorrect == QueueSpec => []QueueTypeOK
<1>1. QueueInv => QueueTypeOK
  BY DEF QueueInv
<1> QED BY <1>1, QueueInvHolds, PTL

\* A waiting row has no owner and an active row has one, whoever calls what.
THEOREM LeaseShapeHolds == QueueSpec => []LeaseShape
<1>1. QueueInv => LeaseShape
  BY DEF QueueInv
<1> QED BY <1>1, QueueInvHolds, PTL

\* Nothing any caller does moves a row out of a terminal state.
THEOREM TerminalStaysFinal == QueueSpec => TerminalIsFinal
<1> DEFINE Step == \A j \in Jobs : status[j] \in TerminalStates => status'[j] = status[j]
<1>1. QueueInv /\ [QueueNext]_queueVars => [Step]_queueVars
  <2> SUFFICES ASSUME QueueInv, QueueNext PROVE Step
    OBVIOUS
  <2> USE DEF QueueInv, QueueTypeOK, LeaseShape
  <2>1. CASE \E j \in Jobs, p \in Priorities, d \in Lags : Enqueue(j, p, d)
    BY <2>1 DEF Enqueue
  <2>2. CASE \E j \in Jobs : RequestCancel(j)
    BY <2>2 DEF RequestCancel
  <2>3. CASE \E w \in Workers, j \in Jobs : ClaimNext(w, j)
    BY <2>3 DEF ClaimNext, IsHead, Oldest, TopPriority, Queued
  <2>4. CASE \E j \in Jobs, w \in Workers, d \in Lags : LeasedCall(j, w, d)
    BY <2>4, LagIsSmall, LeaseAssumption DEF LeasedCall, Heartbeat, CanHeartbeat, Transition, CanTransition, Transitions,
         MarkDispatched, CanMarkDispatched, RecordRemote, CanRecordRemote,
         FinalizeSuccess, CanFinalize, NeedsReview, Fail, Settle, CanSettle, Holds
  <2>5. CASE \E d \in Lags : RecoverExpired(d)
    BY <2>5, LagIsSmall, LeaseAssumption DEF RecoverExpired, LeaseOver
  <2>6. CASE Tick
    BY <2>6 DEF Tick
  <2> QED BY <2>1, <2>2, <2>3, <2>4, <2>5, <2>6 DEF QueueNext
<1> QED BY <1>1, QueueInvHolds, PTL DEF QueueSpec, TerminalIsFinal

\* A requested cancellation is never overtaken by the paid boundary or a success.
THEOREM CancelBlocksProgress == QueueSpec => CancelStopsProgress
<1> DEFINE Step == \A j \in Jobs :
            cancelReq[j] /\ status'[j] # status[j]
              => status'[j] \notin {"waiting_provider", "processing", "succeeded"}
<1>1. QueueInv /\ [QueueNext]_queueVars => [Step]_queueVars
  <2> SUFFICES ASSUME QueueInv, QueueNext PROVE Step
    OBVIOUS
  <2> USE DEF QueueInv, QueueTypeOK, LeaseShape
  <2>1. CASE \E j \in Jobs, p \in Priorities, d \in Lags : Enqueue(j, p, d)
    BY <2>1 DEF Enqueue
  <2>2. CASE \E j \in Jobs : RequestCancel(j)
    BY <2>2 DEF RequestCancel
  <2>3. CASE \E w \in Workers, j \in Jobs : ClaimNext(w, j)
    BY <2>3 DEF ClaimNext, IsHead, Oldest, TopPriority, Queued
  <2>4. CASE \E j \in Jobs, w \in Workers, d \in Lags : LeasedCall(j, w, d)
    BY <2>4, LagIsSmall, LeaseAssumption DEF LeasedCall, Heartbeat, CanHeartbeat, Transition, CanTransition, Transitions,
         MarkDispatched, CanMarkDispatched, RecordRemote, CanRecordRemote,
         FinalizeSuccess, CanFinalize, NeedsReview, Fail, Settle, CanSettle, Holds
  <2>5. CASE \E d \in Lags : RecoverExpired(d)
    BY <2>5, LagIsSmall, LeaseAssumption DEF RecoverExpired, LeaseOver
  <2>6. CASE Tick
    BY <2>6 DEF Tick
  <2> QED BY <2>1, <2>2, <2>3, <2>4, <2>5, <2>6 DEF QueueNext
<1> QED BY <1>1, QueueInvHolds, PTL DEF QueueSpec, CancelStopsProgress

\* A row leaves its owner only when the lease is over by the true clock, however
\* stale the reaper's reading was, and it leaves to nobody.
THEOREM HandoverNeedsExpiry == QueueSpec => HandoverOnlyByExpiry
<1> DEFINE Step == \A j \in Jobs :
            owner[j] # NoOwner /\ owner'[j] # owner[j]
              => owner'[j] = NoOwner /\ lease[j] < 0
<1>1. QueueInv /\ [QueueNext]_queueVars => [Step]_queueVars
  <2> SUFFICES ASSUME QueueInv, QueueNext PROVE Step
    OBVIOUS
  <2> USE DEF QueueInv, QueueTypeOK, LeaseShape
  <2>1. CASE \E j \in Jobs, p \in Priorities, d \in Lags : Enqueue(j, p, d)
    BY <2>1 DEF Enqueue
  <2>2. CASE \E j \in Jobs : RequestCancel(j)
    BY <2>2 DEF RequestCancel
  <2>3. CASE \E w \in Workers, j \in Jobs : ClaimNext(w, j)
    BY <2>3 DEF ClaimNext, IsHead, Oldest, TopPriority, Queued
  <2>4. CASE \E j \in Jobs, w \in Workers, d \in Lags : LeasedCall(j, w, d)
    BY <2>4, LagIsSmall, LeaseAssumption DEF LeasedCall, Heartbeat, CanHeartbeat, Transition, CanTransition, Transitions,
         MarkDispatched, CanMarkDispatched, RecordRemote, CanRecordRemote,
         FinalizeSuccess, CanFinalize, NeedsReview, Fail, Settle, CanSettle, Holds
  <2>5. CASE \E d \in Lags : RecoverExpired(d)
    BY <2>5, LagIsSmall, LeaseAssumption DEF RecoverExpired, LeaseOver
  <2>6. CASE Tick
    BY <2>6 DEF Tick
  <2> QED BY <2>1, <2>2, <2>3, <2>4, <2>5, <2>6 DEF QueueNext
<1> QED BY <1>1, QueueInvHolds, PTL DEF QueueSpec, HandoverOnlyByExpiry

-----------------------------------------------------------------------------
(* The two texts of the order.                                              *)

\* The row the three keys of claim_next leave is counted before every other
\* row by queued_position, and no other row before it.
LEMMA HeadIsAhead ==
  ASSUME QueueInv, NEW j \in Jobs, IsHead(j), NEW k \in Queued \ {j}
  PROVE  Ahead(j, k) /\ ~Ahead(k, j)
<1>1. /\ prio[k] \in Nat /\ prio[j] \in Nat /\ stamp[k] \in Nat /\ stamp[j] \in Nat
      /\ k \in Nat /\ j \in Nat /\ k # j
  BY JobsAssumption DEF QueueInv, QueueTypeOK, Queued
<1>2. j \in TopPriority /\ prio[k] <= prio[j]
  BY DEF IsHead, Oldest, TopPriority
<1>3. CASE prio[k] < prio[j]
  BY <1>1, <1>3 DEF Ahead
<1>4. CASE prio[k] = prio[j]
  <2>1. k \in TopPriority
    BY <1>2, <1>4 DEF TopPriority
  <2>2. stamp[j] <= stamp[k]
    BY <2>1 DEF IsHead, Oldest
  <2>3. CASE stamp[j] < stamp[k]
    BY <1>1, <1>4, <2>3 DEF Ahead
  <2>4. CASE stamp[j] = stamp[k]
    <3>1. k \in Oldest
      BY <2>1, <2>4 DEF IsHead, Oldest
    <3>2. j < k
      BY <1>1, <3>1 DEF IsHead
    <3> QED BY <1>1, <1>4, <2>4, <3>2 DEF Ahead
  <2> QED BY <1>1, <2>2, <2>3, <2>4
<1> QED BY <1>1, <1>2, <1>3, <1>4

LEMMA ClaimAdvances ==
  ASSUME QueueInv, NEW w \in Workers, NEW j \in Jobs, ClaimNext(w, j)
  PROVE  Position(j) = 1 /\ \A k \in Queued \ {j} : Position(k)' = Position(k) - 1
<1>1. IsHead(j) /\ j \in Queued /\ prio' = prio /\ stamp' = stamp /\ Queued' = Queued \ {j}
  BY DEF ClaimNext, IsHead, Oldest, TopPriority, Queued, QueueInv, QueueTypeOK
<1>2. Position(j) = 1
  <2>1. {k \in Queued \ {j} : Ahead(k, j)} = {}
    BY <1>1, HeadIsAhead
  <2> QED BY <2>1, FS_EmptySet DEF Position
<1>3. ASSUME NEW k \in Queued \ {j} PROVE Position(k)' = Position(k) - 1
  <2> DEFINE A == {i \in Queued \ {k} : Ahead(i, k)}
  <2>1. Position(k) = 1 + Cardinality(A) /\ Position(k)' = 1 + Cardinality(A')
    BY DEF Position
  <2>2. A' = A \ {j}
    BY <1>1 DEF Ahead
  <2>3. j \in A
    BY <1>1, <1>3, HeadIsAhead
  <2>4. IsFiniteSet(A)
    BY JobsAssumption, FS_Subset DEF Queued
  <2>5. Cardinality(A \ {j}) = Cardinality(A) - 1 /\ Cardinality(A) \in Nat
    <3> HIDE DEF A
    <3> QED BY <2>3, <2>4, FS_RemoveElement, FS_CardinalityType
  <2>6. Cardinality(A') = Cardinality(A) - 1
    BY <2>2, <2>5, Zenon
  <2> HIDE DEF A
  <2> QED BY <2>1, <2>5, <2>6
<1> QED BY <1>2, <1>3

\* However many rows wait and whatever their keys, a claim takes the row
\* advertised as first and moves every other row up by one.
THEOREM ClaimAdvancesQueue == QueueSpec => ClaimMovesQueueUp
<1> DEFINE Step == \A j \in Jobs : status[j] = "queued" /\ status'[j] = "running" =>
              /\ Position(j) = 1
              /\ \A k \in Queued \ {j} : Position(k)' = Position(k) - 1
<1>1. QueueInv /\ [QueueNext]_queueVars => [Step]_queueVars
  <2> SUFFICES ASSUME QueueInv, QueueNext, NEW i \in Jobs,
                      status[i] = "queued", status'[i] = "running"
               PROVE  \E w \in Workers : ClaimNext(w, i)
    BY ClaimAdvances
  <2> USE DEF QueueInv, QueueTypeOK, LeaseShape
  <2>1. CASE \E j \in Jobs, p \in Priorities, d \in Lags : Enqueue(j, p, d)
    BY <2>1 DEF Enqueue
  <2>2. CASE \E j \in Jobs : RequestCancel(j)
    BY <2>2 DEF RequestCancel
  <2>3. CASE \E w \in Workers, j \in Jobs : ClaimNext(w, j)
    BY <2>3 DEF ClaimNext
  <2>4. CASE \E j \in Jobs, w \in Workers, d \in Lags : LeasedCall(j, w, d)
    BY <2>4 DEF LeasedCall, Heartbeat, Transition, CanTransition, Transitions,
         MarkDispatched, CanMarkDispatched, RecordRemote, FinalizeSuccess, CanFinalize,
         NeedsReview, Fail, Settle, CanSettle, Holds
  <2>5. CASE \E d \in Lags : RecoverExpired(d)
    BY <2>5 DEF RecoverExpired
  <2>6. CASE Tick
    BY <2>6 DEF Tick
  <2> QED BY <2>1, <2>2, <2>3, <2>4, <2>5, <2>6 DEF QueueNext
<1> QED BY <1>1, QueueInvHolds, PTL DEF QueueSpec, ClaimMovesQueueUp

-----------------------------------------------------------------------------
(* Who may overtake a waiting row.  A clock that counts the insertions has    *)
(* passed the age of every row there is.                                      *)

Aged == \A j \in Rows : stamp[j] < Cardinality(Rows)

LEMMA RowsStay ==
  ASSUME QueueInv, QueueNext, \A j \in Jobs, p \in Priorities, d \in Lags : ~Enqueue(j, p, d)
  PROVE  Rows' = Rows /\ UNCHANGED <<prio, stamp>>
<1> USE DEF QueueInv, QueueTypeOK, LeaseShape, Rows
<1>1. CASE \E j \in Jobs : RequestCancel(j)
  BY <1>1 DEF RequestCancel
<1>2. CASE \E w \in Workers, j \in Jobs : ClaimNext(w, j)
  BY <1>2 DEF ClaimNext, IsHead, Oldest, TopPriority, Queued
<1>3. CASE \E j \in Jobs, w \in Workers, d \in Lags : LeasedCall(j, w, d)
  BY <1>3 DEF LeasedCall, Heartbeat, Transition, CanTransition, Transitions, MarkDispatched,
     CanMarkDispatched, RecordRemote, FinalizeSuccess, CanFinalize, NeedsReview, Fail, Settle,
     CanSettle, Holds
<1>4. CASE \E d \in Lags : RecoverExpired(d)
  BY <1>4 DEF RecoverExpired
<1>5. CASE Tick
  BY <1>5 DEF Tick
<1> QED BY <1>1, <1>2, <1>3, <1>4, <1>5 DEF QueueNext

LEMMA NewRow ==
  ASSUME QueueInv, NEW j \in Jobs, NEW p \in Priorities, NEW d \in Lags, Enqueue(j, p, d)
  PROVE  /\ Rows' = Rows \union {j} /\ j \notin Rows
         /\ Cardinality(Rows)' = Cardinality(Rows) + 1
         /\ stamp'[j] \in Nat /\ stamp'[j] <= Cardinality(Rows)
<1>1. Rows' = Rows \union {j} /\ j \notin Rows
  BY DEF Enqueue, Rows, QueueInv, QueueTypeOK
<1>2. IsFiniteSet(Rows)
  BY JobsAssumption, FS_Subset DEF Rows
<1>3. Cardinality(Rows \union {j}) = Cardinality(Rows) + 1
  BY <1>1, <1>2, FS_AddElement
<1>4. stamp'[j] = IF Cardinality(Rows) >= d THEN Cardinality(Rows) - d ELSE 0
  BY DEF Enqueue, QueueInv, QueueTypeOK
<1> QED BY <1>1, <1>3, <1>4, RowsAreCounted, LagIsSmall

LEMMA AgedHolds == QueueSpec => []Aged
<1>1. QueueInit => Aged
  BY DEF QueueInit, Aged, Rows
<1>2. QueueInv /\ Aged /\ [QueueNext]_queueVars => Aged'
  <2> SUFFICES ASSUME QueueInv, Aged, [QueueNext]_queueVars PROVE Aged'
    OBVIOUS
  <2>1. ASSUME NEW j \in Jobs, NEW p \in Priorities, NEW d \in Lags, Enqueue(j, p, d) PROVE Aged'
    <3>1. \A i \in Rows : i # j => stamp'[i] = stamp[i] /\ stamp[i] \in Nat
      BY <2>1 DEF Enqueue, Rows, QueueInv, QueueTypeOK
    <3> QED BY <2>1, <3>1, NewRow, RowsAreCounted DEF Aged
  <2>2. CASE UNCHANGED queueVars
    BY <2>2 DEF queueVars, Aged, Rows
  <2> QED BY <2>1, <2>2, RowsStay DEF Aged
<1> QED BY <1>1, <1>2, QueueInvHolds, PTL DEF QueueSpec

LEMMA FewerAhead ==
  ASSUME NEW j \in Jobs,
         {k \in Queued \ {j} : Ahead(k, j)}' \subseteq {k \in Queued \ {j} : Ahead(k, j)}
  PROVE  ~(Position(j)' > Position(j))
<1> DEFINE A == {k \in Queued \ {j} : Ahead(k, j)}
<1>1. IsFiniteSet(A)
  BY JobsAssumption, FS_Subset DEF Queued
<1>2. Cardinality(A) \in Nat /\ Cardinality(A') \in Nat /\ Cardinality(A') <= Cardinality(A)
  <2>1. IsFiniteSet(A') /\ Cardinality(A') <= Cardinality(A)
    BY <1>1, FS_Subset
  <2> QED BY <1>1, <2>1, FS_CardinalityType
<1>3. Position(j) = 1 + Cardinality(A) /\ Position(j)' = 1 + Cardinality(A')
  BY DEF Position
<1> QED BY <1>2, <1>3

\* The advertised position of a waiting row grows only for a newcomer of higher
\* priority, one whose clock reading was old, or a row that lapsed into the queue.
THEOREM OnlyPrivilegePushesBack == QueueSpec => PushedBackOnlyByPrivilege
<1> DEFINE Overtakes(k, j) == /\ status[k] # "queued" /\ status'[k] = "queued"
                              /\ \/ status[k] = "running"
                                 \/ prio'[k] > prio[j]
                                 \/ stamp'[k] < Cardinality(Rows)
           Step == \A j \in Jobs :
             status[j] = "queued" /\ status'[j] = "queued" /\ Position(j)' > Position(j)
               => \E k \in Jobs \ {j} : Overtakes(k, j)
<1>1. QueueInv /\ Aged /\ [QueueNext]_queueVars => [Step]_queueVars
  <2> SUFFICES ASSUME QueueInv, Aged, QueueNext, NEW j \in Jobs,
                      status[j] = "queued", status'[j] = "queued",
                      \A k \in Jobs \ {j} : ~Overtakes(k, j)
               PROVE  ~(Position(j)' > Position(j))
    OBVIOUS
  <2> SUFFICES {k \in Queued \ {j} : Ahead(k, j)}' \subseteq {k \in Queued \ {j} : Ahead(k, j)}
    BY FewerAhead
  <2> SUFFICES ASSUME NEW k \in Jobs \ {j}, status'[k] = "queued", Ahead(k, j)'
               PROVE  status[k] = "queued" /\ Ahead(k, j)
    BY DEF Queued
  <2>1. ASSUME NEW i \in Jobs, NEW p \in Priorities, NEW d \in Lags, Enqueue(i, p, d)
        PROVE  status[k] = "queued" /\ Ahead(k, j)
    <3>1. i # j
      BY <2>1 DEF Enqueue
    <3>2. i # k
      <4> SUFFICES ASSUME i = k PROVE FALSE
        OBVIOUS
      <4>1. ~(prio'[k] > prio[j]) /\ ~(stamp'[k] < Cardinality(Rows))
        BY <2>1 DEF Enqueue
      <4>2. stamp[j] < Cardinality(Rows) /\ stamp[j] \in Nat
        BY DEF Aged, Rows, QueueInv, QueueTypeOK
      <4>3. prio'[j] = prio[j] /\ stamp'[j] = stamp[j]
        BY <2>1, <3>1 DEF Enqueue, QueueInv, QueueTypeOK
      <4>4. stamp'[k] \in Nat /\ stamp'[k] = Cardinality(Rows)
        BY <2>1, <4>1, NewRow, RowsAreCounted
      <4> QED BY <4>1, <4>2, <4>3, <4>4 DEF Ahead
    <3> QED BY <2>1, <3>1, <3>2 DEF Enqueue, Ahead, QueueInv, QueueTypeOK
  <2>2. CASE \A i \in Jobs, p \in Priorities, d \in Lags : ~Enqueue(i, p, d)
    <3>1. Rows' = Rows /\ UNCHANGED <<prio, stamp>>
      BY <2>2, RowsStay
    <3>2. status[k] # "absent"
      BY <3>1 DEF Rows
    <3>3. status[k] \in {"queued", "running"}
      <4> USE <3>2 DEF QueueInv, QueueTypeOK, LeaseShape
      <4>1. CASE \E i \in Jobs : RequestCancel(i)
        BY <4>1 DEF RequestCancel
      <4>2. CASE \E w \in Workers, i \in Jobs : ClaimNext(w, i)
        BY <4>2 DEF ClaimNext
      <4>3. CASE \E i \in Jobs, w \in Workers, d \in Lags : LeasedCall(i, w, d)
        BY <4>3 DEF LeasedCall, Heartbeat, Transition, CanTransition, Transitions, MarkDispatched,
           CanMarkDispatched, RecordRemote, FinalizeSuccess, CanFinalize, NeedsReview, Fail, Settle,
           CanSettle, Holds
      <4>4. CASE \E d \in Lags : RecoverExpired(d)
        BY <4>4 DEF RecoverExpired
      <4>5. CASE Tick
        BY <4>5 DEF Tick
      <4> QED BY <2>2, <4>1, <4>2, <4>3, <4>4, <4>5 DEF QueueNext
    <3>4. status[k] = "queued"
      BY <3>3
    <3> QED BY <3>1, <3>4 DEF Ahead
  <2> QED BY <2>1, <2>2
<1> QED BY <1>1, QueueInvHolds, AgedHolds, PTL DEF QueueSpec, PushedBackOnlyByPrivilege

=============================================================================
