------------------------ MODULE BackupRestoreProofs ------------------------
(***************************************************************************)
(* Theorems about BackupRestore for any number of jobs, worker incarnations,*)
(* backups and rollbacks.                                                   *)
(***************************************************************************)
EXTENDS BackupRestore, ConnectorDispatchProofs

-----------------------------------------------------------------------------
(* The inductive invariant.  What the tool copies is typed like the table   *)
(* it was copied from, and keeps the shape of its leases.                   *)

Databases ==
  [status : [Jobs -> QueueStates \union {"absent"}], owner : [Jobs -> Workers \union {NoOwner}],
   cancelReq : [Jobs -> BOOLEAN], attempts : [Jobs -> 0 .. AttemptCap], remote : [Jobs -> Nat],
   prio : [Jobs -> Nat], stamp : [Jobs -> Nat], staged : [Jobs -> BOOLEAN]]

Bundles  == [db : Databases, files : SUBSET Jobs]
Stagings == [db : Databases, files : SUBSET Jobs, receipt : Bundles]

\* A copy of the database that services may be given, but for rows still active.
SoundCopy(db) ==
  \A j \in Jobs :
    /\ db.status[j] \in {"absent", "queued"} => db.owner[j] = NoOwner
    /\ db.status[j] \in ActiveStates => db.owner[j] \in Workers
    /\ db.status[j] = "succeeded" => db.staged[j]

\* The directory was read after the database and only grew in between.
BytesOf(db, tree) == \A j \in Jobs : db.staged[j] => j \in tree

SoundBundle(b) == b \in Bundles /\ SoundCopy(b.db) /\ BytesOf(b.db, b.files)

ToolInv ==
  /\ copy # None =>
       copy \in Bundles /\ SoundCopy(copy.db) /\ BytesOf(copy.db, files) /\ Len(bundles) < MaxBackups
  /\ bundles \in Seq(Bundles) /\ Len(bundles) <= MaxBackups
  /\ \A i \in DOMAIN bundles : SoundBundle(bundles[i])
  /\ staging # None =>
       /\ staging \in Stagings
       /\ SoundBundle(staging.receipt)
       /\ \A j \in Jobs : staging.receipt.db.status[j] \notin ActiveStates

\* Where the two live paths are after done renames, unless taking one back failed.
PathInv ==
  /\ swap \in {"idle", "forward", "undo", "stuck"} /\ done \in 0 .. 3
  /\ data \in {"live", "away", "restored"} /\ art \in {"live", "away"}
  /\ swap = "idle" => done = 0 /\ data = "live" /\ art = "live"
  /\ swap = "forward" => failed = FALSE
  /\ swap \in {"forward", "undo"} /\ failed = FALSE =>
       /\ done = 0 => data = "live"
       /\ done \in {1, 2} => data = "away"
       /\ done = 3 => data = "restored"
       /\ art = IF done \in {0, 1} THEN "live" ELSE "away"

\* Nothing runs while the paths are exchanged, and what comes in is what the
\* receipt says.
SwapInv ==
  /\ up # {} => swap = "idle"
  /\ swap = "forward" =>
       copy = None /\ staging # None /\ Unchanged(staging) /\ rollbacks < MaxRollbacks

\* Only a worker that is up is anywhere in run_once.
UpInv ==
  /\ up = {} \/ \E w \in Workers : up = {w}
  /\ \A w \in Workers \ up : pc[w] \in {"idle", "dead"} /\ ~beating[w]

\* A row that can still be claimed was charged no more often than it was rewound.
RowOnce(j) ==
  /\ submits[j] <= 1 + rewound[j]
  /\ ~Beyond(j) => submits[j] <= rewound[j]

RowBytes(j) == (status[j] = "succeeded" => staged[j]) /\ (staged[j] => j \in files)

PostOnce(w)  == pc[w] = "post" => Beyond(job[w]) /\ submits[job[w]] <= rewound[job[w]]
HasBytes(w)  == pc[w] \in {"finish", "commit"} => staged[job[w]]

Ghosts ==
  /\ rollbacks \in 0 .. MaxRollbacks
  /\ rewound \in [Jobs -> 0 .. MaxRollbacks]
  /\ \A j \in Jobs : rewound[j] <= rollbacks

BackupInv ==
  /\ Typed
  /\ files \subseteq Jobs /\ failed \in BOOLEAN
  /\ ToolInv /\ PathInv /\ SwapInv /\ UpInv /\ Ghosts
  /\ \A j \in Jobs : RowOnce(j) /\ RowBytes(j)
  /\ \A w \in Workers : PostOnce(w) /\ HasBytes(w)

USE DEF Lags, Lapsed, NoRemote, ActiveStates, TerminalStates, QueueStates, Labels,
        queueVars, workerVars, providerVars, At, Elsewhere,
        backupVars, toolVars, pathVars, ghostVars, vars, Backup

-----------------------------------------------------------------------------
(* What one step of the running worker may do to the rows it is about.      *)

Threads(w) == Work(w) \/ Renew(w) \/ RenewalDies(w) \/ LocalFault(w)

Others(w) == \A v \in Workers \ {w} : UNCHANGED <<pc[v], job[v], beating[v]>>

LEMMA OthersStay ==
  ASSUME ThreadTypeOK, NEW w \in Workers, Threads(w) \/ Crash(w)
  PROVE  Others(w)
<1> USE DEF Others, ThreadTypeOK
<1>1. CASE \/ Beat(w) \/ PollBeat(w) \/ RetryBeat(w) \/ ResultBeat(w) \/ FetchBeat(w)
  BY <1>1 DEF Beat, PollBeat, RetryBeat, ResultBeat, FetchBeat, BeatThen, Goto
<1>2. CASE \/ Recover(w) \/ ClaimNothing(w) \/ Check(w) \/ Precheck(w) \/ Mark(w) \/ Record(w)
           \/ PostRefused(w) \/ Poll(w) \/ PostUnanswered(w) \/ TellProvider(w)
  BY <1>2 DEF Recover, ClaimNothing, Check, Precheck, Mark, Record, PostRefused, Poll,
       PostUnanswered, TellProvider, Goto
<1>3. CASE Stage(w) \/ Finish(w) \/ OnError(w) \/ OnCancelled(w) \/ Reap(w)
  BY <1>3 DEF Stage, Finish, OnError, OnCancelled, Reap, Goto
<1>4. CASE Commit(w) \/ Review(w) \/ Failing(w) \/ Cancelling(w)
  BY <1>4 DEF Commit, Review, Failing, Cancelling, Leave
<1>5. CASE OnQueueError(w) \/ Reaped(w) \/ LocalFault(w)
  BY <1>5 DEF OnQueueError, Reaped, LocalFault, Goto, Leave
<1>6. CASE Claim(w) \/ PostAnswered(w) \/ ReadStatus(w)
  BY <1>6 DEF Claim, PostAnswered, ReadStatus, Goto
<1>7. CASE Renew(w) \/ RenewalDies(w) \/ Crash(w)
  BY <1>7 DEF Renew, RenewalDies, Crash
<1> QED BY <1>1, <1>2, <1>3, <1>4, <1>5, <1>6, <1>7 DEF Threads, Work

\* Neither a row nor a charge nor an artifact: the worker only moves.
Moves(w) ==
  /\ UNCHANGED <<status, submits, staged>>
  /\ pc'[w] = "post" => pc[w] = "post" /\ job'[w] = job[w]
  /\ pc'[w] \in {"finish", "commit"} => pc[w] \in {"finish", "commit"} /\ job'[w] = job[w]

\* A claim, a recovery or the end of a run: no row comes back over the boundary,
\* and only a job whose artifact is staged may succeed.
Settles(w) ==
  /\ UNCHANGED <<submits, staged>>
  /\ pc'[w] \notin {"post", "finish", "commit"}
  /\ \A j \in Jobs : Beyond(j) => Beyond(j)'
  /\ \A j \in Jobs : status'[j] = "succeeded" /\ status[j] # "succeeded"
                      => j = job[w] /\ pc[w] = "commit"

Crosses(w) ==
  /\ UNCHANGED <<submits, staged, job>> /\ job[w] \in Jobs
  /\ pc'[w] = "post" /\ status[job[w]] = "running"
  /\ status' = [status EXCEPT ![job[w]] = "waiting_provider"]

Charges(w) ==
  /\ UNCHANGED <<status, staged>> /\ job[w] \in Jobs
  /\ pc[w] = "post" /\ pc'[w] \notin {"post", "finish", "commit"}
  /\ submits' = [submits EXCEPT ![job[w]] = @ + 1]

Stores(w) ==
  /\ UNCHANGED <<status, submits, job>> /\ job[w] \in Jobs
  /\ pc'[w] # "post"
  /\ staged' = [staged EXCEPT ![job[w]] = TRUE]

LEMMA WorkIs ==
  ASSUME Typed, NEW w \in Workers, Threads(w) \/ Crash(w)
  PROVE  Moves(w) \/ Settles(w) \/ Crosses(w) \/ Charges(w) \/ Stores(w)
<1>1. ThreadTypeOK
  BY DEF Typed
<1>2. CASE \/ Beat(w) \/ PollBeat(w) \/ RetryBeat(w) \/ ResultBeat(w) \/ FetchBeat(w)
  BY <1>1, <1>2 DEF Beat, PollBeat, RetryBeat, ResultBeat, FetchBeat, BeatThen, Heartbeat, Goto,
       Moves, ThreadTypeOK
<1>3. CASE \/ ClaimNothing(w) \/ Check(w) \/ Precheck(w) \/ PostRefused(w) \/ Poll(w)
           \/ TellProvider(w) \/ Finish(w) \/ OnError(w) \/ OnCancelled(w)
  BY <1>1, <1>3 DEF ClaimNothing, Check, Precheck, PostRefused, Poll, TellProvider, Finish,
       OnError, OnCancelled, Goto, Moves, ThreadTypeOK
<1>4. CASE OnQueueError(w) \/ Reaped(w) \/ LocalFault(w) \/ ReadStatus(w)
  BY <1>1, <1>4 DEF OnQueueError, Reaped, LocalFault, ReadStatus, Goto, Leave, Moves, ThreadTypeOK
<1>5. CASE Record(w)
  BY <1>1, <1>5, ProviderAssumption DEF Record, RecordRemote, Goto, Moves, ThreadTypeOK
<1>6. CASE Renew(w) \/ RenewalDies(w) \/ Crash(w)
  BY <1>1, <1>6 DEF Renew, RenewalDies, Crash, Heartbeat, Moves, ThreadTypeOK
<1>7. CASE Recover(w) \/ Reap(w)
  BY <1>1, <1>7 DEF Recover, Reap, RecoverExpired, Goto, Settles, Beyond, ThreadTypeOK
<1>8. CASE Claim(w)
  BY <1>1, <1>8 DEF Claim, ClaimNext, IsHead, Oldest, TopPriority, Queued, Settles, Beyond, Typed, QueueInv, QueueTypeOK, ThreadTypeOK
<1>9. CASE Commit(w) \/ Review(w) \/ Failing(w) \/ Cancelling(w)
  <2>1. job[w] \in Jobs
    BY <1>9 DEF Typed, HasJob, Commit, Review, Failing, Cancelling
  <2>2. UNCHANGED <<submits, staged>> /\ pc'[w] = "idle"
    BY <1>1, <1>9 DEF Commit, Review, Failing, Cancelling, Leave, ThreadTypeOK
  <2>3. \/ UNCHANGED status
        \/ \E s \in TerminalStates : /\ status' = [status EXCEPT ![job[w]] = s]
                                     /\ s = "succeeded" => pc[w] = "commit"
    BY <1>9 DEF Commit, Review, Failing, Cancelling, FinalizeSuccess, NeedsReview, Fail, Settle,
         Transition
  <2> QED BY <2>1, <2>2, <2>3 DEF Settles, Beyond, Typed, QueueInv, QueueTypeOK
<1>10. CASE Mark(w)
  <2>1. job[w] \in Jobs
    BY <1>10 DEF Typed, HasJob, Mark
  <2> QED BY <1>1, <1>10, <2>1 DEF Mark, MarkDispatched, CanMarkDispatched, Goto, Moves, Crosses,
             ThreadTypeOK
<1>11. CASE PostAnswered(w) \/ PostUnanswered(w)
  <2>1. job[w] \in Jobs
    BY <1>11 DEF Typed, HasJob, PostAnswered, PostUnanswered
  <2> QED BY <1>1, <1>11, <2>1 DEF PostAnswered, PostUnanswered, Accept, Goto, Charges, ThreadTypeOK
<1>12. CASE Stage(w)
  <2>1. job[w] \in Jobs
    BY <1>12 DEF Typed, HasJob, Stage
  <2> QED BY <1>1, <1>12, <2>1 DEF Stage, Goto, Moves, Stores, ThreadTypeOK
<1> QED BY <1>2, <1>3, <1>4, <1>5, <1>6, <1>7, <1>8, <1>9, <1>10, <1>11, <1>12
           DEF Threads, Work

-----------------------------------------------------------------------------
(* Every step keeps the invariant.  The services first.                     *)

ServiceVars == UNCHANGED <<toolVars, pathVars, ghostVars>>

\* The receipt, the paths and the ghosts do not move with the services.
LEMMA ServiceSides ==
  ASSUME BackupInv, ServiceVars, Typed', files \subseteq files', files' \subseteq Jobs
  PROVE  /\ ToolInv' /\ PathInv' /\ Ghosts'
         /\ up' \subseteq up => SwapInv'
<1>1. ToolInv'
  BY DEF BackupInv, ServiceVars, ToolInv, SoundBundle, BytesOf
<1>2. PathInv' /\ Ghosts'
  BY DEF BackupInv, ServiceVars, PathInv, Ghosts
<1>3. up' \subseteq up => SwapInv'
  BY DEF BackupInv, ServiceVars, SwapInv
<1> QED BY <1>1, <1>2, <1>3

\* One step of the one worker that runs, or its end.
LEMMA WorkerInv ==
  ASSUME BackupInv, NEW w \in up, ServiceVars,
         \/ Threads(w) /\ up' = up /\ files' = files \union {j \in Jobs : staged'[j] /\ ~staged[j]}
         \/ Crash(w) /\ up' = {} /\ files' = files
  PROVE  BackupInv'
<1>1. w \in Workers /\ up = {w}
  BY DEF BackupInv, UpInv
<1>2. Typed'
  BY <1>1, TypedStep DEF BackupInv, Threads, Next
<1>3. files \subseteq files' /\ files' \subseteq Jobs
  BY DEF BackupInv
<1>4. ToolInv' /\ PathInv' /\ Ghosts' /\ SwapInv'
  BY <1>2, <1>3, ServiceSides
<1>5. Others(w)
  BY <1>1, OthersStay DEF BackupInv, Typed
<1>6. UpInv'
  <2>1. CASE up' = up
    BY <1>1, <1>5, <2>1 DEF BackupInv, UpInv, Others
  <2>2. CASE Crash(w) /\ up' = {}
    BY <1>1, <1>5, <2>2 DEF BackupInv, UpInv, Others, Crash, Typed, ThreadTypeOK
  <2> QED BY <2>1, <2>2
<1>7. /\ \A j \in Jobs : submits[j] \in Nat /\ rewound[j] \in Nat /\ staged[j] \in BOOLEAN
      /\ DOMAIN submits = Jobs /\ DOMAIN staged = Jobs /\ DOMAIN status = Jobs
  BY DEF BackupInv, Ghosts, Typed, ThreadTypeOK, QueueInv, QueueTypeOK
<1>8. UNCHANGED rewound
  BY DEF ServiceVars
<1>9. \A v \in Workers \ {w} : pc'[v] \in {"idle", "dead"}
  BY <1>1, <1>5 DEF BackupInv, UpInv, Others
<1>10. Moves(w) \/ Settles(w) \/ Crosses(w) \/ Charges(w) \/ Stores(w)
  BY <1>1, WorkIs DEF BackupInv
<1>11. files' = files \union {j \in Jobs : staged'[j] /\ ~staged[j]}
  BY DEF Crash
<1>12. /\ \A j \in Jobs : RowOnce(j)' /\ RowBytes(j)'
       /\ PostOnce(w)' /\ HasBytes(w)'
  <2> USE <1>1, <1>7, <1>8, <1>11 DEF BackupInv
  <2>1. CASE Moves(w)
    BY <2>1 DEF Moves, RowOnce, RowBytes, PostOnce, HasBytes, Beyond
  <2>2. CASE Settles(w)
    BY <2>2 DEF Settles, RowOnce, RowBytes, PostOnce, HasBytes
  <2>3. CASE Crosses(w)
    BY <2>3 DEF Crosses, RowOnce, RowBytes, PostOnce, HasBytes, Beyond
  <2>4. CASE Charges(w)
    BY <2>4 DEF Charges, RowOnce, RowBytes, PostOnce, HasBytes, Beyond
  <2>5. CASE Stores(w)
    BY <2>5 DEF Stores, RowOnce, RowBytes, PostOnce, HasBytes, Beyond
  <2> QED BY <1>10, <2>1, <2>2, <2>3, <2>4, <2>5
<1> QED BY <1>2, <1>3, <1>4, <1>6, <1>9, <1>12 DEF BackupInv, PostOnce, HasBytes, ServiceVars

\* A new row, a request to cancel, the provider and the clock: no worker moves.
LEMMA OutsideInv ==
  ASSUME BackupInv, ServiceVars, UNCHANGED <<up, files>>,
         (\E j \in Jobs : Submit(j) \/ Cancel(j) \/ ProviderFinishes(j)) \/ TimePasses
  PROVE  BackupInv'
<1>1. Typed'
  BY TypedStep DEF BackupInv, Next
<1>2. files \subseteq files' /\ files' \subseteq Jobs
  BY DEF BackupInv
<1>3. ToolInv' /\ PathInv' /\ Ghosts' /\ SwapInv'
  BY <1>1, <1>2, ServiceSides
<1>4. UNCHANGED <<pc, job, beating, submits, staged, rewound>>
  BY DEF Submit, Cancel, ProviderFinishes, TimePasses, ServiceVars
<1>5. UpInv'
  BY <1>4 DEF BackupInv, UpInv
<1>6. \A j \in Jobs : status'[j] = status[j] \/ (~Beyond(j) /\ status'[j] = "queued")
  <2>1. CASE UNCHANGED status
    BY <2>1
  <2>2. ASSUME NEW k \in Jobs, Submit(k)
        PROVE  status[k] = "absent" /\ status' = [status EXCEPT ![k] = "queued"]
    BY <2>2 DEF Submit, Enqueue
  <2>3. (\E k \in Jobs : Submit(k)) \/ UNCHANGED status
    BY DEF Cancel, ProviderFinishes, TimePasses, RequestCancel, Tick
  <2>4. DOMAIN status = Jobs
    BY DEF BackupInv, Typed, QueueInv, QueueTypeOK
  <2> QED BY <2>1, <2>2, <2>3, <2>4 DEF Beyond
<1>7. \A j \in Jobs : RowOnce(j)' /\ RowBytes(j)'
  BY <1>4, <1>6 DEF BackupInv, RowOnce, RowBytes, Beyond
<1>8. \A w \in Workers : PostOnce(w)' /\ HasBytes(w)'
  <2> SUFFICES ASSUME NEW w \in Workers, pc[w] = "post"
               PROVE  Beyond(job[w])'
    BY <1>4 DEF BackupInv, PostOnce, HasBytes
  <2>1. job[w] \in Jobs /\ Beyond(job[w])
    BY DEF BackupInv, Typed, HasJob, PostOnce
  <2> QED BY <2>1, <1>4, <1>6 DEF Beyond
<1> QED BY <1>1, <1>2, <1>3, <1>5, <1>7, <1>8 DEF BackupInv, ServiceVars

LEMMA ServicesInv ==
  ASSUME BackupInv, Start \/ Down \/ Serve \/ World
  PROVE  BackupInv'
<1>1. CASE Start
  <2>1. UNCHANGED <<vars, files, toolVars, pathVars, ghostVars>>
    BY <1>1 DEF Start
  <2>2. /\ Typed' /\ ToolInv' /\ PathInv' /\ Ghosts'
        /\ \A j \in Jobs : RowOnce(j)' /\ RowBytes(j)'
        /\ \A w \in Workers : PostOnce(w)' /\ HasBytes(w)'
    BY <2>1 DEF BackupInv, Typed, QueueInv, QueueTypeOK, LeaseShape, ThreadTypeOK, HasJob, ToolInv,
         PathInv, Ghosts, RowOnce, RowBytes, PostOnce, HasBytes, Beyond
  <2>3. SwapInv' /\ UpInv'
    BY <1>1, <2>1 DEF Start, BackupInv, SwapInv, UpInv
  <2> QED BY <2>1, <2>2, <2>3 DEF BackupInv
<1>2. CASE Down
  BY <1>2, WorkerInv DEF Down, ServiceVars
<1>3. CASE Serve
  <2>1. CASE \E w \in up : Threads(w)
    BY <1>3, <2>1, WorkerInv DEF Serve, ServiceVars
  <2>2. CASE \E j \in Jobs : Submit(j) \/ Cancel(j)
    <3>1. files' = files
      BY <1>3, <2>2 DEF Serve, Submit, Cancel
    <3> QED BY <1>3, <2>2, <3>1, OutsideInv DEF Serve, ServiceVars
  <2> QED BY <1>3, <2>1, <2>2 DEF Serve, Threads
<1>4. CASE World
  BY <1>4, OutsideInv DEF World, ServiceVars
<1> QED BY <1>1, <1>2, <1>3, <1>4

-----------------------------------------------------------------------------
(* Then the tool.                                                           *)

\* Of a step that leaves the services alone only its own state is to be looked at.
LEMMA ToolOnly ==
  ASSUME BackupInv, UNCHANGED <<vars, up, files, ghostVars>>, ToolInv', PathInv', SwapInv',
         failed' \in BOOLEAN
  PROVE  BackupInv'
<1>1. Typed' /\ UpInv' /\ Ghosts'
  BY DEF BackupInv, Typed, QueueInv, QueueTypeOK, LeaseShape, ThreadTypeOK, HasJob, UpInv, Ghosts
<1>2. /\ \A j \in Jobs : RowOnce(j)' /\ RowBytes(j)'
      /\ \A w \in Workers : PostOnce(w)' /\ HasBytes(w)'
  BY DEF BackupInv, RowOnce, RowBytes, PostOnce, HasBytes, Beyond
<1>3. files' \subseteq Jobs
  BY DEF BackupInv
<1> QED BY <1>1, <1>2, <1>3 DEF BackupInv

LEMMA DatabaseIsSound ==
  ASSUME BackupInv
  PROVE  Database \in Databases /\ SoundCopy(Database) /\ BytesOf(Database, files)
<1>1. Database \in Databases
  BY DEF BackupInv, Typed, QueueInv, QueueTypeOK, ThreadTypeOK, Database, Databases
<1>2. SoundCopy(Database) /\ BytesOf(Database, files)
  BY DEF BackupInv, Typed, QueueInv, LeaseShape, RowBytes, Database, SoundCopy, BytesOf
<1> QED BY <1>1, <1>2

\* What restore-verify seals has no row that is still active.
LEMMA ReconcileIsSound ==
  ASSUME NEW db \in Databases, SoundCopy(db)
  PROVE  /\ Reconcile(db) \in Databases /\ SoundCopy(Reconcile(db))
         /\ Reconcile(db).staged = db.staged
         /\ \A j \in Jobs : Reconcile(db).status[j] \notin ActiveStates
BY OwnerAssumption DEF Databases, Reconcile, SoundCopy

LEMMA BackingUpInv ==
  ASSUME BackupInv, CopyDatabase \/ BundleTree \/ BackupFails
  PROVE  BackupInv'
<1>1. UNCHANGED <<vars, up, files, ghostVars, staging, pathVars>> /\ PathInv'
      /\ failed' \in BOOLEAN
  BY DEF CopyDatabase, BundleTree, BackupFails, BackupInv, PathInv
<1>2. SwapInv'
  BY <1>1 DEF CopyDatabase, BundleTree, BackupFails, BackupInv, SwapInv
<1>3. CASE CopyDatabase
  <2>1. ToolInv'
    BY <1>1, <1>3, DatabaseIsSound DEF CopyDatabase, BackupInv, ToolInv, Bundles
  <2> QED BY <1>1, <1>2, <2>1, ToolOnly
<1>4. CASE BundleTree
  <2> DEFINE b == [copy EXCEPT !.files = files]
  <2>1. SoundBundle(b)
    BY <1>4 DEF BundleTree, BackupInv, ToolInv, SoundBundle, Bundles
  <2>2. bundles' = Append(bundles, b) /\ copy' = None /\ Len(bundles) < MaxBackups
    BY <1>4 DEF BundleTree, BackupInv, ToolInv
  <2>3. bundles' \in Seq(Bundles) /\ Len(bundles') <= MaxBackups
    BY <2>1, <2>2, BoundsAssumption DEF BackupInv, ToolInv, SoundBundle
  <2>4. \A i \in DOMAIN bundles' : SoundBundle(bundles'[i])
    BY <2>1, <2>2 DEF BackupInv, ToolInv
  <2>5. ToolInv'
    BY <1>1, <2>2, <2>3, <2>4 DEF BackupInv, ToolInv, SoundBundle
  <2> QED BY <1>1, <1>2, <2>5, ToolOnly
<1>5. CASE BackupFails
  <2>1. ToolInv'
    BY <1>1, <1>5 DEF BackupFails, BackupInv, ToolInv, SoundBundle
  <2> QED BY <1>1, <1>2, <2>1, ToolOnly
<1> QED BY <1>3, <1>4, <1>5

LEMMA RestoringInv ==
  ASSUME BackupInv, RestoreVerify \/ StagingChanges
  PROVE  BackupInv'
<1>1. UNCHANGED <<vars, up, files, ghostVars, copy, bundles, pathVars>> /\ PathInv'
      /\ failed' \in BOOLEAN
  BY DEF RestoreVerify, StagingChanges, BackupInv, PathInv
<1>2. SwapInv'
  BY <1>1 DEF RestoreVerify, StagingChanges, BackupInv, SwapInv
<1>3. /\ staging' \in Stagings
      /\ SoundBundle(staging'.receipt)
      /\ \A j \in Jobs : staging'.receipt.db.status[j] \notin ActiveStates
  <2>1. CASE RestoreVerify
    <3>1. PICK i \in DOMAIN bundles : staging' = Staged(Reconcile(bundles[i].db), bundles[i].files)
      BY <2>1 DEF RestoreVerify
    <3>2. SoundBundle(bundles[i])
      BY DEF BackupInv, ToolInv
    <3> QED BY <3>1, <3>2, ReconcileIsSound DEF Staged, SoundBundle, Bundles, Stagings, BytesOf
  <2>2. CASE StagingChanges
    <3>1. staging \in Stagings /\ SoundBundle(staging.receipt)
      BY <2>2 DEF StagingChanges, BackupInv, ToolInv
    <3>2. staging' \in Stagings /\ staging'.receipt = staging.receipt
      BY <2>2, <3>1 DEF StagingChanges, Stagings, Databases
    <3> QED BY <2>2, <3>1, <3>2 DEF StagingChanges, BackupInv, ToolInv
  <2> QED BY <2>1, <2>2
<1>4. ToolInv'
  BY <1>1, <1>3 DEF BackupInv, ToolInv, SoundBundle
<1> QED BY <1>1, <1>2, <1>4, ToolOnly

LEMMA RenamingInv ==
  ASSUME BackupInv,
         BeginSwap \/ Rename \/ RenameFails \/ Compensate \/ CompensationEnds \/ HostDies
  PROVE  BackupInv'
<1>1. UNCHANGED <<vars, up, files, ghostVars, toolVars>> /\ ToolInv'
  BY DEF BeginSwap, Rename, RenameFails, Compensate, CompensationEnds, HostDies, BackupInv, ToolInv,
         SoundBundle
<1>2. SwapInv'
  BY <1>1 DEF BeginSwap, Rename, RenameFails, Compensate, CompensationEnds, HostDies, BackupInv,
       SwapInv, Unchanged
<1>3. failed' \in BOOLEAN
  BY DEF BeginSwap, Rename, RenameFails, Compensate, CompensationEnds, HostDies, BackupInv
<1>4. PathInv'
  <2>0. PathInv
    BY DEF BackupInv
  <2> USE <2>0 DEF PathInv
  <2>1. CASE BeginSwap
    BY <2>1 DEF BeginSwap
  <2>2. CASE Rename
    BY <2>2 DEF Rename
  <2>3. CASE RenameFails \/ HostDies
    BY <2>3 DEF RenameFails, HostDies
  <2>4. CASE Compensate
    BY <2>4 DEF Compensate
  <2>5. CASE CompensationEnds
    BY <2>5 DEF CompensationEnds
  <2> QED BY <2>1, <2>2, <2>3, <2>4, <2>5
<1> QED BY <1>1, <1>2, <1>3, <1>4, ToolOnly

\* The services are down, so no worker can be about to charge what is rewound.
LEMMA LastRenameInv ==
  ASSUME BackupInv, LastRename
  PROVE  BackupInv'
<1> DEFINE r == staging.receipt
<1>1. /\ up = {} /\ copy = None /\ rollbacks < MaxRollbacks
      /\ SoundBundle(r) /\ \A j \in Jobs : r.db.status[j] \notin ActiveStates
      /\ staging.db = r.db /\ staging.files = r.files
  BY DEF LastRename, BackupInv, SwapInv, ToolInv, Unchanged
<1>2. UNCHANGED <<workerVars, providerVars, up, copy, bundles, failed>>
  BY DEF LastRename
<1>3. QueueInv' /\ staged' \in [Jobs -> BOOLEAN]
  <2>1. r.db \in Databases /\ SoundCopy(r.db)
    BY <1>1 DEF SoundBundle, Bundles
  <2>2. QueueTypeOK' /\ staged' \in [Jobs -> BOOLEAN]
    <3>1. Lapsed \in Lapsed .. LeaseTTL
      BY LeaseAssumption
    <3> QED BY <1>1, <2>1, <3>1 DEF LastRename, QueueTypeOK, Databases
  <2>3. LeaseShape'
    BY <1>1, <2>1 DEF LastRename, LeaseShape, SoundCopy
  <2> QED BY <2>2, <2>3 DEF QueueInv
<1>4. Typed'
  BY <1>2, <1>3 DEF BackupInv, Typed, ThreadTypeOK, HasJob
<1>5. files' \subseteq Jobs /\ ToolInv' /\ PathInv' /\ SwapInv' /\ UpInv'
  <2>1. files' \subseteq Jobs
    BY <1>1 DEF LastRename, SoundBundle, Bundles
  <2>2. ToolInv'
    BY <1>1, <1>2 DEF LastRename, BackupInv, ToolInv, SoundBundle
  <2>3. PathInv' /\ SwapInv' /\ UpInv'
    BY <1>1, <1>2 DEF LastRename, BackupInv, PathInv, SwapInv, UpInv
  <2> QED BY <2>1, <2>2, <2>3
<1>6. rollbacks' = rollbacks + 1 /\ Ghosts' /\ failed' \in BOOLEAN
  BY <1>1, BoundsAssumption DEF LastRename, BackupInv, Ghosts
<1>7. \A j \in Jobs : RowOnce(j)' /\ RowBytes(j)'
  <2> SUFFICES ASSUME NEW j \in Jobs PROVE RowOnce(j)' /\ RowBytes(j)'
    OBVIOUS
  <2>1. /\ submits'[j] = submits[j] /\ submits[j] \in Nat /\ rewound[j] \in Nat
        /\ rewound'[j] = IF submits[j] > 0 /\ r.db.status[j] \in {"absent", "queued"}
                         THEN rewound[j] + 1 ELSE rewound[j]
        /\ status'[j] = r.db.status[j] /\ status'[j] # "running"
    BY <1>1, <1>2 DEF LastRename, BackupInv, Typed, ThreadTypeOK, Ghosts
  <2>2. RowOnce(j)'
    BY <2>1 DEF BackupInv, RowOnce, Beyond
  <2>3. RowBytes(j)'
    BY <1>1 DEF LastRename, RowBytes, SoundBundle, SoundCopy, BytesOf
  <2> QED BY <2>2, <2>3
<1>8. \A w \in Workers : PostOnce(w)' /\ HasBytes(w)'
  BY <1>1, <1>2 DEF BackupInv, UpInv, PostOnce, HasBytes
<1> QED BY <1>4, <1>5, <1>6, <1>7, <1>8 DEF BackupInv

LEMMA BackupInitInv == BackupInit => BackupInv
<1> SUFFICES ASSUME BackupInit PROVE BackupInv
  OBVIOUS
<1>1. Typed
  BY QueueInitInv, PollAssumption DEF BackupInit, Init, Typed, ThreadTypeOK, HasJob
<1>2. ToolInv /\ PathInv /\ SwapInv /\ UpInv /\ Ghosts
  <2>1. PathInv
    BY DEF BackupInit, PathInv
  <2>5. SwapInv /\ UpInv
    BY DEF BackupInit, Init, SwapInv, UpInv
  <2>2. Ghosts
    BY BoundsAssumption DEF BackupInit, Ghosts
  <2>3. bundles = <<>> /\ copy = None /\ staging = None
    BY DEF BackupInit
  <2>4. ToolInv
    BY <2>3, BoundsAssumption DEF ToolInv
  <2> QED BY <2>1, <2>2, <2>4, <2>5
<1>3. files \subseteq Jobs /\ failed \in BOOLEAN
  BY DEF BackupInit
<1>4. /\ \A j \in Jobs : RowOnce(j) /\ RowBytes(j)
      /\ \A w \in Workers : PostOnce(w) /\ HasBytes(w)
  BY DEF BackupInit, Init, QueueInit, RowOnce, RowBytes, PostOnce, HasBytes, Beyond
<1> QED BY <1>1, <1>2, <1>3, <1>4 DEF BackupInv

LEMMA BackupStepInv == BackupInv /\ [BackupNext]_backupVars => BackupInv'
<1> SUFFICES ASSUME BackupInv, [BackupNext]_backupVars PROVE BackupInv'
  OBVIOUS
<1>1. CASE UNCHANGED backupVars
  <2>1. ToolInv' /\ PathInv' /\ SwapInv' /\ failed' \in BOOLEAN
    BY <1>1 DEF BackupInv, ToolInv, SoundBundle, PathInv, SwapInv, Unchanged
  <2> QED BY <1>1, <2>1, ToolOnly
<1> QED BY <1>1, ServicesInv, BackingUpInv, RestoringInv, RenamingInv, LastRenameInv DEF BackupNext

LEMMA BackupInvHolds == BackupSpec => []BackupInv
BY BackupInitInv, BackupStepInv, PTL DEF BackupSpec

-----------------------------------------------------------------------------
(* The theorems.                                                            *)

\* Every variable of the tool and of the services beside it keeps its type; at
\* most one worker runs at a time.
THEOREM BackupTypeCorrect == BackupSpec => []BackupTypeOK
<1>1. BackupInv => BackupTypeOK
  <2> SUFFICES ASSUME BackupInv PROVE BackupTypeOK
    OBVIOUS
  <2>1. up \subseteq Workers /\ Cardinality(up) <= 1
    BY FS_EmptySet, FS_Singleton DEF BackupInv, UpInv
  <2>2. \A b \in Bundles : Bundled(b)
    BY DEF Bundles, Databases, Bundled, Columns
  <2>3. \A s \in Stagings : Bundled(s)
    BY DEF Stagings, Databases, Bundled, Columns
  <2> QED BY <2>1, <2>2, <2>3 DEF BackupInv, Typed, QueueInv, TypeOK, ToolInv, PathInv, Ghosts,
             SoundBundle, BackupTypeOK
<1> QED BY <1>1, BackupInvHolds, PTL

\* Whatever is backed up, restored and rolled back, in whatever order and however
\* it fails, the provider accepts a job once and once more for each rollback to a
\* backup that did not know of the claim yet.
THEOREM RestoreNeverBuysTwice == BackupSpec => []BoughtTwiceOnlyIfRewound
<1>1. BackupInv => BoughtTwiceOnlyIfRewound
  BY DEF BackupInv, RowOnce, BoughtTwiceOnlyIfRewound
<1> QED BY <1>1, BackupInvHolds, PTL

\* A job that shows as succeeded while services run has its row and its bytes,
\* although database and directory were copied at different moments.
THEOREM RestoredSuccessHasBytes == BackupSpec => []SuccessKeepsBytes
<1>1. BackupInv => SuccessKeepsBytes
  BY DEF BackupInv, RowBytes, SuccessKeepsBytes
<1> QED BY <1>1, BackupInvHolds, PTL

\* However the renames and their compensation fail, services run only where both
\* directories are live.
THEOREM NoMixedSetServes == BackupSpec => []ServicesRunOnOneSet
<1>1. BackupInv => ServicesRunOnOneSet
  BY DEF BackupInv, SwapInv, PathInv, ServicesRunOnOneSet
<1> QED BY <1>1, BackupInvHolds, PTL

=============================================================================
