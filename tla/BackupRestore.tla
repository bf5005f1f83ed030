---------------------------- MODULE BackupRestore ----------------------------
(***************************************************************************)
(* The backup, restore and rollback tool (deploy/bejo2/backup-drill.py)     *)
(* around the services it protects.  backup copies the database and then    *)
(* the artifact directory while the services run; restore-verify unpacks a  *)
(* bundle into a staging directory, puts its active jobs under review and   *)
(* seals a receipt; rollback-apply exchanges the live directories with the  *)
(* staged ones by four renames, the services being stopped.  The provider   *)
(* knows nothing of all this: what it accepted stays charged.               *)
(*                                                                          *)
(* The services are those of ConnectorDispatch, with the one worker         *)
(* compose.yaml starts.  Here staged[j] is the row of the artifact and files*)
(* holds the jobs whose bytes are in the artifact directory.                *)
(***************************************************************************)
EXTENDS ConnectorDispatch, Sequences

CONSTANTS
  None,
  MaxBackups,    \* bound: bundles written
  MaxRollbacks   \* bound: rollbacks that complete

ASSUME BoundsAssumption == MaxBackups \in Nat /\ MaxRollbacks \in Nat

VARIABLES
  up,        \* the running worker, {} while the services are stopped
  files,     \* jobs whose artifact is in the live artifact directory
  copy,      \* what the running backup has read, None when none runs
  bundles,   \* what the finished backups hold
  staging,   \* the staging directory and its receipt, None when there is none
  swap,      \* rollback-apply: "idle", "forward", "undo" or, for good, "stuck"
  done,      \* how many of the four renames stand
  failed,    \* compensation_errors is not empty
  data, art, \* the live paths: "live", nothing there ("away") or "restored"
  rollbacks, \* rollbacks completed
  rewound    \* how many of them took a charged job to a backup without its claim

toolVars   == <<copy, bundles, staging>>
pathVars   == <<swap, done, failed, data, art>>
ghostVars  == <<rollbacks, rewound>>
backupVars == <<vars, up, files, toolVars, pathVars, ghostVars>>

Columns == {"status", "owner", "cancelReq", "attempts", "remote", "prio", "stamp", "staged"}
Bundled(b) == DOMAIN b.db = Columns /\ b.files \subseteq Jobs

BackupTypeOK ==
  /\ TypeOK
  /\ up \subseteq Workers /\ Cardinality(up) <= 1
  /\ files \subseteq Jobs
  /\ \/ copy = None
     \/ Bundled(copy)
  /\ Len(bundles) <= MaxBackups /\ \A i \in DOMAIN bundles : Bundled(bundles[i])
  /\ \/ staging = None
     \/ Bundled(staging) /\ Bundled(staging.receipt)
  /\ swap \in {"idle", "forward", "undo", "stuck"} /\ done \in 0 .. 3
  /\ failed \in BOOLEAN
  /\ data \in {"live", "away", "restored"} /\ art \in {"live", "away"}
  /\ rollbacks \in 0 .. MaxRollbacks
  /\ rewound \in [Jobs -> 0 .. MaxRollbacks]

BackupInit ==
  /\ Init
  /\ up = {} /\ files = {}
  /\ copy = None /\ bundles = <<>> /\ staging = None
  /\ swap = "idle" /\ done = 0 /\ failed = FALSE /\ data = "live" /\ art = "live"
  /\ rollbacks = 0 /\ rewound = [j \in Jobs |-> 0]

-----------------------------------------------------------------------------
(* The services.  They are started only while no rollback is under way or   *)
(* left incomplete.  Nothing in the tool or the services enforces it: the   *)
(* runbook and the messages of the tool demand it of the operator.          *)

Start ==
  /\ up = {} /\ swap = "idle"
  /\ \E w \in Workers : At(w, "idle") /\ up' = {w}
  /\ UNCHANGED <<vars, files, toolVars, pathVars, ghostVars>>

\* They are stopped, or die, between any two steps of the worker; a worker that
\* is started again has a fresh id.
Down ==
  /\ \E w \in up : Crash(w)
  /\ up' = {}
  /\ UNCHANGED <<files, toolVars, pathVars, ghostVars>>

Serve ==
  /\ up # {}
  /\ \/ \E w \in up : Work(w) \/ Renew(w) \/ RenewalDies(w) \/ LocalFault(w)
     \/ \E j \in Jobs : Submit(j) \/ Cancel(j)
  /\ files' = files \union {j \in Jobs : staged'[j] /\ ~staged[j]}
  /\ UNCHANGED <<up, toolVars, pathVars, ghostVars>>

\* The provider and the clock go on whether the services run or not.
World ==
  /\ (\E j \in Jobs : ProviderFinishes(j)) \/ TimePasses
  /\ UNCHANGED <<up, files, toolVars, pathVars, ghostVars>>

-----------------------------------------------------------------------------
(* backup, beside running or stopped services.  No service removes an       *)
(* artifact, so a file that is listed is still there when it is read.       *)

Database ==
  [status |-> status, owner |-> owner, cancelReq |-> cancelReq, attempts |-> attempts,
   remote |-> remote, prio |-> prio, stamp |-> stamp, staged |-> staged]

Backup == UNCHANGED <<vars, up, files, staging, pathVars, ghostVars>>

\* SQLite's online backup yields one committed state of the database.
CopyDatabase ==
  /\ copy = None /\ Len(bundles) < MaxBackups /\ swap = "idle"
  /\ copy' = [db |-> Database, files |-> {}]
  /\ UNCHANGED bundles
  /\ Backup

\* Mutant of BundleTree: the database is copied after the directory.
BundleTreeFirst ==
  /\ copy # None
  /\ \E seen \in SUBSET files :
       bundles' = Append(bundles, [db |-> Database, files |-> seen])
  /\ copy' = None
  /\ Backup

\* The directory is read, then the bundle is written under a new name.
BundleTree ==
  /\ copy # None
  /\ bundles' = Append(bundles, [copy EXCEPT !.files = files])
  /\ copy' = None
  /\ Backup

\* Any error, or the end of the process: nothing that could be restored remains.
BackupFails ==
  /\ copy # None
  /\ copy' = None
  /\ UNCHANGED bundles
  /\ Backup

-----------------------------------------------------------------------------
(* restore-verify                                                           *)

Sent(db) == {j \in Jobs : db.status[j] \in {"waiting_provider", "processing"}}

\* Mutant of Reconcile: a running row is taken for not yet dispatched.
ReconcileSent(db) ==
  [db EXCEPT !.status = [j \in Jobs |-> IF j \in Sent(db) THEN "needs_review" ELSE @[j]],
             !.owner  = [j \in Jobs |-> IF j \in Sent(db) THEN NoOwner ELSE @[j]]]

\* _reconcile_active_jobs
Reconcile(db) ==
  LET active == {j \in Jobs : db.status[j] \in ActiveStates}
  IN  [db EXCEPT !.status = [j \in Jobs |-> IF j \in active THEN "needs_review" ELSE @[j]],
                 !.owner  = [j \in Jobs |-> IF j \in active THEN NoOwner ELSE @[j]]]

Staged(db, tree) ==
  [db |-> db, files |-> tree, receipt |-> [db |-> db, files |-> tree]]

\* A row that may have been charged and has no request id is a hard stop.  The
\* staging path is a new one; what fails or dies leaves nothing that has a receipt.
RestoreVerify ==
  /\ swap = "idle"
  /\ \E i \in DOMAIN bundles :
       LET db == bundles[i].db
       IN  /\ \A j \in Sent(db) : db.remote[j] # NoRemote
           /\ staging' = Staged(Reconcile(db), bundles[i].files)
  /\ UNCHANGED <<vars, up, files, copy, bundles, pathVars, ghostVars>>

\* The runbook forbids to touch the staging directory; somebody does: a reviewed
\* job is put back into the queue, an artifact is removed.  Not while rollback-apply
\* runs: between its check of the receipt and its renames nothing but the operator's
\* discipline keeps others out of the directory.
StagingChanges ==
  /\ swap = "idle" /\ staging # None
  /\ \/ \E j \in Jobs :
          /\ staging.db.status[j] = "needs_review"
          /\ staging' = [staging EXCEPT !.db.status[j] = "queued"]
     \/ \E j \in staging.files : staging' = [staging EXCEPT !.files = @ \ {j}]
  /\ UNCHANGED <<vars, up, files, copy, bundles, pathVars, ghostVars>>

-----------------------------------------------------------------------------
(* rollback-apply                                                           *)

\* _verify_rollback_receipt
Unchanged(s) == s.db = s.receipt.db /\ s.files = s.receipt.files

BeginSwap ==
  /\ swap = "idle" /\ up = {} /\ copy = None
  /\ staging # None /\ Unchanged(staging)
  /\ rollbacks < MaxRollbacks
  /\ swap' = "forward" /\ done' = 0 /\ failed' = FALSE
  /\ UNCHANGED <<vars, up, files, toolVars, data, art, ghostVars>>

\* data and artifacts out of the way, then the restored data in.
Rename ==
  /\ swap = "forward" /\ done < 3
  /\ done' = done + 1
  /\ data' = CASE done = 0 -> "away" [] done = 2 -> "restored" [] OTHER -> data
  /\ art'  = IF done = 1 THEN "away" ELSE art
  /\ UNCHANGED <<vars, up, files, toolVars, swap, failed, ghostVars>>

\* The fourth rename: what was restored is now what is live.
LastRename ==
  /\ swap = "forward" /\ done = 3
  /\ status' = staging.db.status /\ owner' = staging.db.owner
  /\ cancelReq' = staging.db.cancelReq /\ attempts' = staging.db.attempts
  /\ remote' = staging.db.remote /\ prio' = staging.db.prio /\ stamp' = staging.db.stamp
  /\ lease' = [j \in Jobs |-> Lapsed]
  /\ staged' = staging.db.staged /\ files' = staging.files
  /\ swap' = "idle" /\ done' = 0 /\ data' = "live" /\ art' = "live"
  /\ staging' = None
  /\ rollbacks' = rollbacks + 1
  /\ rewound' = [j \in Jobs |->
       IF submits[j] > 0 /\ staging.receipt.db.status[j] \in {"absent", "queued"}
       THEN rewound[j] + 1 ELSE rewound[j]]
  /\ UNCHANGED <<workerVars, providerVars, up, copy, bundles, failed>>

RenameFails ==
  /\ swap = "forward"
  /\ swap' = "undo"
  /\ UNCHANGED <<vars, up, files, toolVars, done, failed, data, art, ghostVars>>

\* Mutant of Compensate: what goes wrong on the way back is not remembered.
CompensateHopefully ==
  /\ swap = "undo" /\ done > 0
  /\ done' = done - 1
  /\ \/ /\ data' = CASE done = 3 -> "away" [] done = 1 /\ data = "away" -> "live" [] OTHER -> data
        /\ art'  = IF done = 2 THEN "live" ELSE art
     \/ UNCHANGED <<data, art>>
  /\ UNCHANGED <<vars, up, files, toolVars, swap, failed, ghostVars>>

\* The completed renames are taken back in reverse order, each whatever became
\* of the others; one whose place is still taken cannot succeed.
Compensate ==
  /\ swap = "undo" /\ done > 0
  /\ done' = done - 1
  /\ \/ /\ done = 1 => data = "away"
        /\ data' = CASE done = 3 -> "away" [] done = 1 -> "live" [] OTHER -> data
        /\ art'  = IF done = 2 THEN "live" ELSE art
        /\ UNCHANGED failed
     \/ failed' = TRUE /\ UNCHANGED <<data, art>>
  /\ UNCHANGED <<vars, up, files, toolVars, swap, ghostVars>>

\* "original live paths were restored" or "services must remain stopped".
CompensationEnds ==
  /\ swap = "undo" /\ done = 0
  /\ swap' = IF failed THEN "stuck" ELSE "idle"
  /\ UNCHANGED <<vars, up, files, toolVars, done, failed, data, art, ghostVars>>

\* The host dies between two renames: recovery is manual.
HostDies ==
  /\ swap \in {"forward", "undo"}
  /\ swap' = "stuck"
  /\ UNCHANGED <<vars, up, files, toolVars, done, failed, data, art, ghostVars>>

BackupNext ==
  \/ Start \/ Down \/ Serve \/ World
  \/ CopyDatabase \/ BundleTree \/ BackupFails
  \/ RestoreVerify \/ StagingChanges
  \/ BeginSwap \/ Rename \/ LastRename \/ RenameFails
  \/ Compensate \/ CompensationEnds \/ HostDies

BackupSpec == BackupInit /\ [][BackupNext]_backupVars

-----------------------------------------------------------------------------
(* Properties.                                                              *)

\* DEPLOYMENT-BEJO2.md:171, 193: a restore never sends an uncertain paid request
\* again.  A job is charged a second time only after a rollback to a backup in
\* which it had not been claimed yet, and once for each such rollback.
BoughtTwiceOnlyIfRewound == \A j \in Jobs : submits[j] <= 1 + rewound[j]

\* The database and the directory are copied one after the other while jobs
\* finish; whatever is restored from them, the artifact of a job that shows as
\* succeeded is there.
SuccessKeepsBytes ==
  up # {} => \A j \in Jobs : status[j] = "succeeded" => staged[j] /\ j \in files

\* Data and artifacts are exchanged by four renames, any of which may fail, on
\* the way back too: services run only on both live or both restored directories.
ServicesRunOnOneSet == up # {} => data = "live" /\ art = "live"

=============================================================================
