---------------------------- MODULE ArtifactStore ----------------------------
(***************************************************************************)
(* The temporary artifact store (artifact_store.py) and the route that      *)
(* serves from it (main.py, download_artifact; security/artifacts.py).      *)
(*                                                                          *)
(* An artifact lives in two places that no transaction spans: a row of      *)
(* temporary_artifact and a file of the artifact directory.  A worker       *)
(* stages it, requests of its owner read it, a cleaning pass removes it;    *)
(* each of them may die between two steps.  A member of Artifacts is one    *)
(* call of stage_bytes: every call takes a fresh uuid4.                     *)
(***************************************************************************)
EXTENDS Naturals

CONSTANTS
  Artifacts,
  Readers,      \* download requests; one is reused once it has ended
  NoArtifact,
  TTL,          \* ttl_seconds, in ticks
  HoldTime      \* lease_seconds of a retrieval, in ticks

ASSUME NoArtifactAssumption == NoArtifact \notin Artifacts
ASSUME TimesAssumption      == TTL \in Nat \ {0} /\ HoldTime \in Nat \ {0}

VARIABLES
  stage,     \* where the call of stage_bytes is, or how it ended
  row,       \* the row: "none", "here" (committed) or "gone" (deleted)
  ttl,       \* ticks until expires_at; 0 once it has expired
  hold,      \* ticks until retrieval_lease_expires_at; 0 when NULL or lapsed
  temp,      \* .<id>.staging exists
  file,      \* <id>.bin exists
  active,    \* the job that stages the artifact has not ended
  at,        \* where each download request is
  wants,     \* the artifact it asked for
  left,      \* ticks left of the lease it was granted
  doomed,    \* rows the running cleaning pass deleted, their files still to unlink
  calm       \* never changes. TRUE: nobody dies; staging, jobs, responses are prompt

stageVars  == <<stage, active>>
diskVars   == <<temp, file>>
readerVars == <<at, wants, left>>
artVars    == <<stageVars, row, ttl, hold, diskVars, readerVars, doomed, calm>>

Staging == {"write", "insert", "rename", "read"}    \* inside stage_bytes

TypeOK ==
  /\ stage  \in [Artifacts -> {"idle", "acked", "failed", "dead"} \union Staging]
  /\ row    \in [Artifacts -> {"none", "here", "gone"}]
  /\ ttl    \in [Artifacts -> 0 .. TTL]
  /\ hold   \in [Artifacts -> 0 .. HoldTime]
  /\ temp   \in [Artifacts -> BOOLEAN]
  /\ file   \in [Artifacts -> BOOLEAN]
  /\ active \in [Artifacts -> BOOLEAN]
  /\ at     \in [Readers -> {"idle", "verify", "open", "stream"}]
  /\ wants  \in [Readers -> Artifacts \union {NoArtifact}]
  /\ left   \in [Readers -> 0 .. HoldTime]
  /\ doomed \subseteq Artifacts
  /\ calm   \in BOOLEAN

Init ==
  /\ stage  = [a \in Artifacts |-> "idle"]
  /\ row    = [a \in Artifacts |-> "none"]
  /\ ttl    = [a \in Artifacts |-> 0]
  /\ hold   = [a \in Artifacts |-> 0]
  /\ temp   = [a \in Artifacts |-> FALSE]
  /\ file   = [a \in Artifacts |-> FALSE]
  /\ active = [a \in Artifacts |-> FALSE]
  /\ at     = [r \in Readers |-> "idle"]
  /\ wants  = [r \in Readers |-> NoArtifact]
  /\ left   = [r \in Readers |-> 0]
  /\ doomed = {}
  /\ calm  \in BOOLEAN

-----------------------------------------------------------------------------
(* stage_bytes                                                              *)

StageTo(a, label) == stage' = [stage EXCEPT ![a] = label]

\* expires_at counts from before the first byte is written.
Begin(a) ==
  /\ stage[a] = "idle"
  /\ StageTo(a, "write")
  /\ ttl'    = [ttl EXCEPT ![a] = TTL]
  /\ active' = [active EXCEPT ![a] = TRUE]
  /\ UNCHANGED <<row, hold, diskVars, readerVars, doomed, calm>>

WriteTemporary(a) ==
  /\ stage[a] = "write"
  /\ StageTo(a, "insert")
  /\ temp' = [temp EXCEPT ![a] = TRUE]
  /\ UNCHANGED <<row, ttl, hold, file, active, readerVars, doomed, calm>>

InsertRow(a) ==
  /\ stage[a] = "insert"
  /\ StageTo(a, "rename")
  /\ row' = [row EXCEPT ![a] = "here"]
  /\ UNCHANGED <<ttl, hold, diskVars, active, readerVars, doomed, calm>>

Rename(a) ==
  /\ stage[a] = "rename"
  /\ StageTo(a, "read")
  /\ temp' = [temp EXCEPT ![a] = FALSE]
  /\ file' = [file EXCEPT ![a] = TRUE]
  /\ UNCHANGED <<row, ttl, hold, active, readerVars, doomed, calm>>


\* except Exception: both files are unlinked, a committed row stays.
StageFails(a) ==
  /\ stage[a] \in {"write", "insert", "rename"}
  /\ StageTo(a, "failed")
  /\ temp' = [temp EXCEPT ![a] = FALSE]
  /\ file' = [file EXCEPT ![a] = FALSE]
  /\ UNCHANGED <<row, ttl, hold, active, readerVars, doomed, calm>>

\* The closing get_for_owner.
ReadBack(a) ==
  /\ stage[a] = "read"
  /\ StageTo(a, IF row[a] = "here" /\ ttl[a] > 0 THEN "acked" ELSE "failed")
  /\ UNCHANGED <<row, ttl, hold, diskVars, active, readerVars, doomed, calm>>

\* The staging job reaches a terminal state, after stage_bytes or after a crash.
JobEnds(a) ==
  /\ active[a]
  /\ stage[a] \notin Staging
  /\ active' = [active EXCEPT ![a] = FALSE]
  /\ UNCHANGED <<stage, row, ttl, hold, diskVars, readerVars, doomed, calm>>

StagerDies(a) ==
  /\ ~calm
  /\ stage[a] \in Staging
  /\ StageTo(a, "dead")
  /\ UNCHANGED <<row, ttl, hold, diskVars, active, readerVars, doomed, calm>>

-----------------------------------------------------------------------------
(* download_artifact                                                        *)

Available(a) == row[a] = "here" /\ ttl[a] > 0

CanClaim(a) == Available(a) /\ hold[a] = 0

\* Mutant of Claim: the lease is given the lifetime of the artifact.
ClaimForLife(r, a) ==
  /\ at[r] = "idle"
  /\ stage[a] = "acked" /\ ~active[a]
  /\ CanClaim(a)
  /\ hold'  = [hold EXCEPT ![a] = TTL]
  /\ at'    = [at EXCEPT ![r] = "verify"]
  /\ wants' = [wants EXCEPT ![r] = a]
  /\ left'  = [left EXCEPT ![r] = TTL]
  /\ UNCHANGED <<stageVars, row, ttl, diskVars, doomed, calm>>

\* A browser learns the id from the result of the finished job.
Claim(r, a) ==
  /\ at[r] = "idle"
  /\ stage[a] = "acked" /\ ~active[a]
  /\ CanClaim(a)
  /\ hold'  = [hold EXCEPT ![a] = HoldTime]
  /\ at'    = [at EXCEPT ![r] = "verify"]
  /\ wants' = [wants EXCEPT ![r] = a]
  /\ left'  = [left EXCEPT ![r] = HoldTime]
  /\ UNCHANGED <<stageVars, row, ttl, diskVars, doomed, calm>>

Ends(r) ==
  /\ at'    = [at EXCEPT ![r] = "idle"]
  /\ wants' = [wants EXCEPT ![r] = NoArtifact]
  /\ left'  = [left EXCEPT ![r] = 0]

\* complete_retrieval: it does not ask whose lease it releases.
Release(a) == hold' = IF row[a] = "here" THEN [hold EXCEPT ![a] = 0] ELSE hold

\* The row is read again; then the bytes are hashed.
Verify(r) ==
  /\ at[r] = "verify"
  /\ LET a == wants[r]
     IN  \/ ~Available(a) /\ UNCHANGED hold /\ Ends(r)
         \/ /\ Available(a)
            /\ IF file[a]
               THEN at' = [at EXCEPT ![r] = "open"] /\ UNCHANGED <<hold, wants, left>>
               ELSE Release(a) /\ Ends(r)
  /\ UNCHANGED <<stageVars, row, ttl, diskVars, doomed, calm>>

\* The response opens the file; from here on its bytes are safe.
Open(r) ==
  /\ at[r] = "open"
  /\ IF file[wants[r]]
     THEN at' = [at EXCEPT ![r] = "stream"] /\ UNCHANGED <<wants, left>>
     ELSE Ends(r)
  /\ UNCHANGED <<stageVars, row, ttl, hold, diskVars, doomed, calm>>

\* The background task after the last byte.
Complete(r) ==
  /\ at[r] = "stream"
  /\ Release(wants[r])
  /\ Ends(r)
  /\ UNCHANGED <<stageVars, row, ttl, diskVars, doomed, calm>>

\* The browser goes away or the server dies: the lease is left to lapse.
Abandon(r) ==
  /\ at[r] # "idle"
  /\ Ends(r)
  /\ UNCHANGED <<stageVars, row, ttl, hold, diskVars, doomed, calm>>

-----------------------------------------------------------------------------
(* cleanup_expired                                                          *)

\* Mutants of Removable: retrievals are not spared; expiry is not asked for.
RemovableInUse(a)  == row[a] = "here" /\ ttl[a] = 0
RemovableUnused(a) == row[a] = "here" /\ hold[a] = 0

Removable(a) == row[a] = "here" /\ ttl[a] = 0 /\ hold[a] = 0

\* Mutant of DeleteRows: the files first, and the pass may stop there.
DeleteFilesFirst ==
  /\ doomed = {}
  /\ \E a \in Artifacts : Removable(a)
  /\ file' = [a \in Artifacts |-> file[a] /\ ~Removable(a)]
  /\ UNCHANGED <<stageVars, row, ttl, hold, temp, readerVars, doomed, calm>>

\* One transaction: every DELETE repeats the condition of the SELECT.
DeleteRows ==
  /\ doomed = {}
  /\ \E a \in Artifacts : Removable(a)
  /\ doomed' = {a \in Artifacts : Removable(a)}
  /\ row'    = [a \in Artifacts |-> IF Removable(a) THEN "gone" ELSE row[a]]
  /\ UNCHANGED <<stageVars, ttl, hold, diskVars, readerVars, calm>>

Unlink(a) ==
  /\ a \in doomed
  /\ file'   = [file EXCEPT ![a] = FALSE]
  /\ doomed' = doomed \ {a}
  /\ UNCHANGED <<stageVars, row, ttl, hold, temp, readerVars, calm>>

CleanerDies ==
  /\ ~calm
  /\ doomed # {}
  /\ doomed' = {}
  /\ UNCHANGED <<stageVars, row, ttl, hold, diskVars, readerVars, calm>>

-----------------------------------------------------------------------------
\* A calm run: retention is hours, staging and the rest of a job are minutes at
\* most, and every response ends within its lease.
Prompt ==
  /\ \A a \in Artifacts : active[a] => ttl[a] > 1
  /\ \A r \in Readers : at[r] # "idle" => left[r] > 1

Less(n) == IF n > 0 THEN n - 1 ELSE 0

Tick ==
  /\ calm => Prompt
  /\ \/ \E a \in Artifacts : ttl[a] > 0 \/ hold[a] > 0
     \/ \E r \in Readers : left[r] > 0
  /\ ttl'  = [a \in Artifacts |-> Less(ttl[a])]
  /\ hold' = [a \in Artifacts |-> Less(hold[a])]
  /\ left' = [r \in Readers |-> Less(left[r])]
  /\ UNCHANGED <<stageVars, row, diskVars, at, wants, doomed, calm>>

StageStep(a) ==
  \/ WriteTemporary(a) \/ InsertRow(a) \/ Rename(a)
  \/ StageFails(a) \/ ReadBack(a)

Next ==
  \/ \E a \in Artifacts : Begin(a) \/ StageStep(a) \/ JobEnds(a) \/ StagerDies(a) \/ Unlink(a)
  \/ \E r \in Readers : \/ \E a \in Artifacts : Claim(r, a)
                        \/ Verify(r) \/ Open(r) \/ Complete(r) \/ Abandon(r)
  \/ DeleteRows \/ CleanerDies \/ Tick

Spec == Init /\ [][Next]_artVars

\* A staging call goes on, its job ends, requests end, a cleaning pass is
\* started again and again, and time passes.
Fairness ==
  /\ \A a \in Artifacts : WF_artVars(StageStep(a)) /\ WF_artVars(JobEnds(a))
  /\ \A a \in Artifacts : WF_artVars(Unlink(a))
  /\ \A r \in Readers : WF_artVars(Verify(r) \/ Open(r) \/ Complete(r) \/ Abandon(r))
  /\ WF_artVars(DeleteRows)
  /\ WF_artVars(Tick)

LiveSpec == Spec /\ Fairness

-----------------------------------------------------------------------------
(* Properties.                                                              *)

\* docs/PRD.md:297: an artifact stage_bytes has returned stays retrievable until
\* it expires, whatever readers, failures and cleaning passes do meanwhile.
BytesUntilExpiry ==
  \A a \in Artifacts : stage[a] = "acked" /\ ttl[a] > 0 => row[a] = "here" /\ file[a]

\* A row without its bytes is the trace of an unfinished or failed staging call
\* only: cleaning never leaves one behind, wherever it stops.
RowWithoutBytes ==
  \A a \in Artifacts :
    row[a] = "here" /\ ~file[a] => stage[a] \in {"rename", "failed", "dead"}

\* artifact_store.py:221: a request whose own lease still runs has the artifact
\* to itself and does not lose the file it has verified before it has opened it,
\* as long as every response ends within its lease, so that complete_retrieval
\* only ever releases the lease of its own request.
PromptReaderKeepsFile ==
  calm => \A r \in Readers : left[r] > 0 /\ wants[r] # NoArtifact =>
            /\ at[r] = "open" => file[wants[r]]
            /\ \A s \in Readers \ {r} : wants[s] = wants[r] => left[s] = 0


=============================================================================
