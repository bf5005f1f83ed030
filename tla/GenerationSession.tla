-------------------------- MODULE GenerationSession --------------------------
(***************************************************************************)
(* From the approval of a prompt to a revision of the project.  The browser *)
(* saves the approval in the sidecar of an asset, enqueues a paid job,      *)
(* polls it, and records the picture (BerandaApp.tsx, handleApprovePrompt,  *)
(* and the modules it calls) over the idempotent insert of the API.         *)
(*                                                                          *)
(* The project folder knows no locks and no transactions: every write is a  *)
(* comparison with what the tab read before, and then the write.  A member  *)
(* of Tabs is one chain of approvals: a browser tab, or the call a tab left *)
(* running when it opened the project again.                                *)
(***************************************************************************)
EXTENDS Naturals, Sequences, SequencesExt

CONSTANTS
  Tabs,
  Assets,      \* bound: the asset ids crypto.randomUUID may give
  NoAsset,
  Earlier,     \* assets the project may have already, of two revisions each
  Prompts,     \* prompt snapshots, told apart by their digests
  MaxClicks    \* bound: approvals and preparations in a run

ASSUME TabsAssumption      == IsFiniteSet(Tabs)
ASSUME AssetAssumption     == NoAsset \notin Assets /\ Earlier \subseteq Assets
ASSUME ClicksAssumption    == MaxClicks \in Nat \ {0}

VARIABLES
  manifest,  \* gandiwa-project.json: of each asset, the kinds of its revisions
  files,     \* revisions/<asset>/rev-<n>: the job whose picture it holds, or 0, or Blank
  sidecar,   \* creative-sessions/<asset>.json
  temp,      \* the temporary manifest exists
  jobs,      \* generation_job: the rows in the order of their insertion
  wire,      \* enqueue requests on their way to the API
  tab,       \* the tabs
  clicks,    \* clicks so far
  calm,      \* never changes. TRUE: one tab is open, no call fails, nothing else publishes
  overtaken, \* history: tabs whose file was written by another between comparison and write
  overwritten  \* history: assets whose evidence a write of such a tab has changed

folder      == <<manifest, files, sidecar, temp>>
server      == <<jobs, wire>>
sessionVars == <<folder, server, tab, clicks, calm>>
allVars     == <<sessionVars, overtaken, overwritten>>

NoSession  == [approvals |-> <<>>, entries |-> <<>>]    \* there is no file
Unreadable == [approvals |-> <<>>, entries |-> <<>>, created |-> TRUE]
Blank      == MaxClicks + 1    \* a file that was created and never written
Numbers    == 1 .. MaxClicks + 2

\* A revision is "generated" (rev-<n>.png) or "other" (<n>/master.jpeg).
ManifestOf(earlier) == [a \in Assets |-> IF a \in earlier THEN <<"other", "other">> ELSE <<>>]
NoAssets == ManifestOf({})

\* Labels at which the next thing a tab does is a write it compared for.
Windows == {"write", "put", "note", "temp", "final"}
Busy    == Windows \union {"compare", "post", "answer", "watch", "place", "entry", "publish", "clean"}

Keys == [asset : Assets, prompt : Prompts, attempt : 0 .. MaxClicks]

\* The page: the manifest it has seen last, its active asset, and whether it
\* has just created the project and seen no manifest yet.  The call that runs
\* on it: the manifest it started from (view), what it is about, the sidecar
\* as it believes it to be on the disk (held), the job it polls (0 for none).
Closed == [at |-> "closed", seen |-> NoAssets, asset |-> NoAsset, created |-> FALSE,
           view |-> NoAssets, target |-> NoAsset, prompt |-> NoAsset, click |-> 0,
           reason |-> FALSE, held |-> NoSession, job |-> 0]
Created == [Closed EXCEPT !.at = "idle", !.created = TRUE]

\* A JPEG preparation publishes as a generated picture does, without a job.
Preparing(t) == tab[t].at \in {"publish", "temp", "final", "clean"} /\ tab[t].job = 0

SessionTypeOK ==
  /\ \A a \in Assets : /\ ToSet(manifest[a]) \subseteq {"generated", "other"}
                        /\ Len(manifest[a]) \in 0 .. MaxClicks + 2
  /\ files \in [Assets -> [Numbers -> 0 .. Blank]]
  /\ \A a \in Assets :
       /\ \A x \in ToSet(sidecar[a].approvals) : x.prompt \in Prompts /\ x.click \in 1 .. MaxClicks
       /\ \A e \in ToSet(sidecar[a].entries) :
            e.revision \in Numbers /\ e.job \in DOMAIN jobs /\ e.prompt \in Prompts
  /\ temp \in BOOLEAN
  /\ \A j \in DOMAIN jobs : jobs[j].key \in Keys /\ jobs[j].status \in {"open", "succeeded", "failed"}
  /\ wire \subseteq Keys
  /\ \A t \in Tabs :
       /\ tab[t].at \in {"closed", "idle"} \union Busy
       /\ tab[t].asset \in Assets \union {NoAsset}
       /\ tab[t].at \in Busy => tab[t].target \in Assets /\ (tab[t].prompt \in Prompts \/ Preparing(t))
       /\ tab[t].at \in Busy \ {"compare", "write", "post", "answer"} =>
            tab[t].job \in DOMAIN jobs \/ Preparing(t)
  /\ clicks \in 0 .. MaxClicks
  /\ calm \in BOOLEAN
  /\ overtaken \subseteq {t \in Tabs : tab[t].at \in Windows}
  /\ overwritten \subseteq Assets

SessionInit ==
  /\ manifest \in {ManifestOf(earlier) : earlier \in SUBSET Earlier}
  /\ files    = [a \in Assets |-> [n \in Numbers |-> 0]]
  /\ sidecar  = [a \in Assets |-> NoSession]
  /\ temp     = FALSE
  /\ jobs = <<>> /\ wire = {}
  /\ \/ tab = [t \in Tabs |-> Closed]
     \/ manifest = NoAssets /\ \E c \in Tabs : tab = [t \in Tabs |-> IF t = c THEN Created ELSE Closed]
  /\ clicks   = 0
  /\ calm \in BOOLEAN
  /\ overtaken = {} /\ overwritten = {}

-----------------------------------------------------------------------------
Goto(t, label) == tab' = [tab EXCEPT ![t].at = label]

\* The call is over.  An error leaves the page as it was.
Idle(t, seen, asset, created) ==
  tab' = [tab EXCEPT ![t] = [Closed EXCEPT !.at = "idle", !.seen = seen, !.asset = asset, !.created = created]]
Refused(t) == Idle(t, tab[t].seen, tab[t].asset, tab[t].created)

Target(t)   == tab[t].target
Revision(t) == Len(tab[t].view[Target(t)]) + 1
Key(t)      == [asset |-> Target(t), prompt |-> tab[t].prompt,
                attempt |-> IF tab[t].reason THEN tab[t].click ELSE 0]

\* The asset of the highest revision, the first of them in the manifest.
LatestAsset(m) ==
  IF \A a \in Assets : m[a] = <<>> THEN NoAsset
  ELSE CHOOSE a \in Assets : \A b \in Assets : Len(m[b]) <= Len(m[a])

SameManifest(t) == manifest = tab[t].view
SameSidecar(t)  == sidecar[Target(t)] = tab[t].held

-----------------------------------------------------------------------------
(* The project page.                                                        *)

\* Opening the project, or opening it again.
Open(t) ==
  /\ tab[t].at \in {"closed", "idle"}
  /\ calm => \A u \in Tabs \ {t} : tab[u].at = "closed"
  /\ Idle(t, manifest, LatestAsset(manifest), FALSE)
  /\ UNCHANGED <<folder, server, clicks, calm>>

\* A click on a candidate of the strip, at any time.
Select(t, a) ==
  /\ tab[t].at # "closed" /\ ~tab[t].created
  /\ tab[t].seen[a] # <<>>
  /\ tab' = [tab EXCEPT ![t].asset = a]
  /\ UNCHANGED <<folder, server, clicks, calm>>

\* The JPEG preparation of a listed revision.  What it writes before it
\* publishes lies in a directory of its own and is left out.  Beside a call of
\* the same page it runs as another member of Tabs.
Prepare(t, a) ==
  /\ ~calm /\ tab[t].at = "idle" /\ clicks < MaxClicks
  /\ ~tab[t].created /\ tab[t].seen[a] # <<>>
  /\ clicks' = clicks + 1
  /\ tab' = [tab EXCEPT ![t] = [@ EXCEPT !.at = "publish", !.target = a, !.click = clicks',
                                         !.view = tab[t].seen, !.held = NoSession, !.job = 0]]
  /\ UNCHANGED <<folder, server, calm>>

\* A write that is cut short may leave the new file it had created, empty.
CutShort(t) ==
  /\ \/ files' = files
     \/ /\ tab[t].at = "put" /\ files[Target(t)][Revision(t)] = 0
        /\ files' = [files EXCEPT ![Target(t)][Revision(t)] = Blank]
  /\ \/ sidecar' = sidecar
     \/ /\ tab[t].at = "write" /\ sidecar[Target(t)] = NoSession
        /\ sidecar' = [sidecar EXCEPT ![Target(t)] = Unreadable]

\* The tab is closed or crashes.
Dies(t) ==
  /\ ~calm /\ tab[t].at # "closed"
  /\ tab' = [tab EXCEPT ![t] = Closed]
  /\ CutShort(t)
  /\ UNCHANGED <<manifest, temp, server, clicks, calm>>

-----------------------------------------------------------------------------
(* The approval and its job.                                                *)

\* Asset ids nobody has been given: randomUUID does not repeat itself.
Unused == {a \in Assets : /\ manifest[a] = <<>> /\ sidecar[a] = NoSession
                          /\ \A k \in wire \union {jobs[j].key : j \in DOMAIN jobs} : k.asset # a
                          /\ \A t \in Tabs : Target(t) # a}

\* The active asset, or a new one; then there is no previous session.
Targets(t) == IF tab[t].asset = NoAsset THEN Unused ELSE {tab[t].asset}
Previous(t, a) == IF tab[t].asset = NoAsset THEN NoSession ELSE sidecar[a]

\* The prompt of the last recorded revision is refused without a reason.
Identical(session, p) == session.entries # <<>> /\ Last(session.entries).prompt = p

Approve(t, a, p, r) ==
  /\ tab[t].at = "idle" /\ clicks < MaxClicks
  /\ a \in Targets(t) /\ Previous(t, a) # Unreadable
  /\ Identical(Previous(t, a), p) => r
  /\ clicks' = clicks + 1
  /\ tab' = [tab EXCEPT ![t] = [@ EXCEPT !.at = "compare", !.target = a, !.prompt = p, !.reason = r,
                                         !.click = clicks', !.held = Previous(t, a),
                                         !.view = IF tab[t].created THEN manifest ELSE tab[t].seen]]
  /\ UNCHANGED <<folder, server, calm>>

\* Mutant: the approval is enqueued and never saved.
CompareWithoutSave(t) ==
  /\ tab[t].at = "compare"
  /\ IF SameManifest(t) /\ SameSidecar(t) THEN Goto(t, "post") ELSE Refused(t)
  /\ UNCHANGED <<folder, server, clicks, calm>>

\* saveCreativeSession compares, and writes.
Compare(t) ==
  /\ tab[t].at = "compare"
  /\ IF SameManifest(t) /\ SameSidecar(t) THEN Goto(t, "write") ELSE Refused(t)
  /\ UNCHANGED <<folder, server, clicks, calm>>

WithApproval(t) ==
  [tab[t].held EXCEPT !.approvals = Append(@, [prompt |-> tab[t].prompt, click |-> tab[t].click])]

\* Mutant: the call goes on with the sidecar it had read before.
WriteStale(t) ==
  /\ tab[t].at = "write"
  /\ sidecar' = [sidecar EXCEPT ![Target(t)] = WithApproval(t)]
  /\ Goto(t, "post")
  /\ UNCHANGED <<manifest, files, temp, server, clicks, calm>>

Write(t) ==
  /\ tab[t].at = "write"
  /\ sidecar' = [sidecar EXCEPT ![Target(t)] = WithApproval(t)]
  /\ tab' = [tab EXCEPT ![t].at = "post", ![t].held = WithApproval(t)]
  /\ UNCHANGED <<manifest, files, temp, server, clicks, calm>>

\* Mutant: the call does not wait for the id of its job.
PostUnawaited(t) ==
  /\ tab[t].at = "post"
  /\ wire' = wire \union {Key(t)}
  /\ Goto(t, "watch")
  /\ UNCHANGED <<folder, jobs, clicks, calm>>

Post(t) ==
  /\ tab[t].at = "post"
  /\ wire' = wire \union {Key(t)}
  /\ Goto(t, "answer")
  /\ UNCHANGED <<folder, jobs, clicks, calm>>

\* Mutant: every request gets a row.
ArriveInserts(k) ==
  /\ k \in wire
  /\ wire' = wire \ {k}
  /\ jobs' = Append(jobs, [key |-> k, status |-> "open"])
  /\ UNCHANGED <<folder, tab, clicks, calm>>

\* The API inserts a row, or finds the one of this key, in one transaction.
Arrive(k) ==
  /\ k \in wire
  /\ wire' = wire \ {k}
  /\ jobs' = IF \E j \in DOMAIN jobs : jobs[j].key = k THEN jobs
             ELSE Append(jobs, [key |-> k, status |-> "open"])
  /\ UNCHANGED <<folder, tab, clicks, calm>>

Answered(t) ==
  /\ tab[t].at = "answer" /\ Key(t) \notin wire
  /\ \E j \in DOMAIN jobs :
       /\ jobs[j].key = Key(t)
       /\ tab' = [tab EXCEPT ![t].at = "watch", ![t].job = j,
                               ![t].seen = tab[t].view, ![t].created = FALSE]
  /\ UNCHANGED <<folder, server, clicks, calm>>

\* The queue is done with a job; "failed" is every end without a picture.
JobEnds(j) ==
  /\ j \in DOMAIN jobs /\ jobs[j].status = "open"
  /\ \E s \in {"succeeded", "failed"} : jobs' = [jobs EXCEPT ![j].status = s]
  /\ UNCHANGED <<folder, wire, tab, clicks, calm>>

Watch(t) ==
  /\ tab[t].at = "watch" /\ jobs[tab[t].job].status # "open"
  /\ IF jobs[tab[t].job].status = "succeeded" THEN Goto(t, "place") ELSE Refused(t)
  /\ UNCHANGED <<folder, server, clicks, calm>>

-----------------------------------------------------------------------------
(* The picture: the file, its provenance in the sidecar, the manifest.      *)

Place(t) ==
  /\ tab[t].at = "place"
  /\ IF SameManifest(t) /\ files[Target(t)][Revision(t)] = 0 THEN Goto(t, "put") ELSE Refused(t)
  /\ UNCHANGED <<folder, server, clicks, calm>>

Put(t) ==
  /\ tab[t].at = "put"
  /\ files' = [files EXCEPT ![Target(t)][Revision(t)] = tab[t].job]
  /\ Goto(t, "entry")
  /\ UNCHANGED <<manifest, sidecar, temp, server, clicks, calm>>

\* Mutant: a refused entry does not stop the call.
EntrySwallowed(t) ==
  /\ tab[t].at = "entry"
  /\ Goto(t, IF SameManifest(t) /\ SameSidecar(t) THEN "note" ELSE "publish")
  /\ UNCHANGED <<folder, server, clicks, calm>>

Entry(t) ==
  /\ tab[t].at = "entry"
  /\ IF SameManifest(t) /\ SameSidecar(t) THEN Goto(t, "note") ELSE Refused(t)
  /\ UNCHANGED <<folder, server, clicks, calm>>

\* Mutant: the first approval of the session.
FirstPrompt(session) == Head(session.approvals).prompt

\* The provenance of a revision is the latest approval of the session.
ProvenPrompt(session) == Last(session.approvals).prompt

Note(t) ==
  LET entry == [revision |-> Revision(t), job |-> tab[t].job,
                prompt |-> ProvenPrompt(tab[t].held), reason |-> tab[t].reason]
      next  == [tab[t].held EXCEPT !.entries = Append(@, entry)] IN
  /\ tab[t].at = "note"
  /\ sidecar' = [sidecar EXCEPT ![Target(t)] = next]
  /\ tab' = [tab EXCEPT ![t].at = "publish", ![t].held = next]
  /\ UNCHANGED <<manifest, files, temp, server, clicks, calm>>

\* Mutant: the manifest is not read again before it is published.
PublishUnchecked(t) ==
  /\ tab[t].at = "publish"
  /\ Goto(t, "temp")
  /\ UNCHANGED <<folder, server, clicks, calm>>

Publish(t) ==
  /\ tab[t].at = "publish"
  /\ IF SameManifest(t) THEN Goto(t, "temp") ELSE Refused(t)
  /\ UNCHANGED <<folder, server, clicks, calm>>

\* writeProjectManifestAtomically: a temporary file that is there already is
\* an error, and is removed all the same.
Temp(t) ==
  /\ tab[t].at = "temp"
  /\ temp' = ~temp
  /\ IF temp THEN Refused(t) ELSE Goto(t, "final")
  /\ UNCHANGED <<manifest, files, sidecar, server, clicks, calm>>

NextManifest(t) ==
  [tab[t].view EXCEPT ![Target(t)] = Append(@, IF Preparing(t) THEN "other" ELSE "generated")]

Final(t) ==
  /\ tab[t].at = "final"
  /\ manifest' = NextManifest(t)
  /\ Goto(t, "clean")
  /\ UNCHANGED <<files, sidecar, temp, server, clicks, calm>>

\* The new snapshot becomes the page's only when the temporary file could be
\* removed; somebody else may have done it.
Clean(t) ==
  /\ tab[t].at = "clean"
  /\ temp' = FALSE
  /\ IF temp THEN Idle(t, NextManifest(t), LatestAsset(NextManifest(t)), FALSE) ELSE Refused(t)
  /\ UNCHANGED <<manifest, files, sidecar, server, clicks, calm>>

\* A call fails: the request may be lost or still arrive, the temporary file
\* may be written, removed, or stay.
Fails(t) ==
  /\ ~calm /\ tab[t].at \in Busy
  /\ Refused(t)
  /\ wire' \in IF tab[t].at = "answer" THEN {wire, wire \ {Key(t)}} ELSE {wire}
  /\ temp' \in IF tab[t].at \in {"temp", "final"} THEN BOOLEAN ELSE {temp}
  /\ CutShort(t)
  /\ UNCHANGED <<manifest, jobs, clicks, calm>>

-----------------------------------------------------------------------------
Recording(t) == Place(t) \/ Put(t) \/ Entry(t) \/ Note(t) \/ Publish(t) \/ Temp(t) \/ Final(t) \/ Clean(t)
Call(t)      == Compare(t) \/ Write(t) \/ Post(t) \/ Answered(t) \/ Watch(t) \/ Recording(t)

SessionStep ==
  \/ \E t \in Tabs :
       \/ Open(t) \/ Dies(t) \/ Fails(t) \/ Call(t)
       \/ \E a \in Assets : Select(t, a) \/ Prepare(t, a)
       \/ \E a \in Assets, p \in Prompts, r \in BOOLEAN : Approve(t, a, p, r)
  \/ \E k \in Keys : Arrive(k)
  \/ \E j \in 1 .. MaxClicks : JobEnds(j)

\* The history.  Nothing keeps two tabs from being between a comparison and its
\* write at once; what is then lost is lost by the write of an overtaken tab.
SameWindow(t) == tab'[t].at = tab[t].at \/ (tab[t].at = "temp" /\ tab'[t].at = "final")

FileMoved(t) ==
  \/ tab[t].at \in {"write", "note"} /\ sidecar'[Target(t)] # sidecar[Target(t)]
  \/ tab[t].at = "put" /\ files'[Target(t)][Revision(t)] # files[Target(t)][Revision(t)]
  \/ tab[t].at \in {"temp", "final"} /\ manifest' # manifest

Evidence(a) == <<manifest[a], files[a], sidecar[a]>>

Remember ==
  /\ overtaken' = {t \in Tabs : SameWindow(t) /\ (t \in overtaken \/ FileMoved(t))}
  /\ overwritten' = overwritten \union
       {a \in Assets : Evidence(a)' # Evidence(a) /\ \E t \in overtaken : ~SameWindow(t)}

SessionNext == SessionStep /\ Remember

SessionSpec == SessionInit /\ [][SessionNext]_allVars

\* A call that runs goes on, and a request that was sent arrives.
FairSessionSpec ==
  /\ SessionSpec
  /\ \A t \in Tabs : WF_sessionVars(Call(t))
  /\ \A k \in Keys : WF_sessionVars(Arrive(k))
-----------------------------------------------------------------------------
(* Properties.                                                              *)

\* Every generated revision the manifest lists has its file, and the sidecar
\* of its asset names the job whose picture is in it: the manifest is written
\* last (recordGeneratedRevision).  However tabs overlap, only the write of a
\* tab that was overtaken after its comparison can undo this, and only for
\* the assets it changes.
PublishedIsBacked ==
  \A a \in Assets \ overwritten : \A n \in DOMAIN manifest[a] : manifest[a][n] = "generated" =>
    /\ files[a][n] \in DOMAIN jobs
    /\ \E e \in ToSet(sidecar[a].entries) : e.revision = n /\ e.job = files[a][n]

\* The job of a recorded revision was enqueued for its asset and for the
\* prompt the sidecar gives as its provenance, whatever else was approved in
\* another tab while the job ran.
ProvenanceIsTheJobs ==
  \A a \in Assets : \A e \in ToSet(sidecar[a].entries) :
    jobs[e.job].key.asset = a /\ jobs[e.job].key.prompt = e.prompt

\* Nothing is paid for that no approval on the disk stands for: the sidecar
\* is saved before the job is enqueued, and a job with a reason has an
\* approval of its own (dispatchApprovedCreativeJob).  The approval is lost
\* only through the write of an overtaken tab.
EachJobWasApproved ==
  \A k \in wire \union {jobs[j].key : j \in DOMAIN jobs} : k.asset \notin overwritten =>
    \E x \in ToSet(sidecar[k.asset].approvals) :
      x.prompt = k.prompt /\ (k.attempt # 0 => x.click = k.attempt)

\* However often a request is repeated, by two tabs or after a lost answer,
\* one idempotency key has one paid row (enqueue_generation_idempotent).
OneJobPerKey == \A i, j \in DOMAIN jobs : jobs[i].key = jobs[j].key => i = j

\* What the folder records is only ever extended, however many tabs write at
\* once: each step that drops an approval, an entry, a revision or a picture is
\* the write of a tab whose file another tab wrote after the comparison (the
\* comparisons of saveCreativeSession and recordGeneratedRevision).
EvidenceOnlyGrows ==
  [][\A a \in Assets \ overwritten' :
       /\ IsPrefix(manifest[a], manifest'[a])
       /\ IsPrefix(sidecar[a].approvals, sidecar'[a].approvals)
       /\ IsPrefix(sidecar[a].entries, sidecar'[a].entries)
       /\ \A n \in Numbers : files[a][n] \in DOMAIN jobs => files'[a][n] = files[a][n]]_sessionVars

\* In one tab whose calls succeed, the picture of every job that succeeds
\* becomes a revision the manifest lists: nothing paid for is lost
\* (monitorCreativeJobToRevision).
PaidPictureIsRecorded ==
  \A j \in 1 .. MaxClicks :
    (calm /\ j \in DOMAIN jobs /\ jobs[j].status = "succeeded") ~>
      \E a \in Assets : \E n \in DOMAIN manifest[a] : files[a][n] = j /\ manifest[a][n] = "generated"

\* "the revision file is created exclusively" (generated-revision-store.ts,
\* line 8): a file that holds a picture is never written again.
RevisionFilesExclusive ==
  [][\A a \in Assets, n \in Numbers : files[a][n] \in DOMAIN jobs => files'[a][n] = files[a][n]]_sessionVars

==============================================================================
