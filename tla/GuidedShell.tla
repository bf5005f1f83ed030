----------------------------- MODULE GuidedShell -----------------------------
(***************************************************************************)
(* The guided screen (App.tsx, workflow/guided-workflow.ts,                 *)
(* project-lifecycle.ts): one browser tab that leads one asset from its     *)
(* preparation over metadata, audit and human approval to the export.       *)
(*                                                                          *)
(* Every handler captures the screen it was clicked on, awaits the project  *)
(* folder and then changes the screen that is there by then: another        *)
(* project may be open, metadata may have been saved, a later call of the   *)
(* same kind may run.  Sequence numbers and the identity of the open        *)
(* project decide whether its answer still counts.                          *)
(*                                                                          *)
(* What the stores compare before they write is module ProjectEvidence;     *)
(* here a folder is the versions its files have.                            *)
(***************************************************************************)
EXTENDS Naturals, FiniteSets

CONSTANTS
  Folders,
  Ops,         \* seats for the audits, approvals and exports that run at once, none of the Singles
  Verdicts,    \* what a preflight may say, a subset of "PASS", "FAIL"
  Starts,      \* the stages folders are in at first
  MaxClicks,   \* bound: operations in a run
  MaxEdits,    \* bound: changes of a folder by other programs or tabs
  Edited,      \* bound: the files they change
  Nothing      \* no project, no submission, no answer yet

Singles == {"open", "load", "refresh", "check", "inspect", "save", "prepare"}

ASSUME ShellAssumption ==
  /\ Ops \intersect Singles = {}
  /\ Nothing \notin [folder : Folders, man : Nat, asset : BOOLEAN]
  /\ Verdicts \subseteq {"PASS", "FAIL"}
  /\ Starts \subseteq {"empty", "prepared", "described", "audited", "stale", "approved"}
  /\ Edited \subseteq {"man", "meta", "audit", "approval", "master"}
  /\ MaxClicks \in Nat /\ MaxEdits \in Nat

VARIABLES
  disk,     \* of each folder: the versions of its files, 0 for none
  screen,   \* the React state and activeProjectRef
  call,     \* the handlers that await something, by the seat they take
  serial,   \* version of the file written last
  clicks, edits

shellVars == <<disk, screen, call, serial, clicks, edits>>

Seats == Singles \union Ops

NoAudit    == [n |-> 0, folder |-> Nothing, meta |-> 0, verdict |-> "none"]
NoApproval == [n |-> 0, folder |-> Nothing, meta |-> 0, audit |-> 0]
Idle == [kind |-> "none", at |-> "idle", project |-> Nothing, live |-> FALSE, here |-> FALSE,
         late |-> FALSE, given |-> Nothing, got |-> Nothing]

\* live: its number is still the one of its sequence.  here: its project is the
\* open one.  late (never read by a guard): the screen was given another project
\* or other metadata since.
Call(kind, at, p, given) ==
  [Idle EXCEPT !.kind = kind, !.at = at, !.project = p, !.live = TRUE, !.here = TRUE, !.given = given]

Running(s) == call[s].at # "idle"
Free(s)    == ~Running(s) /\ clicks < MaxClicks /\ screen.decision = Nothing

\* Mutant: an answer is shown whatever the screen shows by then.
AnyCounts(s) == TRUE

Counts(s) == call[s].live /\ call[s].here

-----------------------------------------------------------------------------
(* What the screen makes of its state.                                      *)

GateOf(meta, a, p) ==
  LET bad   == a.n # 0 /\ (a.meta # meta \/ a.verdict = "FAIL")
      exact == p.n # 0 /\ p.meta = meta /\ p.audit = a.n
  IN  IF a.n = 0 \/ bad \/ (p.n # 0 /\ ~exact)
        THEN IF bad \/ p.n # 0 THEN "STALE" ELSE "NOT READY"
        ELSE IF exact THEN "APPROVED" ELSE "READY"

\* durableAuditVerdict: an audit that is on the screen is never called stale.
AuditShown ==
  IF screen.audit.n # 0 THEN IF screen.audit.verdict = "FAIL" THEN "blocked" ELSE "pass"
                        ELSE IF screen.gate = "STALE" THEN "stale" ELSE "required"

Step ==
  IF screen.project = Nothing          THEN "none"
  ELSE IF ~screen.project.asset        THEN "prepare"
  ELSE IF screen.loaded = 0            THEN "metadata"
  ELSE IF AuditShown # "pass"          THEN "audit"
  ELSE IF screen.exporting \/ screen.written \/ screen.gate = "APPROVED" THEN "export"
  ELSE "approval"

\* The button of the step that is shown is enabled.
Offered(step) ==
  /\ Step = step
  /\ step = "audit"    => ~screen.busy /\ screen.submission # Nothing
  /\ step = "approval" => ~screen.busy /\ screen.gate = "READY"
  /\ step = "export"   => ~screen.busy /\ ~screen.exporting /\ screen.gate = "APPROVED"

-----------------------------------------------------------------------------
Begin(s, c) == call' = [call EXCEPT ![s] = c] /\ clicks' = clicks + 1
Go(s, at, got) == call' = [call EXCEPT ![s].at = at, ![s].got = got]

\* Mutant: what ended keeps its project.
DoneLoosely(C, s) == [C EXCEPT ![s].at = "idle"]

Done(C, s) == [C EXCEPT ![s] = Idle]

Supersede(C, kinds) ==
  [s \in Seats |-> [C[s] EXCEPT !.live = @ /\ C[s].kind \notin kinds]]
Late(C) == [s \in Seats |-> [C[s] EXCEPT !.late = C[s].at # "idle"]]
Leave(C, kinds) ==
  Late([s \in Seats |-> [Supersede(C, kinds)[s] EXCEPT !.here = FALSE]])

Preflights == {"audit", "inspect"}     \* they share preflightSequence
All        == Preflights \union {"approve", "export", "refresh"}

\* Mutant: an inspection that is under way is forgotten.
AuditAndExport == {"audit", "export"}

\* What a new revision or new metadata supersedes.
Outdated == Preflights \union {"export"}

Refresh(C, p, meta) == [C EXCEPT !["refresh"] = Call("refresh", "peek", p, meta)]

Quiet(S)    == [S EXCEPT !.busy = FALSE, !.exporting = FALSE, !.written = FALSE]
Evidence(S, sub, a, p, gate) ==
  [S EXCEPT !.submission = sub, !.audit = a, !.approval = p, !.gate = gate]
NotReady(S) == Evidence(S, Nothing, NoAudit, NoApproval, "NOT READY")
Stale(S)    == [S EXCEPT !.report = IF @ = "none" THEN @ ELSE "stale"]

Stage(f, st) ==
  [man |-> 1, asset |-> st # "empty", master |-> "ours",
   meta |-> CASE st \in {"empty", "prepared"} -> 0 [] st = "stale" -> 2 [] OTHER -> 1,
   audit |-> IF st \in {"audited", "stale", "approved"}
               THEN [n |-> 1, folder |-> f, meta |-> 1, verdict |-> "PASS"] ELSE NoAudit,
   approval |-> IF st = "approved" THEN [n |-> 1, folder |-> f, meta |-> 1, audit |-> 1]
                                   ELSE NoApproval]

Init ==
  /\ \E start \in [Folders -> Starts] : disk = [f \in Folders |-> Stage(f, start[f])]
  /\ screen = [project |-> Nothing, loaded |-> 0, submission |-> Nothing, audit |-> NoAudit,
               approval |-> NoApproval, previous |-> 0, gate |-> "NOT READY", master |-> "unknown",
               busy |-> FALSE, exporting |-> FALSE, written |-> FALSE, report |-> "none",
               decision |-> Nothing]
  /\ call = [s \in Seats |-> Idle]
  /\ serial = 2 /\ clicks = 0 /\ edits = 0

\* New version of a file of folder f.
Write(f, field, value) == disk' = [disk EXCEPT ![f][field] = value] /\ serial' = serial + 1

-----------------------------------------------------------------------------
(* Opening a project, its metadata, and what the folder holds about it.     *)

AskOpen(f) ==
  /\ Free("open") /\ Begin("open", Call("open", "read", Nothing, f))
  /\ UNCHANGED <<disk, screen, serial, edits>>

ReadManifest ==
  LET f == call["open"].given IN
  /\ call["open"].at = "read"
  /\ Go("open", "show", [folder |-> f, man |-> disk[f].man, asset |-> disk[f].asset])
  /\ UNCHANGED <<disk, screen, serial, clicks, edits>>

\* The evidence of the project before stays on the screen until the refresh.
Receive ==
  LET p == call["open"].got
      C == Leave(Done(call, "open"), All)
  IN  /\ call["open"].at = "show"
      /\ screen' = [Quiet(screen) EXCEPT !.project = p, !.loaded = 0, !.report = "none",
                                         !.decision = Nothing, !.master = "unknown"]
      /\ call' = Refresh(IF p.asset THEN [C EXCEPT !["load"] = Call("load", "read", p, 0)] ELSE C, p, 0)
      /\ UNCHANGED <<disk, serial, clicks, edits>>

ReadMetadata ==
  /\ call["load"].at = "read"
  /\ Go("load", "show", disk[call["load"].project.folder].meta)
  /\ UNCHANGED <<disk, screen, serial, clicks, edits>>

ShowMetadata ==
  LET c == call["load"] IN
  /\ c.at = "show"
  /\ IF c.here /\ c.got # 0
       THEN /\ screen' = [screen EXCEPT !.loaded = c.got, !.master = "unknown"]
            /\ call' = Refresh(Done(call, "load"), c.project, c.got)
       ELSE call' = Done(call, "load") /\ UNCHANGED screen
  /\ UNCHANGED <<disk, serial, clicks, edits>>

Peek ==
  LET c == call["refresh"]
      m == disk[c.project.folder].master
  IN  /\ c.at = "peek"
      /\ IF Counts("refresh") /\ m # "broken" /\ c.project.asset /\ c.given # 0
           THEN call' = [call EXCEPT !["refresh"].at = "read"]
           ELSE call' = Done(call, "refresh")
      /\ screen' = CASE ~Counts("refresh") -> screen
                     [] Counts("refresh") /\ m = "broken" -> [screen EXCEPT !.gate = "STALE"]
                     [] Counts("refresh") /\ m # "broken" /\ (~c.project.asset \/ c.given = 0) ->
                          [NotReady(screen) EXCEPT !.master = m]
                     [] OTHER -> [screen EXCEPT !.master = m]
      /\ UNCHANGED <<disk, serial, clicks, edits>>

\* The submission needs an unchanged manifest and metadata.
ReadEvidence ==
  LET c == call["refresh"]
      d == disk[c.project.folder]
  IN  /\ c.at = "read" /\ d.man = c.project.man /\ d.meta # 0
      /\ Go("refresh", "show", [sub |-> [folder |-> c.project.folder, meta |-> d.meta],
                                audit |-> d.audit, approval |-> d.approval])
      /\ UNCHANGED <<disk, screen, serial, clicks, edits>>

ShowEvidence ==
  LET c == call["refresh"]
      g == c.got
  IN  /\ c.at = "show"
      /\ screen' = IF ~Counts("refresh") THEN screen
                   ELSE [Evidence(screen, g.sub, g.audit, g.approval, GateOf(g.sub.meta, g.audit, g.approval))
                         EXCEPT !.previous = g.approval.n]
      /\ call' = Done(call, "refresh")
      /\ UNCHANGED <<disk, serial, clicks, edits>>

-----------------------------------------------------------------------------
(* Preparing a revision and saving its metadata.                            *)

BeginPrepare ==
  /\ Free("prepare") /\ Offered("prepare")
  /\ Begin("prepare", Call("prepare", "write", screen.project, 0))
  /\ UNCHANGED <<disk, screen, serial, edits>>

PutRevision ==
  LET c == call["prepare"]
      p == [c.project EXCEPT !.asset = TRUE, !.man = serial + 1]
  IN  /\ c.at = "write" /\ disk[p.folder].man = c.project.man
      /\ Go("prepare", "show", p)
      /\ disk' = [disk EXCEPT ![p.folder].man = p.man, ![p.folder].asset = TRUE]
      /\ serial' = serial + 1
      /\ UNCHANGED <<screen, clicks, edits>>

ShowRevision ==
  LET c == call["prepare"]
      C == Done(call, "prepare")
  IN  /\ c.at = "show"
      /\ IF c.here
           THEN /\ screen' = [Stale(Quiet(screen)) EXCEPT !.project = c.got, !.master = "unknown"]
                /\ call' = Refresh(Leave(C, Outdated), c.got, 0)
           ELSE call' = C /\ UNCHANGED screen
      /\ UNCHANGED <<disk, serial, clicks, edits>>

BeginSave ==
  /\ Free("save") /\ Offered("metadata")
  /\ Begin("save", Call("save", "write", screen.project, screen.loaded))
  /\ UNCHANGED <<disk, screen, serial, edits>>

PutMetadata ==
  LET c == call["save"]
      d == disk[c.project.folder]
  IN  /\ c.at = "write" /\ d.man = c.project.man /\ d.meta = c.given
      /\ Go("save", "show", serial + 1)
      /\ Write(c.project.folder, "meta", serial + 1)
      /\ UNCHANGED <<screen, clicks, edits>>

ShowSaved ==
  LET c == call["save"]
      C == Done(call, "save")
  IN  /\ c.at = "show"
      /\ IF c.here
           THEN /\ screen' = [Evidence(Stale(Quiet(screen)), screen.submission, NoAudit, NoApproval, "STALE")
                              EXCEPT !.loaded = c.got, !.previous = 0, !.master = "unknown"]
                /\ LET D == Supersede(C, Outdated) IN
                   call' = Refresh(IF c.got = screen.loaded THEN D ELSE Late(D), c.project, c.got)
           ELSE call' = C /\ UNCHANGED screen
      /\ UNCHANGED <<disk, serial, clicks, edits>>

\* A candidate file is inspected; no project is needed for what the panel shows.
BeginInspect ==
  /\ Free("inspect") /\ Offered("prepare")
  /\ call' = [Supersede(call, Preflights) EXCEPT
                !["inspect"] = Call("inspect", "show", screen.project, 0)]
  /\ clicks' = clicks + 1
  /\ screen' = [screen EXCEPT !.report = "none"]
  /\ UNCHANGED <<disk, serial, edits>>

ShowInspect ==
  /\ call["inspect"].at = "show"
  /\ screen' = [screen EXCEPT !.report = IF call["inspect"].live THEN "current" ELSE @]
  /\ call' = Done(call, "inspect")
  /\ UNCHANGED <<disk, serial, clicks, edits>>

-----------------------------------------------------------------------------
(* Audit, approval and export: begin, look, write, show.                    *)

Kinds == [audit |-> Preflights, approval |-> {"approve"}, export |-> {"export"}]
KindOf(step) == IF step = "approval" THEN "approve" ELSE step

\* The second click of a kind supersedes the first.
BeginOp(o, step) ==
  /\ Free(o) /\ Offered(step)
  /\ step = "approval" => screen.master = "ours"
  /\ call' = [Supersede(call, Kinds[step]) EXCEPT ![o] =
       Call(KindOf(step), "look", screen.project,
            [sub |-> screen.submission, audit |-> screen.audit.n, loaded |-> screen.loaded,
             previous |-> IF step = "audit" /\ screen.approval.n # 0 THEN screen.approval.n
                                                                     ELSE screen.previous])]
  /\ clicks' = clicks + 1
  /\ screen' = IF step = "export" THEN [screen EXCEPT !.exporting = TRUE, !.written = FALSE]
                                  ELSE [screen EXCEPT !.busy = TRUE]
  /\ UNCHANGED <<disk, serial, edits>>

CanAudit(c, d) ==
  /\ c.given.sub.folder = c.project.folder /\ d.meta = c.given.sub.meta
  /\ d.audit.n = c.given.audit
CanApprove(c, d) ==
  /\ d.master = "ours" /\ d.meta = c.given.loaded
  /\ GateOf(d.meta, d.audit, NoApproval) = "READY"
  /\ d.approval.n = c.given.previous
CanExport(c, d) ==
  /\ d.master = "ours" /\ d.meta # 0
  /\ GateOf(d.meta, d.audit, d.approval) = "APPROVED"

Can(c) ==
  LET d == disk[c.project.folder] IN
  /\ d.man = c.project.man
  /\ CASE c.kind = "audit"   -> CanAudit(c, d)
       [] c.kind = "approve" -> CanApprove(c, d)
       [] c.kind = "export"  -> CanExport(c, d)

\* An audit takes its verdict along, an approval the audit it read.
Look(o) ==
  LET c == call[o]
      d == disk[c.project.folder]
  IN  /\ c.at = "look" /\ Counts(o) /\ Can(c)
      /\ IF c.kind = "export" THEN Go(o, "show", "written")
         ELSE \E v \in Verdicts :
                /\ c.kind = "approve" => v = d.audit.verdict
                /\ Go(o, "write", [n |-> 0, folder |-> c.project.folder, meta |-> d.meta,
                                   verdict |-> v, audit |-> d.audit.n])
      /\ UNCHANGED <<disk, screen, serial, clicks, edits>>

AsAudit(r)    == [n |-> serial + 1, folder |-> r.folder, meta |-> r.meta, verdict |-> r.verdict]
AsApproval(r) == [n |-> serial + 1, folder |-> r.folder, meta |-> r.meta, audit |-> r.audit]

PutRecord(o) ==
  LET c == call[o]
      r == IF c.kind = "audit" THEN AsAudit(c.got) ELSE AsApproval(c.got)
  IN  /\ c.at = "write"
      /\ Go(o, "show", r)
      /\ Write(c.project.folder, IF c.kind = "audit" THEN "audit" ELSE "approval", r)
      /\ UNCHANGED <<screen, clicks, edits>>

\* Mutant: the export ends like the audit, whether or not it is the latest.
AnyEnds(S, o) ==
  IF call[o].kind = "export" THEN [S EXCEPT !.exporting = FALSE] ELSE [S EXCEPT !.busy = FALSE]

\* The finally blocks: only the export asks whether it is still the latest.
Ended(S, o) ==
  CASE call[o].kind # "export"              -> [S EXCEPT !.busy = FALSE]
    [] call[o].kind = "export" /\ Counts(o) -> [S EXCEPT !.exporting = FALSE]
    [] OTHER                                -> S

ShowOp(o) ==
  LET c == call[o]
      S == Ended(screen, o)
  IN  /\ c.at = "show"
      /\ screen' =
           CASE ~Counts(o) -> S
             [] Counts(o) /\ c.kind = "audit" ->
                  [Evidence(S, S.submission, c.got, NoApproval, GateOf(c.given.sub.meta, c.got, NoApproval))
                   EXCEPT !.previous = c.given.previous]
             [] Counts(o) /\ c.kind = "approve" ->
                  [S EXCEPT !.approval = c.got, !.previous = c.got.n, !.gate = "APPROVED"]
             [] Counts(o) /\ c.kind = "export" -> [S EXCEPT !.written = TRUE]
      /\ call' = Done(call, o)
      /\ UNCHANGED <<disk, serial, clicks, edits>>

\* A look at evidence that changed, a refused permission, a file that cannot be
\* read or written: the handler ends.  An approval shows the gate it found.
GiveUp(s) ==
  LET c == call[s]
      d == disk[c.project.folder]
      found == GateOf(d.meta, d.audit, NoApproval)
  IN  /\ c.at \in {"look", "read", "write"}
      /\ call' = Done(call, s)
      /\ screen' \in
           CASE s = "refresh" -> {IF Counts(s) THEN NotReady(screen) ELSE screen}
             [] s \in Ops -> {Ended(screen, s)} \union
                  (IF /\ c.kind = "approve" /\ c.at = "look" /\ Counts(s) /\ d.man = c.project.man
                      /\ d.meta # 0 /\ d.audit.n # 0 /\ d.master = "ours" /\ found # "READY"
                     THEN {[Ended(screen, s) EXCEPT !.gate = found]} ELSE {})
             [] OTHER -> {screen}
      /\ UNCHANGED <<disk, serial, clicks, edits>>

-----------------------------------------------------------------------------
(* Changes from outside, and closing the project.                           *)

BeginCheck ==
  /\ Free("check") /\ screen.project # Nothing
  /\ Begin("check", Call("check", "read", screen.project, 0))
  /\ UNCHANGED <<disk, screen, serial, edits>>

ReadExternal ==
  LET p == call["check"].project
      d == disk[p.folder]
  IN  /\ call["check"].at = "read"
      /\ IF d.man = p.man THEN call' = Done(call, "check")
         ELSE Go("check", "show", [folder |-> p.folder, man |-> d.man, asset |-> d.asset])
      /\ UNCHANGED <<disk, screen, serial, clicks, edits>>

\* Mutant: any open project counts as the one that was compared.
SomeProject(source) == screen.project # Nothing

\* isSameActiveProject: the folder and the manifest, not the opening.
SameProject(source) == screen.project = source

ShowDecision ==
  LET c == call["check"] IN
  /\ c.at = "show"
  /\ screen' = [screen EXCEPT !.decision = IF SameProject(c.project)
                                             THEN [source |-> c.project, external |-> c.got] ELSE @]
  /\ call' = Done(call, "check")
  /\ UNCHANGED <<disk, serial, clicks, edits>>

Reload ==
  LET p == screen.decision.external
      C == Leave(call, All)
  IN  /\ screen.decision # Nothing /\ SameProject(screen.decision.source)
      /\ screen' = [NotReady(Quiet(screen)) EXCEPT
                      !.project = p, !.loaded = 0, !.previous = 0, !.decision = Nothing,
                      !.master = IF p.asset THEN @ ELSE "unknown"]
      /\ call' = IF p.asset THEN [C EXCEPT !["load"] = Call("load", "read", p, 0)] ELSE Refresh(C, p, 0)
      /\ UNCHANGED <<disk, serial, clicks, edits>>

\* Cancel, or keep a copy of the manifest as a download.
Dismiss ==
  /\ screen.decision # Nothing
  /\ screen' = [screen EXCEPT !.decision = Nothing]
  /\ UNCHANGED <<disk, call, serial, clicks, edits>>

Close ==
  /\ screen.project # Nothing /\ screen.decision = Nothing /\ clicks < MaxClicks
  /\ screen' = [NotReady(Quiet(screen)) EXCEPT !.project = Nothing, !.loaded = 0, !.previous = 0,
                                              !.report = "none"]
  /\ call' = Leave(call, All)
  /\ clicks' = clicks + 1
  /\ UNCHANGED <<disk, serial, edits>>

\* The desk in another tab, or any program.  The latest revision stays the latest.
Outside(f) ==
  LET d == disk[f] IN
  /\ edits < MaxEdits /\ edits' = edits + 1
  /\ \E field \in Edited :
       \/ field = "man" /\ Write(f, field, serial + 1)
       \/ field = "meta" /\ \E n \in {0, serial + 1} : Write(f, field, n)
       \/ field = "audit" /\ d.meta # 0 /\ \E v \in Verdicts :
            Write(f, field, [n |-> serial + 1, folder |-> f, meta |-> d.meta, verdict |-> v])
       \/ field = "approval" /\ GateOf(d.meta, d.audit, NoApproval) = "READY" /\
            Write(f, field, [n |-> serial + 1, folder |-> f, meta |-> d.meta, audit |-> d.audit.n])
       \/ field = "master" /\ \E m \in {"none", "ours", "broken"} : Write(f, field, m)
  /\ UNCHANGED <<screen, call, clicks>>

Next ==
  \/ \E f \in Folders : AskOpen(f) \/ Outside(f)
  \/ ReadManifest \/ Receive \/ ReadMetadata \/ ShowMetadata
  \/ Peek \/ ReadEvidence \/ ShowEvidence
  \/ BeginPrepare \/ PutRevision \/ ShowRevision \/ BeginSave \/ PutMetadata \/ ShowSaved
  \/ BeginInspect \/ ShowInspect
  \/ \E o \in Ops : Look(o) \/ PutRecord(o) \/ ShowOp(o) \/ \E step \in DOMAIN Kinds : BeginOp(o, step)
  \/ \E s \in Seats : GiveUp(s)
  \/ BeginCheck \/ ReadExternal \/ ShowDecision \/ Reload \/ Dismiss \/ Close

ShellSpec == Init /\ [][Next]_shellVars

-----------------------------------------------------------------------------
Projects == [folder : Folders, man : Nat, asset : BOOLEAN] \union {Nothing}

\* Types of the folder and of the screen.
ShellTypeOK ==
  /\ disk \in [Folders -> [man : Nat, asset : BOOLEAN, master : {"none", "ours", "broken"}, meta : Nat,
               audit : [n : Nat, folder : Folders \union {Nothing}, meta : Nat,
                        verdict : Verdicts \union {"none", "PASS"}],
               approval : [n : Nat, folder : Folders \union {Nothing}, meta : Nat, audit : Nat]]]
  /\ screen.project \in Projects /\ screen.loaded \in 0 .. serial
  /\ screen.gate \in {"NOT READY", "STALE", "READY", "APPROVED"}
  /\ screen.master \in {"unknown", "none", "ours"}
  /\ screen.report \in {"none", "current", "stale"}
  /\ \A s \in Seats : call[s].at \in {"idle", "look", "read", "peek", "write", "show"}
  /\ \A s \in Seats : call[s].at = "idle" <=> call[s] = Idle

\* A gate that lets the user go on belongs to what is open: unless a refresh is
\* on its way, READY stands for a passing audit and APPROVED for an approval that
\* were stored in the folder on the screen and for the metadata on the screen,
\* however many folders were opened, left and reloaded and whatever was saved
\* while they were read or written.  Nobody else changes the metadata.
GateIsOfTheScreen ==
  ~(Running("refresh") /\ Counts("refresh")) =>
    /\ screen.gate = "READY" =>
         /\ screen.project # Nothing /\ screen.audit.verdict = "PASS"
         /\ screen.audit.folder = screen.project.folder
         /\ screen.audit.meta = screen.loaded
    /\ screen.gate = "APPROVED" =>
         /\ screen.project # Nothing
         /\ screen.approval.folder = screen.project.folder
         /\ screen.approval.meta = screen.loaded

\* The screen says that an export is being written exactly while the latest
\* export of the open project runs (setExporting in eight places of App.tsx).
ExportingIsTrue ==
  screen.exporting <=> \E o \in Ops : call[o].kind = "export" /\ Counts(o)

\* An answer changes the screen only in time: not once another project was
\* opened, a revision prepared, a manifest reloaded or other metadata saved after
\* the question was asked.  A metadata save does not supersede an approval; that
\* the two do not overlap is the order of the steps.
AnswersAreTimely ==
  [][/\ \A o \in Ops : (Running(o) /\ call[o].late /\ call'[o] = Idle) =>
          <<screen.audit, screen.approval, screen.gate, screen.written>>'
            = <<screen.audit, screen.approval, screen.gate, screen.written>>
     /\ (call["inspect"].late /\ call'["inspect"] = Idle) => screen'.report = screen.report]_shellVars

\* A manifest older than the one on the screen never takes its place, except
\* that a project is opened again.  Reloading an external change never does.
OnlyOpeningRewinds ==
  [][(screen.project # Nothing /\ screen'.project # Nothing /\ screen'.project.folder = screen.project.folder
       /\ screen'.project.man < screen.project.man) => call["open"].at = "show"]_shellVars
==============================================================================
