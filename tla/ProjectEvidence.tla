--------------------------- MODULE ProjectEvidence ---------------------------
(***************************************************************************)
(* The evidence a submission rests on, as files of the project folder:      *)
(* metadata, audit, master selection, human approval, and the export        *)
(* package made of them (the *-store.ts modules, approval-gate.ts,          *)
(* revision-audit-pipeline.ts, export-package.ts and their callers in       *)
(* App.tsx and BerandaApp.tsx).                                             *)
(*                                                                          *)
(* The folder knows no locks and no transactions: every operation reads,    *)
(* compares what it reads with what its screen or an earlier read showed,   *)
(* and at last writes.  An operation is a script of such steps, one for     *)
(* every await on the folder.  A member of Tabs runs one at a time: a       *)
(* browser tab, or the call that a tab left running.                        *)
(***************************************************************************)
EXTENDS Naturals, Sequences

CONSTANTS
  Tabs,
  Plans,         \* bound: which operations are run together, which files are changed
                 \* from outside meanwhile, and how many events of both sorts there
                 \* are; a run follows one of the plans
  LastRevision,  \* the revisions the asset may come to have are 1 .. LastRevision
  Contents,      \* contents of a revision or of the metadata; equal checksums, equal contents
  Jpegs,         \* revisions that are prepared JPEGs, the others are SVG or PNG
  MaxCalls,      \* bound: operations in a run
  MaxEdits,      \* bound: changes from outside
  None,          \* there is no file
  Empty          \* a file that was created and never written

Kinds == {"metadata", "audit", "reaudit", "master", "approve", "export"}
ASSUME DataAssumption ==
  /\ LastRevision \in Nat \ {0}
  /\ Contents \subseteq Nat /\ 1 \in Contents
  /\ Jpegs \subseteq 1 .. LastRevision

\* No content is taken for a file that is not there.
ASSUME NoFileAssumption == None \notin Contents /\ Empty \notin Contents

VARIABLES
  disk,       \* of each file, for each revision: what it holds
  packages,   \* exports/<revision>-<submission checksum>
  call,       \* the operation each tab runs
  calls,      \* operations so far
  edits,      \* changes from outside so far
  calm,       \* never changes. TRUE: nothing else happens while an operation closes
  plan        \* never changes: the plan that is followed

evidenceVars == <<disk, packages, call, calls, edits, calm, plan>>

Revisions == 1 .. LastRevision

Files  == {"manifest", "bytes", "metadata", "audit", "approval", "master"}
Shared == {"manifest", "metadata", "master"}    \* one file for all revisions
Parts  == Files \ {"master"}                    \* what a package copies

ASSUME EvidenceBounds ==
  MaxCalls \in Nat \ {0} /\ MaxEdits \in Nat
  /\ Plans \subseteq [kinds : SUBSET Kinds, edited : SUBSET Files, events : Nat]

\* Records carry their time stamps as the number of the call that wrote them.
Stamps    == 0 .. MaxCalls
Audits    == [sub : Contents, meta : Contents, blocks : BOOLEAN, n : Stamps]
Approvals == [sub : Contents, meta : Contents, audit : Audits, n : Stamps]
Masters   == [rev : Revisions, sum : Contents, n : Stamps]

\* The manifest stands for the number of revisions it lists.
ValuesOf(f) ==
  CASE f = "manifest" -> Revisions
    [] f = "bytes"    -> Contents
    [] f = "metadata" -> Contents \union {None, Empty}
    [] f = "audit"    -> Audits \union {None, Empty}
    [] f = "approval" -> Approvals \union {None, Empty}
    [] f = "master"   -> Masters \union {None, Empty}

NoPackage == [exists |-> FALSE, parts |-> [f \in Parts |-> None], marker |-> None]

-----------------------------------------------------------------------------
(* The scripts: what every operation awaits, in this order.  The final      *)
(* comparisons and the write are its closing steps.                         *)
(*   keep    the file is what the screen showed     same  what was read     *)
(*   take    read a usable record                   fits  master is current *)
(*   ask     the preflight of the API               gate  approval gate     *)

Keep(f) == <<"keep", f>>

\* Mutant: what was read is not read again.
SameLoose(f) == Keep("manifest")

Same(f) == <<"same", f>>
Take(f) == <<"take", f>>
Save(f) == << <<"make", f>>, <<"put", f>> >>

Gate == << <<"gate", "approval">> >>

Master == << Take("master"), <<"fits", "master">> >>

\* resolveExportPackageCandidate; the second time, and in every verification,
\* the candidate must be the first one.
Look(again, f) == IF again THEN Same(f) ELSE Take(f)
Resolve(again) ==
  << Keep("manifest"), Look(again, "bytes"), Look(again, "metadata"), Same("metadata"),
     Look(again, "audit"), Look(again, "approval") >> \o Master \o Gate \o << Same("bytes"), Same("approval") >>
Candidate == Resolve(FALSE)
Verify    == Resolve(TRUE)

Part(f) == << <<"fresh", f>>, <<"copy", f>> >>

ExportBody ==
  Candidate \o Verify
  \o Verify \o << <<"vacant", "package">>, <<"dir", "package">> >>
  \o Verify \o Part("bytes") \o Part("metadata") \o Part("audit") \o Part("approval") \o Part("manifest")
  \o Verify \o << <<"unmarked", "marker">> >>
  \o Verify \o << <<"mark", "marker">> >>
  \o Verify \o Verify

Body == [
  metadata |-> << Keep("manifest"), Keep("metadata") >>,
  audit    |-> << Keep("manifest"), Take("bytes"), Take("metadata"), <<"ask", "audit">>,
                  Keep("manifest"), Keep("audit") >>,
  reaudit  |-> << <<"ask", "audit">>, Keep("manifest"), Same("bytes"), Same("metadata"),
                  Keep("manifest"), Keep("audit") >>,
  master   |-> << Keep("manifest"), Take("bytes"), Keep("manifest"), Keep("master") >>,
  approve  |-> << Keep("manifest"), Take("bytes"), Take("metadata"), Take("audit"), Keep("manifest") >>
               \o Master \o Gate \o << Keep("manifest"), Same("bytes"), Same("metadata"),
                  Keep("manifest"), Same("master"), <<"fits", "master">>,
                  Keep("manifest"), Keep("metadata"), Same("audit"), Same("master"), Keep("approval") >>,
  export   |-> ExportBody ]

Closing == [
  metadata |-> << Keep("manifest"), Keep("metadata") >> \o Save("metadata"),
  audit    |-> << Keep("manifest"), Keep("audit"), Keep("manifest"), Same("bytes"), Same("metadata") >>
               \o Save("audit"),
  reaudit  |-> << Keep("manifest"), Keep("audit"), Keep("manifest"), Same("bytes"), Same("metadata") >>
               \o Save("audit"),
  master   |-> << Keep("manifest"), Same("bytes"), Keep("master") >> \o Save("master"),
  approve  |-> << Keep("manifest"), Keep("approval"), Keep("metadata"), Same("audit"), Same("master") >>
               \o Save("approval"),
  export   |-> Verify \o << <<"commit", "marker">> >> ]

\* After the marker is closed the evidence is verified once more.
Script == [k \in Kinds |-> Body[k] \o Closing[k] \o IF k = "export" THEN Verify ELSE <<>>]

-----------------------------------------------------------------------------
(* State.                                                                   *)

Nothing == [f \in Files |-> None]
Idle    == [kind |-> "none", rev |-> 1, at |-> 0, n |-> 0, held |-> Nothing, got |-> Nothing]

Running(p) == call[p].kind # "none"
StepOf(p)  == Script[call[p].kind][call[p].at]
Verb(p)    == StepOf(p)[1]
Name(p)    == StepOf(p)[2]

InClosing(p) ==
  /\ Running(p)
  /\ LET first == Len(Body[call[p].kind]) IN
     call[p].at \in first + 1 .. first + Len(Closing[call[p].kind])

EvidenceTypeOK ==
  /\ \A f \in Files : disk[f] \in [Revisions -> ValuesOf(f)]
  /\ \A f \in Shared : \A q \in Revisions : disk[f][q] = disk[f][1]
  /\ \A k \in Revisions \X Contents :
       /\ packages[k].exists \in BOOLEAN
       /\ \A f \in Parts : packages[k].parts[f] \in ValuesOf(f) \union {None}
       /\ ~packages[k].exists => packages[k] = NoPackage
  /\ \A p \in Tabs : Running(p) =>
       /\ call[p].kind \in Kinds /\ call[p].rev \in Revisions
       /\ call[p].at \in DOMAIN Script[call[p].kind]
       /\ \A f \in Files : call[p].held[f] \in ValuesOf(f) \union {None} /\ call[p].got[f] \in ValuesOf(f) \union {None}
  /\ calls \in Stamps
  /\ edits \in 0 .. MaxEdits
  /\ calm \in BOOLEAN /\ plan \in Plans

On(v) == [q \in Revisions |-> v]

\* An audit of metadata m without findings, and the approval given for it.
Passed(m)  == [sub |-> 1, meta |-> m, blocks |-> FALSE, n |-> 0]
Consent(m) == [sub |-> 1, meta |-> m, audit |-> Passed(m), n |-> 0]

\* A new folder with its first revision, and one whose latest is approved.
Fresh == [manifest |-> On(1), bytes |-> On(1), metadata |-> On(None), audit |-> On(None),
          approval |-> On(None), master |-> On(None)]
Approved ==
  [Fresh EXCEPT !.manifest = On(LastRevision), !.metadata = On(1),
                !.master = On([rev |-> LastRevision, sum |-> 1, n |-> 0]),
                !.audit[LastRevision] = Passed(1), !.approval[LastRevision] = Consent(1)]

\* The latest revision may have been exported before, with metadata m.
Exported(m) ==
  LET parts == [manifest |-> LastRevision, bytes |-> 1, metadata |-> m, audit |-> Passed(m),
                approval |-> Consent(m)] IN
  [exists |-> TRUE, parts |-> parts, marker |-> parts]

Unexported == [k \in Revisions \X Contents |-> NoPackage]

EvidenceInit ==
  /\ plan \in Plans
  /\ \/ disk = Fresh    /\ packages = Unexported
     \/ disk = Approved /\ packages \in {Unexported} \union
          (IF "export" \in plan.kinds THEN {[Unexported EXCEPT ![<<LastRevision, 1>>] = Exported(m)] : m \in Contents} ELSE {})
  /\ call = [p \in Tabs |-> Idle]
  /\ calls = 0 /\ edits = 0
  /\ calm \in BOOLEAN

-----------------------------------------------------------------------------
(* The approval gate (approval-gate.ts) and what a screen shows.            *)

There(v) == v \notin {None, Empty}

\* Mutant: the audit is not compared with the metadata.
SoundWhateverMetadata(audit, sub, meta) == There(audit) /\ audit.sub = sub /\ ~audit.blocks

\* The audit is of this submission and this metadata, and has no blocking FAIL.
Sound(audit, sub, meta) == There(audit) /\ audit.sub = sub /\ audit.meta = meta /\ ~audit.blocks

Exact(approval, sub, meta, audit) ==
  There(approval) /\ approval.sub = sub /\ approval.meta = meta /\ approval.audit = audit

\* NOT READY counts as blocked here.
GateOf(sub, meta, audit, approval) ==
  IF ~Sound(audit, sub, meta) THEN "blocked"
  ELSE IF Exact(approval, sub, meta, audit) THEN "clear"
  ELSE IF approval = None THEN "ready" ELSE "blocked"

GateOn(seen, approval) == GateOf(seen["bytes"], seen["metadata"], seen["audit"], approval)

\* The selected revision is listed and still has the bytes it was selected with.
Stands(master) ==
  There(master) /\ master.rev <= disk["manifest"][1] /\ disk["bytes"][master.rev] = master.sum

\* What a screen holds after it has loaded the evidence of revision q: a file
\* that cannot be used is shown as if there were none.
Screen(q) ==
  [f \in Files |-> IF disk[f][q] = Empty \/ (f = "master" /\ ~Stands(disk[f][q]))
                   THEN None ELSE disk[f][q]]

\* A prepared JPEG has the checksum of its preparation record, always 1;
\* the audit and the selection of the Beranda do not ask for it.
Fit(p, v) ==
  v = 1 \/ call[p].rev \notin Jpegs \/ call[p].kind \in {"audit", "master"}

-----------------------------------------------------------------------------
(* An operation begins.                                                     *)

\* The guided screen (App.tsx) works on the latest revision and asks the
\* evidence it shows; the Beranda works on any revision it lists.
MayBegin(kind, q, seen) ==
  /\ kind \in {"reaudit", "approve", "export"} => q = seen["manifest"]
  /\ kind = "reaudit" => seen["metadata"] # None /\ (q \in Jpegs => seen["bytes"] = 1)
  /\ kind = "approve" => /\ GateOn(seen, None) = "ready"
                         /\ GateOn(seen, seen["approval"]) # "clear"
                         /\ seen["master"] # None /\ seen["master"].rev = q
  /\ kind = "export"  => GateOn(seen, seen["approval"]) = "clear"

\* What an operation compares with; the rest of the screen is left out.
Needs == [k \in Kinds |-> [v \in {"keep", "same"} |->
            {f \in Files : \E i \in DOMAIN Script[k] : Script[k][i] = <<v, f>>}]]
Needed(kind, verb, seen) == [f \in Files |-> IF f \in Needs[kind][verb] THEN seen[f] ELSE None]

Begin(p, kind, q, content) ==
  LET seen == Screen(q) IN
  /\ ~Running(p) /\ calls < MaxCalls /\ calls + edits < plan.events
  /\ calm => \A r \in Tabs : ~InClosing(r)
  /\ q <= seen["manifest"] /\ MayBegin(kind, q, seen)
  /\ kind # "metadata" => content = 1
  /\ calls' = calls + 1
  /\ call' = [call EXCEPT ![p] =
       [kind |-> kind, rev |-> q, at |-> 1, n |-> calls', held |-> Needed(kind, "keep", seen),
        got  |-> IF kind = "metadata" THEN [Nothing EXCEPT !["metadata"] = content]
                 ELSE Needed(kind, "same", seen)]]
  /\ UNCHANGED <<disk, packages, edits, calm, plan>>

-----------------------------------------------------------------------------
(* Its steps.                                                               *)

\* Under calm nobody else moves while an operation closes.
At(p, verbs) ==
  /\ Running(p) /\ Verb(p) \in verbs
  /\ calm => \A r \in Tabs \ {p} : ~InClosing(r)

\* The step after the last one ends the operation; the screen is loaded anew.
Onward(c) == IF c.at = Len(Script[c.kind]) THEN Idle ELSE [c EXCEPT !.at = @ + 1]
Advance(p) == call' = [call EXCEPT ![p] = Onward(@)]
Leave(p)   == call' = [call EXCEPT ![p] = Idle]

Here(p) == disk[Name(p)][call[p].rev]    \* the file this step is about
Got(p)  == call[p].got
Key(p)  == <<call[p].rev, Got(p)["bytes"]>>
Package(p) == packages[Key(p)]

\* Mutant: a package that is there is written over.
Overwriting(p) == TRUE

\* Nothing of the package that is to be created is there.
Vacant(p) ==
  /\ Verb(p) = "vacant"   => ~Package(p).exists
  /\ Verb(p) = "fresh"    => Package(p).parts[Name(p)] = None
  /\ Verb(p) = "unmarked" => Package(p).marker = None

Passes(p) ==
  /\ Verb(p) = "keep" => Here(p) = call[p].held[Name(p)]
  /\ Verb(p) = "same" => Here(p) = Got(p)[Name(p)]
  /\ Verb(p) = "take" => /\ There(Here(p))
                         /\ Name(p) = "bytes"  => Fit(p, Here(p))
                         /\ Name(p) = "master" => Here(p).rev = call[p].rev
  /\ Verb(p) = "fits" => disk["bytes"][Got(p)["master"].rev] = Got(p)["master"].sum
  /\ Verb(p) = "gate" => IF call[p].kind = "approve" THEN GateOn(Got(p), None) = "ready"
                         ELSE GateOn(Got(p), Got(p)["approval"]) = "clear"
  /\ Vacant(p)

Comparisons == {"keep", "same", "fits", "gate", "vacant", "fresh", "unmarked"}

Check(p) ==
  /\ At(p, Comparisons) /\ Passes(p)
  /\ Advance(p)
  /\ UNCHANGED <<disk, packages, calls, edits, calm, plan>>

TakeFile(p) ==
  /\ At(p, {"take"}) /\ Passes(p)
  /\ call' = [call EXCEPT ![p] = [Onward(@) EXCEPT !.got[Name(p)] = Here(p)]]
  /\ UNCHANGED <<disk, packages, calls, edits, calm, plan>>

\* The error is shown and nothing is written.
Refuse(p) ==
  /\ At(p, Comparisons \union {"take"}) /\ ~Passes(p)
  /\ Leave(p)
  /\ UNCHANGED <<disk, packages, calls, edits, calm, plan>>

\* The preflight finds a blocking FAIL or not.
Ask(p, blocks) ==
  LET audit == [sub |-> Got(p)["bytes"], meta |-> Got(p)["metadata"], blocks |-> blocks, n |-> call[p].n] IN
  /\ At(p, {"ask"})
  /\ call' = [call EXCEPT ![p] = [Onward(@) EXCEPT !.got["audit"] = audit]]
  /\ UNCHANGED <<disk, packages, calls, edits, calm, plan>>

\* The permission is withheld, another call of the screen or another project
\* has superseded this one, the preflight fails, the tab is closed.
GiveUp(p) ==
  /\ Running(p)
  /\ calm => \A r \in Tabs : ~InClosing(r)
  /\ Leave(p)
  /\ UNCHANGED <<disk, packages, calls, edits, calm, plan>>

\* Mutant: a shared file belongs to one revision.
OntoOne(f, q, v) == disk' = [disk EXCEPT ![f][q] = v]

Onto(f, q, v) ==
  disk' = [disk EXCEPT ![f] = [r \in Revisions |-> IF f \in Shared \/ r = q THEN v ELSE @[r]]]

\* getFileHandle with create: an empty file, if there is none.
Make(p) ==
  /\ At(p, {"make"})
  /\ Onto(Name(p), call[p].rev, IF Here(p) = None THEN Empty ELSE Here(p))
  /\ Advance(p)
  /\ UNCHANGED <<packages, calls, edits, calm, plan>>

Record(p) ==
  CASE Name(p) = "master"   -> [rev |-> call[p].rev, sum |-> Got(p)["bytes"], n |-> call[p].n]
    [] Name(p) = "approval" -> [sub |-> Got(p)["bytes"], meta |-> Got(p)["metadata"],
                                audit |-> Got(p)["audit"], n |-> call[p].n]
    [] OTHER                -> Got(p)[Name(p)]

\* The stream is closed: the file has its new content.
Put(p) ==
  /\ At(p, {"put"})
  /\ Onto(Name(p), call[p].rev, Record(p))
  /\ Advance(p)
  /\ UNCHANGED <<packages, calls, edits, calm, plan>>

Packing(p, package) ==
  /\ packages' = [packages EXCEPT ![Key(p)] = package]
  /\ Advance(p)
  /\ UNCHANGED <<disk, calls, edits, calm, plan>>

\* What it copies: the manifest is the one the screen showed.
CandidateOf(p) ==
  [f \in Parts |-> IF f = "manifest" THEN call[p].held[f] ELSE Got(p)[f]]

Directory(p) == At(p, {"dir"})  /\ Packing(p, [Package(p) EXCEPT !.exists = TRUE])
Copy(p)      == At(p, {"copy"}) /\ Packing(p, [Package(p) EXCEPT !.parts[Name(p)] = CandidateOf(p)[Name(p)]])
Mark(p)      == At(p, {"mark"}) /\ Packing(p, [Package(p) EXCEPT !.marker = IF @ = None THEN Empty ELSE @])
Commit(p)    == At(p, {"commit"}) /\
  Packing(p, [Package(p) EXCEPT !.marker = CandidateOf(p)])

-----------------------------------------------------------------------------
(* Outside: an editor, a file manager, another program.                     *)

Outside(f, q, v) ==
  /\ edits < MaxEdits /\ calls + edits < plan.events /\ f \in plan.edited
  /\ calm => \A r \in Tabs : ~InClosing(r)
  /\ Onto(f, q, v) /\ disk' # disk
  /\ edits' = edits + 1
  /\ UNCHANGED <<packages, call, calls, calm, plan>>

\* Other contents; a revision another tab publishes; a file that is removed.
Edit(f, q, v) ==
  /\ \/ f \in {"bytes", "metadata"} /\ v \in Contents
     \/ f = "manifest" /\ v \in Revisions /\ v = disk[f][q] + 1
     \/ f \in {"metadata", "audit", "approval", "master"} /\ v = None
  /\ Outside(f, q, v)

-----------------------------------------------------------------------------
Step(p) ==
  \/ Check(p) \/ TakeFile(p) \/ Refuse(p) \/ Make(p) \/ Put(p)
  \/ Directory(p) \/ Copy(p) \/ Mark(p) \/ Commit(p)
  \/ \E b \in BOOLEAN : Ask(p, b)

EvidenceNext ==
  \/ \E p \in Tabs : Step(p) \/ GiveUp(p)
  \/ \E p \in Tabs, k \in plan.kinds, q \in Revisions, c \in Contents : Begin(p, k, q, c)
  \/ \E f \in Files, q \in Revisions, v \in Contents \union Revisions \union {None} : Edit(f, q, v)

EvidenceSpec == EvidenceInit /\ [][EvidenceNext]_evidenceVars
-----------------------------------------------------------------------------
(* Properties.                                                              *)

Covers(a, sub, meta, audit) ==
  /\ a.sub = sub /\ a.meta = meta /\ a.audit = audit
  /\ audit.sub = sub /\ audit.meta = meta /\ ~audit.blocks

\* Whatever was saved, edited, audited again or selected in between, an
\* approval on the disk was given for an audit of exactly the submission and
\* the metadata it names, and that audit has no blocking finding
\* (approveCurrentRevision resolves both twice around the gate).
ApprovalIsEarned ==
  \A q \in Revisions : LET a == disk["approval"][q] IN
    There(a) => Covers(a, a.sub, a.meta, a.audit)

OneCandidate(k) ==
  LET m == packages[k].marker IN
  There(m) => /\ packages[k].parts = m
              /\ m["bytes"] = k[2]
              /\ Covers(m["approval"], m["bytes"], m["metadata"], m["audit"])

\* A package with a written completion marker is whole, verifies against its
\* own checksums, and is one approved candidate, never parts of two: of two
\* exports of one submission, of an export and the saves that run meanwhile
\* (writeExportPackage).  What it holds is final.
CompletePackageIsOneCandidate ==
  [][\A k \in Revisions \X Contents :
       /\ OneCandidate(k)'
       /\ There(packages[k].marker) => packages'[k] = packages[k]]_evidenceVars

\* The record the screen showed, or none and an empty file just made.
Seen(p) ==
  \/ Here(p) = call[p].held[Name(p)]
  \/ Here(p) = Empty /\ call[p].held[Name(p)] = None

OfTheFolder(p) ==
  /\ Name(p) = "audit"    => /\ Record(p).sub  = disk["bytes"][call[p].rev]
                             /\ Record(p).meta = disk["metadata"][1]
  /\ Name(p) = "approval" => /\ Record(p).audit = disk["audit"][call[p].rev]
                             /\ disk["master"][1] = Got(p)["master"]
                             /\ disk["master"][1].rev = call[p].rev

\* Undisturbed, no save replaces anything but the record its screen showed, so
\* that what another tab has saved since is not lost; an audit is about the bytes
\* and the metadata the folder holds when it is saved; an approval names the audit
\* the folder holds, and is for the master it holds; and a marker is written over
\* evidence the folder still holds, for the revision that is the master (the
\* snapshot comparisons of the four stores, the last verifyCurrentEvidence).  That
\* the bytes are still those approved is not said: saveApproval does not read them.
WritesAreCurrent ==
  [][\A p \in Tabs : calm =>
       /\ Put(p) => Seen(p) /\ OfTheFolder(p)
       /\ Commit(p) =>
            LET m == disk["master"][1] IN
            /\ \A f \in Parts : disk[f][call[p].rev] = packages'[Key(p)].marker[f]
            /\ Stands(m) /\ m.rev = call[p].rev]_evidenceVars

\* "Reopen the project and select master again" (App.tsx, line 49): a
\* selection that is refused because the record is not the one the screen
\* showed is accepted after the screen is loaded again.
ReloadHelps ==
  [][\A p \in Tabs : Refuse(p) /\ call[p].kind = "master" /\ Name(p) = "master" =>
       Screen(call[p].rev)["master"] # call[p].held["master"]]_evidenceVars
==============================================================================
