-------------------------- MODULE GuidedShellProofs --------------------------
(***************************************************************************)
(* Theorems about GuidedShell for any number of folders, of calls that run  *)
(* at once, of clicks and of edits.  Types, the export flag and the order   *)
(* of manifests hold whatever other programs write; what is said of the     *)
(* gate needs that nobody else writes metadata.                             *)
(***************************************************************************)
EXTENDS GuidedShell, TLAPS

-----------------------------------------------------------------------------
(* Types of the folder, of the screen and of the handlers.                  *)

Opened    == [folder : Folders, man : Nat, asset : BOOLEAN]
Audits    == [n : Nat, folder : Folders \union {Nothing}, meta : Nat, verdict : Verdicts \union {"none", "PASS"}]
Approvals == [n : Nat, folder : Folders \union {Nothing}, meta : Nat, audit : Nat]
Stored    == [man : Nat, asset : BOOLEAN, master : {"none", "ours", "broken"}, meta : Nat,
              audit : Audits, approval : Approvals]
Subs      == [folder : Folders, meta : Nat \ {0}]
Asked     == [sub : Subs \union {Nothing}, audit : Nat, loaded : Nat, previous : Nat]
Found     == [sub : Subs, audit : Audits, approval : Approvals]
Drafts    == [n : Nat, folder : Folders, meta : Nat, verdict : Verdicts \union {"none", "PASS"}, audit : Nat]
Decisions == [source : Opened, external : Opened]
Gates     == {"NOT READY", "STALE", "READY", "APPROVED"}

Screens == [project : Projects, loaded : Nat, submission : Subs \union {Nothing}, audit : Audits,
            approval : Approvals, previous : Nat, gate : Gates, master : {"unknown", "none", "ours"},
            busy : BOOLEAN, exporting : BOOLEAN, written : BOOLEAN, report : {"none", "current", "stale"},
            decision : Decisions \union {Nothing}]

\* What a handler that runs has asked for and got.
HasGot(s, c) ==
  /\ s # "open" => c.project \in Opened
  /\ s = "open"    => c.at \in {"read", "show"} /\ c.kind = "open" /\ c.given \in Folders
                      /\ (c.at = "show" => c.got \in Opened)
  /\ s = "load"    => c.at \in {"read", "show"} /\ c.kind = "load" /\ (c.at = "show" => c.got \in Nat)
  /\ s = "refresh" => c.at \in {"peek", "read", "show"} /\ c.kind = "refresh" /\ c.given \in Nat
                      /\ (c.at = "show" => c.got \in Found)
  /\ s = "check"   => c.at \in {"read", "show"} /\ c.kind = "check" /\ (c.at = "show" => c.got \in Opened)
  /\ s = "inspect" => c.at = "show" /\ c.kind = "inspect"
  /\ s = "save"    => c.at \in {"write", "show"} /\ c.kind = "save" /\ c.given \in Nat
                      /\ (c.at = "show" => c.got \in Nat)
  /\ s = "prepare" => c.at \in {"write", "show"} /\ c.kind = "prepare" /\ (c.at = "show" => c.got \in Opened)
  /\ s \in Ops =>
       /\ c.at \in {"look", "write", "show"} /\ c.kind \in {"audit", "approve", "export"} /\ c.given \in Asked
       /\ c.at = "write" => c.kind # "export" /\ c.got \in Drafts
       /\ c.at = "show" => (c.kind = "audit" => c.got \in Audits) /\ (c.kind = "approve" => c.got \in Approvals)

Labels == {"idle", "look", "read", "peek", "write", "show"}
Data   == Nat \union {"written"} \union Folders \union Projects \union Audits \union Approvals
          \union Asked \union Found \union Drafts
Titles == Singles \union {"none", "audit", "approve", "export"}
Calls  == [kind : Titles, at : Labels, project : Projects, live : BOOLEAN, here : BOOLEAN,
           late : BOOLEAN, given : Data, got : Data]
Books  == [Seats -> Calls]

-----------------------------------------------------------------------------
(* The inductive invariant.                                                 *)

Typed ==
  disk \in [Folders -> Stored] /\ serial \in Nat /\ screen \in Screens /\ call \in Books

Alive(s, c) == IF c.at = "idle" THEN c = Idle ELSE HasGot(s, c)

HereInv ==
  \A s \in Seats : (Running(s) /\ call[s].here /\ s # "open") => screen.project = call[s].project

OneExports ==
  \A o, p \in Ops : (call[o].kind = "export" /\ Counts(o) /\ call[p].kind = "export" /\ Counts(p)) => o = p

\* No file is newer than the last one written, and no manifest that is known of
\* a folder D[f] is newer than the one there.
Known(D, p) == p.man <= D[p.folder].man

\* The call that compares or prepares got a manifest at least as new as its own.
Newer(D, n, s, c) ==
  /\ (c.at # "idle" /\ s # "open") => Known(D, c.project)
  /\ (c.at = "show" /\ s \in {"load", "save"}) => c.got <= n
  /\ (c.at = "show" /\ s = "open") => Known(D, c.got)
  /\ (c.at = "show" /\ s \in {"check", "prepare"}) =>
       /\ Known(D, c.got) /\ c.got.folder = c.project.folder
       /\ c.project.man <= c.got.man

Shown(D, n, S) ==
  /\ S.loaded <= n
  /\ S.project # Nothing => Known(D, S.project)
  /\ S.decision # Nothing =>
       /\ Known(D, S.decision.external) /\ S.decision.external.folder = S.decision.source.folder
       /\ S.decision.source.man <= S.decision.external.man

Dated(D, n) == \A f \in Folders : D[f].man <= n /\ D[f].meta <= n

ShellInv ==
  /\ Typed
  /\ \A s \in Seats : Alive(s, call[s]) /\ Newer(disk, serial, s, call[s])
  /\ Dated(disk, serial) /\ Shown(disk, serial, screen)
  /\ HereInv
  /\ ExportingIsTrue /\ OneExports

-----------------------------------------------------------------------------
(* What the operators on calls do, field by field.                          *)

LEMMA IdleType == Idle \in Calls
<1>1. Nothing \in Data /\ Nothing \in Projects
  BY DEF Data, Projects
<1>2. FALSE \in BOOLEAN /\ "none" \in Titles /\ "idle" \in Labels
  BY DEF Labels, Titles
<1> QED
  BY <1>1, <1>2 DEF Idle, Calls

\* A new call.
LEMMA CallFields ==
  ASSUME NEW k \in Titles, NEW at \in Labels, NEW p \in Projects, NEW given \in Data
  PROVE  /\ Call(k, at, p, given) \in Calls
         /\ Call(k, at, p, given).kind = k /\ Call(k, at, p, given).at = at
         /\ Call(k, at, p, given).project = p /\ Call(k, at, p, given).given = given
         /\ Call(k, at, p, given).live = TRUE /\ Call(k, at, p, given).here = TRUE
         /\ Call(k, at, p, given).late = FALSE
<1>1. TRUE \in BOOLEAN /\ FALSE \in BOOLEAN
  OBVIOUS
<1> QED
  BY IdleType, <1>1 DEF Call, Idle, Calls

\* The same handler, where it was.
Same(c, d) ==
  d.kind = c.kind /\ d.at = c.at /\ d.project = c.project /\ d.given = c.given /\ d.got = c.got

\* Nothing of it changed but that it may count no more.
Kept(c, d) ==
  Same(c, d) /\ (d.live => c.live) /\ (d.here => c.here) /\ (c = Idle => d = Idle)

LEMMA DoneFields ==
  ASSUME NEW C \in Books, NEW s \in Seats
  PROVE  /\ Done(C, s) \in Books
         /\ Done(C, s)[s] = Idle
         /\ \A t \in Seats \ {s} : Done(C, s)[t] = C[t]
BY IdleType DEF Done, Books

LEMMA StaysIdle ==
  ASSUME NEW d \in Calls, Same(Idle, d), ~d.live, ~d.here, ~d.late
  PROVE  d = Idle
<1>1. d.live = FALSE /\ ~d.here /\ d.late = FALSE
  BY DEF Calls
<1> QED
  BY <1>1 DEF Same, Idle, Calls

LEMMA SupersedeFields ==
  ASSUME NEW C \in Books, NEW K
  PROVE  /\ Supersede(C, K) \in Books
         /\ \A s \in Seats :
              LET d == Supersede(C, K)[s] IN
              /\ Same(C[s], d) /\ d.here = C[s].here /\ d.late = C[s].late
              /\ d.live <=> (C[s].live /\ C[s].kind \notin K)
              /\ C[s] = Idle => d = Idle
<1>1. /\ Supersede(C, K) \in Books
      /\ \A s \in Seats :
           LET d == Supersede(C, K)[s] IN
           /\ Same(C[s], d) /\ d.here = C[s].here /\ d.late = C[s].late
           /\ d.live <=> (C[s].live /\ C[s].kind \notin K)
  BY DEF Supersede, Same, Books, Calls
<1>2. ASSUME NEW s \in Seats, C[s] = Idle
      PROVE  Supersede(C, K)[s] = Idle
  <2>1. ~Idle.live /\ ~Idle.here /\ ~Idle.late /\ Supersede(C, K)[s] \in Calls
    BY <1>1 DEF Idle, Books
  <2> QED
    BY <1>1, <1>2, <2>1, StaysIdle
<1> QED
  BY <1>1, <1>2

LEMMA LateFields ==
  ASSUME NEW C \in Books
  PROVE  /\ Late(C) \in Books
         /\ \A s \in Seats :
              LET d == Late(C)[s] IN
              /\ Same(C[s], d) /\ d.here = C[s].here /\ d.live = C[s].live
              /\ (d.late <=> C[s].at # "idle")
              /\ C[s] = Idle => d = Idle
<1>1. /\ Late(C) \in Books
      /\ \A s \in Seats :
           LET d == Late(C)[s] IN
           /\ Same(C[s], d) /\ d.here = C[s].here /\ d.live = C[s].live
           /\ (d.late <=> C[s].at # "idle")
  BY DEF Late, Same, Books, Calls
<1>2. ASSUME NEW s \in Seats, C[s] = Idle
      PROVE  Late(C)[s] = Idle
  <2>1. ~Idle.live /\ ~Idle.here /\ Idle.at = "idle" /\ Late(C)[s] \in Calls
    BY <1>1 DEF Idle, Books
  <2> QED
    BY <1>1, <1>2, <2>1, StaysIdle
<1> QED
  BY <1>1, <1>2

LEMMA LeaveFields ==
  ASSUME NEW C \in Books, NEW K
  PROVE  /\ Leave(C, K) \in Books
         /\ \A s \in Seats :
              LET d == Leave(C, K)[s] IN
              /\ Same(C[s], d) /\ ~d.here
              /\ d.live <=> (C[s].live /\ C[s].kind \notin K)
              /\ (d.late <=> C[s].at # "idle")
              /\ C[s] = Idle => d = Idle
<1> DEFINE S == Supersede(C, K)
           H == [s \in Seats |-> [S[s] EXCEPT !.here = FALSE]]
<1>1. /\ S \in Books
      /\ \A s \in Seats : Same(C[s], S[s]) /\ (S[s].live <=> C[s].live /\ C[s].kind \notin K)
  BY SupersedeFields
<1>2. Leave(C, K) = Late(H)
  BY DEF Leave
<1> HIDE DEF S
<1>3. /\ H \in Books
      /\ \A s \in Seats : Same(S[s], H[s]) /\ H[s].here = FALSE /\ H[s].live = S[s].live
  <2>1. S \in [Seats -> Calls] /\ FALSE \in BOOLEAN
    BY <1>1 DEF Books
  <2>2. \A c \in Calls :
          LET d == [c EXCEPT !.here = FALSE] IN
          d \in Calls /\ Same(c, d) /\ d.here = FALSE /\ d.live = c.live
    BY <2>1 DEF Calls, Same
  <2> QED
    BY <2>1, <2>2 DEF Books
<1> HIDE DEF H
<1>4. /\ Late(H) \in Books
      /\ \A s \in Seats :
           LET d == Late(H)[s] IN
           /\ Same(H[s], d) /\ d.here = H[s].here /\ d.live = H[s].live /\ (d.late <=> H[s].at # "idle")
  BY <1>3, LateFields
<1>5. \A s \in Seats :
        LET d == Late(H)[s] IN
        /\ Same(C[s], d) /\ ~d.here
        /\ (d.live <=> C[s].live /\ C[s].kind \notin K) /\ (d.late <=> C[s].at # "idle")
  BY <1>1, <1>3, <1>4 DEF Same
<1>6. ASSUME NEW s \in Seats, C[s] = Idle
      PROVE  Late(H)[s] = Idle
  <2>1. ~Idle.live /\ Idle.at = "idle" /\ Late(H)[s] \in Calls
    BY <1>4 DEF Idle, Books
  <2> QED
    BY <1>5, <1>6, <2>1, StaysIdle
<1> QED
  BY <1>2, <1>4, <1>5, <1>6

LoadOf(p)       == Call("load", "read", p, 0)
RefreshOf(p, m) == Call("refresh", "peek", p, m)

LEMMA RefreshFields ==
  ASSUME NEW C \in Books, NEW p \in Projects, NEW m \in Nat
  PROVE  /\ Refresh(C, p, m) \in Books
         /\ Refresh(C, p, m)["refresh"] = RefreshOf(p, m)
         /\ \A s \in Seats \ {"refresh"} : Refresh(C, p, m)[s] = C[s]
<1>1. Call("refresh", "peek", p, m) \in Calls
  <2>1. "refresh" \in Titles /\ "peek" \in Labels /\ m \in Data
    BY DEF Labels, Data, Titles, Singles
  <2> QED
    BY <2>1, CallFields
<1> QED
  BY <1>1 DEF Refresh, RefreshOf, Books, Seats, Singles

\* A handler that goes on.
LEMMA GoFields ==
  ASSUME call \in Books, NEW s \in Seats, NEW at \in Labels, NEW got \in Data, Go(s, at, got)
  PROVE  /\ call' \in Books
         /\ \A t \in Seats \ {s} : call'[t] = call[t]
         /\ call'[s].at = at /\ call'[s].got = got
         /\ call'[s].kind = call[s].kind /\ call'[s].project = call[s].project
         /\ call'[s].given = call[s].given /\ call'[s].live = call[s].live
         /\ call'[s].here = call[s].here /\ call'[s].late = call[s].late
<1>1. call' = [call EXCEPT ![s] = [call[s] EXCEPT !.at = at, !.got = got]]
  BY DEF Go, Books, Calls
<1>2. [call[s] EXCEPT !.at = at, !.got = got] \in Calls
  BY DEF Books, Calls
<1> QED
  BY <1>1, <1>2 DEF Books, Calls

\* One that begins.
LEMMA BeginFields ==
  ASSUME call \in Books, NEW s \in Seats, NEW c \in Calls, Begin(s, c)
  PROVE  /\ call' \in Books /\ call'[s] = c
         /\ \A t \in Seats \ {s} : call'[t] = call[t]
BY DEF Begin, Books

-----------------------------------------------------------------------------
(* And those on the screen.                                                 *)

LEMMA QuietFields ==
  ASSUME NEW S \in Screens
  PROVE  /\ Quiet(S) \in Screens
         /\ LET T == Quiet(S) IN
            /\ T.exporting = FALSE /\ T.project = S.project /\ T.loaded = S.loaded
            /\ T.submission = S.submission /\ T.audit = S.audit /\ T.approval = S.approval
            /\ T.previous = S.previous /\ T.gate = S.gate /\ T.report = S.report
            /\ T.decision = S.decision
BY DEF Quiet, Screens

LEMMA EvidenceFields ==
  ASSUME NEW S \in Screens, NEW sub \in Subs \union {Nothing}, NEW a \in Audits, NEW p \in Approvals,
         NEW g \in Gates
  PROVE  /\ Evidence(S, sub, a, p, g) \in Screens
         /\ LET T == Evidence(S, sub, a, p, g) IN
            /\ T.submission = sub /\ T.audit = a /\ T.approval = p /\ T.gate = g
            /\ T.exporting = S.exporting /\ T.project = S.project /\ T.loaded = S.loaded
            /\ T.report = S.report /\ T.decision = S.decision /\ T.written = S.written
BY DEF Evidence, Screens

LEMMA NotReadyFields ==
  ASSUME NEW S \in Screens
  PROVE  /\ NotReady(S) \in Screens
         /\ LET T == NotReady(S) IN
            /\ T.gate = "NOT READY"
            /\ T.exporting = S.exporting /\ T.project = S.project /\ T.loaded = S.loaded
            /\ T.report = S.report /\ T.decision = S.decision
<1>1. NoAudit \in Audits /\ NoApproval \in Approvals /\ "NOT READY" \in Gates
  BY DEF NoAudit, NoApproval, Audits, Approvals, Gates
<1> QED
  BY <1>1 DEF NotReady, Evidence, Screens

LEMMA StaleFields ==
  ASSUME NEW S \in Screens
  PROVE  /\ Stale(S) \in Screens
         /\ LET T == Stale(S) IN
            /\ T.exporting = S.exporting /\ T.project = S.project /\ T.loaded = S.loaded
            /\ T.submission = S.submission /\ T.audit = S.audit /\ T.approval = S.approval
            /\ T.previous = S.previous /\ T.gate = S.gate /\ T.decision = S.decision
BY DEF Stale, Screens

\* READY stands for a passing audit of the metadata, APPROVED for an approval.
LEMMA GateMeans ==
  ASSUME NEW meta, NEW a, NEW p
  PROVE  /\ GateOf(meta, a, p) \in Gates
         /\ GateOf(meta, a, p) = "READY" => a.n # 0 /\ a.meta = meta /\ a.verdict # "FAIL"
         /\ GateOf(meta, a, p) = "APPROVED" => p.n # 0 /\ p.meta = meta
BY DEF GateOf, Gates

-----------------------------------------------------------------------------
(* A step keeps the invariant if it does so for every handler.              *)

LEMMA AliveKept ==
  ASSUME NEW s, NEW c, NEW d, Kept(c, d), Alive(s, c)
  PROVE  Alive(s, d)
BY DEF Kept, Same, Alive, HasGot

\* Files are written, and manifests with ever higher versions.
Grows(D, n, E, m) == n <= m /\ \A f \in Folders : D[f].man <= E[f].man

LEMMA KnownStays ==
  ASSUME NEW D \in [Folders -> Stored], NEW E \in [Folders -> Stored], NEW n \in Nat, NEW m \in Nat,
         Grows(D, n, E, m), NEW p \in Opened, Known(D, p)
  PROVE  Known(E, p)
<1>1. /\ p.man \in Nat /\ p.folder \in Folders
      /\ D[p.folder].man \in Nat /\ E[p.folder].man \in Nat
  BY DEF Opened, Stored
<1> QED
  BY <1>1 DEF Known, Grows

LEMMA NewerKept ==
  ASSUME NEW D \in [Folders -> Stored], NEW E \in [Folders -> Stored], NEW n \in Nat, NEW m \in Nat,
         Grows(D, n, E, m), NEW s \in Seats, NEW c, NEW d, Kept(c, d), Alive(s, c), Newer(D, n, s, c)
  PROVE  Newer(E, m, s, d)
<1>1. \A p \in Opened : Known(D, p) => Known(E, p)
  BY KnownStays
<1>2. \A k \in Nat : k <= n => k <= m
  BY DEF Grows
<1>3. c.at # "idle" => HasGot(s, c)
  BY DEF Alive
<1> QED
  BY <1>1, <1>2, <1>3 DEF Newer, Kept, Same, HasGot

LEMMA ShownStays ==
  ASSUME NEW D \in [Folders -> Stored], NEW E \in [Folders -> Stored], NEW n \in Nat, NEW m \in Nat,
         Grows(D, n, E, m), NEW S \in Screens, Shown(D, n, S)
  PROVE  Shown(E, m, S)
<1>1. \A p \in Opened : Known(D, p) => Known(E, p)
  BY KnownStays
<1>2. S.loaded \in Nat /\ (S.project # Nothing => S.project \in Opened)
      /\ (S.decision # Nothing => S.decision.external \in Opened)
  BY DEF Screens, Projects, Opened, Decisions
<1>3. S.loaded <= n => S.loaded <= m
  BY <1>2 DEF Grows
<1> QED
  BY <1>1, <1>2, <1>3 DEF Shown

\* Each handler is as before, or it is over, or what it does now is in order.
InOrder(t) ==
  \/ Kept(call[t], call'[t]) /\ (call'[t].here => screen'.project = screen.project)
  \/ call'[t] = Idle
  \/ /\ HasGot(t, call'[t]) /\ call'[t].at # "idle" /\ Newer(disk', serial', t, call'[t])
     /\ (call'[t].here /\ t # "open") => screen'.project = call'[t].project

\* The exports that count are those that counted, or there are none.
ExportsStay ==
  /\ screen'.exporting = screen.exporting
  /\ \A o \in Ops : (call'[o].kind = "export" /\ call'[o].live /\ call'[o].here)
                       <=> (call[o].kind = "export" /\ Counts(o))
ExportsOver ==
  /\ screen'.exporting = FALSE
  /\ \A o \in Ops : ~(call'[o].kind = "export" /\ call'[o].live /\ call'[o].here)

LEMMA ExportsTrue ==
  ASSUME ExportingIsTrue, OneExports, ExportsStay \/ ExportsOver
  PROVE  ExportingIsTrue' /\ OneExports'
BY DEF ExportingIsTrue, OneExports, ExportsStay, ExportsOver, Counts

LEMMA InOrderKeeps ==
  ASSUME ShellInv, Typed', Grows(disk, serial, disk', serial'), Dated(disk', serial'),
         Shown(disk', serial', screen'), \A t \in Seats : InOrder(t), ExportingIsTrue', OneExports'
  PROVE  ShellInv'
<1> USE DEF ShellInv
<1>1. ASSUME NEW t \in Seats
      PROVE  Alive(t, call'[t]) /\ Newer(disk', serial', t, call'[t])
  <2>1. CASE Kept(call[t], call'[t])
    BY <2>1, AliveKept, NewerKept DEF Typed
  <2>2. CASE call'[t] = Idle
    BY <2>2 DEF Alive, Newer, Idle
  <2>3. CASE HasGot(t, call'[t]) /\ call'[t].at # "idle" /\ Newer(disk', serial', t, call'[t])
    BY <2>3 DEF Alive
  <2> QED
    BY <2>1, <2>2, <2>3 DEF InOrder
<1>2. HereInv'
  BY DEF HereInv, Running, InOrder, Kept, Same, Idle
<1> QED
  BY <1>1, <1>2

LEMMA KeptSame ==
  ASSUME NEW t \in Seats, call'[t] = call[t], screen'.project = screen.project
  PROVE  InOrder(t)
BY DEF InOrder, Kept, Same

LEMMA ScreenOf ==
  ASSUME Typed
  PROVE  /\ screen.project \in Projects /\ screen.loaded \in Nat /\ screen.submission \in Subs \union {Nothing}
         /\ screen.audit \in Audits /\ screen.audit.n \in Nat
         /\ screen.approval \in Approvals /\ screen.approval.n \in Nat
         /\ screen.previous \in Nat /\ screen.gate \in Gates
         /\ screen.decision \in Decisions \union {Nothing}
         /\ screen.exporting \in BOOLEAN
BY DEF Typed, Screens, Audits, Approvals

LEMMA DiskOf ==
  ASSUME Typed, NEW f \in Folders
  PROVE  /\ disk[f].man \in Nat /\ disk[f].asset \in BOOLEAN /\ disk[f].meta \in Nat
         /\ disk[f].audit \in Audits /\ disk[f].audit.n \in Nat
         /\ disk[f].audit.verdict \in Verdicts \union {"none", "PASS"}
         /\ disk[f].approval \in Approvals /\ disk[f].approval.n \in Nat
         /\ disk[f].master \in {"none", "ours", "broken"}
BY DEF Typed, Stored, Audits, Approvals

LEMMA StandsStill ==
  ASSUME Typed
  PROVE  Grows(disk, serial, disk, serial)
BY DiskOf DEF Grows, Typed

\* A handler other than an audit, an approval or an export goes on; the folder
\* stays, and so does what the screen says of projects and exports.
LEMMA SingleMoves ==
  ASSUME ShellInv, NEW s \in Singles, disk' = disk, serial' = serial, screen' \in Screens,
         screen'.project = screen.project, screen'.loaded = screen.loaded,
         screen'.decision = screen.decision, screen'.exporting = screen.exporting,
         call' \in Books, \A t \in Seats \ {s} : call'[t] = call[t], InOrder(s)
  PROVE  ShellInv'
<1>1. Typed' /\ Grows(disk, serial, disk', serial')
  BY StandsStill DEF ShellInv, Typed
<1>2. Dated(disk', serial') /\ Shown(disk', serial', screen')
  BY DEF ShellInv, Shown
<1>3. \A t \in Seats : InOrder(t)
  BY KeptSame
<1>4. \A o \in Ops : call'[o] = call[o]
  BY ShellAssumption DEF Seats
<1>5. ExportingIsTrue' /\ OneExports'
  <2>1. ExportsStay
    BY <1>4 DEF ExportsStay, Counts
  <2> QED
    BY <2>1, ExportsTrue DEF ShellInv
<1> QED
  BY <1>1, <1>2, <1>3, <1>5, InOrderKeeps

\* What a handler that runs has.
LEMMA Runs ==
  ASSUME ShellInv, NEW s \in Seats, Running(s)
  PROVE  /\ HasGot(s, call[s]) /\ Newer(disk, serial, s, call[s])
         /\ s # "open" =>
              /\ call[s].project \in Opened /\ call[s].project.folder \in Folders
              /\ call[s].project.man \in Nat /\ call[s].project.asset \in BOOLEAN
              /\ call[s].project # Nothing
BY ShellAssumption DEF ShellInv, Alive, Running, HasGot, Opened

-----------------------------------------------------------------------------
(* Opening a project, its metadata and its evidence.                        *)

LEMMA SeatNames ==
  /\ \A s \in Singles : s \in Seats /\ s \notin Ops
  /\ \A o \in Ops : o \in Seats /\ o \notin Singles
  /\ \A s \in {"open", "load", "refresh", "check", "inspect", "save", "prepare"} : s \in Singles
  /\ \A s \in Seats : s \in Singles \/ s \in Ops
BY ShellAssumption DEF Seats, Singles

\* A handler that ends.
LEMMA SingleEnds ==
  ASSUME ShellInv, NEW s \in Singles, disk' = disk, serial' = serial, screen' \in Screens,
         screen'.project = screen.project, screen'.loaded = screen.loaded,
         screen'.decision = screen.decision, screen'.exporting = screen.exporting,
         call' = Done(call, s)
  PROVE  ShellInv'
<1>1. s \in Seats
  BY SeatNames
<1>2. call' \in Books /\ call'[s] = Idle /\ \A t \in Seats \ {s} : call'[t] = call[t]
  BY <1>1, DoneFields DEF ShellInv, Typed
<1>3. InOrder(s)
  BY <1>2 DEF InOrder
<1> QED
  BY <1>2, <1>3, SingleMoves

\* What a change of the project or of metadata starts.
LEMMA LoadStarts ==
  ASSUME NEW p \in Opened, NEW D, NEW n, Known(D, p)
  PROVE  /\ LoadOf(p) \in Calls /\ LoadOf(p).at = "read" /\ LoadOf(p).project = p
         /\ LoadOf(p).kind = "load" /\ ~LoadOf(p).late
         /\ HasGot("load", LoadOf(p)) /\ Newer(D, n, "load", LoadOf(p))
<1>1. "load" \in Titles /\ "read" \in Labels /\ p \in Projects /\ 0 \in Data
  BY DEF Titles, Singles, Labels, Projects, Data, Opened
<1>2. LoadOf(p) \in Calls
  BY <1>1, CallFields DEF LoadOf
<1>3. "load" \notin Ops
  BY SeatNames
<1> QED
  BY <1>2, <1>3 DEF LoadOf, Call, Idle, HasGot, Newer

LEMMA RefreshStarts ==
  ASSUME NEW p \in Opened, NEW D, NEW n, Known(D, p), NEW m \in Nat
  PROVE  /\ RefreshOf(p, m) \in Calls /\ RefreshOf(p, m).at = "peek" /\ RefreshOf(p, m).project = p
         /\ RefreshOf(p, m).kind = "refresh" /\ RefreshOf(p, m).given = m
         /\ RefreshOf(p, m).live /\ RefreshOf(p, m).here /\ ~RefreshOf(p, m).late
         /\ HasGot("refresh", RefreshOf(p, m)) /\ Newer(D, n, "refresh", RefreshOf(p, m))
<1>1. "refresh" \in Titles /\ "peek" \in Labels /\ p \in Projects /\ m \in Data
  BY DEF Titles, Singles, Labels, Projects, Data, Opened
<1>2. RefreshOf(p, m) \in Calls
  BY <1>1, CallFields DEF RefreshOf
<1>3. "refresh" \notin Ops
  BY SeatNames
<1> QED
  BY <1>2, <1>3 DEF RefreshOf, Call, Idle, HasGot, Newer

LEMMA AskOpenKeeps ==
  ASSUME ShellInv, NEW f \in Folders, AskOpen(f)
  PROVE  ShellInv'
<1> DEFINE c == Call("open", "read", Nothing, f)
<1>1. /\ c \in Calls /\ c.kind = "open" /\ c.at = "read" /\ c.given = f
  <2>1. "open" \in Titles /\ "read" \in Labels /\ Nothing \in Projects /\ f \in Data
    BY DEF Titles, Singles, Labels, Projects, Data
  <2>2. c \in Calls
    BY <2>1, CallFields
  <2> QED
    BY <2>2 DEF Call, Idle
<1> HIDE DEF c
<1>2. "open" \in Seats /\ "open" \in Singles /\ "open" \notin Ops
  BY ShellAssumption DEF Seats, Singles
<1>3. /\ call' \in Books /\ call'["open"] = c
      /\ \A t \in Seats \ {"open"} : call'[t] = call[t]
  BY <1>1, <1>2, BeginFields DEF AskOpen, ShellInv, Typed, c
<1>4. InOrder("open")
  BY <1>1, <1>2, <1>3 DEF InOrder, HasGot, Newer
<1> QED
  BY <1>2, <1>3, <1>4, SingleMoves DEF AskOpen, ShellInv, Typed

LEMMA ReadManifestKeeps ==
  ASSUME ShellInv, ReadManifest
  PROVE  ShellInv'
<1> DEFINE f == call["open"].given
           got == [folder |-> f, man |-> disk[f].man, asset |-> disk[f].asset]
<1>1. "open" \in Seats /\ "open" \in Singles /\ "open" \notin Ops /\ "show" \in Labels
  BY ShellAssumption DEF Seats, Singles, Labels
<1>2. HasGot("open", call["open"]) /\ f \in Folders
  BY <1>1, Runs DEF ReadManifest, Running, HasGot
<1>3. got \in Opened /\ got \in Data /\ Known(disk, got)
  BY <1>2, DiskOf DEF Opened, Data, Projects, ShellInv, Known
<1>4. Go("open", "show", got)
  BY DEF ReadManifest
<1> HIDE DEF got
<1>5. /\ call' \in Books /\ \A t \in Seats \ {"open"} : call'[t] = call[t]
      /\ call'["open"].at = "show" /\ call'["open"].got = got
      /\ call'["open"].kind = call["open"].kind /\ call'["open"].given = f
  BY <1>1, <1>3, <1>4, GoFields DEF ShellInv, Typed
<1>6. InOrder("open")
  BY <1>1, <1>2, <1>3, <1>5 DEF InOrder, HasGot, Newer, ReadManifest
<1> QED
  BY <1>1, <1>5, <1>6, SingleMoves DEF ReadManifest, ShellInv, Typed

\* The project is left: no call counts any more but those that start with the
\* next one.  D: the calls without the one that leaves.
Left(D, K) ==
  /\ D \in Books /\ call' \in Books
  /\ \A t \in Seats : D[t] = call[t] \/ D[t] = Idle
  /\ \A t \in Ops \union {"inspect"} : D[t] = call[t]
  /\ \A t \in Seats :
       \/ call'[t] = Leave(D, K)[t]
       \/ t = "load" /\ call'[t] = LoadOf(screen'.project) /\ screen'.project \in Opened
       \/ t = "refresh" /\ call'[t] = RefreshOf(screen'.project, 0) /\ screen'.project \in Opened

LEMMA LeavingKeeps ==
  ASSUME ShellInv, disk' = disk, serial' = serial, screen' \in Screens, Shown(disk, serial, screen'),
         ~screen'.exporting, NEW D, NEW K, Left(D, K)
  PROVE  ShellInv'
<1> DEFINE C == Leave(D, K)
<1>1. /\ C \in Books
      /\ \A t \in Seats :
           /\ Same(D[t], C[t]) /\ ~C[t].here
           /\ C[t].live => D[t].live
           /\ D[t] = Idle => C[t] = Idle
  BY LeaveFields DEF Left
<1> HIDE DEF C
<1>2. ASSUME NEW t \in Seats
      PROVE  InOrder(t)
  <2>1. CASE call'[t] = C[t]
    BY <1>1, <2>1 DEF InOrder, Kept, Left
  <2>2. CASE screen'.project \in Opened
    <3>1. Known(disk, screen'.project)
      BY <2>2, ShellAssumption DEF Shown, Opened
    <3> QED
      BY <2>1, <2>2, <3>1, LoadStarts, RefreshStarts DEF InOrder, Left, C
  <2> QED
    BY <2>1, <2>2 DEF C, Left
<1>3. Typed' /\ Grows(disk, serial, disk', serial') /\ Dated(disk', serial')
  BY StandsStill DEF ShellInv, Typed, Left
<1>4. ExportingIsTrue' /\ OneExports'
  <2>1. ASSUME NEW o \in Ops
        PROVE  ~call'[o].here
    <3>1. o \in Seats /\ o \notin {"load", "refresh"}
      BY SeatNames
    <3> QED
      BY <1>1, <3>1 DEF C, Left
  <2>2. screen'.exporting = FALSE
    BY DEF Screens
  <2> QED
    BY <2>1, <2>2, ExportsTrue DEF ExportsOver, ShellInv
<1> QED
  BY <1>2, <1>3, <1>4, InOrderKeeps

LEMMA ReceiveFields ==
  ASSUME ShellInv, Receive
  PROVE  LET p == call["open"].got IN
         /\ p \in Opened /\ Known(disk, p)
         /\ Left(Done(call, "open"), All) /\ call'["refresh"] = RefreshOf(p, 0)
         /\ screen' \in Screens /\ screen'.project = p /\ screen'.loaded = 0
         /\ screen'.decision = Nothing /\ ~screen'.exporting
<1> DEFINE p == call["open"].got
           D == Done(call, "open")
           C == Leave(D, All)
           L == [C EXCEPT !["load"] = Call("load", "read", p, 0)]
           E == IF p.asset THEN L ELSE C
<1>1. /\ "open" \in Seats /\ "open" \notin Ops /\ "load" \in Seats /\ "refresh" \in Seats
      /\ Ops \union {"inspect"} \subseteq Seats \ {"open"}
  BY SeatNames
<1>2. p \in Opened /\ Known(disk, p) /\ p \in Projects
  BY <1>1, Runs DEF Receive, Running, HasGot, Newer, Opened, Projects
<1>3. D \in Books /\ D["open"] = Idle /\ \A t \in Seats \ {"open"} : D[t] = call[t]
  BY <1>1, DoneFields DEF ShellInv, Typed
<1>4. C \in Books
  BY <1>3, LeaveFields
<1>5. LoadOf(p) \in Calls
  BY <1>2, LoadStarts
<1>6. call' = Refresh(E, p, 0) /\ L = [C EXCEPT !["load"] = LoadOf(p)]
  BY DEF Receive, LoadOf
<1> HIDE DEF p, D, C, L
<1>7. E \in Books /\ \A t \in Seats \ {"load"} : E[t] = C[t]
  BY <1>1, <1>4, <1>5, <1>6 DEF Books
<1>8. E["load"] = C["load"] \/ E["load"] = LoadOf(p)
  BY <1>1, <1>4, <1>6 DEF Books
<1> HIDE DEF E
<1>9. /\ call' \in Books /\ call'["refresh"] = RefreshOf(p, 0)
      /\ \A t \in Seats \ {"refresh"} : call'[t] = E[t]
  BY <1>2, <1>6, <1>7, RefreshFields
<1>10. /\ screen' \in Screens /\ screen'.project = p /\ screen'.loaded = 0
       /\ screen'.decision = Nothing /\ ~screen'.exporting
  <2>1. Quiet(screen) \in Screens /\ ~Quiet(screen).exporting
    BY QuietFields DEF ShellInv, Typed
  <2>2. screen' = [Quiet(screen) EXCEPT !.project = p, !.loaded = 0, !.report = "none",
                                        !.decision = Nothing, !.master = "unknown"]
    BY DEF Receive, p
  <2> QED
    BY <1>2, <2>1, <2>2 DEF Screens
<1>11. Left(D, All)
  BY <1>1, <1>2, <1>3, <1>7, <1>8, <1>9, <1>10 DEF Left, C
<1> QED
  BY <1>2, <1>9, <1>10, <1>11 DEF p, D

LEMMA ReceiveKeeps ==
  ASSUME ShellInv, Receive
  PROVE  ShellInv'
<1> DEFINE p == call["open"].got
<1>1. /\ p \in Opened /\ Known(disk, p) /\ Left(Done(call, "open"), All)
      /\ screen' \in Screens /\ screen'.project = p /\ screen'.loaded = 0
      /\ screen'.decision = Nothing /\ ~screen'.exporting
  BY ReceiveFields
<1>2. disk' = disk /\ serial' = serial
  BY DEF Receive
<1> HIDE DEF p
<1>3. Shown(disk, serial, screen')
  BY <1>1 DEF Shown, ShellInv, Typed
<1> QED
  BY <1>1, <1>2, <1>3, LeavingKeeps

LEMMA ReadMetadataKeeps ==
  ASSUME ShellInv, ReadMetadata
  PROVE  ShellInv'
<1> DEFINE got == disk[call["load"].project.folder].meta
<1>1. "load" \in Seats /\ "load" \in Singles /\ "load" \notin Ops /\ "show" \in Labels
  BY SeatNames DEF Labels
<1>2. /\ HasGot("load", call["load"]) /\ Newer(disk, serial, "load", call["load"])
      /\ call["load"].project.folder \in Folders
  BY <1>1, Runs DEF ReadMetadata, Running
<1>3. got \in Nat /\ got \in Data /\ got <= serial
  BY <1>2, DiskOf DEF Data, ShellInv, Dated
<1>4. Go("load", "show", got)
  BY DEF ReadMetadata
<1> HIDE DEF got
<1>5. /\ call' \in Books /\ \A t \in Seats \ {"load"} : call'[t] = call[t]
      /\ call'["load"].at = "show" /\ call'["load"].got = got
      /\ call'["load"].kind = call["load"].kind /\ call'["load"].project = call["load"].project
      /\ call'["load"].here = call["load"].here
  BY <1>1, <1>3, <1>4, GoFields DEF ShellInv, Typed
<1>6. screen' = screen /\ disk' = disk /\ serial' = serial
  BY DEF ReadMetadata
<1>7. InOrder("load")
  BY <1>1, <1>2, <1>3, <1>5, <1>6 DEF InOrder, HasGot, Newer, ReadMetadata, ShellInv, HereInv, Running
<1> QED
  BY <1>1, <1>5, <1>6, <1>7, SingleMoves DEF ShellInv, Typed

\* New metadata on the screen, or a new revision: the evidence is read again.
LEMMA ShowMetadataKeeps ==
  ASSUME ShellInv, ShowMetadata
  PROVE  ShellInv'
<1> DEFINE c == call["load"]
           D == Done(call, "load")
<1>1. /\ "load" \in Seats /\ "load" \in Singles /\ "load" \notin Ops
      /\ "refresh" \in Seats /\ "refresh" \notin Ops
  BY SeatNames
<1>2. HasGot("load", c) /\ Newer(disk, serial, "load", c) /\ c.project \in Opened /\ c.got \in Nat
  BY <1>1, Runs DEF ShowMetadata, Running, HasGot
<1>3. CASE ~(c.here /\ c.got # 0)
  BY <1>1, <1>3, SingleEnds DEF ShowMetadata, ShellInv, Typed
<1>4. CASE c.here /\ c.got # 0
  <2>1. D \in Books /\ D["load"] = Idle /\ \A t \in Seats \ {"load"} : D[t] = call[t]
    BY <1>1, DoneFields DEF ShellInv, Typed
  <2>2. call' = Refresh(D, c.project, c.got) /\ disk' = disk /\ serial' = serial
    BY <1>4 DEF ShowMetadata
  <2>3. /\ screen' \in Screens /\ screen'.loaded = c.got /\ screen'.project = screen.project
        /\ screen'.decision = screen.decision /\ screen'.exporting = screen.exporting
    <3>1. screen' = [screen EXCEPT !.loaded = c.got, !.master = "unknown"]
      BY <1>4 DEF ShowMetadata
    <3> QED
      BY <1>2, <3>1 DEF ShellInv, Typed, Screens
  <2>4. screen.project = c.project /\ Known(disk, c.project) /\ c.got <= serial
    BY <1>1, <1>2, <1>4 DEF ShowMetadata, ShellInv, HereInv, Running, Newer
  <2> HIDE DEF D
  <2>5. /\ call' \in Books /\ call'["refresh"] = RefreshOf(c.project, c.got)
        /\ \A t \in Seats \ {"refresh"} : call'[t] = D[t]
    <3>1. c.project \in Projects
      BY <1>2 DEF Opened, Projects
    <3> QED
      BY <1>2, <2>1, <2>2, <3>1, RefreshFields
  <2>6. \A t \in Seats : InOrder(t)
    <3>1. InOrder("refresh")
      BY <1>2, <2>2, <2>3, <2>4, <2>5, RefreshStarts DEF InOrder
    <3>2. InOrder("load")
      BY <1>1, <2>1, <2>5 DEF InOrder
    <3>3. \A t \in Seats \ {"load", "refresh"} : InOrder(t)
      BY <2>1, <2>3, <2>5, KeptSame
    <3> QED
      BY <3>1, <3>2, <3>3
  <2>7. Typed' /\ Grows(disk, serial, disk', serial') /\ Dated(disk', serial')
    BY <2>2, <2>3, <2>5, StandsStill DEF ShellInv, Typed
  <2>8. Shown(disk', serial', screen')
    BY <2>2, <2>3, <2>4 DEF Shown, ShellInv
  <2>9. ExportsStay
    BY SeatNames, <2>1, <2>3, <2>5 DEF ExportsStay, Counts
  <2> QED
    BY <2>6, <2>7, <2>8, <2>9, ExportsTrue, InOrderKeeps DEF ShellInv
<1> QED
  BY <1>3, <1>4

\* What a step may do to the screen without touching what the invariant says of it.
SameView(S, T) ==
  T.project = S.project /\ T.loaded = S.loaded /\ T.decision = S.decision /\ T.exporting = S.exporting

LEMMA PeekKeeps ==
  ASSUME ShellInv, Peek
  PROVE  ShellInv'
<1> DEFINE c == call["refresh"]
           m == disk[c.project.folder].master
<1>1. "refresh" \in Seats /\ "refresh" \in Singles /\ "refresh" \notin Ops /\ "read" \in Labels
  BY SeatNames DEF Labels
<1>2. /\ HasGot("refresh", c) /\ Newer(disk, serial, "refresh", c)
      /\ m \in {"none", "ours", "broken"}
  BY <1>1, Runs, DiskOf DEF Peek, Running, ShellInv
<1>3. screen' \in Screens /\ SameView(screen, screen')
  <2> HIDE DEF m
  <2>1. \/ screen' = screen
        \/ screen' = [screen EXCEPT !.gate = "STALE"]
        \/ m # "broken" /\ screen' = [NotReady(screen) EXCEPT !.master = m]
        \/ m # "broken" /\ screen' = [screen EXCEPT !.master = m]
    BY DEF Peek, m
  <2>2. "STALE" \in Gates /\ (m # "broken" => m \in {"unknown", "none", "ours"})
    BY <1>2 DEF Gates
  <2>3. screen \in Screens /\ NotReady(screen) \in Screens /\ SameView(screen, NotReady(screen))
    BY NotReadyFields DEF ShellInv, Typed, SameView
  <2> QED
    BY <2>1, <2>2, <2>3 DEF Screens, SameView
<1>4. disk' = disk /\ serial' = serial
  BY DEF Peek
<1>5. CASE call' = Done(call, "refresh")
  BY <1>1, <1>3, <1>4, <1>5, SingleEnds DEF SameView
<1>6. CASE call' = [call EXCEPT !["refresh"].at = "read"]
  <2>1. /\ call' \in Books /\ \A t \in Seats \ {"refresh"} : call'[t] = call[t]
        /\ call'["refresh"].at = "read" /\ call'["refresh"].project = c.project
        /\ call'["refresh"].kind = c.kind /\ call'["refresh"].given = c.given
        /\ call'["refresh"].here = c.here
    BY <1>1, <1>6 DEF ShellInv, Typed, Books, Calls
  <2>2. InOrder("refresh")
    <3>1. c.here => screen.project = c.project
      BY <1>1 DEF Peek, ShellInv, HereInv, Running
    <3>2. HasGot("refresh", call'["refresh"]) /\ Newer(disk, serial, "refresh", call'["refresh"])
      BY <1>1, <1>2, <2>1 DEF HasGot, Newer
    <3> QED
      BY <1>3, <1>4, <2>1, <3>1, <3>2 DEF InOrder, SameView
  <2> QED
    BY <1>1, <1>3, <1>4, <2>1, <2>2, SingleMoves DEF SameView
<1> QED
  BY <1>5, <1>6 DEF Peek

LEMMA ReadEvidenceKeeps ==
  ASSUME ShellInv, ReadEvidence
  PROVE  ShellInv'
<1> DEFINE c == call["refresh"]
           d == disk[c.project.folder]
           got == [sub |-> [folder |-> c.project.folder, meta |-> d.meta],
                   audit |-> d.audit, approval |-> d.approval]
<1>1. "refresh" \in Seats /\ "refresh" \in Singles /\ "refresh" \notin Ops /\ "show" \in Labels
  BY SeatNames DEF Labels
<1>2. HasGot("refresh", c) /\ Newer(disk, serial, "refresh", c) /\ c.project.folder \in Folders
  BY <1>1, Runs DEF ReadEvidence, Running
<1>3. got \in Found /\ got \in Data
  BY <1>2, DiskOf DEF Found, Subs, Data, ShellInv, ReadEvidence
<1>4. Go("refresh", "show", got)
  BY DEF ReadEvidence
<1> HIDE DEF got
<1>5. /\ call' \in Books /\ \A t \in Seats \ {"refresh"} : call'[t] = call[t]
      /\ call'["refresh"].at = "show" /\ call'["refresh"].got = got
      /\ call'["refresh"].kind = c.kind /\ call'["refresh"].given = c.given
      /\ call'["refresh"].here = c.here /\ call'["refresh"].project = c.project
  BY <1>1, <1>3, <1>4, GoFields DEF ShellInv, Typed
<1>6. screen' = screen /\ disk' = disk /\ serial' = serial
  BY DEF ReadEvidence
<1>7. InOrder("refresh")
  BY <1>1, <1>2, <1>3, <1>5, <1>6 DEF InOrder, HasGot, Newer, ReadEvidence, ShellInv, HereInv, Running
<1> QED
  BY <1>1, <1>5, <1>6, <1>7, SingleMoves DEF ShellInv, Typed

LEMMA ShowEvidenceKeeps ==
  ASSUME ShellInv, ShowEvidence
  PROVE  ShellInv'
<1> DEFINE c == call["refresh"]
           g == c.got
           gate == GateOf(g.sub.meta, g.audit, g.approval)
           S == Evidence(screen, g.sub, g.audit, g.approval, gate)
<1>1. "refresh" \in Seats /\ "refresh" \in Singles /\ "refresh" \notin Ops
  BY SeatNames
<1>2. g \in Found
  BY <1>1, Runs DEF ShowEvidence, Running, HasGot
<1>3. /\ g.sub \in Subs \union {Nothing} /\ g.audit \in Audits /\ g.approval \in Approvals
      /\ g.approval.n \in Nat
  BY <1>2 DEF Found, Approvals
<1>4. gate \in Gates
  BY GateMeans
<1> HIDE DEF gate, g
<1>5. S \in Screens /\ SameView(screen, S)
  BY <1>3, <1>4 DEF ShellInv, Typed, SameView, Evidence, Screens
<1>6. screen' = screen \/ screen' = [S EXCEPT !.previous = g.approval.n]
  BY DEF ShowEvidence, g, gate
<1> HIDE DEF S
<1>7. screen' \in Screens /\ SameView(screen, screen')
  BY <1>3, <1>5, <1>6 DEF Screens, SameView, ShellInv, Typed
<1> QED
  BY <1>1, <1>7, SingleEnds DEF ShowEvidence, SameView

-----------------------------------------------------------------------------
(* Calls that begin, and those that only look.                              *)

\* What the step that is offered says of the screen.
LEMMA StepMeans ==
  /\ Step # "none" => screen.project # Nothing
  /\ Step = "metadata" => screen.loaded = 0
  /\ Step \in {"audit", "approval", "export"} => screen.loaded # 0
BY DEF Step

LEMMA BeginPrepareKeeps ==
  ASSUME ShellInv, BeginPrepare
  PROVE  ShellInv'
<1> DEFINE c == Call("prepare", "write", screen.project, 0)
<1>1. "prepare" \in Seats /\ "prepare" \in Singles /\ "prepare" \notin Ops
  BY SeatNames
<1>2. screen.project \in Opened /\ screen.project # Nothing /\ Known(disk, screen.project)
  BY ScreenOf, StepMeans DEF BeginPrepare, Offered, Projects, Opened, ShellInv, Shown
<1>3. c \in Calls
  <2>1. "prepare" \in Titles /\ "write" \in Labels /\ screen.project \in Projects /\ 0 \in Data
    BY <1>2 DEF Titles, Singles, Labels, Projects, Data, Opened
  <2> QED
    BY <2>1, CallFields
<1>4. c.kind = "prepare" /\ c.at = "write" /\ c.project = screen.project
  BY DEF Call, Idle
<1>5. Begin("prepare", c) /\ disk' = disk /\ screen' = screen /\ serial' = serial
  BY DEF BeginPrepare
<1> HIDE DEF c
<1>6. call' \in Books /\ call'["prepare"] = c /\ \A t \in Seats \ {"prepare"} : call'[t] = call[t]
  BY <1>1, <1>3, <1>5, BeginFields DEF ShellInv, Typed
<1>7. InOrder("prepare")
  BY <1>1, <1>2, <1>4, <1>5, <1>6 DEF InOrder, HasGot, Newer
<1> QED
  BY <1>1, <1>5, <1>6, <1>7, SingleMoves DEF ShellInv, Typed

LEMMA BeginSaveKeeps ==
  ASSUME ShellInv, BeginSave
  PROVE  ShellInv'
<1> DEFINE c == Call("save", "write", screen.project, screen.loaded)
<1>1. "save" \in Seats /\ "save" \in Singles /\ "save" \notin Ops
  BY SeatNames
<1>2. /\ screen.project \in Opened /\ screen.project # Nothing /\ Known(disk, screen.project)
      /\ screen.loaded \in Nat
  BY ScreenOf, StepMeans DEF BeginSave, Offered, Projects, Opened, ShellInv, Shown
<1>3. c \in Calls
  <2>1. /\ "save" \in Titles /\ "write" \in Labels /\ screen.project \in Projects
        /\ screen.loaded \in Data
    BY <1>2 DEF Titles, Singles, Labels, Projects, Data, Opened
  <2> QED
    BY <2>1, CallFields
<1>4. c.kind = "save" /\ c.at = "write" /\ c.project = screen.project /\ c.given = screen.loaded
  BY DEF Call, Idle
<1>5. Begin("save", c) /\ disk' = disk /\ screen' = screen /\ serial' = serial
  BY DEF BeginSave
<1> HIDE DEF c
<1>6. call' \in Books /\ call'["save"] = c /\ \A t \in Seats \ {"save"} : call'[t] = call[t]
  BY <1>1, <1>3, <1>5, BeginFields DEF ShellInv, Typed
<1>7. InOrder("save")
  BY <1>1, <1>2, <1>4, <1>5, <1>6 DEF InOrder, HasGot, Newer
<1> QED
  BY <1>1, <1>5, <1>6, <1>7, SingleMoves DEF ShellInv, Typed

LEMMA BeginCheckKeeps ==
  ASSUME ShellInv, BeginCheck
  PROVE  ShellInv'
<1> DEFINE c == Call("check", "read", screen.project, 0)
<1>1. "check" \in Seats /\ "check" \in Singles /\ "check" \notin Ops
  BY SeatNames
<1>2. screen.project \in Opened /\ screen.project # Nothing /\ Known(disk, screen.project)
  BY ScreenOf DEF BeginCheck, Projects, Opened, ShellInv, Shown
<1>3. c \in Calls
  <2>1. "check" \in Titles /\ "read" \in Labels /\ screen.project \in Projects /\ 0 \in Data
    BY <1>2 DEF Titles, Singles, Labels, Projects, Data, Opened
  <2> QED
    BY <2>1, CallFields
<1>4. c.kind = "check" /\ c.at = "read" /\ c.project = screen.project
  BY DEF Call, Idle
<1>5. Begin("check", c) /\ disk' = disk /\ screen' = screen /\ serial' = serial
  BY DEF BeginCheck
<1> HIDE DEF c
<1>6. call' \in Books /\ call'["check"] = c /\ \A t \in Seats \ {"check"} : call'[t] = call[t]
  BY <1>1, <1>3, <1>5, BeginFields DEF ShellInv, Typed
<1>7. InOrder("check")
  BY <1>1, <1>2, <1>4, <1>5, <1>6 DEF InOrder, HasGot, Newer
<1> QED
  BY <1>1, <1>5, <1>6, <1>7, SingleMoves DEF ShellInv, Typed

LEMMA ReadExternalKeeps ==
  ASSUME ShellInv, ReadExternal
  PROVE  ShellInv'
<1> DEFINE p == call["check"].project
           d == disk[p.folder]
           got == [folder |-> p.folder, man |-> d.man, asset |-> d.asset]
<1>1. "check" \in Seats /\ "check" \in Singles /\ "check" \notin Ops /\ "show" \in Labels
  BY SeatNames DEF Labels
<1>2. /\ HasGot("check", call["check"]) /\ Newer(disk, serial, "check", call["check"])
      /\ p.folder \in Folders
  BY <1>1, Runs DEF ReadExternal, Running
<1>3. /\ got \in Opened /\ got \in Data /\ Known(disk, got) /\ got.folder = p.folder
      /\ got.man = d.man
  <2>1. d.man \in Nat /\ d.asset \in BOOLEAN
    BY <1>2, DiskOf DEF ShellInv
  <2>2. got \in Opened
    BY <1>2, <2>1 DEF Opened
  <2>3. got \in Data
    BY <2>2 DEF Data, Projects, Opened
  <2>4. Known(disk, got)
    BY <1>2, <2>1 DEF Known
  <2> QED
    BY <2>2, <2>3, <2>4
<1>4. p.man <= d.man
  BY <1>1, <1>2 DEF Newer, Known, ReadExternal
<1>5. screen' = screen /\ disk' = disk /\ serial' = serial
  BY DEF ReadExternal
<1>6. CASE d.man = p.man
  BY <1>1, <1>5, <1>6, SingleEnds DEF ReadExternal, ShellInv, Typed
<1>7. CASE d.man # p.man
  <2>1. Go("check", "show", got)
    BY <1>7 DEF ReadExternal
  <2> HIDE DEF got
  <2>2. /\ call' \in Books /\ \A t \in Seats \ {"check"} : call'[t] = call[t]
        /\ call'["check"].at = "show" /\ call'["check"].got = got
        /\ call'["check"].kind = call["check"].kind /\ call'["check"].project = p
        /\ call'["check"].here = call["check"].here
    BY <1>1, <1>3, <2>1, GoFields DEF ShellInv, Typed
  <2>3. HasGot("check", call'["check"]) /\ Newer(disk, serial, "check", call'["check"])
    BY <1>1, <1>2, <1>3, <1>4, <2>2 DEF HasGot, Newer
  <2>4. InOrder("check")
    BY <1>1, <1>5, <2>2, <2>3 DEF InOrder, ReadExternal, ShellInv, HereInv, Running
  <2> QED
    BY <1>1, <1>5, <2>2, <2>4, SingleMoves DEF ShellInv, Typed
<1> QED
  BY <1>6, <1>7

LEMMA ShowDecisionKeeps ==
  ASSUME ShellInv, ShowDecision
  PROVE  ShellInv'
<1> DEFINE c == call["check"]
           q == [source |-> c.project, external |-> c.got]
<1>1. "check" \in Seats /\ "check" \in Singles /\ "check" \notin Ops
  BY SeatNames
<1>2. /\ HasGot("check", c) /\ Newer(disk, serial, "check", c)
      /\ c.project \in Opened /\ c.got \in Opened
  BY <1>1, Runs DEF ShowDecision, Running, HasGot
<1>3. /\ q \in Decisions /\ q.source = c.project /\ q.external = c.got
  BY <1>2 DEF Decisions
<1> HIDE DEF q
<1>4. screen' = [screen EXCEPT !.decision = q] \/ screen' = screen
  BY DEF ShowDecision, q, ShellInv, Typed, Screens
<1>5. /\ screen' \in Screens /\ screen'.project = screen.project
      /\ screen'.loaded = screen.loaded /\ screen'.exporting = screen.exporting
      /\ screen'.decision = q \/ screen'.decision = screen.decision
  BY <1>3, <1>4 DEF ShellInv, Typed, Screens
<1>6. call' = Done(call, "check") /\ disk' = disk /\ serial' = serial
  BY DEF ShowDecision
<1>7. call' \in Books /\ call'["check"] = Idle /\ \A t \in Seats \ {"check"} : call'[t] = call[t]
  BY <1>1, <1>6, DoneFields DEF ShellInv, Typed
<1>8. \A t \in Seats : InOrder(t)
  <2>1. InOrder("check")
    BY <1>7 DEF InOrder
  <2> QED
    BY <1>5, <1>7, <2>1, KeptSame
<1>9. Typed' /\ Grows(disk, serial, disk', serial') /\ Dated(disk', serial')
  BY <1>5, <1>6, <1>7, StandsStill DEF ShellInv, Typed
<1>10. Shown(disk', serial', screen')
  BY <1>1, <1>2, <1>3, <1>5, <1>6 DEF Shown, ShellInv, Newer, ShowDecision
<1>11. ExportsStay
  BY SeatNames, <1>1, <1>5, <1>7 DEF ExportsStay, Counts
<1> QED
  BY <1>8, <1>9, <1>10, <1>11, ExportsTrue, InOrderKeeps DEF ShellInv

LEMMA ShowInspectKeeps ==
  ASSUME ShellInv, ShowInspect
  PROVE  ShellInv'
<1>1. "inspect" \in Singles
  BY SeatNames
<1>2. screen' \in Screens /\ SameView(screen, screen')
  BY DEF ShowInspect, ShellInv, Typed, Screens, SameView
<1> QED
  BY <1>1, <1>2, SingleEnds DEF ShowInspect, SameView

\* A call that begins may supersede others.
LEMMA SupersedingKeeps ==
  ASSUME ShellInv, NEW s \in Seats, NEW K, NEW c \in Calls,
         call' = [Supersede(call, K) EXCEPT ![s] = c]
  PROVE  /\ call' \in Books /\ call'[s] = c
         /\ \A t \in Seats \ {s} :
              /\ Kept(call[t], call'[t]) /\ (call'[t].here <=> call[t].here)
              /\ call'[t].live <=> call[t].live /\ call[t].kind \notin K
              /\ call'[t].late <=> call[t].late
<1> DEFINE S == Supersede(call, K)
<1>1. /\ S \in Books
      /\ \A t \in Seats :
           /\ Same(call[t], S[t]) /\ S[t].here = call[t].here /\ S[t].late = call[t].late
           /\ S[t].live <=> (call[t].live /\ call[t].kind \notin K)
           /\ call[t] = Idle => S[t] = Idle
  BY SupersedeFields DEF ShellInv, Typed
<1> HIDE DEF S
<1>2. call' = [S EXCEPT ![s] = c]
  BY DEF S
<1>3. call' \in Books /\ call'[s] = c /\ \A t \in Seats \ {s} : call'[t] = S[t]
  BY <1>1, <1>2 DEF Books
<1> QED
  BY <1>1, <1>3 DEF Kept

LEMMA BeginInspectKeeps ==
  ASSUME ShellInv, BeginInspect
  PROVE  ShellInv'
<1> DEFINE c == Call("inspect", "show", screen.project, 0)
<1>1. "inspect" \in Seats /\ "inspect" \in Singles /\ "inspect" \notin Ops
  BY SeatNames
<1>2. screen.project \in Opened /\ screen.project # Nothing /\ Known(disk, screen.project)
  BY ScreenOf, StepMeans DEF BeginInspect, Offered, Projects, Opened, ShellInv, Shown
<1>3. c \in Calls
  <2>1. "inspect" \in Titles /\ "show" \in Labels /\ screen.project \in Projects /\ 0 \in Data
    BY <1>2 DEF Titles, Singles, Labels, Projects, Data, Opened
  <2> QED
    BY <2>1, CallFields
<1>4. c.kind = "inspect" /\ c.at = "show" /\ c.project = screen.project
  BY DEF Call, Idle
<1>5. /\ call' = [Supersede(call, Preflights) EXCEPT !["inspect"] = c]
      /\ disk' = disk /\ serial' = serial
  BY DEF BeginInspect
<1>6. screen' \in Screens /\ SameView(screen, screen')
  BY DEF BeginInspect, ShellInv, Typed, Screens, SameView
<1> HIDE DEF c
<1>7. /\ call' \in Books /\ call'["inspect"] = c
      /\ \A t \in Seats \ {"inspect"} :
           /\ Kept(call[t], call'[t]) /\ (call'[t].here <=> call[t].here)
           /\ call'[t].live <=> call[t].live /\ call[t].kind \notin Preflights
  BY <1>1, <1>3, <1>5, SupersedingKeeps
<1>8. \A t \in Seats : InOrder(t)
  <2>1. InOrder("inspect")
    BY <1>1, <1>2, <1>4, <1>5, <1>6, <1>7 DEF InOrder, HasGot, Newer, SameView
  <2>2. \A t \in Seats \ {"inspect"} : InOrder(t)
    BY <1>6, <1>7 DEF InOrder, SameView
  <2> QED
    BY <2>1, <2>2
<1>9. Typed' /\ Grows(disk, serial, disk', serial') /\ Dated(disk', serial')
  BY <1>5, <1>6, <1>7, StandsStill DEF ShellInv, Typed
<1>10. Shown(disk', serial', screen')
  BY <1>5, <1>6 DEF Shown, ShellInv, SameView
<1>11. ExportsStay
  <2>1. \A o \in Ops : Kept(call[o], call'[o]) /\ (call'[o].here <=> call[o].here)
                       /\ (call'[o].live <=> call[o].live /\ call[o].kind \notin Preflights)
    BY SeatNames, <1>1, <1>7
  <2> QED
    BY <1>6, <2>1 DEF ExportsStay, Counts, Kept, Same, Preflights, SameView
<1> QED
  BY <1>8, <1>9, <1>10, <1>11, ExportsTrue, InOrderKeeps DEF ShellInv

-----------------------------------------------------------------------------
(* Audits, approvals and exports.                                           *)

LEMMA BeginOpKeeps ==
  ASSUME ShellInv, NEW o \in Ops, NEW step \in DOMAIN Kinds, BeginOp(o, step)
  PROVE  ShellInv'
<1> DEFINE asked == [sub |-> screen.submission, audit |-> screen.audit.n, loaded |-> screen.loaded,
                     previous |-> IF step = "audit" /\ screen.approval.n # 0 THEN screen.approval.n
                                                                             ELSE screen.previous]
           c == Call(KindOf(step), "look", screen.project, asked)
<1>1. o \in Seats /\ o \notin Singles
  BY SeatNames
<1>2. /\ step \in {"audit", "approval", "export"}
      /\ KindOf(step) \in {"audit", "approve", "export"} /\ (KindOf(step) = "export" <=> step = "export")
      /\ step = "export" => Kinds[step] = {"export"}
      /\ step # "export" => "export" \notin Kinds[step]
  BY DEF Kinds, KindOf, Preflights
<1>3. screen.project \in Opened /\ screen.project # Nothing /\ Known(disk, screen.project)
  BY <1>2, ScreenOf, StepMeans DEF BeginOp, Offered, Projects, Opened, ShellInv, Shown
<1>4. asked \in Asked
  BY ScreenOf DEF Asked, ShellInv
<1>5. /\ call' = [Supersede(call, Kinds[step]) EXCEPT ![o] = c]
      /\ disk' = disk /\ serial' = serial /\ call[o] = Idle
  BY <1>1 DEF BeginOp, Free, Running, ShellInv, Alive
<1> HIDE DEF asked
<1>6. c \in Calls
  <2>1. KindOf(step) \in Titles /\ "look" \in Labels /\ screen.project \in Projects /\ asked \in Data
    BY <1>2, <1>3, <1>4 DEF Titles, Singles, Labels, Projects, Data, Opened
  <2> QED
    BY <2>1, CallFields
<1>7. /\ c.kind = KindOf(step) /\ c.at = "look" /\ c.project = screen.project /\ c.given = asked
      /\ c.live /\ c.here
  BY DEF Call, Idle
<1>8. /\ screen' \in Screens /\ screen'.project = screen.project /\ screen'.loaded = screen.loaded
      /\ screen'.decision = screen.decision
      /\ step # "export" => screen'.exporting = screen.exporting
      /\ step = "export" => screen'.exporting
  <2>1. TRUE \in BOOLEAN /\ FALSE \in BOOLEAN
    OBVIOUS
  <2> QED
    BY <2>1 DEF BeginOp, ShellInv, Typed, Screens
<1> HIDE DEF c
<1>9. /\ call' \in Books /\ call'[o] = c
      /\ \A t \in Seats \ {o} :
           /\ Kept(call[t], call'[t]) /\ (call'[t].here <=> call[t].here)
           /\ call'[t].live <=> call[t].live /\ call[t].kind \notin Kinds[step]
  BY <1>1, <1>5, <1>6, SupersedingKeeps
<1>10. \A t \in Seats : InOrder(t)
  <2>1. HasGot(o, c) /\ Newer(disk, serial, o, c)
    BY <1>1, <1>2, <1>3, <1>4, <1>7 DEF HasGot, Newer, Singles
  <2>2. InOrder(o)
    BY <1>5, <1>7, <1>8, <1>9, <2>1 DEF InOrder
  <2>3. \A t \in Seats \ {o} : InOrder(t)
    BY <1>8, <1>9 DEF InOrder
  <2> QED
    BY <2>2, <2>3
<1>11. Typed' /\ Grows(disk, serial, disk', serial') /\ Dated(disk', serial')
  BY <1>5, <1>8, <1>9, StandsStill DEF ShellInv, Typed
<1>12. Shown(disk', serial', screen')
  BY <1>5, <1>8 DEF Shown, ShellInv
<1>13. ExportingIsTrue' /\ OneExports'
  <2>1. \A p \in Ops \ {o} :
          /\ Kept(call[p], call'[p]) /\ (call'[p].here <=> call[p].here)
          /\ (call'[p].live <=> call[p].live /\ call[p].kind \notin Kinds[step])
    BY SeatNames, <1>9
  <2>2. CASE step = "export"
    <3>1. \A p \in Ops \ {o} : ~(call'[p].kind = "export" /\ call'[p].live)
      BY <1>2, <2>1, <2>2 DEF Kept, Same
    <3>2. call'[o].kind = "export" /\ call'[o].live /\ call'[o].here
      BY <1>2, <1>7, <1>9, <2>2
    <3> QED
      BY <1>8, <2>2, <3>1, <3>2 DEF ExportingIsTrue, OneExports, Counts
  <2>3. CASE step # "export"
    <3>1. call'[o].kind # "export" /\ call[o].kind # "export"
      BY <1>2, <1>5, <1>7, <1>9, <2>3 DEF Idle
    <3>2. ExportsStay
      BY <1>2, <1>8, <2>1, <2>3, <3>1 DEF ExportsStay, Counts, Kept, Same
    <3> QED
      BY <3>2, ExportsTrue DEF ShellInv
  <2> QED
    BY <2>2, <2>3
<1> QED
  BY <1>10, <1>11, <1>12, <1>13, InOrderKeeps

\* One of them goes on, and the folder may have a new record.
LEMMA OpMoves ==
  ASSUME ShellInv, NEW o \in Ops, screen' = screen, disk' \in [Folders -> Stored], serial' \in Nat,
         serial <= serial', \A f \in Folders : disk'[f].man = disk[f].man /\ disk'[f].meta = disk[f].meta,
         Running(o), call' \in Books, \A t \in Seats \ {o} : call'[t] = call[t], call'[o].at # "idle",
         call'[o].project = call[o].project, call'[o].kind = call[o].kind,
         call'[o].live = call[o].live, call'[o].here = call[o].here, HasGot(o, call'[o])
  PROVE  ShellInv'
<1>1. o \in Seats /\ o \notin Singles /\ o # "open"
  BY SeatNames DEF Singles
<1>2. Typed' /\ Grows(disk, serial, disk', serial')
  BY DiskOf DEF ShellInv, Typed, Grows
<1>3. Dated(disk', serial')
  BY DiskOf DEF ShellInv, Dated, Typed
<1>4. Shown(disk', serial', screen')
  BY <1>2, ShownStays DEF ShellInv, Typed
<1>5. Newer(disk', serial', o, call'[o])
  <2>1. Known(disk, call[o].project) /\ call[o].project \in Opened
    BY <1>1, Runs DEF Newer, Running
  <2>2. Known(disk', call[o].project)
    BY <1>2, <2>1, KnownStays DEF ShellInv, Typed
  <2> QED
    BY <1>1, <2>2 DEF Newer, Singles
<1>6. \A t \in Seats : InOrder(t)
  <2>1. InOrder(o)
    BY <1>1, <1>5 DEF InOrder, ShellInv, HereInv
  <2> QED
    BY <2>1, KeptSame
<1>7. ExportsStay
  BY SeatNames DEF ExportsStay, Counts
<1> QED
  BY <1>2, <1>3, <1>4, <1>6, <1>7, ExportsTrue, InOrderKeeps DEF ShellInv

LEMMA LookKeeps ==
  ASSUME ShellInv, NEW o \in Ops, Look(o)
  PROVE  ShellInv'
<1> DEFINE c == call[o]
           d == disk[c.project.folder]
<1>1. o \in Seats /\ o \notin Singles /\ o # "open" /\ "show" \in Labels /\ "write" \in Labels
  BY SeatNames DEF Labels, Singles
<1>2. Running(o)
  BY DEF Look, Running
<1>3. HasGot(o, c) /\ c.project.folder \in Folders
  BY <1>1, <1>2, Runs
<1>4. screen' = screen /\ disk' = disk /\ serial' = serial /\ serial <= serial
  BY DEF Look, ShellInv, Typed
<1>5. CASE c.kind = "export"
  <2>1. Go(o, "show", "written") /\ "written" \in Data
    BY <1>5 DEF Look, Data
  <2>2. /\ call' \in Books /\ \A t \in Seats \ {o} : call'[t] = call[t]
        /\ call'[o].at = "show" /\ call'[o].project = c.project /\ call'[o].kind = c.kind
        /\ call'[o].given = c.given /\ call'[o].live = c.live /\ call'[o].here = c.here
    BY <1>1, <2>1, GoFields DEF ShellInv, Typed
  <2>3. HasGot(o, call'[o])
    BY <1>1, <1>3, <1>5, <2>2 DEF HasGot, Singles
  <2> QED
    BY <1>2, <1>4, <2>2, <2>3, OpMoves DEF ShellInv, Typed
<1>6. CASE c.kind # "export"
  <2>1. PICK v \in Verdicts : Go(o, "write", [n |-> 0, folder |-> c.project.folder, meta |-> d.meta,
                                               verdict |-> v, audit |-> d.audit.n])
    BY <1>6 DEF Look
  <2> DEFINE got == [n |-> 0, folder |-> c.project.folder, meta |-> d.meta,
                     verdict |-> v, audit |-> d.audit.n]
  <2>2. got \in Drafts /\ got \in Data
    BY <1>3, DiskOf DEF Drafts, Data, ShellInv
  <2>3. Go(o, "write", got)
    BY <2>1
  <2> HIDE DEF got
  <2>4. /\ call' \in Books /\ \A t \in Seats \ {o} : call'[t] = call[t]
        /\ call'[o].at = "write" /\ call'[o].project = c.project /\ call'[o].kind = c.kind
        /\ call'[o].given = c.given /\ call'[o].live = c.live /\ call'[o].here = c.here
        /\ call'[o].got = got
    BY <1>1, <2>2, <2>3, GoFields DEF ShellInv, Typed
  <2>5. HasGot(o, call'[o])
    BY <1>1, <1>3, <1>6, <2>2, <2>4 DEF HasGot, Singles
  <2> QED
    BY <1>2, <1>4, <2>4, <2>5, OpMoves DEF ShellInv, Typed
<1> QED
  BY <1>5, <1>6

\* The records that are written.
LEMMA RecordTypes ==
  ASSUME Typed, NEW r \in Drafts
  PROVE  AsAudit(r) \in Audits /\ AsApproval(r) \in Approvals
BY DEF AsAudit, AsApproval, Drafts, Audits, Approvals, Typed

LEMMA PutRecordKeeps ==
  ASSUME ShellInv, NEW o \in Ops, PutRecord(o)
  PROVE  ShellInv'
<1> DEFINE c == call[o]
           f == c.project.folder
           a == AsAudit(c.got)
           p == AsApproval(c.got)
           r == IF c.kind = "audit" THEN a ELSE p
           field == IF c.kind = "audit" THEN "audit" ELSE "approval"
<1>1. o \in Seats /\ o \notin Singles /\ o # "open" /\ "show" \in Labels
  BY SeatNames DEF Labels, Singles
<1>2. Running(o)
  BY DEF PutRecord, Running
<1>3. HasGot(o, c) /\ f \in Folders /\ c.got \in Drafts
  BY <1>1, <1>2, Runs DEF HasGot, PutRecord
<1>4. a \in Audits /\ p \in Approvals
  BY <1>3, RecordTypes DEF ShellInv
<1>5. /\ Go(o, "show", r) /\ Write(f, field, r) /\ screen' = screen
  BY DEF PutRecord
<1> HIDE DEF a, p
<1>6. r \in Data
  BY <1>4 DEF Data
<1>7. /\ call' \in Books /\ \A t \in Seats \ {o} : call'[t] = call[t]
      /\ call'[o].at = "show" /\ call'[o].project = c.project /\ call'[o].kind = c.kind
      /\ call'[o].given = c.given /\ call'[o].live = c.live /\ call'[o].here = c.here
      /\ call'[o].got = r
  BY <1>1, <1>5, <1>6, GoFields DEF ShellInv, Typed
<1>8. HasGot(o, call'[o])
  BY <1>1, <1>3, <1>4, <1>7 DEF HasGot, Singles
<1>9. /\ disk' \in [Folders -> Stored] /\ serial' = serial + 1
      /\ \A g \in Folders : disk'[g].man = disk[g].man /\ disk'[g].meta = disk[g].meta
  <2>1. CASE c.kind = "audit"
    <3>1. disk' = [disk EXCEPT ![f] = [disk[f] EXCEPT !.audit = a]] /\ serial' = serial + 1
      BY <1>3, <1>5, <2>1 DEF Write, ShellInv, Typed, Stored
    <3>2. [disk[f] EXCEPT !.audit = a] \in Stored
      BY <1>3, <1>4 DEF ShellInv, Typed, Stored
    <3> QED
      BY <1>3, <3>1, <3>2 DEF ShellInv, Typed, Stored
  <2>2. CASE c.kind # "audit"
    <3>1. disk' = [disk EXCEPT ![f] = [disk[f] EXCEPT !.approval = p]] /\ serial' = serial + 1
      BY <1>3, <1>5, <2>2 DEF Write, ShellInv, Typed, Stored
    <3>2. [disk[f] EXCEPT !.approval = p] \in Stored
      BY <1>3, <1>4 DEF ShellInv, Typed, Stored
    <3> QED
      BY <1>3, <3>1, <3>2 DEF ShellInv, Typed, Stored
  <2> QED
    BY <2>1, <2>2
<1>10. serial' \in Nat /\ serial <= serial'
  BY <1>9 DEF ShellInv, Typed
<1> QED
  BY <1>2, <1>5, <1>7, <1>8, <1>9, <1>10, OpMoves

\* The finally blocks.
LEMMA EndedFields ==
  ASSUME ShellInv, NEW o
  PROVE  LET S == Ended(screen, o) IN
         /\ S \in Screens
         /\ S.project = screen.project /\ S.loaded = screen.loaded /\ S.decision = screen.decision
         /\ S.submission = screen.submission /\ S.audit = screen.audit /\ S.approval = screen.approval
         /\ S.previous = screen.previous /\ S.gate = screen.gate /\ S.written = screen.written
         /\ S.report = screen.report
         /\ S.exporting <=> screen.exporting /\ ~(call[o].kind = "export" /\ Counts(o))
<1>1. \/ call[o].kind # "export" /\ Ended(screen, o) = [screen EXCEPT !.busy = FALSE]
      \/ call[o].kind = "export" /\ Counts(o) /\ Ended(screen, o) = [screen EXCEPT !.exporting = FALSE]
      \/ ~(call[o].kind = "export" /\ Counts(o)) /\ Ended(screen, o) = screen
  BY DEF Ended
<1>2. FALSE \in BOOLEAN /\ screen \in Screens
  BY DEF ShellInv, Typed
<1> QED
  BY <1>1, <1>2 DEF Screens

LEMMA OpEnds ==
  ASSUME ShellInv, NEW o \in Ops, screen' \in Screens, disk' = disk, serial' = serial,
         screen'.project = screen.project, screen'.loaded = screen.loaded,
         screen'.decision = screen.decision,
         screen'.exporting <=> screen.exporting /\ ~(call[o].kind = "export" /\ Counts(o)),
         call' = Done(call, o)
  PROVE  ShellInv'
<1>1. o \in Seats
  BY SeatNames
<1>2. call' \in Books /\ call'[o] = Idle /\ \A t \in Seats \ {o} : call'[t] = call[t]
  BY <1>1, DoneFields DEF ShellInv, Typed
<1>3. \A t \in Seats : InOrder(t)
  <2>1. InOrder(o)
    BY <1>2 DEF InOrder
  <2> QED
    BY <1>2, <2>1, KeptSame
<1>4. Typed' /\ Grows(disk, serial, disk', serial') /\ Dated(disk', serial')
  BY <1>2, StandsStill DEF ShellInv, Typed
<1>5. Shown(disk', serial', screen')
  BY DEF Shown, ShellInv
<1>6. ExportingIsTrue' /\ OneExports'
  <2>1. \A p \in Ops \ {o} : call'[p] = call[p]
    BY SeatNames, <1>2
  <2>2. call'[o].kind # "export"
    BY <1>2 DEF Idle
  <2> QED
    BY <2>1, <2>2 DEF ExportingIsTrue, OneExports, Counts, ShellInv
<1> QED
  BY <1>3, <1>4, <1>5, <1>6, InOrderKeeps

LEMMA ShowOpKeeps ==
  ASSUME ShellInv, NEW o \in Ops, ShowOp(o)
  PROVE  ShellInv'
<1> DEFINE c == call[o]
           S == Ended(screen, o)
           gate == GateOf(c.given.sub.meta, c.got, NoApproval)
           E == Evidence(S, S.submission, c.got, NoApproval, gate)
<1>1. o \in Seats /\ o \notin Singles
  BY SeatNames
<1>2. HasGot(o, c)
  BY <1>1, Runs DEF ShowOp, Running
<1>3. /\ c.given.previous \in Nat
      /\ c.kind = "audit" => c.got \in Audits
      /\ c.kind = "approve" => c.got \in Approvals /\ c.got.n \in Nat
  BY <1>2 DEF HasGot, ShowOp, Asked, Approvals
<1>4. /\ S \in Screens /\ S.submission \in Subs \union {Nothing}
      /\ S.project = screen.project /\ S.loaded = screen.loaded /\ S.decision = screen.decision
      /\ S.exporting <=> screen.exporting /\ ~(call[o].kind = "export" /\ Counts(o))
  BY EndedFields, ScreenOf DEF ShellInv
<1>5. gate \in Gates /\ NoApproval \in Approvals /\ "APPROVED" \in Gates /\ TRUE \in BOOLEAN
  BY GateMeans DEF NoApproval, Approvals, Gates
<1>6. \/ screen' = S
      \/ c.kind = "audit" /\ screen' = [E EXCEPT !.previous = c.given.previous]
      \/ c.kind = "approve" /\ screen' = [S EXCEPT !.approval = c.got, !.previous = c.got.n, !.gate = "APPROVED"]
      \/ screen' = [S EXCEPT !.written = TRUE]
  BY <1>2 DEF ShowOp, HasGot
<1> HIDE DEF S, gate
<1>7. c.kind = "audit" => E \in Screens /\ SameView(S, E)
  BY <1>3, <1>4, <1>5 DEF Evidence, Screens, SameView
<1> HIDE DEF E
<1>8. screen' \in Screens /\ SameView(S, screen')
  <2>1. CASE screen' = S
    BY <1>4, <2>1 DEF SameView
  <2>2. CASE c.kind = "audit" /\ screen' = [E EXCEPT !.previous = c.given.previous]
    BY <1>3, <1>7, <2>2 DEF Screens, SameView
  <2>3. CASE /\ c.kind = "approve"
             /\ screen' = [S EXCEPT !.approval = c.got, !.previous = c.got.n, !.gate = "APPROVED"]
    <3>1. c.got \in Approvals /\ c.got.n \in Nat /\ "APPROVED" \in Gates
      BY <1>3, <1>5, <2>3
    <3> QED
      BY <1>4, <2>3, <3>1 DEF Screens, SameView
  <2>4. CASE screen' = [S EXCEPT !.written = TRUE]
    BY <1>4, <1>5, <2>4 DEF Screens, SameView
  <2> QED
    BY <1>6, <2>1, <2>2, <2>3, <2>4
<1> QED
  BY <1>4, <1>8, OpEnds DEF ShowOp, SameView

LEMMA GiveUpKeeps ==
  ASSUME ShellInv, NEW s \in Seats, GiveUp(s)
  PROVE  ShellInv'
<1> DEFINE found == GateOf(disk[call[s].project.folder].meta, disk[call[s].project.folder].audit, NoApproval)
<1>1. call' = Done(call, s) /\ disk' = disk /\ serial' = serial
  BY DEF GiveUp
<1>2. CASE s \in Singles
  <2>1. s \notin Ops
    BY <1>2, SeatNames
  <2>2. screen' = screen \/ screen' = NotReady(screen)
    BY <2>1 DEF GiveUp
  <2>3. screen' \in Screens /\ SameView(screen, screen')
    BY <2>2, NotReadyFields DEF ShellInv, Typed, SameView
  <2> QED
    BY <1>1, <1>2, <2>3, SingleEnds DEF SameView
<1>3. CASE s \in Ops
  <2>1. s # "refresh"
    BY <1>3, SeatNames
  <2>2. screen' = Ended(screen, s) \/ screen' = [Ended(screen, s) EXCEPT !.gate = found]
    BY <1>3, <2>1 DEF GiveUp
  <2>3. found \in Gates
    BY GateMeans
  <2> HIDE DEF found
  <2>4. /\ Ended(screen, s) \in Screens
        /\ Ended(screen, s).project = screen.project /\ Ended(screen, s).loaded = screen.loaded
        /\ Ended(screen, s).decision = screen.decision
        /\ Ended(screen, s).exporting <=> screen.exporting /\ ~(call[s].kind = "export" /\ Counts(s))
    BY EndedFields
  <2>5. screen' \in Screens /\ SameView(Ended(screen, s), screen')
    BY <2>2, <2>3, <2>4 DEF Screens, SameView
  <2> QED
    BY <1>1, <1>3, <2>4, <2>5, OpEnds DEF SameView
<1> QED
  BY <1>2, <1>3, SeatNames

-----------------------------------------------------------------------------
(* What writes a manifest or metadata, and what shows it.                   *)

LEMMA SingleWrites ==
  ASSUME ShellInv, NEW s \in Singles, screen' = screen, disk' \in [Folders -> Stored], serial' \in Nat,
         Grows(disk, serial, disk', serial'), Dated(disk', serial'),
         call' \in Books, \A t \in Seats \ {s} : call'[t] = call[t], InOrder(s)
  PROVE  ShellInv'
<1>1. Typed'
  BY DEF ShellInv, Typed
<1>2. Shown(disk', serial', screen')
  BY ShownStays DEF ShellInv, Typed
<1>3. \A t \in Seats : InOrder(t)
  BY KeptSame
<1>4. ExportsStay
  <2>1. \A o \in Ops : call'[o] = call[o]
    BY SeatNames
  <2> QED
    BY <2>1 DEF ExportsStay, Counts
<1> QED
  BY <1>1, <1>2, <1>3, <1>4, ExportsTrue, InOrderKeeps DEF ShellInv

LEMMA PutRevisionKeeps ==
  ASSUME ShellInv, PutRevision
  PROVE  ShellInv'
<1> DEFINE c == call["prepare"]
           f == c.project.folder
           p == [c.project EXCEPT !.asset = TRUE, !.man = serial + 1]
           r == [disk[f] EXCEPT !.man = serial + 1, !.asset = TRUE]
<1>1. /\ "prepare" \in Seats /\ "prepare" \in Singles /\ "prepare" \notin Ops /\ "show" \in Labels
  BY SeatNames DEF Labels
<1>2. /\ HasGot("prepare", c) /\ Newer(disk, serial, "prepare", c) /\ c.project \in Opened
      /\ f \in Folders
  BY <1>1, Runs DEF PutRevision, Running
<1>3. serial \in Nat /\ serial + 1 \in Nat /\ serial <= serial + 1 /\ TRUE \in BOOLEAN
  BY DEF ShellInv, Typed
<1>4. p \in Opened /\ p.folder = f /\ p.man = serial + 1
  BY <1>2, <1>3 DEF Opened
<1>5. p \in Data
  BY <1>4 DEF Data, Projects, Opened
<1>6. /\ Go("prepare", "show", p) /\ serial' = serial + 1 /\ screen' = screen
      /\ disk' = [disk EXCEPT ![p.folder].man = p.man, ![p.folder].asset = TRUE]
  BY DEF PutRevision
<1> HIDE DEF p
<1>7. r \in Stored /\ r.man = serial + 1 /\ r.meta = disk[f].meta
  <2>1. disk[f] \in Stored
    BY <1>2 DEF ShellInv, Typed
  <2> QED
    BY <1>3, <2>1 DEF Stored
<1>8. disk' = [disk EXCEPT ![f] = r]
  BY <1>2, <1>4, <1>6 DEF ShellInv, Typed, Stored
<1> HIDE DEF r
<1>9. disk' \in [Folders -> Stored] /\ disk'[f] = r /\ \A g \in Folders \ {f} : disk'[g] = disk[g]
  BY <1>2, <1>7, <1>8 DEF ShellInv, Typed
<1>10. \A g \in Folders : /\ disk[g].man \in Nat /\ disk[g].meta \in Nat
                          /\ disk[g].man <= serial /\ disk[g].meta <= serial
  BY DiskOf DEF ShellInv, Dated
<1>11. Grows(disk, serial, disk', serial') /\ Dated(disk', serial')
  <2>1. \A g \in Folders : /\ disk[g].man <= disk'[g].man
                           /\ disk'[g].man <= serial + 1 /\ disk'[g].meta <= serial + 1
    <3>1. disk'[f].man = serial + 1 /\ disk'[f].meta = disk[f].meta
      BY <1>7, <1>9
    <3> QED
      BY <1>2, <1>3, <1>9, <1>10, <3>1
  <2> QED
    BY <1>3, <1>6, <2>1 DEF Grows, Dated
<1>12. /\ call' \in Books /\ \A t \in Seats \ {"prepare"} : call'[t] = call[t]
       /\ call'["prepare"].at = "show" /\ call'["prepare"].got = p
       /\ call'["prepare"].kind = c.kind /\ call'["prepare"].project = c.project
       /\ call'["prepare"].here = c.here
  BY <1>1, <1>5, <1>6, GoFields DEF ShellInv, Typed
<1>13. HasGot("prepare", call'["prepare"])
  BY <1>1, <1>2, <1>4, <1>12 DEF HasGot
<1>14. Newer(disk', serial', "prepare", call'["prepare"])
  <2>1. Known(disk, c.project) /\ c.project.man \in Nat
    BY <1>1, <1>2 DEF Newer, PutRevision, Opened
  <2>2. Known(disk', c.project)
    <3>1. serial' \in Nat /\ disk \in [Folders -> Stored]
      BY <1>3, <1>6 DEF ShellInv, Typed
    <3> QED
      BY <1>2, <1>3, <1>9, <1>11, <2>1, <3>1, KnownStays
  <2>3. c.project.man <= serial + 1
    BY <1>2, <1>3, <1>10, <2>1 DEF Known
  <2>4. p.man <= disk'[p.folder].man
    BY <1>3, <1>4, <1>7, <1>9
  <2> QED
    BY <1>4, <1>12, <2>2, <2>3, <2>4 DEF Newer, Known
<1>15. InOrder("prepare")
  BY <1>1, <1>6, <1>12, <1>13, <1>14 DEF InOrder, PutRevision, ShellInv, HereInv, Running
<1> QED
  BY <1>1, <1>3, <1>6, <1>9, <1>11, <1>12, <1>15, SingleWrites

LEMMA PutMetadataKeeps ==
  ASSUME ShellInv, PutMetadata
  PROVE  ShellInv'
<1> DEFINE c == call["save"]
           f == c.project.folder
           r == [disk[f] EXCEPT !.meta = serial + 1]
<1>1. /\ "save" \in Seats /\ "save" \in Singles /\ "save" \notin Ops /\ "show" \in Labels
  BY SeatNames DEF Labels
<1>2. /\ HasGot("save", c) /\ Newer(disk, serial, "save", c) /\ c.project \in Opened
      /\ f \in Folders
  BY <1>1, Runs DEF PutMetadata, Running
<1>3. serial \in Nat /\ serial + 1 \in Nat /\ serial <= serial + 1
  BY DEF ShellInv, Typed
<1>4. serial + 1 \in Data
  BY <1>3 DEF Data
<1>5. Go("save", "show", serial + 1) /\ Write(f, "meta", serial + 1) /\ screen' = screen
  BY DEF PutMetadata
<1>6. r \in Stored /\ r.man = disk[f].man /\ r.meta = serial + 1
  BY <1>2, <1>3 DEF ShellInv, Typed, Stored
<1>7. disk' = [disk EXCEPT ![f] = r] /\ serial' = serial + 1
  BY <1>2, <1>5 DEF Write, ShellInv, Typed, Stored
<1> HIDE DEF r
<1>8. disk' \in [Folders -> Stored] /\ disk'[f] = r /\ \A g \in Folders \ {f} : disk'[g] = disk[g]
  BY <1>2, <1>6, <1>7 DEF ShellInv, Typed
<1>9. \A g \in Folders : /\ disk[g].man \in Nat /\ disk[g].meta \in Nat
                         /\ disk[g].man <= serial /\ disk[g].meta <= serial
  BY DiskOf DEF ShellInv, Dated
<1>10. Grows(disk, serial, disk', serial') /\ Dated(disk', serial')
  BY <1>3, <1>6, <1>7, <1>8, <1>9 DEF Grows, Dated
<1>11. /\ call' \in Books /\ \A t \in Seats \ {"save"} : call'[t] = call[t]
       /\ call'["save"].at = "show" /\ call'["save"].got = serial + 1
       /\ call'["save"].kind = c.kind /\ call'["save"].project = c.project
       /\ call'["save"].here = c.here /\ call'["save"].given = c.given
  BY <1>1, <1>4, <1>5, GoFields DEF ShellInv, Typed
<1>12. HasGot("save", call'["save"])
  BY <1>1, <1>2, <1>3, <1>11 DEF HasGot
<1>13. Newer(disk', serial', "save", call'["save"])
  <2>1. Known(disk, c.project)
    BY <1>1, <1>2 DEF Newer, PutMetadata
  <2>2. Known(disk', c.project)
    <3>1. serial' \in Nat /\ disk \in [Folders -> Stored]
      BY <1>3, <1>7 DEF ShellInv, Typed
    <3> QED
      BY <1>2, <1>3, <1>8, <1>10, <2>1, <3>1, KnownStays
  <2> QED
    BY <1>3, <1>7, <1>11, <2>2 DEF Newer
<1>14. InOrder("save")
  BY <1>1, <1>5, <1>11, <1>12, <1>13 DEF InOrder, PutMetadata, ShellInv, HereInv, Running
<1> QED
  BY <1>1, <1>3, <1>5, <1>7, <1>8, <1>10, <1>11, <1>14, SingleWrites

LEMMA ShowRevisionFields ==
  ASSUME ShellInv, ShowRevision, call["prepare"].here
  PROVE  LET p == call["prepare"].got IN
         /\ p \in Opened /\ Known(disk, p)
         /\ p.folder = screen.project.folder /\ screen.project.man <= p.man
         /\ Left(Done(call, "prepare"), Outdated) /\ call'["refresh"] = RefreshOf(p, 0)
         /\ screen' \in Screens /\ screen'.project = p /\ screen'.loaded = screen.loaded
         /\ screen'.decision = screen.decision /\ ~screen'.exporting
<1> DEFINE c == call["prepare"]
           p == c.got
           D == Done(call, "prepare")
           C == Leave(D, Outdated)
<1>1. /\ "prepare" \in Seats /\ "prepare" \notin Ops /\ "refresh" \in Seats
      /\ Ops \union {"inspect"} \subseteq Seats \ {"prepare"}
  BY SeatNames
<1>2. /\ p \in Opened /\ p \in Projects /\ Known(disk, p)
      /\ p.folder = c.project.folder /\ c.project.man <= p.man /\ screen.project = c.project
  BY <1>1, Runs DEF ShowRevision, Running, HasGot, Opened, Projects, Newer, ShellInv, HereInv
<1>3. D \in Books /\ D["prepare"] = Idle /\ \A t \in Seats \ {"prepare"} : D[t] = call[t]
  BY <1>1, DoneFields DEF ShellInv, Typed
<1>4. C \in Books
  BY <1>3, LeaveFields
<1>5. call' = Refresh(C, p, 0)
  BY DEF ShowRevision
<1> HIDE DEF C, D, p
<1>6. /\ call' \in Books /\ call'["refresh"] = RefreshOf(p, 0)
      /\ \A t \in Seats \ {"refresh"} : call'[t] = C[t]
  BY <1>2, <1>4, <1>5, RefreshFields
<1>7. /\ screen' \in Screens /\ screen'.project = p /\ screen'.loaded = screen.loaded
      /\ screen'.decision = screen.decision /\ ~screen'.exporting
  <2> DEFINE S == Stale(Quiet(screen))
  <2>1. Quiet(screen) \in Screens /\ ~Quiet(screen).exporting /\ Quiet(screen).loaded = screen.loaded
        /\ Quiet(screen).decision = screen.decision
    BY QuietFields DEF ShellInv, Typed
  <2>2. S \in Screens /\ ~S.exporting /\ S.loaded = screen.loaded /\ S.decision = screen.decision
    BY <2>1, StaleFields
  <2>3. screen' = [S EXCEPT !.project = p, !.master = "unknown"]
    BY DEF ShowRevision, p
  <2> HIDE DEF S
  <2> QED
    BY <1>2, <2>2, <2>3 DEF Screens
<1>8. Left(D, Outdated)
  BY <1>1, <1>2, <1>3, <1>6, <1>7 DEF Left, C
<1> QED
  BY <1>2, <1>6, <1>7, <1>8 DEF p, D

LEMMA ShowRevisionKeeps ==
  ASSUME ShellInv, ShowRevision
  PROVE  ShellInv'
<1> DEFINE p == call["prepare"].got
<1>1. disk' = disk /\ serial' = serial
  BY DEF ShowRevision
<1>2. CASE ~call["prepare"].here
  BY <1>1, <1>2, SeatNames, SingleEnds DEF ShowRevision, ShellInv, Typed
<1>3. CASE call["prepare"].here
  <2>1. /\ p \in Opened /\ Known(disk, p) /\ Left(Done(call, "prepare"), Outdated)
        /\ screen' \in Screens /\ screen'.project = p /\ screen'.loaded = screen.loaded
        /\ screen'.decision = screen.decision /\ ~screen'.exporting
    BY <1>3, ShowRevisionFields
  <2> HIDE DEF p
  <2>2. Shown(disk, serial, screen')
    BY <2>1 DEF Shown, ShellInv
  <2> QED
    BY <1>1, <2>1, <2>2, LeavingKeeps
<1> QED
  BY <1>2, <1>3

\* How a saved version reaches the other calls: what is outdated is superseded,
\* and if the version is new to the screen, all that ran is late.
Saved(c) ==
  LET D == Supersede(Done(call, "save"), Outdated) IN IF c.got = screen.loaded THEN D ELSE Late(D)

LEMMA SavedFields ==
  ASSUME ShellInv, NEW c
  PROVE  /\ Saved(c) \in Books /\ Saved(c)["save"] = Idle
         /\ \A t \in Seats \ {"save"} :
              /\ Same(call[t], Saved(c)[t]) /\ (Saved(c)[t].here <=> call[t].here)
              /\ Saved(c)[t].live <=> (call[t].live /\ call[t].kind \notin Outdated)
              /\ Saved(c)[t].late <=> IF c.got = screen.loaded THEN call[t].late ELSE call[t].at # "idle"
              /\ call[t] = Idle => Saved(c)[t] = Idle
<1> DEFINE C == Done(call, "save")
           D == Supersede(C, Outdated)
<1>1. "save" \in Seats
  BY SeatNames
<1>2. C \in Books /\ C["save"] = Idle /\ \A t \in Seats \ {"save"} : C[t] = call[t]
  BY <1>1, DoneFields DEF ShellInv, Typed
<1>3. Saved(c) = IF c.got = screen.loaded THEN D ELSE Late(D)
  BY DEF Saved
<1> HIDE DEF C
<1>4. /\ D \in Books
      /\ \A t \in Seats :
           /\ Same(C[t], D[t]) /\ D[t].here = C[t].here /\ D[t].late = C[t].late
           /\ D[t].live <=> (C[t].live /\ C[t].kind \notin Outdated)
           /\ C[t] = Idle => D[t] = Idle
  BY <1>2, SupersedeFields
<1> HIDE DEF D
<1>5. /\ Late(D) \in Books
      /\ \A t \in Seats :
           LET d == Late(D)[t] IN
           /\ Same(D[t], d) /\ d.here = D[t].here /\ d.live = D[t].live
           /\ (d.late <=> D[t].at # "idle")
           /\ D[t] = Idle => d = Idle
  BY <1>4, LateFields
<1>6. CASE c.got = screen.loaded
  BY <1>1, <1>2, <1>3, <1>4, <1>6
<1>7. CASE c.got # screen.loaded
  BY <1>1, <1>2, <1>3, <1>4, <1>5, <1>7 DEF Same
<1> QED
  BY <1>6, <1>7

LEMMA ShowSavedFields ==
  ASSUME ShellInv, ShowSaved, call["save"].here
  PROVE  LET c == call["save"] IN
         /\ call' \in Books /\ call'["save"] = Idle
         /\ call'["refresh"] = RefreshOf(c.project, c.got)
         /\ \A t \in Seats \ {"save", "refresh"} :
              /\ Same(call[t], call'[t]) /\ (call'[t].here <=> call[t].here)
              /\ call'[t].live <=> (call[t].live /\ call[t].kind \notin Outdated)
              /\ call'[t].late <=> IF c.got = screen.loaded THEN call[t].late ELSE call[t].at # "idle"
              /\ call[t] = Idle => call'[t] = Idle
         /\ screen' \in Screens /\ screen'.project = screen.project /\ screen'.loaded = c.got
         /\ screen'.decision = screen.decision /\ screen'.exporting = FALSE /\ screen'.gate = "STALE"
<1> DEFINE c == call["save"]
<1>1. "save" \in Seats /\ "refresh" \in Seats /\ "save" \notin Ops
  BY SeatNames
<1>2. c.got \in Nat /\ c.project \in Projects
  BY <1>1, Runs DEF ShowSaved, Running, HasGot, Opened, Projects
<1>3. call' = Refresh(Saved(c), c.project, c.got)
  BY DEF ShowSaved, Saved
<1>4. /\ Saved(c) \in Books /\ Saved(c)["save"] = Idle
      /\ \A t \in Seats \ {"save"} :
           /\ Same(call[t], Saved(c)[t]) /\ (Saved(c)[t].here <=> call[t].here)
           /\ Saved(c)[t].live <=> (call[t].live /\ call[t].kind \notin Outdated)
           /\ Saved(c)[t].late <=> IF c.got = screen.loaded THEN call[t].late ELSE call[t].at # "idle"
           /\ call[t] = Idle => Saved(c)[t] = Idle
  BY SavedFields
<1>5. /\ call' \in Books /\ call'["refresh"] = RefreshOf(c.project, c.got)
      /\ \A t \in Seats \ {"refresh"} : call'[t] = Saved(c)[t]
  BY <1>2, <1>3, <1>4, RefreshFields
<1>6. /\ screen' \in Screens /\ screen'.project = screen.project /\ screen'.loaded = c.got
      /\ screen'.decision = screen.decision /\ screen'.exporting = FALSE /\ screen'.gate = "STALE"
  <2> DEFINE Q == Stale(Quiet(screen))
             E == Evidence(Q, screen.submission, NoAudit, NoApproval, "STALE")
  <2>1. /\ Quiet(screen) \in Screens /\ ~Quiet(screen).exporting
        /\ Quiet(screen).project = screen.project /\ Quiet(screen).decision = screen.decision
    BY QuietFields DEF ShellInv, Typed
  <2>2. /\ Q \in Screens /\ ~Q.exporting /\ Q.project = screen.project /\ Q.decision = screen.decision
    BY <2>1, StaleFields
  <2> HIDE DEF Q
  <2>3. /\ screen.submission \in Subs \union {Nothing} /\ "STALE" \in Gates
        /\ NoAudit \in Audits /\ NoApproval \in Approvals
    BY ScreenOf DEF ShellInv, NoAudit, NoApproval, Audits, Approvals, Gates
  <2>4. /\ E \in Screens /\ ~E.exporting /\ E.project = screen.project
        /\ E.decision = screen.decision /\ E.gate = "STALE"
    BY <2>2, <2>3 DEF Evidence, Screens
  <2>5. screen' = [E EXCEPT !.loaded = c.got, !.previous = 0, !.master = "unknown"]
    BY DEF ShowSaved, Q
  <2> HIDE DEF E
  <2> QED
    BY <1>2, <2>4, <2>5 DEF Screens
<1> QED
  BY <1>1, <1>4, <1>5, <1>6

LEMMA ShowSavedKeeps ==
  ASSUME ShellInv, ShowSaved
  PROVE  ShellInv'
<1> DEFINE c == call["save"]
<1>1. /\ "save" \in Seats /\ "save" \in Singles /\ "save" \notin Ops
      /\ "refresh" \in Seats /\ "refresh" \notin Ops
  BY SeatNames
<1>2. disk' = disk /\ serial' = serial
  BY DEF ShowSaved
<1>3. CASE ~c.here
  BY <1>1, <1>2, <1>3, SingleEnds DEF ShowSaved, ShellInv, Typed
<1>4. CASE c.here
  <2>1. /\ HasGot("save", c) /\ c.project \in Opened /\ c.got \in Nat /\ c.got <= serial
        /\ Known(disk, c.project) /\ screen.project = c.project
    BY <1>1, <1>4, Runs DEF ShowSaved, Running, HasGot, Newer, ShellInv, HereInv
  <2>2. /\ call' \in Books /\ call'["save"] = Idle
        /\ call'["refresh"] = RefreshOf(c.project, c.got)
        /\ \A t \in Seats \ {"save", "refresh"} :
             /\ Same(call[t], call'[t]) /\ (call'[t].here <=> call[t].here)
             /\ call'[t].live <=> (call[t].live /\ call[t].kind \notin Outdated)
             /\ call[t] = Idle => call'[t] = Idle
        /\ screen' \in Screens /\ screen'.project = screen.project /\ screen'.loaded = c.got
        /\ screen'.decision = screen.decision /\ screen'.exporting = FALSE
    BY <1>4, ShowSavedFields
  <2>3. \A t \in Seats : InOrder(t)
    <3>1. InOrder("refresh")
      BY <1>2, <2>1, <2>2, RefreshStarts DEF InOrder
    <3>2. InOrder("save")
      BY <2>2 DEF InOrder
    <3>3. \A t \in Seats \ {"save", "refresh"} : InOrder(t)
      BY <2>2 DEF InOrder, Kept
    <3> QED
      BY <3>1, <3>2, <3>3
  <2>4. Typed' /\ Grows(disk, serial, disk', serial') /\ Dated(disk', serial')
    BY <1>2, <2>2, StandsStill DEF ShellInv, Typed
  <2>5. Shown(disk', serial', screen')
    BY <1>2, <2>1, <2>2 DEF Shown, ShellInv
  <2>6. ExportsOver
    <3>1. ASSUME NEW o \in Ops
          PROVE  ~(call'[o].kind = "export" /\ call'[o].live)
      <4>1. o \in Seats \ {"save", "refresh"}
        BY <1>1, SeatNames
      <4> QED
        BY <2>2, <4>1 DEF Same, Outdated
    <3> QED
      BY <2>2, <3>1 DEF ExportsOver
  <2> QED
    BY <2>3, <2>4, <2>5, <2>6, ExportsTrue, InOrderKeeps DEF ShellInv
<1> QED
  BY <1>3, <1>4

-----------------------------------------------------------------------------
(* Reloading, dismissing, closing, and what others do.                      *)

LEMMA ReloadFields ==
  ASSUME ShellInv, Reload
  PROVE  LET p == screen.decision.external IN
         /\ p \in Opened /\ Known(disk, p)
         /\ p.folder = screen.project.folder /\ screen.project.man <= p.man
         /\ Left(call, All)
         /\ screen' \in Screens /\ screen'.project = p /\ screen'.loaded = 0
         /\ screen'.decision = Nothing /\ ~screen'.exporting /\ screen'.gate = "NOT READY"
<1> DEFINE p == screen.decision.external
           C == Leave(call, All)
<1>1. "load" \in Seats /\ "refresh" \in Seats
  BY SeatNames
<1>2. /\ p \in Opened /\ p \in Projects /\ Known(disk, p)
      /\ p.folder = screen.project.folder /\ screen.project.man <= p.man
  BY ScreenOf DEF Reload, SameProject, Decisions, Opened, Projects, ShellInv, Shown
<1>3. C \in Books
  BY LeaveFields DEF ShellInv, Typed
<1>4. \/ call' = [C EXCEPT !["load"] = LoadOf(p)]
      \/ call' = Refresh(C, p, 0)
  BY DEF Reload, LoadOf
<1>5. /\ screen' \in Screens /\ screen'.project = p /\ screen'.loaded = 0 /\ screen'.decision = Nothing
      /\ ~screen'.exporting /\ screen'.gate = "NOT READY"
  <2> DEFINE S == NotReady(Quiet(screen))
  <2>1. Quiet(screen) \in Screens /\ ~Quiet(screen).exporting
    BY QuietFields DEF ShellInv, Typed
  <2>2. S \in Screens /\ ~S.exporting /\ S.gate = "NOT READY"
    BY <2>1, NotReadyFields
  <2>3. PICK m \in {S.master, "unknown"} :
          screen' = [S EXCEPT !.project = p, !.loaded = 0, !.previous = 0, !.decision = Nothing, !.master = m]
    BY DEF Reload
  <2> HIDE DEF S
  <2>4. S.master \in {"unknown", "none", "ours"}
    BY <2>2 DEF Screens
  <2> QED
    BY <1>2, <2>2, <2>3, <2>4 DEF Screens
<1> HIDE DEF p, C
<1>6. LoadOf(p) \in Calls
  BY <1>2, LoadStarts
<1>7. /\ call' \in Books
      /\ \A t \in Seats :
           \/ call'[t] = C[t]
           \/ t = "load" /\ call'[t] = LoadOf(p)
           \/ t = "refresh" /\ call'[t] = RefreshOf(p, 0)
  <2>1. CASE call' = [C EXCEPT !["load"] = LoadOf(p)]
    BY <1>1, <1>3, <1>6, <2>1 DEF Books
  <2>2. CASE call' = Refresh(C, p, 0)
    BY <1>2, <1>3, <2>2, RefreshFields
  <2> QED
    BY <1>4, <2>1, <2>2
<1>8. Left(call, All)
  BY <1>2, <1>5, <1>7 DEF Left, C, ShellInv, Typed
<1> QED
  BY <1>2, <1>5, <1>8 DEF p

LEMMA ReloadKeeps ==
  ASSUME ShellInv, Reload
  PROVE  ShellInv'
<1> DEFINE p == screen.decision.external
<1>1. /\ p \in Opened /\ Known(disk, p) /\ Left(call, All)
      /\ screen' \in Screens /\ screen'.project = p /\ screen'.loaded = 0
      /\ screen'.decision = Nothing /\ ~screen'.exporting
  BY ReloadFields
<1>2. disk' = disk /\ serial' = serial
  BY DEF Reload
<1> HIDE DEF p
<1>3. Shown(disk, serial, screen')
  BY <1>1 DEF Shown, ShellInv, Typed
<1> QED
  BY <1>1, <1>2, <1>3, LeavingKeeps

LEMMA DismissKeeps ==
  ASSUME ShellInv, Dismiss
  PROVE  ShellInv'
<1>1. /\ screen' \in Screens /\ screen'.project = screen.project /\ screen'.loaded = screen.loaded
      /\ screen'.decision = Nothing /\ screen'.exporting = screen.exporting
  BY DEF Dismiss, ShellInv, Typed, Screens
<1>2. disk' = disk /\ serial' = serial /\ call' = call
  BY DEF Dismiss
<1>3. Typed' /\ Grows(disk, serial, disk', serial') /\ Dated(disk', serial')
  BY <1>1, <1>2, StandsStill DEF ShellInv, Typed
<1>4. Shown(disk', serial', screen')
  BY <1>1, <1>2 DEF Shown, ShellInv
<1>5. \A t \in Seats : InOrder(t)
  BY <1>1, <1>2, KeptSame
<1>6. ExportsStay
  BY <1>1, <1>2 DEF ExportsStay, Counts
<1> QED
  BY <1>3, <1>4, <1>5, <1>6, ExportsTrue, InOrderKeeps DEF ShellInv

LEMMA CloseFields ==
  ASSUME ShellInv, Close
  PROVE  /\ Left(call, All)
         /\ screen' \in Screens /\ screen'.project = Nothing /\ screen'.loaded = 0
         /\ screen'.decision = screen.decision /\ ~screen'.exporting /\ screen'.gate = "NOT READY"
<1>1. /\ screen' \in Screens /\ screen'.project = Nothing /\ screen'.loaded = 0
      /\ screen'.decision = screen.decision /\ ~screen'.exporting /\ screen'.gate = "NOT READY"
  <2> DEFINE S == NotReady(Quiet(screen))
  <2>1. /\ Quiet(screen) \in Screens /\ ~Quiet(screen).exporting
        /\ Quiet(screen).decision = screen.decision
    BY QuietFields DEF ShellInv, Typed
  <2>2. S \in Screens /\ ~S.exporting /\ S.decision = screen.decision /\ S.gate = "NOT READY"
    BY <2>1, NotReadyFields
  <2>3. screen' = [S EXCEPT !.project = Nothing, !.loaded = 0, !.previous = 0, !.report = "none"]
    BY DEF Close
  <2> HIDE DEF S
  <2>4. Nothing \in Projects
    BY DEF Projects
  <2> QED
    BY <2>2, <2>3, <2>4 DEF Screens
<1>2. call' = Leave(call, All) /\ call' \in Books
  BY LeaveFields DEF Close, ShellInv, Typed
<1>3. Left(call, All)
  BY <1>2 DEF Left, ShellInv, Typed
<1> QED
  BY <1>1, <1>3

LEMMA CloseKeeps ==
  ASSUME ShellInv, Close
  PROVE  ShellInv'
<1>1. disk' = disk /\ serial' = serial
  BY DEF Close
<1>2. /\ Left(call, All)
      /\ screen' \in Screens /\ screen'.project = Nothing /\ screen'.loaded = 0
      /\ screen'.decision = screen.decision /\ ~screen'.exporting
  BY CloseFields
<1>3. Shown(disk, serial, screen')
  <2>1. serial \in Nat /\ 0 <= serial
    BY DEF ShellInv, Typed
  <2> QED
    BY <1>2, <2>1 DEF Shown, ShellInv
<1> QED
  BY <1>1, <1>2, <1>3, LeavingKeeps

\* A change of one file of a folder.
LEMMA OneFileChanges ==
  ASSUME ShellInv, NEW f \in Folders, NEW r \in Stored, serial' = serial + 1,
         disk' = [disk EXCEPT ![f] = r], disk[f].man <= r.man, r.man <= serial + 1, r.meta <= serial + 1,
         screen' = screen, call' = call
  PROVE  ShellInv'
<1>1. serial \in Nat /\ serial' \in Nat /\ serial <= serial'
  BY DEF ShellInv, Typed
<1>2. disk' \in [Folders -> Stored] /\ disk'[f] = r /\ \A g \in Folders \ {f} : disk'[g] = disk[g]
  BY DEF ShellInv, Typed
<1>3. \A g \in Folders : /\ disk[g].man \in Nat /\ disk[g].meta \in Nat
                         /\ disk[g].man <= serial /\ disk[g].meta <= serial
  BY DiskOf DEF ShellInv, Dated
<1>4. Grows(disk, serial, disk', serial') /\ Dated(disk', serial')
  BY <1>1, <1>2, <1>3 DEF Grows, Dated
<1>5. Typed'
  BY <1>1, <1>2 DEF ShellInv, Typed
<1>6. Shown(disk', serial', screen')
  BY <1>1, <1>2, <1>4, ShownStays DEF ShellInv, Typed
<1>7. \A t \in Seats : InOrder(t)
  BY KeptSame
<1>8. ExportsStay
  BY DEF ExportsStay, Counts
<1> QED
  BY <1>4, <1>5, <1>6, <1>7, <1>8, ExportsTrue, InOrderKeeps DEF ShellInv

\* What others may write.
LEMMA OutsideWrites ==
  ASSUME Typed, NEW f \in Folders, Outside(f)
  PROVE  /\ serial' = serial + 1 /\ screen' = screen /\ call' = call
         /\ \E r \in Stored :
              /\ disk' = [disk EXCEPT ![f] = r]
              /\ r.man \in {disk[f].man, serial + 1}
              /\ r.meta \in {disk[f].meta, 0, serial + 1} /\ ("meta" \notin Edited => r.meta = disk[f].meta)
              /\ \/ r.audit = disk[f].audit
                 \/ r.audit.folder = f /\ r.audit.verdict \in Verdicts
              /\ \/ r.approval = disk[f].approval
                 \/ r.approval.folder = f
<1> DEFINE d == disk[f]
<1>1. d \in Stored /\ serial \in Nat /\ serial + 1 \in Nat
  BY DEF Typed
<1>2. screen' = screen /\ call' = call
  BY DEF Outside
<1>3. PICK field \in Edited :
        \/ field = "man" /\ Write(f, field, serial + 1)
        \/ field = "meta" /\ \E n \in {0, serial + 1} : Write(f, field, n)
        \/ field = "audit" /\ d.meta # 0 /\ \E v \in Verdicts :
             Write(f, field, [n |-> serial + 1, folder |-> f, meta |-> d.meta, verdict |-> v])
        \/ field = "approval" /\ GateOf(d.meta, d.audit, NoApproval) = "READY" /\
             Write(f, field, [n |-> serial + 1, folder |-> f, meta |-> d.meta, audit |-> d.audit.n])
        \/ field = "master" /\ \E m \in {"none", "ours", "broken"} : Write(f, field, m)
  BY DEF Outside
<1>4. CASE field = "man"
  <2>1. disk' = [disk EXCEPT ![f] = [d EXCEPT !.man = serial + 1]] /\ serial' = serial + 1
    BY <1>3, <1>4 DEF Write, Typed, Stored
  <2> DEFINE r == [d EXCEPT !.man = serial + 1]
  <2>2. r \in Stored /\ r.man = serial + 1 /\ r.meta = d.meta /\ r.audit = d.audit /\ r.approval = d.approval
    BY <1>1 DEF Stored
  <2> QED
    BY <1>2, <2>1, <2>2
<1>5. CASE field = "meta"
  <2>1. PICK n \in {0, serial + 1} : Write(f, "meta", n)
    BY <1>3, <1>5
  <2>2. disk' = [disk EXCEPT ![f] = [d EXCEPT !.meta = n]] /\ serial' = serial + 1
    BY <2>1 DEF Write, Typed, Stored
  <2> DEFINE r == [d EXCEPT !.meta = n]
  <2>3. r \in Stored /\ r.man = d.man /\ r.meta = n /\ r.audit = d.audit /\ r.approval = d.approval
    BY <1>1, <2>1 DEF Stored
  <2> HIDE DEF r
  <2>4. /\ r.meta \in {d.meta, 0, serial + 1} /\ r.man \in {d.man, serial + 1}
        /\ ("meta" \notin Edited => r.meta = d.meta)
    BY <1>5, <2>1, <2>3
  <2> QED
    BY <1>2, <2>2, <2>3, <2>4 DEF r
<1>6. CASE field = "audit"
  <2>1. PICK v \in Verdicts :
          Write(f, "audit", [n |-> serial + 1, folder |-> f, meta |-> d.meta, verdict |-> v])
    BY <1>3, <1>6
  <2> DEFINE a == [n |-> serial + 1, folder |-> f, meta |-> d.meta, verdict |-> v]
  <2>2. a \in Audits /\ a.folder = f /\ a.verdict = v
    BY <1>1 DEF Stored, Audits
  <2>3. Write(f, "audit", a)
    BY <2>1
  <2> HIDE DEF a
  <2>4. disk' = [disk EXCEPT ![f] = [d EXCEPT !.audit = a]] /\ serial' = serial + 1
    BY <2>3 DEF Write, Typed, Stored
  <2> DEFINE r == [d EXCEPT !.audit = a]
  <2>5. r \in Stored /\ r.man = d.man /\ r.meta = d.meta /\ r.audit = a /\ r.approval = d.approval
    BY <1>1, <2>2 DEF Stored
  <2> QED
    BY <1>2, <2>2, <2>4, <2>5
<1>7. CASE field = "approval"
  <2> DEFINE p == [n |-> serial + 1, folder |-> f, meta |-> d.meta, audit |-> d.audit.n]
  <2>1. p \in Approvals /\ p.folder = f
    BY <1>1 DEF Stored, Audits, Approvals
  <2>2. Write(f, "approval", p)
    BY <1>3, <1>7
  <2> HIDE DEF p
  <2>3. disk' = [disk EXCEPT ![f] = [d EXCEPT !.approval = p]] /\ serial' = serial + 1
    BY <2>2 DEF Write, Typed, Stored
  <2> DEFINE r == [d EXCEPT !.approval = p]
  <2>4. r \in Stored /\ r.man = d.man /\ r.meta = d.meta /\ r.audit = d.audit /\ r.approval = p
    BY <1>1, <2>1 DEF Stored
  <2> QED
    BY <1>2, <2>1, <2>3, <2>4
<1>8. CASE field = "master"
  <2>1. PICK m \in {"none", "ours", "broken"} : Write(f, "master", m)
    BY <1>3, <1>8
  <2>2. disk' = [disk EXCEPT ![f] = [d EXCEPT !.master = m]] /\ serial' = serial + 1
    BY <2>1 DEF Write, Typed, Stored
  <2> DEFINE r == [d EXCEPT !.master = m]
  <2>3. r \in Stored /\ r.man = d.man /\ r.meta = d.meta /\ r.audit = d.audit /\ r.approval = d.approval
    BY <1>1 DEF Stored
  <2> QED
    BY <1>2, <2>2, <2>3
<1> QED
  BY <1>3, <1>4, <1>5, <1>6, <1>7, <1>8

LEMMA OutsideKeeps ==
  ASSUME ShellInv, NEW f \in Folders, Outside(f)
  PROVE  ShellInv'
<1>1. PICK r \in Stored :
        /\ disk' = [disk EXCEPT ![f] = r]
        /\ r.man \in {disk[f].man, serial + 1}
        /\ r.meta \in {disk[f].meta, 0, serial + 1}
  BY OutsideWrites DEF ShellInv
<1>2. serial' = serial + 1 /\ screen' = screen /\ call' = call
  BY OutsideWrites DEF ShellInv
<1>3. /\ disk[f].man \in Nat /\ disk[f].meta \in Nat /\ serial \in Nat
      /\ disk[f].man <= serial /\ disk[f].meta <= serial
  BY DiskOf DEF ShellInv, Dated, Typed
<1>4. disk[f].man <= r.man /\ r.man <= serial + 1 /\ r.meta <= serial + 1
  BY <1>1, <1>3
<1> QED
  BY <1>1, <1>2, <1>4, OneFileChanges

-----------------------------------------------------------------------------
(* The invariant holds.                                                     *)

LEMMA ShellStarts == Init => ShellInv
<1> SUFFICES ASSUME Init PROVE ShellInv
  OBVIOUS
<1>1. PICK start \in [Folders -> Starts] : disk = [f \in Folders |-> Stage(f, start[f])]
  BY DEF Init
<1>2. /\ NoAudit \in Audits /\ NoApproval \in Approvals /\ Nothing \in Projects
      /\ "NOT READY" \in Gates /\ TRUE \in BOOLEAN /\ FALSE \in BOOLEAN
  BY DEF NoAudit, NoApproval, Audits, Approvals, Projects, Gates
<1>3. ASSUME NEW f \in Folders
      PROVE  disk[f] \in Stored /\ disk[f].man <= 2 /\ disk[f].meta <= 2
  <2> DEFINE st == start[f]
  <2>1. st \in {"empty", "prepared", "described", "audited", "stale", "approved"}
    BY ShellAssumption, <1>1
  <2> DEFINE a == IF st \in {"audited", "stale", "approved"}
                    THEN [n |-> 1, folder |-> f, meta |-> 1, verdict |-> "PASS"] ELSE NoAudit
             p == IF st = "approved" THEN [n |-> 1, folder |-> f, meta |-> 1, audit |-> 1] ELSE NoApproval
             m == CASE st \in {"empty", "prepared"} -> 0 [] st = "stale" -> 2 [] OTHER -> 1
             b == st # "empty"
  <2>2. m \in 0 .. 2 /\ b \in BOOLEAN
    BY <2>1
  <2>3. a \in Audits
    BY <1>2 DEF Audits
  <2>4. p \in Approvals
    BY <1>2 DEF Approvals
  <2>5. disk[f] = [man |-> 1, asset |-> b, master |-> "ours", meta |-> m, audit |-> a, approval |-> p]
    BY <1>1 DEF Stage
  <2> HIDE DEF st, a, p, m, b
  <2> QED
    BY <2>2, <2>3, <2>4, <2>5 DEF Stored
<1>4. disk \in [Folders -> Stored] /\ serial = 2
  BY <1>1, <1>3 DEF Init
<1>5. /\ screen \in Screens /\ screen.project = Nothing /\ screen.loaded = 0 /\ ~screen.exporting
      /\ screen.decision = Nothing
  BY <1>2 DEF Init, Screens
<1>6. call \in Books /\ \A s \in Seats : call[s] = Idle
  BY IdleType DEF Init, Books
<1>7. \A s \in Seats : Alive(s, call[s]) /\ Newer(disk, serial, s, call[s])
  <2>1. Idle.at = "idle"
    BY DEF Idle
  <2> QED
    BY <1>6, <2>1 DEF Alive, Newer
<1>8. HereInv /\ ExportingIsTrue /\ OneExports
  BY <1>5, <1>6, SeatNames DEF HereInv, Running, ExportingIsTrue, OneExports, Counts, Idle
<1> QED
  BY <1>3, <1>4, <1>5, <1>6, <1>7, <1>8 DEF ShellInv, Typed, Dated, Shown

LEMMA ShellStep == ShellInv /\ [Next]_shellVars => ShellInv'
<1> SUFFICES ASSUME ShellInv, [Next]_shellVars PROVE ShellInv'
  OBVIOUS
<1>1. CASE \E f \in Folders : AskOpen(f) \/ Outside(f)
  BY <1>1, AskOpenKeeps, OutsideKeeps
<1>2. CASE ReadManifest \/ Receive \/ ReadMetadata \/ ShowMetadata
  BY <1>2, ReadManifestKeeps, ReceiveKeeps, ReadMetadataKeeps, ShowMetadataKeeps
<1>3. CASE Peek \/ ReadEvidence \/ ShowEvidence
  BY <1>3, PeekKeeps, ReadEvidenceKeeps, ShowEvidenceKeeps
<1>4. CASE BeginPrepare \/ PutRevision \/ ShowRevision \/ BeginSave \/ PutMetadata \/ ShowSaved
  BY <1>4, BeginPrepareKeeps, PutRevisionKeeps, ShowRevisionKeeps, BeginSaveKeeps, PutMetadataKeeps,
     ShowSavedKeeps
<1>5. CASE BeginInspect \/ ShowInspect \/ BeginCheck \/ ReadExternal \/ ShowDecision
  BY <1>5, BeginInspectKeeps, ShowInspectKeeps, BeginCheckKeeps, ReadExternalKeeps, ShowDecisionKeeps
<1>6. CASE Reload \/ Dismiss \/ Close
  BY <1>6, ReloadKeeps, DismissKeeps, CloseKeeps
<1>7. CASE \E o \in Ops : Look(o) \/ PutRecord(o) \/ ShowOp(o) \/ \E step \in DOMAIN Kinds : BeginOp(o, step)
  BY <1>7, LookKeeps, PutRecordKeeps, ShowOpKeeps, BeginOpKeeps
<1>8. CASE \E s \in Seats : GiveUp(s)
  BY <1>8, GiveUpKeeps
<1>9. CASE UNCHANGED shellVars
  <2>1. disk' = disk /\ screen' = screen /\ call' = call /\ serial' = serial
    BY <1>9 DEF shellVars
  <2>2. Typed' /\ Grows(disk, serial, disk', serial') /\ Dated(disk', serial')
    BY <2>1, StandsStill DEF ShellInv, Typed
  <2>3. Shown(disk', serial', screen')
    BY <2>1 DEF ShellInv
  <2>4. (\A t \in Seats : InOrder(t)) /\ ExportsStay
    BY <2>1, KeptSame DEF ExportsStay, Counts
  <2> QED
    BY <2>2, <2>3, <2>4, ExportsTrue, InOrderKeeps DEF ShellInv
<1> QED
  BY <1>1, <1>2, <1>3, <1>4, <1>5, <1>6, <1>7, <1>8, <1>9 DEF Next

LEMMA ShellInvHolds == ShellSpec => []ShellInv
BY ShellStarts, ShellStep, PTL DEF ShellSpec

-----------------------------------------------------------------------------
\* Types of the folders and of the screen.
THEOREM ShellTypeCorrect == ShellSpec => []ShellTypeOK
<1>1. ShellInv => ShellTypeOK
  <2> SUFFICES ASSUME ShellInv PROVE ShellTypeOK
    OBVIOUS
  <2>1. disk \in [Folders -> [man : Nat, asset : BOOLEAN, master : {"none", "ours", "broken"}, meta : Nat,
                 audit : [n : Nat, folder : Folders \union {Nothing}, meta : Nat,
                          verdict : Verdicts \union {"none", "PASS"}],
                 approval : [n : Nat, folder : Folders \union {Nothing}, meta : Nat, audit : Nat]]]
    BY DEF ShellInv, Typed, Stored, Audits, Approvals
  <2>2. /\ screen.project \in Projects /\ screen.loaded \in 0 .. serial
        /\ screen.gate \in {"NOT READY", "STALE", "READY", "APPROVED"}
        /\ screen.master \in {"unknown", "none", "ours"}
        /\ screen.report \in {"none", "current", "stale"}
    <3>1. screen.loaded \in Nat /\ serial \in Nat /\ screen.loaded <= serial
      BY DEF ShellInv, Typed, Shown, Screens
    <3>2. screen.loaded \in 0 .. serial
      BY <3>1
    <3> QED
      BY <3>2 DEF ShellInv, Typed, Screens, Gates
  <2>3. \A s \in Seats : call[s].at \in {"idle", "look", "read", "peek", "write", "show"}
    BY DEF ShellInv, Typed, Books, Calls, Labels
  <2>4. \A s \in Seats : call[s].at = "idle" <=> call[s] = Idle
    <3>1. Idle.at = "idle"
      BY DEF Idle
    <3> QED
      BY <3>1 DEF ShellInv, Alive
  <2> QED
    BY <2>1, <2>2, <2>3, <2>4 DEF ShellTypeOK
<1> QED
  BY <1>1, ShellInvHolds, PTL

\* The export flag is set exactly while the latest export of the open project runs.
THEOREM ExportFlagIsTrue == ShellSpec => []ExportingIsTrue
<1>1. ShellInv => ExportingIsTrue
  BY DEF ShellInv
<1> QED
  BY <1>1, ShellInvHolds, PTL

-----------------------------------------------------------------------------
(* What is open changes in four ways.                                       *)

LEMMA ProjectStays ==
  ASSUME ShellInv, Next
  PROVE  \/ screen'.project = screen.project
         \/ Receive \/ (ShowRevision /\ call["prepare"].here) \/ Reload \/ Close
<1>1. screen \in Screens /\ NotReady(screen) \in Screens /\ NotReady(screen).project = screen.project
  BY NotReadyFields DEF ShellInv, Typed
<1>2. CASE \E f \in Folders : AskOpen(f) \/ Outside(f)
  BY <1>2 DEF AskOpen, Outside
<1>3. CASE \/ ReadManifest \/ ReadMetadata \/ ReadEvidence \/ BeginPrepare \/ PutRevision \/ BeginSave
           \/ PutMetadata \/ BeginCheck \/ ReadExternal
  BY <1>3 DEF ReadManifest, ReadMetadata, ReadEvidence, BeginPrepare, PutRevision, BeginSave, PutMetadata,
              BeginCheck, ReadExternal
<1>4. CASE ShowMetadata \/ BeginInspect \/ ShowInspect \/ ShowDecision \/ Dismiss
  BY <1>1, <1>4 DEF ShowMetadata, BeginInspect, ShowInspect, ShowDecision, Dismiss, Screens
<1>5. CASE Peek
  <2>1. \/ screen' = screen
        \/ screen' = [screen EXCEPT !.gate = "STALE"]
        \/ \E m : screen' = [NotReady(screen) EXCEPT !.master = m] \/ screen' = [screen EXCEPT !.master = m]
    BY <1>5 DEF Peek
  <2> QED
    BY <1>1, <2>1 DEF Screens
<1>6. CASE ShowEvidence
  BY <1>1, <1>6 DEF ShowEvidence, Evidence, Screens
<1>7. CASE ShowRevision /\ ~call["prepare"].here
  BY <1>7 DEF ShowRevision
<1>8. CASE ShowSaved
  BY <1>8, ShowSavedFields DEF ShowSaved
<1>9. ASSUME NEW o \in Ops, Look(o) \/ PutRecord(o) \/ \E step \in DOMAIN Kinds : BeginOp(o, step)
      PROVE  screen'.project = screen.project
  BY <1>1, <1>9 DEF Look, PutRecord, BeginOp, Screens
<1>10. ASSUME NEW o \in Ops, ShowOp(o)
       PROVE  screen'.project = screen.project
  <2>1. Ended(screen, o) \in Screens /\ Ended(screen, o).project = screen.project
    BY EndedFields
  <2>2. o \in Seats /\ o \notin Singles
    BY SeatNames
  <2>3. call[o].kind \in {"audit", "approve", "export"}
    BY <1>10, <2>2, Runs DEF ShowOp, Running, HasGot
  <2> QED
    BY <1>10, <2>1, <2>3 DEF ShowOp, Evidence, Screens
<1>11. ASSUME NEW s \in Seats, GiveUp(s)
       PROVE  screen'.project = screen.project
  <2>1. Ended(screen, s) \in Screens /\ Ended(screen, s).project = screen.project
    BY EndedFields
  <2>2. \/ screen' = screen \/ screen' = NotReady(screen) \/ screen' = Ended(screen, s)
        \/ \E g : screen' = [Ended(screen, s) EXCEPT !.gate = g]
    BY <1>11 DEF GiveUp
  <2> QED
    BY <1>1, <2>1, <2>2 DEF Screens
<1> QED
  BY <1>2, <1>3, <1>4, <1>5, <1>6, <1>7, <1>8, <1>9, <1>10, <1>11 DEF Next

\* Only opening a project puts an older manifest of its folder on the screen.
THEOREM ManifestsOnlyGrow == ShellSpec => OnlyOpeningRewinds
<1> DEFINE Forward ==
      (/\ screen.project # Nothing /\ screen'.project # Nothing
       /\ screen'.project.folder = screen.project.folder
       /\ screen'.project.man < screen.project.man) => call["open"].at = "show"
<1>1. ASSUME ShellInv, Next
      PROVE  Forward
  <2>1. screen.project # Nothing => screen.project \in Opened /\ screen.project.man \in Nat
    BY <1>1, ScreenOf DEF ShellInv, Projects, Opened
  <2>2. CASE screen'.project = screen.project
    BY <2>1, <2>2
  <2>3. CASE Receive
    BY <2>3 DEF Receive
  <2>4. CASE ShowRevision /\ call["prepare"].here
    <3> DEFINE p == call["prepare"].got
    <3>1. p \in Opened /\ screen.project.man <= p.man /\ screen'.project = p
      BY <1>1, <2>4, ShowRevisionFields
    <3> QED
      BY <2>1, <3>1 DEF Opened
  <2>5. CASE Reload
    <3> DEFINE p == screen.decision.external
    <3>1. p \in Opened /\ screen.project.man <= p.man /\ screen'.project = p
      BY <1>1, <2>5, ReloadFields
    <3> QED
      BY <2>1, <3>1 DEF Opened
  <2>6. CASE Close
    <3>1. screen'.project = Nothing
      BY <1>1, <2>6, CloseFields
    <3> QED
      BY <3>1
  <2> QED
    BY <1>1, <2>2, <2>3, <2>4, <2>5, <2>6, ProjectStays
<1>2. ShellInv /\ [Next]_shellVars => [Forward]_shellVars
  BY <1>1
<1> QED
  BY <1>2, ShellInvHolds, PTL DEF ShellSpec, OnlyOpeningRewinds

-----------------------------------------------------------------------------
(* Whose metadata the gate is of.  Nobody else writes metadata, so a version *)
(* that is on the disk stays there: metadata is saved once per folder here,  *)
(* by the save that found none.  What runs knows that version or none, and   *)
(* what still counts runs on a screen that shows it.                         *)

Meta(D, c) == D[c.project.folder].meta

OwnAudit(f, a)    == a.n # 0 => a.folder = f /\ a.verdict \in {"PASS", "FAIL"}
OwnApproval(f, p) == p.n # 0 => p.folder = f
Records(D) == \A f \in Folders : OwnAudit(f, D[f].audit) /\ OwnApproval(f, D[f].approval)

Loaded(D, S) == (S.project # Nothing /\ S.loaded # 0) => S.loaded = D[S.project.folder].meta

HasRecord(c) == c.at = "write" \/ (c.at = "show" /\ c.kind # "export")

\* What a handler knows of the metadata of its folder.
Backed(D, s, c) ==
  /\ (s = "load" /\ c.at = "show") => c.got \in {0, Meta(D, c)}
  /\ (s = "save" /\ c.at # "idle") => c.given = 0
  /\ (s = "save" /\ c.at = "show") => c.got = Meta(D, c) /\ Meta(D, c) # 0
  /\ (s = "refresh" /\ c.at # "idle") => c.given \in {0, Meta(D, c)}
  /\ (s = "refresh" /\ c.at \in {"read", "show"}) => c.given # 0
  /\ (s = "refresh" /\ c.at = "show") =>
       /\ c.got.sub.meta = c.given
       /\ OwnAudit(c.project.folder, c.got.audit) /\ OwnApproval(c.project.folder, c.got.approval)
  /\ (s \in Ops /\ c.at # "idle") => Meta(D, c) # 0
  /\ (s \in Ops /\ HasRecord(c)) => c.got.meta = Meta(D, c) /\ c.got.folder = c.project.folder
  /\ (s \in Ops /\ HasRecord(c) /\ c.kind = "audit") =>
       c.got.verdict \in {"PASS", "FAIL"} /\ c.got.meta = c.given.sub.meta

\* What counts is not late, and what it needs is on the screen.
Timely(S, s, c) ==
  /\ (s \in Ops /\ c.at # "idle" /\ c.live /\ c.here) => S.loaded # 0 /\ ~c.late
  /\ (s = "refresh" /\ c.at # "idle" /\ c.live /\ c.here /\ c.given # 0) => S.loaded # 0
  /\ (s = "inspect" /\ c.late) => ~c.live

MetaInv ==
  /\ Records(disk) /\ Loaded(disk, screen)
  /\ \A s \in Seats : Backed(disk, s, call[s]) /\ Timely(screen, s, call[s])
  /\ GateIsOfTheScreen

\* Metadata that is there stays.
Fixed(D, E) == \A f \in Folders : D[f].meta # 0 => E[f].meta = D[f].meta

\* A handler is as it was, or over, or what it knows now is right.
Clean(t) ==
  /\ Kept(call[t], call'[t]) \/ call'[t] = Idle \/ Backed(disk', t, call'[t])
  /\ Timely(screen', t, call'[t])

LEMMA BackedKept ==
  ASSUME NEW D \in [Folders -> Stored], NEW E \in [Folders -> Stored], Fixed(D, E),
         NEW s \in Seats, NEW c, NEW d, Kept(c, d), Alive(s, c), Backed(D, s, c)
  PROVE  Backed(E, s, d)
<1>1. /\ d.at = c.at /\ d.kind = c.kind /\ d.given = c.given /\ d.got = c.got
      /\ d.project = c.project
  BY DEF Kept, Same
<1>2. CASE c.at = "idle"
  <2>1. ~HasRecord(d)
    BY <1>1, <1>2 DEF HasRecord
  <2> QED
    BY <1>1, <1>2, <2>1 DEF Backed
<1>3. CASE s \in {"load", "save", "refresh"} \union Ops /\ c.at # "idle"
  <2>1. c.project.folder \in Folders
    BY <1>3, SeatNames DEF Alive, HasGot, Opened
  <2>2. Meta(D, c) # 0 => Meta(E, d) = Meta(D, c)
    BY <1>1, <2>1 DEF Fixed, Meta
  <2>3. HasRecord(d) <=> HasRecord(c)
    BY <1>1 DEF HasRecord
  <2>4. s \notin Ops => (s = "refresh" /\ c.given \in {0, Meta(E, d)}) \/ s # "refresh"
    BY <1>3, <2>2 DEF Backed
  <2>5. (s = "load" /\ c.at = "show") => c.got \in {0, Meta(E, d)}
    BY <2>2 DEF Backed
  <2>6. CASE s \in Ops
    <3>1. s \notin {"load", "save", "refresh"}
      BY <2>6, SeatNames
    <3>2. Meta(D, c) # 0 /\ Meta(E, d) = Meta(D, c)
      BY <1>3, <2>2, <2>6 DEF Backed
    <3> QED
      BY <1>1, <2>3, <2>6, <3>1, <3>2 DEF Backed
  <2>7. CASE s \notin Ops
    BY <1>1, <2>2, <2>4, <2>5, <2>7 DEF Backed
  <2> QED
    BY <2>6, <2>7
<1>4. CASE s \notin {"load", "save", "refresh"} \union Ops
  BY <1>4 DEF Backed
<1> QED
  BY <1>2, <1>3, <1>4

LEMMA CleanKeeps ==
  ASSUME ShellInv, MetaInv, disk' \in [Folders -> Stored], Fixed(disk, disk'), Records(disk'),
         Loaded(disk', screen'), \A t \in Seats : Clean(t), GateIsOfTheScreen'
  PROVE  MetaInv'
<1>1. ASSUME NEW t \in Seats
      PROVE  Backed(disk', t, call'[t])
  <2>1. CASE Kept(call[t], call'[t])
    BY <2>1, BackedKept DEF ShellInv, Typed, MetaInv
  <2>2. CASE call'[t] = Idle
    <3>1. Idle.at = "idle"
      BY DEF Idle
    <3>2. ~HasRecord(call'[t])
      BY <2>2, <3>1 DEF HasRecord
    <3> QED
      BY <2>2, <3>1, <3>2 DEF Backed
  <2> QED
    BY <2>1, <2>2 DEF Clean
<1>2. \A t \in Seats : Timely(screen', t, call'[t])
  BY DEF Clean
<1> QED
  BY <1>1, <1>2 DEF MetaInv

\* A refresh is on its way.
Asking == Running("refresh") /\ Counts("refresh")

SameGate(S, T) ==
  /\ T.gate = S.gate /\ T.audit = S.audit /\ T.approval = S.approval
  /\ T.project = S.project /\ T.loaded = S.loaded

LEMMA GateStays ==
  ASSUME GateIsOfTheScreen,
         \/ SameGate(screen, screen') /\ (Asking => Asking')
         \/ screen'.gate \in {"NOT READY", "STALE"}
         \/ Asking'
  PROVE  GateIsOfTheScreen'
BY DEF GateIsOfTheScreen, SameGate, Asking

LEMMA TimelyStays ==
  ASSUME NEW t \in Seats, Timely(screen, t, call[t]), Kept(call[t], call'[t]),
         call'[t].late => call[t].late, screen.loaded # 0 => screen'.loaded # 0
  PROVE  Clean(t)
BY DEF Timely, Kept, Same, Clean

\* One handler goes on, and what the gate is about stays.
LEMMA OneMoves ==
  ASSUME ShellInv, MetaInv, disk' \in [Folders -> Stored], Fixed(disk, disk'), Records(disk'),
         SameGate(screen, screen'), NEW s \in Seats, \A t \in Seats \ {s} : call'[t] = call[t],
         Clean(s), s = "refresh" => (Asking => Asking')
  PROVE  MetaInv'
<1>1. Loaded(disk', screen')
  <2>1. screen.project # Nothing => screen.project.folder \in Folders
    BY ScreenOf DEF ShellInv, Projects
  <2> QED
    BY <2>1 DEF Loaded, SameGate, Fixed, MetaInv
<1>2. \A t \in Seats \ {s} : Clean(t)
  <2>1. ASSUME NEW t \in Seats \ {s}
        PROVE  Kept(call[t], call'[t]) /\ (call'[t].late => call[t].late)
    BY DEF Kept, Same
  <2> QED
    BY <2>1, TimelyStays DEF SameGate, MetaInv
<1>3. Asking => Asking'
  BY SeatNames DEF Asking, Running, Counts
<1>4. GateIsOfTheScreen'
  BY <1>3, GateStays DEF MetaInv
<1> QED
  BY <1>1, <1>2, <1>4, CleanKeeps

LEMMA FixedSame ==
  ASSUME MetaInv, disk' = disk
  PROVE  Fixed(disk, disk') /\ Records(disk')
BY DEF MetaInv, Fixed

\* Handlers of which nothing is said.
LEMMA PlainClean ==
  ASSUME NEW s \in {"open", "check", "prepare"}
  PROVE  Clean(s)
<1>1. s \notin Ops
  BY SeatNames
<1> QED
  BY <1>1 DEF Clean, Backed, Timely

-----------------------------------------------------------------------------
(* Opening, loading and refreshing keep it.                                 *)

LEMMA PlainMoves ==
  ASSUME ShellInv, MetaInv, \/ \E f \in Folders : AskOpen(f)
                            \/ ReadManifest \/ BeginPrepare \/ BeginCheck \/ ReadExternal
  PROVE  MetaInv'
<1>1. disk' = disk /\ screen' = screen /\ disk \in [Folders -> Stored]
  BY DEF AskOpen, ReadManifest, BeginPrepare, BeginCheck, ReadExternal, ShellInv, Typed
<1>2. PICK s \in {"open", "check", "prepare"} : \A t \in Seats \ {s} : call'[t] = call[t]
  BY DEF AskOpen, ReadManifest, BeginPrepare, BeginCheck, ReadExternal, Begin, Go, Done, ShellInv, Typed, Books
<1>3. s \in Seats /\ s # "refresh"
  BY SeatNames
<1>4. SameGate(screen, screen')
  BY <1>1 DEF SameGate
<1> QED
  BY <1>1, <1>2, <1>3, <1>4, PlainClean, FixedSame, OneMoves

LEMMA ReadMetadataBacked ==
  ASSUME ShellInv, MetaInv, ReadMetadata
  PROVE  MetaInv'
<1> DEFINE c == call["load"]
           got == disk[c.project.folder].meta
<1>1. "load" \in Seats /\ "load" \notin Ops /\ "show" \in Labels /\ "load" # "refresh"
  BY SeatNames DEF Labels
<1>2. disk' = disk /\ screen' = screen /\ disk \in [Folders -> Stored]
  BY DEF ReadMetadata, ShellInv, Typed
<1>3. c.project.folder \in Folders
  BY <1>1, Runs DEF ReadMetadata, Running
<1>4. got \in Data /\ Go("load", "show", got)
  BY <1>3, DiskOf DEF Data, ShellInv, ReadMetadata
<1>5. /\ \A t \in Seats \ {"load"} : call'[t] = call[t]
      /\ call'["load"].got = got /\ call'["load"].project = c.project
  BY <1>1, <1>4, GoFields DEF ShellInv, Typed
<1>6. Clean("load")
  BY <1>1, <1>2, <1>5 DEF Clean, Backed, Timely, Meta
<1>7. SameGate(screen, screen')
  BY <1>2 DEF SameGate
<1> QED
  BY <1>1, <1>2, <1>5, <1>6, <1>7, FixedSame, OneMoves

\* What a new load and a new refresh know.
LEMMA StartsClean ==
  ASSUME NEW p \in Opened, NEW m \in Nat
  PROVE  /\ call'["load"] = LoadOf(p) => Clean("load")
         /\ (call'["refresh"] = RefreshOf(p, m) /\ m \in {0, disk'[p.folder].meta}
               /\ (m # 0 => screen'.loaded # 0)) => Clean("refresh")
<1>1. "load" \notin Ops /\ "refresh" \notin Ops
  BY SeatNames
<1>2. /\ LoadOf(p).at = "read"
      /\ RefreshOf(p, m).at = "peek" /\ RefreshOf(p, m).given = m /\ RefreshOf(p, m).project = p
  BY DEF LoadOf, RefreshOf, Call, Idle
<1> QED
  BY <1>1, <1>2 DEF Clean, Backed, Timely, Meta

LEMMA RefreshAsks ==
  ASSUME NEW p, NEW m, call'["refresh"] = RefreshOf(p, m)
  PROVE  Asking'
BY DEF Asking, Running, Counts, RefreshOf, Call, Idle

\* When the project is left nothing counts that ran on it.
LEMMA LeftClean ==
  ASSUME ShellInv, MetaInv, NEW D, NEW K, "inspect" \in K, Left(D, K)
  PROVE  \A t \in Seats : Clean(t)
<1> DEFINE C == Leave(D, K)
<1>1. /\ C \in Books
      /\ \A t \in Seats :
           /\ Same(D[t], C[t]) /\ ~C[t].here
           /\ C[t].live <=> D[t].live /\ D[t].kind \notin K
           /\ D[t] = Idle => C[t] = Idle
  BY LeaveFields DEF Left
<1> HIDE DEF C
<1>2. ASSUME NEW t \in Seats, call'[t] = C[t]
      PROVE  Clean(t)
  <2>1. CASE D[t] = Idle
    <3>1. call'[t] = Idle /\ Idle.at = "idle" /\ ~Idle.live
      BY <1>1, <1>2, <2>1 DEF Idle
    <3> QED
      BY <3>1 DEF Clean, Timely
  <2>2. CASE D[t] = call[t]
    <3>1. Kept(call[t], call'[t]) /\ ~call'[t].here
      BY <1>1, <1>2, <2>2 DEF Kept
    <3>2. t = "inspect" => ~call'[t].live
      <4>1. ASSUME t = "inspect", call[t] # Idle
            PROVE  call[t].kind \in K
        BY <4>1 DEF ShellInv, Alive, HasGot
      <4>2. ~Idle.live
        BY DEF Idle
      <4> QED
        BY <1>1, <1>2, <2>2, <4>1, <4>2
    <3> QED
      BY <3>1, <3>2 DEF Clean, Timely
  <2> QED
    BY <2>1, <2>2 DEF Left
<1>3. ASSUME NEW t \in Seats, call'[t] # C[t]
      PROVE  Clean(t)
  <2>1. /\ screen'.project \in Opened
        /\ \/ t = "load" /\ call'[t] = LoadOf(screen'.project)
           \/ t = "refresh" /\ call'[t] = RefreshOf(screen'.project, 0)
    BY <1>3 DEF Left, C
  <2> QED
    BY <2>1, StartsClean
<1> QED
  BY <1>2, <1>3

LEMMA ReceiveBacked ==
  ASSUME ShellInv, MetaInv, Receive
  PROVE  MetaInv'
<1> DEFINE p == call["open"].got
<1>1. /\ Left(Done(call, "open"), All) /\ call'["refresh"] = RefreshOf(p, 0)
      /\ screen'.loaded = 0
  BY ReceiveFields
<1>2. disk' = disk /\ disk \in [Folders -> Stored]
  BY DEF Receive, ShellInv, Typed
<1>3. \A t \in Seats : Clean(t)
  BY <1>1, LeftClean DEF All, Preflights
<1>4. Loaded(disk', screen')
  BY <1>1 DEF Loaded
<1>5. GateIsOfTheScreen'
  BY <1>1, RefreshAsks, GateStays DEF MetaInv
<1> QED
  BY <1>2, <1>3, <1>4, <1>5, FixedSame, CleanKeeps

LEMMA ShowRevisionBacked ==
  ASSUME ShellInv, MetaInv, ShowRevision
  PROVE  MetaInv'
<1> DEFINE p == call["prepare"].got
<1>1. disk' = disk /\ disk \in [Folders -> Stored] /\ "prepare" \in Seats /\ "prepare" # "refresh"
  BY SeatNames DEF ShowRevision, ShellInv, Typed
<1>2. CASE ~call["prepare"].here
  <2>1. screen' = screen /\ \A t \in Seats \ {"prepare"} : call'[t] = call[t]
    BY <1>1, <1>2, DoneFields DEF ShowRevision, ShellInv, Typed
  <2>2. SameGate(screen, screen')
    BY <2>1 DEF SameGate
  <2> QED
    BY <1>1, <2>1, <2>2, PlainClean, FixedSame, OneMoves
<1>3. CASE call["prepare"].here
  <2>1. /\ p.folder = screen.project.folder
        /\ Left(Done(call, "prepare"), Outdated) /\ call'["refresh"] = RefreshOf(p, 0)
        /\ screen'.project = p /\ screen'.loaded = screen.loaded
    BY <1>3, ShowRevisionFields
  <2>2. screen.project # Nothing
    <3>1. screen.project = call["prepare"].project
      BY <1>1, <1>3 DEF ShowRevision, ShellInv, HereInv, Running
    <3> QED
      BY <1>1, <3>1, Runs DEF ShowRevision, Running
  <2>3. \A t \in Seats : Clean(t)
    BY <2>1, LeftClean DEF Outdated, Preflights
  <2>4. Loaded(disk', screen')
    BY <1>1, <2>1, <2>2 DEF Loaded, MetaInv
  <2>5. GateIsOfTheScreen'
    BY <2>1, RefreshAsks, GateStays DEF MetaInv
  <2> QED
    BY <1>1, <2>3, <2>4, <2>5, FixedSame, CleanKeeps
<1> QED
  BY <1>2, <1>3

LEMMA ReloadBacked ==
  ASSUME ShellInv, MetaInv, Reload
  PROVE  MetaInv'
<1>1. Left(call, All) /\ screen'.loaded = 0 /\ screen'.gate = "NOT READY"
  BY ReloadFields
<1>2. disk' = disk /\ disk \in [Folders -> Stored]
  BY DEF Reload, ShellInv, Typed
<1>3. \A t \in Seats : Clean(t)
  BY <1>1, LeftClean DEF All, Preflights
<1>4. Loaded(disk', screen')
  BY <1>1 DEF Loaded
<1>5. GateIsOfTheScreen'
  BY <1>1, GateStays DEF MetaInv
<1> QED
  BY <1>2, <1>3, <1>4, <1>5, FixedSame, CleanKeeps

LEMMA CloseBacked ==
  ASSUME ShellInv, MetaInv, Close
  PROVE  MetaInv'
<1>1. Left(call, All) /\ screen'.loaded = 0 /\ screen'.gate = "NOT READY"
  BY CloseFields
<1>2. disk' = disk /\ disk \in [Folders -> Stored]
  BY DEF Close, ShellInv, Typed
<1>3. \A t \in Seats : Clean(t)
  BY <1>1, LeftClean DEF All, Preflights
<1>4. Loaded(disk', screen')
  BY <1>1 DEF Loaded
<1>5. GateIsOfTheScreen'
  BY <1>1, GateStays DEF MetaInv
<1> QED
  BY <1>2, <1>3, <1>4, <1>5, FixedSame, CleanKeeps

LEMMA ShowMetadataBacked ==
  ASSUME ShellInv, MetaInv, ShowMetadata
  PROVE  MetaInv'
<1> DEFINE c == call["load"]
<1>1. /\ "load" \in Seats /\ "load" \notin Ops /\ "load" # "refresh"
      /\ "refresh" \in Seats /\ "refresh" \notin Ops
  BY SeatNames
<1>2. disk' = disk /\ disk \in [Folders -> Stored]
  BY DEF ShowMetadata, ShellInv, Typed
<1>3. /\ Done(call, "load") \in Books /\ Done(call, "load")["load"] = Idle
      /\ \A t \in Seats \ {"load"} : Done(call, "load")[t] = call[t]
  BY <1>1, DoneFields DEF ShellInv, Typed
<1>4. Idle.at = "idle"
  BY DEF Idle
<1>5. CASE ~(c.here /\ c.got # 0)
  <2>1. screen' = screen /\ call' = Done(call, "load")
    BY <1>5 DEF ShowMetadata
  <2>2. Clean("load") /\ SameGate(screen, screen')
    BY <1>1, <1>3, <1>4, <2>1 DEF Clean, Timely, SameGate
  <2> QED
    BY <1>1, <1>2, <1>3, <2>1, <2>2, FixedSame, OneMoves
<1>6. CASE c.here /\ c.got # 0
  <2>1. c.project \in Opened /\ c.project \in Projects /\ c.got \in Nat /\ screen.project = c.project
    BY <1>1, <1>6, Runs DEF ShowMetadata, Running, HasGot, Opened, Projects, ShellInv, HereInv
  <2>2. c.got = disk[c.project.folder].meta
    BY <1>1, <1>6 DEF ShowMetadata, MetaInv, Backed, Meta
  <2>3. call' = Refresh(Done(call, "load"), c.project, c.got)
    BY <1>6 DEF ShowMetadata
  <2>4. screen' = [screen EXCEPT !.loaded = c.got, !.master = "unknown"]
    BY <1>6 DEF ShowMetadata
  <2>5. screen'.loaded = c.got /\ screen'.project = screen.project
    BY <2>4 DEF ShellInv, Typed, Screens
  <2>6. /\ call'["refresh"] = RefreshOf(c.project, c.got)
        /\ \A t \in Seats \ {"refresh"} : call'[t] = Done(call, "load")[t]
    BY <1>3, <2>1, <2>3, RefreshFields
  <2>7. Clean("refresh")
    BY <1>2, <1>6, <2>1, <2>2, <2>5, <2>6, StartsClean
  <2>8. Clean("load")
    BY <1>1, <1>3, <1>4, <2>6 DEF Clean, Timely
  <2>9. \A t \in Seats \ {"load", "refresh"} : Clean(t)
    <3>1. ASSUME NEW t \in Seats \ {"load", "refresh"}
          PROVE  Kept(call[t], call'[t]) /\ (call'[t].late => call[t].late)
      BY <1>3, <2>6 DEF Kept, Same
    <3> QED
      BY <1>6, <2>5, <3>1, TimelyStays DEF MetaInv
  <2>10. Loaded(disk', screen')
    BY <1>2, <2>1, <2>2, <2>5 DEF Loaded
  <2>11. GateIsOfTheScreen'
    BY <2>6, RefreshAsks, GateStays DEF MetaInv
  <2> QED
    BY <1>2, <2>7, <2>8, <2>9, <2>10, <2>11, FixedSame, CleanKeeps
<1> QED
  BY <1>5, <1>6

LEMMA PeekBacked ==
  ASSUME ShellInv, MetaInv, Peek
  PROVE  MetaInv'
<1> DEFINE c == call["refresh"]
<1>1. "refresh" \in Seats /\ "refresh" \notin Ops
  BY SeatNames
<1>2. disk' = disk /\ disk \in [Folders -> Stored] /\ screen \in Screens
  BY DEF Peek, ShellInv, Typed
<1>3. Idle.at = "idle"
  BY DEF Idle
<1>4. NotReady(screen) \in Screens /\ SameView(screen, NotReady(screen)) /\ NotReady(screen).gate = "NOT READY"
  BY <1>2, NotReadyFields DEF SameView
<1>5. /\ screen'.project = screen.project /\ screen'.loaded = screen.loaded
      /\ (call' # Done(call, "refresh") \/ ~Counts("refresh")) => SameGate(screen, screen')
  <2> DEFINE m == disk[c.project.folder].master
  <2>1. CASE ~Counts("refresh")
    BY <2>1 DEF Peek, SameGate
  <2>2. CASE Counts("refresh") /\ m = "broken"
    <3>1. screen' = [screen EXCEPT !.gate = "STALE"] /\ call' = Done(call, "refresh")
      BY <2>2 DEF Peek
    <3> QED
      BY <1>2, <2>2, <3>1 DEF Screens
  <2>3. CASE Counts("refresh") /\ m # "broken" /\ (~c.project.asset \/ c.given = 0)
    <3>1. screen' = [NotReady(screen) EXCEPT !.master = m] /\ call' = Done(call, "refresh")
      BY <2>3 DEF Peek
    <3>2. screen'.gate = "NOT READY" /\ SameView(screen, screen')
      BY <1>4, <3>1 DEF Screens, SameView
    <3> QED
      BY <2>3, <3>1, <3>2 DEF SameView
  <2>4. CASE Counts("refresh") /\ m # "broken" /\ c.project.asset /\ c.given # 0
    <3>1. screen' = [screen EXCEPT !.master = m]
      BY <2>4 DEF Peek
    <3> QED
      BY <1>2, <3>1 DEF Screens, SameGate
  <2> QED
    BY <2>1, <2>2, <2>3, <2>4
<1>6. CASE call' = Done(call, "refresh")
  <2>1. call'["refresh"] = Idle /\ \A t \in Seats \ {"refresh"} : call'[t] = call[t]
    BY <1>1, <1>6, DoneFields DEF ShellInv, Typed
  <2>2. Clean("refresh")
    BY <1>1, <1>3, <2>1 DEF Clean, Timely
  <2>3. \A t \in Seats : Clean(t)
    <3>1. ASSUME NEW t \in Seats \ {"refresh"}
          PROVE  Kept(call[t], call'[t]) /\ (call'[t].late => call[t].late)
      BY <2>1 DEF Kept, Same
    <3> QED
      BY <1>5, <2>2, <3>1, TimelyStays DEF MetaInv
  <2>4. Loaded(disk', screen')
    BY <1>2, <1>5 DEF Loaded, MetaInv
  <2>5. GateIsOfTheScreen'
    <3>1. CASE Counts("refresh")
      <4>1. screen'.gate \in {"NOT READY", "STALE"}
        <5> DEFINE m == disk[c.project.folder].master
        <5>1. call'["refresh"].at # "read"
          BY <1>3, <2>1
        <5>2. ~(m # "broken" /\ c.project.asset /\ c.given # 0)
          BY <1>1, <3>1, <5>1 DEF Peek, ShellInv, Typed, Books, Calls
        <5>3. \/ screen' = [screen EXCEPT !.gate = "STALE"]
              \/ screen' = [NotReady(screen) EXCEPT !.master = m]
          BY <3>1, <5>2 DEF Peek
        <5> QED
          BY <1>2, <1>4, <5>3 DEF Screens
      <4> QED
        BY <4>1, GateStays DEF MetaInv
    <3>2. CASE ~Counts("refresh")
      BY <1>5, <3>2, GateStays DEF MetaInv, Asking
    <3> QED
      BY <3>1, <3>2
  <2> QED
    BY <1>2, <2>3, <2>4, <2>5, FixedSame, CleanKeeps
<1>7. CASE call' # Done(call, "refresh")
  <2>1. call' = [call EXCEPT !["refresh"].at = "read"] /\ c.given # 0
    BY <1>7 DEF Peek
  <2>2. /\ \A t \in Seats \ {"refresh"} : call'[t] = call[t]
        /\ call'["refresh"].at = "read" /\ call'["refresh"].project = c.project
        /\ call'["refresh"].given = c.given /\ call'["refresh"].live = c.live
        /\ call'["refresh"].here = c.here
    BY <1>1, <2>1 DEF ShellInv, Typed, Books, Calls
  <2>3. Clean("refresh")
    BY <1>1, <1>2, <1>5, <2>1, <2>2 DEF Clean, Backed, Timely, Meta, MetaInv, Peek
  <2>4. Asking => Asking'
    BY <2>2 DEF Asking, Running, Counts
  <2> QED
    BY <1>1, <1>2, <1>5, <1>7, <2>2, <2>3, <2>4, FixedSame, OneMoves
<1> QED
  BY <1>6, <1>7

LEMMA ReadEvidenceBacked ==
  ASSUME ShellInv, MetaInv, ReadEvidence
  PROVE  MetaInv'
<1> DEFINE c == call["refresh"]
           d == disk[c.project.folder]
           got == [sub |-> [folder |-> c.project.folder, meta |-> d.meta],
                   audit |-> d.audit, approval |-> d.approval]
<1>1. "refresh" \in Seats /\ "refresh" \notin Ops /\ "show" \in Labels
  BY SeatNames DEF Labels
<1>2. disk' = disk /\ screen' = screen /\ disk \in [Folders -> Stored]
  BY DEF ReadEvidence, ShellInv, Typed
<1>3. c.project.folder \in Folders /\ d.meta # 0
  BY <1>1, Runs DEF ReadEvidence, Running
<1>4. got \in Found /\ got \in Data
  <2>1. d.meta \in Nat /\ d.audit \in Audits /\ d.approval \in Approvals
    BY <1>3, DiskOf DEF ShellInv
  <2>2. got.sub \in Subs
    BY <1>3, <2>1 DEF Subs
  <2>3. got \in Found
    BY <2>1, <2>2 DEF Found
  <2> QED
    BY <2>3 DEF Data
<1>5. Go("refresh", "show", got)
  BY DEF ReadEvidence
<1>6. /\ \A t \in Seats \ {"refresh"} : call'[t] = call[t]
      /\ call'["refresh"].at = "show" /\ call'["refresh"].got = got
      /\ call'["refresh"].project = c.project /\ call'["refresh"].given = c.given
      /\ call'["refresh"].live = c.live /\ call'["refresh"].here = c.here
  <2>1. call \in Books
    BY DEF ShellInv, Typed
  <2> HIDE DEF got, d
  <2> QED
    BY <1>1, <1>4, <1>5, <2>1, GoFields
<1>7. c.given = d.meta
  BY <1>1 DEF MetaInv, Backed, Meta, ReadEvidence
<1>8. OwnAudit(c.project.folder, d.audit) /\ OwnApproval(c.project.folder, d.approval)
  BY <1>3 DEF MetaInv, Records
<1>9. Timely(screen', "refresh", call'["refresh"])
  BY <1>1, <1>2, <1>6 DEF Timely, MetaInv, ReadEvidence
<1>10. Clean("refresh")
  <2>1. got.sub.meta = d.meta /\ got.audit = d.audit /\ got.approval = d.approval
    OBVIOUS
  <2> HIDE DEF got
  <2>2. Meta(disk', call'["refresh"]) = d.meta
    BY <1>2, <1>6 DEF Meta
  <2>3. Backed(disk', "refresh", call'["refresh"])
    BY <1>1, <1>3, <1>6, <1>7, <1>8, <2>1, <2>2 DEF Backed
  <2> QED
    BY <1>9, <2>3 DEF Clean
<1>11. (Asking => Asking') /\ SameGate(screen, screen')
  BY <1>2, <1>6 DEF Asking, Running, Counts, SameGate
<1> QED
  BY <1>1, <1>2, <1>6, <1>10, <1>11, FixedSame, OneMoves

LEMMA ShowEvidenceBacked ==
  ASSUME ShellInv, MetaInv, ShowEvidence
  PROVE  MetaInv'
<1> DEFINE c == call["refresh"]
           g == c.got
           gate == GateOf(g.sub.meta, g.audit, g.approval)
<1>1. "refresh" \in Seats /\ "refresh" \notin Ops
  BY SeatNames
<1>2. disk' = disk /\ disk \in [Folders -> Stored] /\ screen \in Screens
  BY DEF ShowEvidence, ShellInv, Typed
<1>3. call'["refresh"] = Idle /\ \A t \in Seats \ {"refresh"} : call'[t] = call[t]
  BY <1>1, DoneFields DEF ShowEvidence, ShellInv, Typed
<1>4. Clean("refresh")
  <2>1. Idle.at = "idle"
    BY DEF Idle
  <2> QED
    BY <1>1, <1>3, <2>1 DEF Clean, Timely
<1>5. CASE ~Counts("refresh")
  <2>1. screen' = screen
    BY <1>5 DEF ShowEvidence
  <2>2. SameGate(screen, screen') /\ (Asking => Asking')
    BY <1>5, <2>1 DEF SameGate, Asking
  <2> QED
    BY <1>1, <1>2, <1>3, <1>4, <2>2, FixedSame, OneMoves
<1>6. CASE Counts("refresh")
  <2>1. /\ screen'.project = screen.project /\ screen'.loaded = screen.loaded
        /\ screen'.gate = gate /\ screen'.audit = g.audit /\ screen'.approval = g.approval
    <3>1. screen' = [Evidence(screen, g.sub, g.audit, g.approval, gate) EXCEPT !.previous = g.approval.n]
      BY <1>6 DEF ShowEvidence
    <3> HIDE DEF gate, g
    <3> QED
      BY <1>2, <3>1 DEF Evidence, Screens
  <2>2. \A t \in Seats : Clean(t)
    <3>1. ASSUME NEW t \in Seats \ {"refresh"}
          PROVE  Kept(call[t], call'[t]) /\ (call'[t].late => call[t].late)
      BY <1>3 DEF Kept, Same
    <3> QED
      BY <1>4, <2>1, <3>1, TimelyStays DEF MetaInv
  <2>3. Loaded(disk', screen')
    BY <1>2, <2>1 DEF Loaded, MetaInv
  <2>4. GateIsOfTheScreen'
    <3>1. /\ screen.project = c.project /\ c.project # Nothing /\ c.project.folder \in Folders
          /\ g.audit.verdict \in Verdicts \union {"none", "PASS"}
      BY <1>1, <1>6, Runs DEF ShowEvidence, Running, Counts, HasGot, Found, Audits, ShellInv, HereInv
    <3>2. /\ g.sub.meta = c.given /\ c.given # 0 /\ c.given = disk[c.project.folder].meta
          /\ OwnAudit(c.project.folder, g.audit) /\ OwnApproval(c.project.folder, g.approval)
      BY <1>1 DEF ShowEvidence, MetaInv, Backed, Meta
    <3>3. screen.loaded # 0
      BY <1>1, <1>6, <3>2 DEF ShowEvidence, MetaInv, Timely, Counts
    <3>4. screen.loaded = g.sub.meta
      BY <3>1, <3>2, <3>3 DEF MetaInv, Loaded
    <3>5. /\ gate = "READY" => g.audit.n # 0 /\ g.audit.meta = g.sub.meta /\ g.audit.verdict # "FAIL"
          /\ gate = "APPROVED" => g.approval.n # 0 /\ g.approval.meta = g.sub.meta
      BY GateMeans
    <3> HIDE DEF gate, g
    <3> QED
      BY <2>1, <3>1, <3>2, <3>4, <3>5 DEF GateIsOfTheScreen, OwnAudit, OwnApproval
  <2> QED
    BY <1>2, <2>2, <2>3, <2>4, FixedSame, CleanKeeps
<1> QED
  BY <1>5, <1>6

-----------------------------------------------------------------------------
(* Preparing, saving, inspecting, and what others do keep it.               *)

LEMMA BeginSaveBacked ==
  ASSUME ShellInv, MetaInv, BeginSave
  PROVE  MetaInv'
<1> DEFINE c == Call("save", "write", screen.project, screen.loaded)
<1>1. "save" \in Seats /\ "save" \notin Ops /\ "save" # "refresh"
  BY SeatNames
<1>2. disk' = disk /\ screen' = screen /\ disk \in [Folders -> Stored]
  BY DEF BeginSave, ShellInv, Typed
<1>3. call'["save"] = c /\ \A t \in Seats \ {"save"} : call'[t] = call[t]
  BY <1>1 DEF BeginSave, Begin, ShellInv, Typed, Books
<1>4. c.at = "write" /\ c.given = 0
  BY StepMeans DEF Call, Idle, BeginSave, Offered
<1>5. Clean("save") /\ SameGate(screen, screen')
  BY <1>1, <1>2, <1>3, <1>4 DEF Clean, Backed, Timely, SameGate
<1> QED
  BY <1>1, <1>2, <1>3, <1>5, FixedSame, OneMoves

LEMMA PutRevisionBacked ==
  ASSUME ShellInv, MetaInv, ShellInv', PutRevision
  PROVE  MetaInv'
<1> DEFINE c == call["prepare"]
           p == [c.project EXCEPT !.asset = TRUE, !.man = serial + 1]
<1>1. "prepare" \in Seats /\ "prepare" # "refresh" /\ "show" \in Labels
  BY SeatNames DEF Labels
<1>2. screen' = screen /\ disk' \in [Folders -> Stored] /\ disk \in [Folders -> Stored]
  BY DEF PutRevision, ShellInv, Typed
<1>3. \A t \in Seats \ {"prepare"} : call'[t] = call[t]
  BY <1>1 DEF PutRevision, Go, ShellInv, Typed, Books
<1>4. \A f \in Folders : /\ disk'[f].meta = disk[f].meta /\ disk'[f].audit = disk[f].audit
                         /\ disk'[f].approval = disk[f].approval
  <2>1. c.project \in Opened /\ c.project.folder \in Folders
    BY <1>1, Runs DEF PutRevision, Running
  <2>2. p.folder \in Folders
    BY <2>1 DEF Opened
  <2>3. disk' = [disk EXCEPT ![p.folder].man = p.man, ![p.folder].asset = TRUE]
    BY DEF PutRevision
  <2> HIDE DEF p
  <2> QED
    BY <1>2, <2>2, <2>3 DEF Stored
<1>5. Fixed(disk, disk') /\ Records(disk')
  BY <1>4 DEF Fixed, Records, MetaInv
<1>6. SameGate(screen, screen')
  BY <1>2 DEF SameGate
<1> QED
  BY <1>1, <1>2, <1>3, <1>5, <1>6, PlainClean, OneMoves

LEMMA PutMetadataBacked ==
  ASSUME ShellInv, MetaInv, ShellInv', PutMetadata
  PROVE  MetaInv'
<1> DEFINE c == call["save"]
           f == c.project.folder
<1>1. "save" \in Seats /\ "save" \notin Ops /\ "save" # "refresh" /\ "show" \in Labels
  BY SeatNames DEF Labels
<1>2. screen' = screen /\ disk' \in [Folders -> Stored] /\ disk \in [Folders -> Stored]
  BY DEF PutMetadata, ShellInv, Typed
<1>3. f \in Folders /\ serial \in Nat /\ serial + 1 \in Data /\ serial + 1 # 0
  BY <1>1, Runs DEF PutMetadata, Running, Data, ShellInv, Typed
<1>4. disk[f].meta = 0
  BY <1>1 DEF PutMetadata, MetaInv, Backed
<1>5. Go("save", "show", serial + 1) /\ Write(f, "meta", serial + 1)
  BY DEF PutMetadata
<1>6. /\ \A t \in Seats \ {"save"} : call'[t] = call[t]
      /\ call'["save"].at = "show" /\ call'["save"].got = serial + 1
      /\ call'["save"].project = c.project /\ call'["save"].given = c.given
  BY <1>1, <1>3, <1>5, GoFields DEF ShellInv, Typed
<1>7. disk' = [disk EXCEPT ![f] = [disk[f] EXCEPT !.meta = serial + 1]]
  BY <1>5 DEF Write, ShellInv, Typed, Stored
<1>8. /\ disk'[f].meta = serial + 1 /\ disk'[f].audit = disk[f].audit
      /\ disk'[f].approval = disk[f].approval
      /\ \A g \in Folders \ {f} : disk'[g] = disk[g]
  <2>1. disk'[f] = [disk[f] EXCEPT !.meta = serial + 1] /\ \A g \in Folders \ {f} : disk'[g] = disk[g]
    BY <1>2, <1>3, <1>7
  <2>2. disk[f] \in Stored
    BY <1>2, <1>3
  <2> QED
    BY <2>1, <2>2 DEF Stored
<1>9. Fixed(disk, disk') /\ Records(disk')
  BY <1>4, <1>8 DEF Fixed, Records, MetaInv
<1>10. c.given = 0
  BY <1>1 DEF PutMetadata, MetaInv, Backed
<1>11. Clean("save") /\ SameGate(screen, screen')
  BY <1>1, <1>2, <1>3, <1>6, <1>8, <1>10 DEF Clean, Backed, Timely, Meta, SameGate
<1> QED
  BY <1>1, <1>2, <1>6, <1>9, <1>11, OneMoves

\* The version that is shown is the one of the folder: whoever counts knows it.
LEMMA ShowSavedBacked ==
  ASSUME ShellInv, MetaInv, ShowSaved
  PROVE  MetaInv'
<1> DEFINE c == call["save"]
<1>1. /\ "save" \in Seats /\ "save" \notin Ops /\ "save" # "refresh"
      /\ "refresh" \in Seats /\ "refresh" \notin Ops
  BY SeatNames
<1>2. disk' = disk /\ disk \in [Folders -> Stored]
  BY DEF ShowSaved, ShellInv, Typed
<1>3. Idle.at = "idle"
  BY DEF Idle
<1>4. CASE ~c.here
  <2>1. screen' = screen /\ call'["save"] = Idle /\ \A t \in Seats \ {"save"} : call'[t] = call[t]
    BY <1>1, <1>4, DoneFields DEF ShowSaved, ShellInv, Typed
  <2>2. Clean("save") /\ SameGate(screen, screen')
    BY <1>1, <1>3, <2>1 DEF Clean, Timely, SameGate
  <2> QED
    BY <1>1, <1>2, <2>1, <2>2, FixedSame, OneMoves
<1>5. CASE c.here
  <2>1. c.project \in Opened /\ c.got \in Nat /\ screen.project = c.project /\ c.project # Nothing
    BY <1>1, <1>5, Runs DEF ShowSaved, Running, HasGot, ShellInv, HereInv
  <2>2. c.got # 0 /\ c.got = disk[c.project.folder].meta
    BY <1>1 DEF ShowSaved, MetaInv, Backed, Meta
  <2>3. /\ call'["save"] = Idle /\ call'["refresh"] = RefreshOf(c.project, c.got)
        /\ \A t \in Seats \ {"save", "refresh"} :
             /\ Same(call[t], call'[t]) /\ (call'[t].here <=> call[t].here)
             /\ call'[t].live <=> (call[t].live /\ call[t].kind \notin Outdated)
             /\ call'[t].late <=> IF c.got = screen.loaded THEN call[t].late ELSE call[t].at # "idle"
             /\ call[t] = Idle => call'[t] = Idle
        /\ screen'.project = screen.project /\ screen'.loaded = c.got /\ screen'.gate = "STALE"
    BY <1>5, ShowSavedFields
  <2>4. Clean("refresh")
    BY <1>2, <2>1, <2>2, <2>3, StartsClean
  <2>5. Clean("save")
    BY <1>1, <1>3, <2>3 DEF Clean, Timely
  <2>6. ASSUME NEW t \in Seats \ {"save", "refresh"}
        PROVE  Clean(t)
    <3>1. Kept(call[t], call'[t]) /\ call'[t].at = call[t].at
      BY <2>3 DEF Kept, Same
    <3>2. CASE t = "inspect"
      <4>1. call'[t].live => call[t] # Idle
        BY <2>3 DEF Idle
      <4>2. call[t] # Idle => call[t].kind \in Outdated
        BY <3>2 DEF ShellInv, Alive, HasGot, Outdated, Preflights
      <4>3. t \notin Ops
        BY <3>2, SeatNames
      <4> QED
        BY <2>3, <3>1, <3>2, <4>1, <4>2, <4>3 DEF Clean, Timely
    <3>3. CASE t \in Ops
      <4>1. t # "refresh" /\ t # "inspect"
        BY <3>3, SeatNames
      <4>2. ASSUME call[t].at # "idle", call[t].live, call[t].here
            PROVE  c.got = screen.loaded /\ ~call[t].late
        <5>1. screen.loaded # 0 /\ ~call[t].late
          BY <3>3, <4>2 DEF MetaInv, Timely
        <5> QED
          BY <2>1, <2>2, <5>1 DEF MetaInv, Loaded
      <4>3. ASSUME call'[t].at # "idle", call'[t].live, call'[t].here
            PROVE  ~call'[t].late
        BY <2>3, <3>1, <4>2, <4>3
      <4> QED
        BY <2>2, <2>3, <3>1, <4>1, <4>3 DEF Clean, Timely
    <3>4. CASE t \notin Ops \union {"inspect"}
      BY <3>1, <3>4 DEF Clean, Timely
    <3> QED
      BY <3>2, <3>3, <3>4
  <2>7. Loaded(disk', screen')
    BY <1>2, <2>1, <2>2, <2>3 DEF Loaded
  <2>8. GateIsOfTheScreen'
    BY <2>3, GateStays DEF MetaInv
  <2> QED
    BY <1>2, <2>4, <2>5, <2>6, <2>7, <2>8, FixedSame, CleanKeeps
<1> QED
  BY <1>4, <1>5

\* A call that begins supersedes others, and none of those is a refresh.
LEMMA SupersedingBacked ==
  ASSUME ShellInv, MetaInv, disk' = disk, SameGate(screen, screen'), NEW s \in Seats, s # "refresh",
         NEW K, "refresh" \notin K, Clean(s),
         \A t \in Seats \ {s} : /\ Kept(call[t], call'[t]) /\ (call'[t].here <=> call[t].here)
                                /\ call'[t].live <=> call[t].live /\ call[t].kind \notin K
                                /\ call'[t].late <=> call[t].late
  PROVE  MetaInv'
<1>1. disk' \in [Folders -> Stored]
  BY DEF ShellInv, Typed
<1>2. \A t \in Seats : Clean(t)
  BY TimelyStays DEF SameGate, MetaInv
<1>3. Asking => Asking'
  <2>1. "refresh" \in Seats
    BY SeatNames
  <2>2. Running("refresh") => call["refresh"].kind = "refresh"
    BY <2>1, Runs DEF HasGot
  <2> QED
    BY <2>1, <2>2 DEF Asking, Running, Counts, Kept, Same
<1>4. Loaded(disk', screen')
  BY DEF Loaded, SameGate, MetaInv
<1>5. GateIsOfTheScreen'
  BY <1>3, GateStays DEF MetaInv
<1> QED
  BY <1>1, <1>2, <1>4, <1>5, FixedSame, CleanKeeps

LEMMA BeginInspectBacked ==
  ASSUME ShellInv, MetaInv, BeginInspect
  PROVE  MetaInv'
<1> DEFINE c == Call("inspect", "show", screen.project, 0)
<1>1. "inspect" \in Seats /\ "inspect" \notin Ops /\ "inspect" # "refresh"
  BY SeatNames
<1>2. c \in Calls /\ ~c.late
  <2>1. "inspect" \in Titles /\ "show" \in Labels /\ screen.project \in Projects /\ 0 \in Data
    BY ScreenOf DEF Titles, Singles, Labels, Data, ShellInv
  <2>2. c \in Calls
    BY <2>1, CallFields
  <2> QED
    BY <2>2 DEF Call, Idle
<1>3. call' = [Supersede(call, Preflights) EXCEPT !["inspect"] = c] /\ disk' = disk
  BY DEF BeginInspect
<1> HIDE DEF c
<1>4. /\ call'["inspect"] = c
      /\ \A t \in Seats \ {"inspect"} :
           /\ Kept(call[t], call'[t]) /\ (call'[t].here <=> call[t].here)
           /\ call'[t].live <=> call[t].live /\ call[t].kind \notin Preflights
           /\ call'[t].late <=> call[t].late
  <2>1. c \in Calls /\ call' = [Supersede(call, Preflights) EXCEPT !["inspect"] = c]
    BY <1>2, <1>3
  <2> QED
    BY <1>1, <2>1, SupersedingKeeps
<1>5. Clean("inspect")
  BY <1>1, <1>2, <1>4 DEF Clean, Backed, Timely
<1>6. SameGate(screen, screen')
  BY DEF BeginInspect, ShellInv, Typed, Screens, SameGate
<1>7. "refresh" \notin Preflights
  BY DEF Preflights
<1> QED
  BY <1>1, <1>3, <1>4, <1>5, <1>6, <1>7, SupersedingBacked

LEMMA ShowInspectBacked ==
  ASSUME ShellInv, MetaInv, ShowInspect
  PROVE  MetaInv'
<1>1. "inspect" \in Seats /\ "inspect" \notin Ops /\ "inspect" # "refresh"
  BY SeatNames
<1>2. disk' = disk /\ disk \in [Folders -> Stored]
  BY DEF ShowInspect, ShellInv, Typed
<1>3. call'["inspect"] = Idle /\ \A t \in Seats \ {"inspect"} : call'[t] = call[t]
  BY <1>1, DoneFields DEF ShowInspect, ShellInv, Typed
<1>4. ~Idle.live
  BY DEF Idle
<1>5. Clean("inspect")
  BY <1>1, <1>3, <1>4 DEF Clean, Timely
<1>6. SameGate(screen, screen')
  BY DEF ShowInspect, ShellInv, Typed, Screens, SameGate
<1> QED
  BY <1>1, <1>2, <1>3, <1>5, <1>6, FixedSame, OneMoves

LEMMA DecisionBacked ==
  ASSUME ShellInv, MetaInv, ShowDecision \/ Dismiss
  PROVE  MetaInv'
<1>1. "check" \in Seats /\ "check" # "refresh"
  BY SeatNames
<1>2. disk' = disk /\ disk \in [Folders -> Stored]
  BY DEF ShowDecision, Dismiss, ShellInv, Typed
<1>3. \A t \in Seats \ {"check"} : call'[t] = call[t]
  BY <1>1, DoneFields DEF ShowDecision, Dismiss, ShellInv, Typed
<1>4. SameGate(screen, screen')
  BY DEF ShowDecision, Dismiss, ShellInv, Typed, Screens, SameGate
<1> QED
  BY <1>1, <1>2, <1>3, <1>4, PlainClean, FixedSame, OneMoves

\* Others do not write metadata, and their records are of the folder they are in.
LEMMA OutsideBacked ==
  ASSUME "meta" \notin Edited, ShellInv, MetaInv, NEW f \in Folders, Outside(f)
  PROVE  MetaInv'
<1>1. screen' = screen /\ call' = call
  BY OutsideWrites DEF ShellInv
<1>2. PICK r \in Stored :
        /\ disk' = [disk EXCEPT ![f] = r] /\ r.meta = disk[f].meta
        /\ \/ r.audit = disk[f].audit
           \/ r.audit.folder = f /\ r.audit.verdict \in Verdicts
        /\ \/ r.approval = disk[f].approval
           \/ r.approval.folder = f
  BY OutsideWrites DEF ShellInv
<1>3. /\ disk' \in [Folders -> Stored] /\ disk'[f] = r
      /\ \A g \in Folders \ {f} : disk'[g] = disk[g]
  BY <1>2 DEF ShellInv, Typed
<1>4. OwnAudit(f, r.audit) /\ OwnApproval(f, r.approval)
  BY <1>2, ShellAssumption DEF MetaInv, Records, OwnAudit, OwnApproval
<1>5. Fixed(disk, disk') /\ Records(disk')
  BY <1>2, <1>3, <1>4 DEF Fixed, Records, MetaInv
<1>6. "open" \in Seats /\ "open" # "refresh" /\ SameGate(screen, screen')
  BY <1>1, SeatNames DEF SameGate
<1> QED
  BY <1>1, <1>3, <1>5, <1>6, PlainClean, OneMoves

-----------------------------------------------------------------------------
(* Audits, approvals and exports keep it.                                   *)

LEMMA BeginOpBacked ==
  ASSUME ShellInv, MetaInv, NEW o \in Ops, NEW step \in DOMAIN Kinds, BeginOp(o, step)
  PROVE  MetaInv'
<1> DEFINE asked == [sub |-> screen.submission, audit |-> screen.audit.n, loaded |-> screen.loaded,
                     previous |-> IF step = "audit" /\ screen.approval.n # 0 THEN screen.approval.n
                                                                             ELSE screen.previous]
           c == Call(KindOf(step), "look", screen.project, asked)
<1>1. o \in Seats /\ o \notin Singles /\ o \notin {"load", "save", "refresh", "inspect"}
  BY SeatNames
<1>2. /\ step \in {"audit", "approval", "export"} /\ "refresh" \notin Kinds[step]
      /\ KindOf(step) \in {"audit", "approve", "export"}
  BY DEF Kinds, KindOf, Preflights
<1>3. /\ screen.project \in Projects /\ screen.project # Nothing /\ screen.loaded # 0
      /\ screen.project.folder \in Folders
  BY <1>2, ScreenOf, StepMeans DEF BeginOp, Offered, Projects, ShellInv
<1>4. asked \in Asked
  BY ScreenOf DEF Asked, ShellInv
<1>5. call' = [Supersede(call, Kinds[step]) EXCEPT ![o] = c] /\ disk' = disk
  BY DEF BeginOp
<1> HIDE DEF asked
<1>6. c \in Calls
  <2>1. KindOf(step) \in Titles /\ "look" \in Labels /\ asked \in Data
    BY <1>2, <1>4 DEF Titles, Singles, Labels, Data
  <2> QED
    BY <1>3, <2>1, CallFields
<1>7. c.at = "look" /\ c.project = screen.project /\ ~c.late
  BY DEF Call, Idle
<1>8. SameGate(screen, screen')
  BY DEF BeginOp, ShellInv, Typed, Screens, SameGate
<1> HIDE DEF c
<1>9. /\ call'[o] = c
      /\ \A t \in Seats \ {o} :
           /\ Kept(call[t], call'[t]) /\ (call'[t].here <=> call[t].here)
           /\ call'[t].live <=> call[t].live /\ call[t].kind \notin Kinds[step]
           /\ call'[t].late <=> call[t].late
  BY <1>1, <1>5, <1>6, SupersedingKeeps
<1>10. Clean(o)
  <2>1. Meta(disk', c) # 0
    BY <1>3, <1>5, <1>7 DEF Meta, MetaInv, Loaded
  <2>2. ~HasRecord(c)
    BY <1>7 DEF HasRecord
  <2> QED
    BY <1>1, <1>3, <1>7, <1>8, <1>9, <2>1, <2>2 DEF Clean, Backed, Timely, SameGate
<1> QED
  BY <1>1, <1>2, <1>5, <1>8, <1>9, <1>10, SupersedingBacked

LEMMA LookBacked ==
  ASSUME ShellInv, MetaInv, NEW o \in Ops, Look(o)
  PROVE  MetaInv'
<1> DEFINE c == call[o]
           d == disk[c.project.folder]
<1>1. /\ o \in Seats /\ o \notin {"load", "save", "refresh", "inspect", "open"}
      /\ "show" \in Labels /\ "write" \in Labels
  BY SeatNames DEF Labels
<1>2. disk' = disk /\ screen' = screen /\ disk \in [Folders -> Stored]
  BY DEF Look, ShellInv, Typed
<1>3. HasGot(o, c) /\ c.project.folder \in Folders /\ c.at = "look"
  BY <1>1, Runs DEF Look, Running
<1>4. Meta(disk, c) # 0
  BY <1>1, <1>3 DEF MetaInv, Backed
<1>5. CASE c.kind = "export"
  <2>1. Go(o, "show", "written") /\ "written" \in Data
    BY <1>5 DEF Look, Data
  <2>2. /\ \A t \in Seats \ {o} : call'[t] = call[t]
        /\ call'[o].at = "show" /\ call'[o].project = c.project /\ call'[o].kind = c.kind
        /\ call'[o].live = c.live /\ call'[o].here = c.here /\ call'[o].late = c.late
    BY <1>1, <2>1, GoFields DEF ShellInv, Typed
  <2>3. ~HasRecord(call'[o])
    BY <1>5, <2>2 DEF HasRecord
  <2>4. Timely(screen', o, call'[o])
    BY <1>1, <1>2, <1>3, <2>2 DEF Timely, MetaInv
  <2>5. Clean(o) /\ SameGate(screen, screen')
    BY <1>1, <1>2, <1>4, <2>2, <2>3, <2>4 DEF Clean, Backed, Meta, SameGate
  <2> QED
    BY <1>1, <1>2, <2>2, <2>5, FixedSame, OneMoves
<1>6. CASE c.kind # "export"
  <2>1. PICK v \in Verdicts : Go(o, "write", [n |-> 0, folder |-> c.project.folder, meta |-> d.meta,
                                               verdict |-> v, audit |-> d.audit.n])
    BY <1>6 DEF Look
  <2> DEFINE got == [n |-> 0, folder |-> c.project.folder, meta |-> d.meta,
                     verdict |-> v, audit |-> d.audit.n]
  <2>2. got \in Drafts /\ got \in Data
    BY <1>3, DiskOf DEF Drafts, Data, ShellInv
  <2>3. Go(o, "write", got)
    BY <2>1
  <2>4. got.meta = d.meta /\ got.folder = c.project.folder /\ got.verdict \in {"PASS", "FAIL"}
    BY <2>1, ShellAssumption
  <2>5. c.kind = "audit" => d.meta = c.given.sub.meta
    BY DEF Look, Can, CanAudit
  <2> HIDE DEF got
  <2>6. /\ \A t \in Seats \ {o} : call'[t] = call[t]
        /\ call'[o].at = "write" /\ call'[o].project = c.project /\ call'[o].kind = c.kind
        /\ call'[o].given = c.given /\ call'[o].live = c.live /\ call'[o].here = c.here
        /\ call'[o].late = c.late /\ call'[o].got = got
    BY <1>1, <2>2, <2>3, GoFields DEF ShellInv, Typed
  <2>7. Timely(screen', o, call'[o])
    BY <1>1, <1>2, <1>3, <2>6 DEF Timely, MetaInv
  <2>8. Clean(o) /\ SameGate(screen, screen')
    BY <1>1, <1>2, <1>4, <2>4, <2>5, <2>6, <2>7 DEF Clean, Backed, Meta, SameGate
  <2> QED
    BY <1>1, <1>2, <2>6, <2>8, FixedSame, OneMoves
<1> QED
  BY <1>5, <1>6

LEMMA PutRecordBacked ==
  ASSUME ShellInv, MetaInv, ShellInv', NEW o \in Ops, PutRecord(o)
  PROVE  MetaInv'
<1> DEFINE c == call[o]
           f == c.project.folder
           a == AsAudit(c.got)
           p == AsApproval(c.got)
           r == IF c.kind = "audit" THEN a ELSE p
           field == IF c.kind = "audit" THEN "audit" ELSE "approval"
<1>1. o \in Seats /\ o \notin {"load", "save", "refresh", "inspect", "open"} /\ "show" \in Labels
  BY SeatNames DEF Labels
<1>2. screen' = screen /\ disk \in [Folders -> Stored] /\ disk' \in [Folders -> Stored]
  BY DEF PutRecord, ShellInv, Typed
<1>3. HasGot(o, c) /\ f \in Folders /\ c.got \in Drafts /\ c.at = "write" /\ c.kind # "export"
  BY <1>1, Runs DEF PutRecord, Running, HasGot
<1>4. /\ Meta(disk, c) # 0 /\ c.got.meta = Meta(disk, c) /\ c.got.folder = f
      /\ c.kind = "audit" => c.got.verdict \in {"PASS", "FAIL"} /\ c.got.meta = c.given.sub.meta
  BY <1>1, <1>3 DEF MetaInv, Backed, HasRecord
<1>5. a \in Audits /\ p \in Approvals
  BY <1>3, RecordTypes DEF ShellInv
<1>6. /\ a.folder = c.got.folder /\ a.meta = c.got.meta /\ a.verdict = c.got.verdict
      /\ p.folder = c.got.folder /\ p.meta = c.got.meta
  BY DEF AsAudit, AsApproval
<1>7. Go(o, "show", r) /\ Write(f, field, r)
  BY DEF PutRecord
<1> HIDE DEF a, p
<1>8. r \in Data
  BY <1>5 DEF Data
<1>9. /\ \A t \in Seats \ {o} : call'[t] = call[t]
      /\ call'[o].at = "show" /\ call'[o].project = c.project /\ call'[o].kind = c.kind
      /\ call'[o].given = c.given /\ call'[o].live = c.live /\ call'[o].here = c.here
      /\ call'[o].late = c.late /\ call'[o].got = r
  BY <1>1, <1>7, <1>8, GoFields DEF ShellInv, Typed
<1>10. /\ \A g \in Folders : disk'[g].meta = disk[g].meta
       /\ \A g \in Folders \ {f} : disk'[g] = disk[g]
       /\ disk'[f].audit = IF c.kind = "audit" THEN a ELSE disk[f].audit
       /\ disk'[f].approval = IF c.kind = "audit" THEN disk[f].approval ELSE p
  <2>1. CASE c.kind = "audit"
    <3>1. disk' = [disk EXCEPT ![f] = [disk[f] EXCEPT !.audit = a]]
      BY <1>3, <1>7, <2>1 DEF Write, ShellInv, Typed, Stored
    <3> QED
      BY <1>2, <1>3, <2>1, <3>1 DEF Stored
  <2>2. CASE c.kind # "audit"
    <3>1. disk' = [disk EXCEPT ![f] = [disk[f] EXCEPT !.approval = p]]
      BY <1>3, <1>7, <2>2 DEF Write, ShellInv, Typed, Stored
    <3> QED
      BY <1>2, <1>3, <2>2, <3>1 DEF Stored
  <2> QED
    BY <2>1, <2>2
<1>11. Fixed(disk, disk')
  BY <1>10 DEF Fixed
<1>12. Records(disk')
  <2>1. OwnAudit(f, disk'[f].audit)
    BY <1>3, <1>4, <1>6, <1>10 DEF OwnAudit, MetaInv, Records
  <2>2. OwnApproval(f, disk'[f].approval)
    BY <1>3, <1>4, <1>6, <1>10 DEF OwnApproval, MetaInv, Records
  <2> QED
    BY <1>10, <2>1, <2>2 DEF Records, MetaInv
<1>13. Clean(o)
  <2>1. Timely(screen', o, call'[o])
    BY <1>1, <1>2, <1>3, <1>9 DEF Timely, MetaInv
  <2>2. Meta(disk', call'[o]) = Meta(disk, c)
    BY <1>3, <1>9, <1>10 DEF Meta
  <2> QED
    BY <1>1, <1>4, <1>6, <1>9, <2>1, <2>2 DEF Clean, Backed
<1>14. SameGate(screen, screen')
  BY <1>2 DEF SameGate
<1> QED
  BY <1>1, <1>2, <1>9, <1>11, <1>12, <1>13, <1>14, OneMoves

\* A handler that ends, whatever it leaves of the gate.
LEMMA EndsBacked ==
  ASSUME ShellInv, MetaInv, disk' = disk, NEW s \in Seats, call' = Done(call, s),
         screen'.project = screen.project, screen'.loaded = screen.loaded, GateIsOfTheScreen'
  PROVE  MetaInv'
<1>1. call'[s] = Idle /\ \A t \in Seats \ {s} : call'[t] = call[t]
  BY DoneFields DEF ShellInv, Typed
<1>2. Clean(s)
  <2>1. Idle.at = "idle" /\ ~Idle.live
    BY DEF Idle
  <2> QED
    BY <1>1, <2>1 DEF Clean, Timely
<1>3. ASSUME NEW t \in Seats \ {s}
      PROVE  Clean(t)
  <2>1. Kept(call[t], call'[t]) /\ (call'[t].late => call[t].late)
    BY <1>1 DEF Kept, Same
  <2> QED
    BY <2>1, TimelyStays DEF MetaInv
<1>4. Loaded(disk', screen') /\ disk' \in [Folders -> Stored]
  BY DEF Loaded, MetaInv, ShellInv, Typed
<1> QED
  BY <1>2, <1>3, <1>4, FixedSame, CleanKeeps

LEMMA UnapprovedGate ==
  ASSUME NEW meta, NEW a
  PROVE  GateOf(meta, a, NoApproval) # "APPROVED"
BY DEF GateOf, NoApproval

LEMMA ShowOpBacked ==
  ASSUME ShellInv, MetaInv, NEW o \in Ops, ShowOp(o)
  PROVE  MetaInv'
<1> DEFINE c == call[o]
           S == Ended(screen, o)
           gate == GateOf(c.given.sub.meta, c.got, NoApproval)
           E == Evidence(S, S.submission, c.got, NoApproval, gate)
<1>1. o \in Seats /\ o # "refresh" /\ o # "open"
  BY SeatNames
<1>2. HasGot(o, c) /\ c.project # Nothing /\ c.at = "show" /\ c.project.folder \in Folders
  BY <1>1, Runs DEF ShowOp, Running
<1>3. /\ S \in Screens /\ SameGate(screen, S)
  BY EndedFields DEF SameGate
<1>4. Asking => Asking'
  <2>1. call' = Done(call, o) /\ call \in Books /\ "refresh" \in Seats \ {o}
    BY <1>1, SeatNames DEF ShowOp, ShellInv, Typed
  <2>2. call'["refresh"] = call["refresh"]
    BY <1>1, <2>1, DoneFields
  <2> QED
    BY <2>2 DEF Asking, Running, Counts
<1>5. \/ screen' = S
      \/ /\ Counts(o) /\ c.kind = "audit"
         /\ screen' = [E EXCEPT !.previous = c.given.previous]
      \/ /\ Counts(o) /\ c.kind = "approve"
         /\ screen' = [S EXCEPT !.approval = c.got, !.previous = c.got.n, !.gate = "APPROVED"]
      \/ screen' = [S EXCEPT !.written = TRUE]
  BY <1>2 DEF ShowOp, HasGot
<1>6. c.kind # "export" => /\ Meta(disk, c) # 0 /\ c.got.meta = Meta(disk, c)
                           /\ c.got.folder = c.project.folder
  BY <1>1, <1>2 DEF MetaInv, Backed, HasRecord
<1>7. c.kind = "audit" => c.got.verdict \in {"PASS", "FAIL"} /\ c.got.meta = c.given.sub.meta
  BY <1>1, <1>2 DEF MetaInv, Backed, HasRecord
<1>8. ASSUME Counts(o)
      PROVE  screen.project = c.project /\ screen.loaded = Meta(disk, c)
  <2>1. screen.project = c.project
    BY <1>1, <1>2, <1>8 DEF Counts, ShellInv, HereInv, Running
  <2>2. screen.loaded # 0
    BY <1>1, <1>2, <1>8 DEF MetaInv, Timely, Counts
  <2> QED
    BY <1>2, <2>1, <2>2 DEF MetaInv, Loaded, Meta
<1>9. gate = "READY" => c.got.meta = c.given.sub.meta /\ c.got.verdict # "FAIL"
  BY GateMeans
<1>10. gate # "APPROVED"
  BY UnapprovedGate
<1> HIDE DEF S, gate
<1>11. CASE screen' = S \/ screen' = [S EXCEPT !.written = TRUE]
  <2>1. SameGate(screen, screen')
    BY <1>3, <1>11 DEF SameGate, Screens
  <2>2. GateIsOfTheScreen'
    BY <1>4, <2>1, GateStays DEF MetaInv
  <2> QED
    BY <1>1, <2>1, <2>2, EndsBacked DEF ShowOp, SameGate
<1>12. CASE Counts(o) /\ c.kind = "audit" /\ screen' = [E EXCEPT !.previous = c.given.previous]
  <2>1. /\ screen'.project = screen.project /\ screen'.loaded = screen.loaded
        /\ screen'.gate = gate /\ screen'.audit = c.got
    BY <1>3, <1>12 DEF Evidence, Screens, SameGate
  <2>2. GateIsOfTheScreen'
    BY <1>2, <1>6, <1>7, <1>8, <1>9, <1>10, <1>12, <2>1 DEF GateIsOfTheScreen
  <2> QED
    BY <1>1, <2>1, <2>2, EndsBacked DEF ShowOp
<1>13. CASE /\ Counts(o) /\ c.kind = "approve"
            /\ screen' = [S EXCEPT !.approval = c.got, !.previous = c.got.n, !.gate = "APPROVED"]
  <2>1. /\ screen'.project = screen.project /\ screen'.loaded = screen.loaded
        /\ screen'.gate = "APPROVED" /\ screen'.approval = c.got
    BY <1>3, <1>13 DEF Screens, SameGate
  <2>2. GateIsOfTheScreen'
    BY <1>2, <1>6, <1>8, <1>13, <2>1 DEF GateIsOfTheScreen
  <2> QED
    BY <1>1, <2>1, <2>2, EndsBacked DEF ShowOp
<1> QED
  BY <1>5, <1>11, <1>12, <1>13

LEMMA GiveUpBacked ==
  ASSUME ShellInv, MetaInv, NEW s \in Seats, GiveUp(s)
  PROVE  MetaInv'
<1> DEFINE found == GateOf(disk[call[s].project.folder].meta, disk[call[s].project.folder].audit, NoApproval)
           S == Ended(screen, s)
<1>1. call' = Done(call, s) /\ disk' = disk /\ screen \in Screens
  BY DEF GiveUp, ShellInv, Typed
<1>2. call'[s] = Idle /\ \A t \in Seats \ {s} : call'[t] = call[t]
  BY <1>1, DoneFields DEF ShellInv, Typed
<1>3. "refresh" \in Seats /\ "refresh" \notin Ops
  BY SeatNames
<1>4. S \in Screens /\ SameGate(screen, S)
  BY EndedFields DEF SameGate
<1>5. /\ NotReady(screen).gate = "NOT READY" /\ NotReady(screen).project = screen.project
      /\ NotReady(screen).loaded = screen.loaded
  BY <1>1, NotReadyFields
<1>6. found \in Gates /\ found # "APPROVED"
  BY GateMeans, UnapprovedGate
<1>7. \/ s = "refresh" /\ Counts(s) /\ screen' = NotReady(screen)
      \/ (s = "refresh" => ~Counts(s)) /\ (screen' = screen \/ screen' = S)
      \/ found # "READY" /\ screen' = [S EXCEPT !.gate = found]
  BY <1>3 DEF GiveUp
<1> HIDE DEF found, S
<1>8. CASE s = "refresh" /\ Counts(s) /\ screen' = NotReady(screen)
  <2>1. GateIsOfTheScreen'
    BY <1>5, <1>8, GateStays DEF MetaInv
  <2> QED
    BY <1>1, <1>5, <1>8, <2>1, EndsBacked
<1>9. CASE (s = "refresh" => ~Counts(s)) /\ (screen' = screen \/ screen' = S)
  <2>1. SameGate(screen, screen')
    BY <1>4, <1>9 DEF SameGate
  <2>2. Asking => Asking'
    BY <1>2, <1>3, <1>9 DEF Asking, Running, Counts
  <2>3. GateIsOfTheScreen'
    BY <2>1, <2>2, GateStays DEF MetaInv
  <2> QED
    BY <1>1, <2>1, <2>3, EndsBacked DEF SameGate
<1>10. CASE found # "READY" /\ screen' = [S EXCEPT !.gate = found]
  <2>1. /\ screen'.gate \in {"NOT READY", "STALE"} /\ screen'.project = screen.project
        /\ screen'.loaded = screen.loaded
    BY <1>4, <1>6, <1>10 DEF Screens, SameGate, Gates
  <2>2. GateIsOfTheScreen'
    BY <2>1, GateStays DEF MetaInv
  <2> QED
    BY <1>1, <2>1, <2>2, EndsBacked
<1> QED
  BY <1>7, <1>8, <1>9, <1>10

-----------------------------------------------------------------------------
(* It holds, and so do the gate and the answers.                            *)

LEMMA MetaStarts == Init => MetaInv
<1> SUFFICES ASSUME Init PROVE MetaInv
  OBVIOUS
<1>1. PICK start \in [Folders -> Starts] : disk = [f \in Folders |-> Stage(f, start[f])]
  BY DEF Init
<1>2. Records(disk)
  <2>1. ASSUME NEW f \in Folders
        PROVE  OwnAudit(f, disk[f].audit) /\ OwnApproval(f, disk[f].approval)
    BY <1>1 DEF Stage, OwnAudit, OwnApproval, NoAudit, NoApproval
  <2> QED
    BY <2>1 DEF Records
<1>3. screen.loaded = 0 /\ screen.gate = "NOT READY" /\ \A s \in Seats : call[s] = Idle
  BY DEF Init
<1>4. \A s \in Seats : Backed(disk, s, call[s]) /\ Timely(screen, s, call[s])
  <2>1. Idle.at = "idle" /\ ~Idle.live
    BY DEF Idle
  <2>2. ~HasRecord(Idle)
    BY <2>1 DEF HasRecord
  <2> QED
    BY <1>3, <2>1, <2>2 DEF Backed, Timely
<1> QED
  BY <1>2, <1>3, <1>4 DEF MetaInv, Loaded, GateIsOfTheScreen

LEMMA MetaStep ==
  ASSUME "meta" \notin Edited, ShellInv, MetaInv, [Next]_shellVars
  PROVE  MetaInv'
<1>1. ShellInv'
  BY ShellStep
<1>2. CASE \E f \in Folders : AskOpen(f) \/ Outside(f)
  BY <1>2, PlainMoves, OutsideBacked
<1>3. CASE ReadManifest \/ Receive \/ ReadMetadata \/ ShowMetadata
  BY <1>3, PlainMoves, ReceiveBacked, ReadMetadataBacked, ShowMetadataBacked
<1>4. CASE Peek \/ ReadEvidence \/ ShowEvidence
  BY <1>4, PeekBacked, ReadEvidenceBacked, ShowEvidenceBacked
<1>5. CASE BeginPrepare \/ PutRevision \/ ShowRevision \/ BeginSave \/ PutMetadata \/ ShowSaved
  BY <1>1, <1>5, PlainMoves, PutRevisionBacked, ShowRevisionBacked, BeginSaveBacked, PutMetadataBacked,
     ShowSavedBacked
<1>6. CASE BeginInspect \/ ShowInspect \/ BeginCheck \/ ReadExternal \/ ShowDecision
  BY <1>6, BeginInspectBacked, ShowInspectBacked, PlainMoves, DecisionBacked
<1>7. CASE Reload \/ Dismiss \/ Close
  BY <1>7, ReloadBacked, DecisionBacked, CloseBacked
<1>8. CASE \E o \in Ops : Look(o) \/ PutRecord(o) \/ ShowOp(o) \/ \E step \in DOMAIN Kinds : BeginOp(o, step)
  BY <1>1, <1>8, LookBacked, PutRecordBacked, ShowOpBacked, BeginOpBacked
<1>9. CASE \E s \in Seats : GiveUp(s)
  BY <1>9, GiveUpBacked
<1>10. CASE UNCHANGED shellVars
  <2>1. disk' = disk /\ screen' = screen /\ call' = call
    BY <1>10 DEF shellVars
  <2>2. SameGate(screen, screen') /\ "open" \in Seats /\ "open" # "refresh" /\ disk' \in [Folders -> Stored]
    BY <2>1, SeatNames DEF SameGate, ShellInv, Typed
  <2> QED
    BY <2>1, <2>2, PlainClean, FixedSame, OneMoves
<1> QED
  BY <1>2, <1>3, <1>4, <1>5, <1>6, <1>7, <1>8, <1>9, <1>10 DEF Next

\* The gate is of what is open.
THEOREM GateBelongsToScreen ==
  ASSUME "meta" \notin Edited
  PROVE  ShellSpec => []GateIsOfTheScreen
<1>1. Init => ShellInv /\ MetaInv
  BY ShellStarts, MetaStarts
<1>2. ShellInv /\ MetaInv /\ [Next]_shellVars => ShellInv' /\ MetaInv'
  BY ShellStep, MetaStep
<1>3. MetaInv => GateIsOfTheScreen
  BY DEF MetaInv
<1> QED
  BY <1>1, <1>2, <1>3, PTL DEF ShellSpec

\* An operation or an inspection that runs ends in one of three ways.
LEMMA RunsOn ==
  ASSUME ShellInv, Next, NEW s \in Ops \union {"inspect"}, Running(s), ~Running(s)'
  PROVE  \/ s \in Ops /\ ShowOp(s)
         \/ s = "inspect" /\ ShowInspect
         \/ GiveUp(s)
<1>1. /\ s \in Seats /\ call \in Books
      /\ s \notin {"open", "load", "refresh", "check", "save", "prepare"}
      /\ s # "inspect" => s \in Ops
  BY SeatNames DEF ShellInv, Typed
<1>2. call'[s].at # call[s].at
  BY DEF Running
<1>3. \A t \in Seats \ {s} : call' # Done(call, t)
  BY <1>1, <1>2, DoneFields
<1>4. \A t \in Seats \ {s} : \A c : ~Begin(t, c)
  BY <1>1, <1>2 DEF Begin, Books
<1>5. \A t \in Seats, at \in Labels \ {"idle"} : \A got : ~Go(t, at, got)
  <2>1. ASSUME NEW t \in Seats, NEW at \in Labels \ {"idle"}, NEW got, Go(t, at, got)
        PROVE  call'[s].at = call[s].at \/ call'[s].at = at
    BY <1>1, <2>1 DEF Go, Books, Calls
  <2> QED
    BY <1>2, <2>1 DEF Running
<1>6. \A t \in Seats : \A K, c :
        call' = [Supersede(call, K) EXCEPT ![t] = c] => t = s /\ c.at = "idle"
  <2>1. ASSUME NEW t \in Seats, NEW K, NEW c, call' = [Supersede(call, K) EXCEPT ![t] = c]
        PROVE  t = s /\ c.at = "idle"
    <3> DEFINE S == Supersede(call, K)
    <3>1. S \in Books /\ S[s].at = call[s].at
      BY <1>1, SupersedeFields DEF Same
    <3>2. call' = [S EXCEPT ![t] = c]
      BY <2>1
    <3> HIDE DEF S
    <3>3. t # s => call'[s] = S[s]
      BY <1>1, <3>1, <3>2 DEF Books
    <3>4. t = s => call'[s] = c
      BY <1>1, <3>1, <3>2 DEF Books
    <3> QED
      BY <1>2, <3>1, <3>3, <3>4 DEF Running
  <2> QED
    BY <2>1
<1>7. \A D, K : ~Left(D, K)
  <2>1. ASSUME NEW D, NEW K, Left(D, K)
        PROVE  call'[s].at = call[s].at
    <3>1. call'[s] = Leave(D, K)[s] /\ D[s] = call[s] /\ D \in Books
      BY <1>1, <2>1 DEF Left
    <3> QED
      BY <1>1, <3>1, LeaveFields DEF Same
  <2> QED
    BY <1>2, <2>1
<1>8. /\ {"show", "write"} \subseteq Labels \ {"idle"}
      /\ {"open", "load", "refresh", "check", "inspect", "save", "prepare"} \subseteq Seats
      /\ Ops \subseteq Seats
  BY SeatNames DEF Labels
<1>9. ~\E f \in Folders : AskOpen(f) \/ Outside(f)
  <2>1. ASSUME NEW f \in Folders
        PROVE  ~AskOpen(f) /\ ~Outside(f)
    <3>1. "open" \in Seats \ {s}
      BY <1>1, <1>8
    <3>2. ~AskOpen(f)
      BY <1>4, <3>1 DEF AskOpen
    <3>3. ~Outside(f)
      BY <1>2 DEF Outside
    <3> QED
      BY <3>2, <3>3
  <2> QED
    BY <2>1
<1>10. ~(ReadManifest \/ ReadMetadata \/ ReadEvidence \/ PutRevision \/ PutMetadata)
  BY <1>1, <1>5, <1>8 DEF ReadManifest, ReadMetadata, ReadEvidence, PutRevision, PutMetadata
<1>11. ~(BeginPrepare \/ BeginSave \/ BeginCheck)
  BY <1>1, <1>4, <1>8 DEF BeginPrepare, BeginSave, BeginCheck
<1>12. ~(Receive \/ Reload \/ Close)
  BY <1>7, ReceiveFields, ReloadFields, CloseFields
<1>13. ~ShowRevision
  <2>1. CASE call["prepare"].here
    BY <1>7, <2>1, ShowRevisionFields
  <2>2. CASE ~call["prepare"].here
    BY <1>1, <1>3, <1>8, <2>2 DEF ShowRevision
  <2> QED
    BY <2>1, <2>2
<1>14. ~ShowMetadata
  <2>1. ASSUME NEW p, NEW m, call' = Refresh(Done(call, "load"), p, m)
        PROVE  call'[s].at = call[s].at
    BY <1>1, <1>8, <2>1, DoneFields DEF Refresh, Books
  <2> QED
    BY <1>1, <1>2, <1>3, <1>8, <2>1 DEF ShowMetadata
<1>15. ~(Peek \/ ShowEvidence \/ ReadExternal \/ ShowDecision \/ Dismiss)
  <2>1. ~ShowEvidence /\ ~ShowDecision /\ ~Dismiss
    BY <1>1, <1>2, <1>3, <1>8 DEF ShowEvidence, ShowDecision, Dismiss
  <2>2. ~ReadExternal
    BY <1>1, <1>3, <1>5, <1>8 DEF ReadExternal
  <2>3. call' # [call EXCEPT !["refresh"].at = "read"]
    BY <1>1, <1>2, <1>8 DEF Books
  <2>4. ~Peek
    BY <1>1, <1>3, <1>8, <2>3 DEF Peek
  <2> QED
    BY <2>1, <2>2, <2>4
<1>16. ~ShowSaved
  <2>1. CASE call["save"].here
    BY <1>1, <1>2, <2>1, ShowSavedFields DEF Same
  <2>2. CASE ~call["save"].here
    BY <1>1, <1>3, <1>8, <2>2 DEF ShowSaved
  <2> QED
    BY <2>1, <2>2
<1>17. ~BeginInspect
  <2>1. Call("inspect", "show", screen.project, 0).at # "idle"
    BY DEF Call, Idle
  <2> QED
    BY <1>6, <1>8, <2>1 DEF BeginInspect
<1>18. ASSUME NEW o \in Ops, NEW step \in DOMAIN Kinds
       PROVE  ~BeginOp(o, step)
  <2>1. \A k, p, g : Call(k, "look", p, g).at # "idle"
    BY DEF Call, Idle
  <2> QED
    BY <1>6, <1>8, <2>1 DEF BeginOp
<1>19. ASSUME NEW o \in Ops
       PROVE  ~Look(o) /\ ~PutRecord(o) /\ (ShowOp(o) => o = s)
  <2>1. ~Look(o)
    BY <1>5, <1>8 DEF Look
  <2>2. ~PutRecord(o)
    BY <1>5, <1>8 DEF PutRecord
  <2>3. ShowOp(o) => o = s
    BY <1>3, <1>8 DEF ShowOp
  <2> QED
    BY <2>1, <2>2, <2>3
<1>20. \A t \in Seats : GiveUp(t) => t = s
  BY <1>3 DEF GiveUp
<1>21. ShowInspect => s = "inspect"
  BY <1>3, <1>8 DEF ShowInspect
<1> QED
  BY <1>9, <1>10, <1>11, <1>12, <1>13, <1>14, <1>15, <1>16, <1>17, <1>18, <1>19, <1>20, <1>21 DEF Next

\* An answer that comes late changes neither the evidence nor the report.
THEOREM LateAnswersAreDropped ==
  ASSUME "meta" \notin Edited
  PROVE  ShellSpec => AnswersAreTimely
<1> DEFINE View == <<screen.audit, screen.approval, screen.gate, screen.written>>
           Drops == /\ \A o \in Ops : (Running(o) /\ call[o].late /\ call'[o] = Idle) => View' = View
                    /\ (call["inspect"].late /\ call'["inspect"] = Idle) => screen'.report = screen.report
<1>1. ASSUME ShellInv, MetaInv, Next
      PROVE  Drops
  <2>1. Idle.at = "idle" /\ ~Idle.late
    BY DEF Idle
  <2>2. ASSUME NEW o \in Ops, Running(o), call[o].late, call'[o] = Idle
        PROVE  View' = View
    <3>1. o \in Seats /\ o # "refresh" /\ o # "inspect"
      BY SeatNames
    <3>2. ~Counts(o)
      BY <1>1, <2>2, <3>1 DEF MetaInv, Timely, Counts, Running
    <3>3. ShowOp(o) \/ GiveUp(o)
      BY <1>1, <2>1, <2>2, <3>1, RunsOn DEF Running
    <3>4. screen' = Ended(screen, o)
      BY <2>2, <3>1, <3>2, <3>3 DEF ShowOp, GiveUp
    <3> QED
      BY <1>1, <3>4, EndedFields
  <2>3. ASSUME call["inspect"].late, call'["inspect"] = Idle
        PROVE  screen'.report = screen.report
    <3>1. "inspect" \in Seats /\ "inspect" \notin Ops
      BY SeatNames
    <3>2. ~call["inspect"].live
      BY <1>1, <2>3, <3>1 DEF MetaInv, Timely
    <3>3. Running("inspect") /\ call["inspect"].at = "show"
      BY <1>1, <2>1, <2>3, <3>1 DEF ShellInv, Alive, HasGot, Running
    <3>4. ShowInspect
      BY <1>1, <2>1, <2>3, <3>1, <3>3, RunsOn DEF Running, GiveUp
    <3> QED
      BY <1>1, <3>2, <3>4 DEF ShowInspect, ShellInv, Typed, Screens
  <2> QED
    BY <2>2, <2>3
<1>2. ShellInv /\ MetaInv /\ [Next]_shellVars => [Drops]_shellVars
  BY <1>1
<1>3. Init => ShellInv /\ MetaInv
  BY ShellStarts, MetaStarts
<1>4. ShellInv /\ MetaInv /\ [Next]_shellVars => ShellInv' /\ MetaInv'
  BY ShellStep, MetaStep
<1> QED
  BY <1>2, <1>3, <1>4, PTL DEF ShellSpec, AnswersAreTimely
=============================================================================
