----------------------- MODULE GenerationSessionProofs -----------------------
(***************************************************************************)
(* Theorems about GenerationSession for any number of tabs, assets, prompts *)
(* and clicks.  What is said of the rows of the API and of provenance holds *)
(* however the tabs overlap.  What is said of the folder excepts what the   *)
(* write of an overtaken tab has changed, and nothing else: nothing keeps   *)
(* tabs from overlapping anywhere.                                          *)
(***************************************************************************)
EXTENDS GenerationSession, TLAPS, FiniteSetTheorems, WellFoundedInduction, SequenceTheorems

-----------------------------------------------------------------------------
(* The inductive invariant.  Types first.                                   *)

Manifests == [Assets -> Seq({"generated", "other"})]
Approvals == [prompt : Prompts, click : 1 .. MaxClicks]
Entries   == [revision : Numbers, job : Nat, prompt : Prompts, reason : BOOLEAN]
Sessions  == [approvals : Seq(Approvals), entries : Seq(Entries)]
JobRows   == [key : Keys, status : {"open", "succeeded", "failed"}]
Pages     == [at : {"closed", "idle"} \union Busy, seen : Manifests, asset : Assets \union {NoAsset},
              created : BOOLEAN, view : Manifests, target : Assets \union {NoAsset},
              prompt : Prompts \union {NoAsset}, click : 0 .. MaxClicks, reason : BOOLEAN,
              held : Sessions, job : Nat]

SessionTyped ==
  /\ manifest \in Manifests
  /\ files \in [Assets -> [Numbers -> 0 .. Blank]]
  /\ sidecar \in [Assets -> Sessions \union {Unreadable}]
  /\ temp \in BOOLEAN
  /\ jobs \in Seq(JobRows) /\ wire \subseteq Keys /\ IsFiniteSet(wire)
  /\ tab \in [Tabs -> Pages]
  /\ clicks \in 0 .. MaxClicks
  /\ calm \in BOOLEAN

\* Every entry of a session is about a job of the asset and of its prompt.
Owned(a, session) ==
  \A e \in ToSet(session.entries) :
    e.job \in DOMAIN jobs /\ jobs[e.job].key.asset = a /\ jobs[e.job].key.prompt = e.prompt

Approval(t) == [prompt |-> tab[t].prompt, click |-> tab[t].click]

Filed == Busy \ {"compare", "write"}     \* the approval is in what the tab holds
Paid  == Filed \ {"post", "answer"}      \* it has the id of its job

\* What a tab knows that depends on no other tab.  A preparation has no job.
TabInv(t) ==
  /\ tab[t].at \in Busy =>
       /\ tab[t].target \in Assets /\ tab[t].click \in 1 .. MaxClicks
       /\ Owned(Target(t), tab[t].held)
       /\ tab[t].prompt \in Prompts \/ Preparing(t)
  /\ tab[t].at \in Filed =>
       \/ tab[t].held.approvals # <<>> /\ Last(tab[t].held.approvals) = Approval(t)
       \/ Preparing(t)
  /\ tab[t].at \in Paid =>
       \/ tab[t].job \in DOMAIN jobs /\ jobs[tab[t].job].key = Key(t)
       \/ Preparing(t)

\* A click that is under way has not published its revision and not posted its
\* request yet: manifests and rows are as long as the clicks allow.
Pending  == {t \in Tabs : tab[t].at \in Busy \ {"clean"}}
Unposted == {t \in Tabs : tab[t].at \in {"compare", "write", "post"}}

Short(m) == \A a \in Assets : Len(m[a]) + Cardinality(Pending) <= clicks + 2

BoundInv ==
  /\ Short(manifest)
  /\ \A t \in Tabs : Short(tab[t].seen) /\ Short(tab[t].view)
  /\ \A t \in Tabs : tab[t].at = "clean" => Short(NextManifest(t))
  /\ Cardinality(Pending) <= clicks
  /\ Len(jobs) + Cardinality(wire) + Cardinality(Unposted) <= clicks

SessionInv ==
  /\ SessionTyped
  /\ \A t \in Tabs : TabInv(t)
  /\ \A a \in Assets : Owned(a, sidecar[a])
  /\ BoundInv
  /\ OneJobPerKey

HistoryTyped == overtaken \subseteq {t \in Tabs : tab[t].at \in Windows} /\ overwritten \subseteq Assets

\* What the comparison of a tab found is still so, unless it was overtaken.
Intact(t) ==
  /\ tab[t].at \in {"write", "note"} => sidecar[Target(t)] = tab[t].held
  /\ tab[t].at \in {"temp", "final"} => manifest = tab[t].view
  /\ tab[t].at = "put" => files[Target(t)][Revision(t)] = 0

WindowInv == \A t \in Tabs \ overtaken : Intact(t)

\* What a call has written is still there when it goes on.
WrittenInv(t) ==
  Target(t) \notin overwritten =>
    /\ tab[t].at \in {"post", "answer"} => Approval(t) \in ToSet(sidecar[Target(t)].approvals)
    /\ tab[t].at \in {"entry", "note", "publish", "temp", "final"} =>
         files[Target(t)][Revision(t)] = tab[t].job \/ Preparing(t)
    /\ tab[t].at \in {"publish", "temp", "final"} =>
         \/ \E e \in ToSet(sidecar[Target(t)].entries) : e.revision = Revision(t) /\ e.job = tab[t].job
         \/ Preparing(t)

FolderInv ==
  /\ WindowInv
  /\ \A t \in Tabs : WrittenInv(t)
  /\ EachJobWasApproved
  /\ PublishedIsBacked

-----------------------------------------------------------------------------
(* Facts about sequences and about the newest asset.                        *)

LEMMA Appended ==
  ASSUME NEW S, NEW s \in Seq(S), NEW e \in S
  PROVE  /\ Append(s, e) \in Seq(S) /\ Append(s, e) # <<>>
         /\ Len(Append(s, e)) = Len(s) + 1
         /\ ToSet(Append(s, e)) = ToSet(s) \union {e}
         /\ Last(Append(s, e)) = e
         /\ \A i \in 1 .. Len(s) : Append(s, e)[i] = s[i]
<1>1. /\ Append(s, e) \in Seq(S) /\ Len(Append(s, e)) = Len(s) + 1 /\ Len(s) \in Nat
      /\ \A i \in 1 .. Len(s) : Append(s, e)[i] = s[i]
      /\ Append(s, e)[Len(s) + 1] = e
  BY AppendProperties, LenProperties
<1>2. DOMAIN Append(s, e) = 1 .. Len(s) + 1 /\ DOMAIN s = 1 .. Len(s)
  BY <1>1, LenProperties
<1>3. ToSet(Append(s, e)) = ToSet(s) \union {e}
  BY <1>1, <1>2 DEF ToSet
<1>4. Append(s, e) # <<>>
  BY <1>1, EmptySeq
<1> QED BY <1>1, <1>3, <1>4 DEF Last

LEMMA AppendExtends ==
  ASSUME NEW S, NEW s \in Seq(S), NEW e \in S
  PROVE  IsPrefix(s, Append(s, e))
BY Appended DEF IsPrefix

LEMMA PrefixOfItself ==
  ASSUME NEW S, NEW s \in Seq(S)
  PROVE  IsPrefix(s, s)
BY LenProperties DEF IsPrefix

LEMMA SmallestExists ==
  ASSUME NEW T, T \subseteq Nat, T # {}
  PROVE  \E x \in T : \A y \in T : x <= y
<1> DEFINE R == OpToRel(<, Nat)
<1>1. \E x \in T : \A y \in T : ~(<<y, x>> \in R)
  <2>1. IsWellFoundedOn(R, Nat)
    BY NatLessThanWellFounded
  <2> HIDE DEF R
  <2> QED BY <2>1, WFMin
<1>2. ASSUME NEW x \in T, NEW y \in T, ~(<<y, x>> \in R) PROVE x <= y
  BY <1>2 DEF OpToRel
<1> QED BY <1>1, <1>2

LEMMA LongestExists ==
  ASSUME NEW S, S # {}, NEW B \in Nat, NEW f, \A a \in S : f[a] \in 0 .. B
  PROVE  \E a \in S : \A b \in S : f[b] <= f[a]
<1> DEFINE T == {B - f[a] : a \in S}
<1>1. T \subseteq Nat /\ T # {}
  OBVIOUS
<1>2. PICK x \in T : \A y \in T : x <= y
  <2> HIDE DEF T
  <2> QED BY <1>1, SmallestExists
<1>3. PICK a \in S : x = B - f[a]
  OBVIOUS
<1>4. \A b \in S : B - f[a] <= B - f[b]
  BY <1>2, <1>3
<1>5. \A b \in S : f[b] <= f[a]
  BY <1>4
<1> QED BY <1>5

LEMMA LatestTyped ==
  ASSUME NEW m \in Manifests, NEW B \in Nat, \A a \in Assets : Len(m[a]) <= B
  PROVE  LatestAsset(m) \in Assets \union {NoAsset}
<1>1. CASE \A a \in Assets : m[a] = <<>>
  BY <1>1 DEF LatestAsset
<1>2. CASE Assets # {}
  <2> DEFINE f == [a \in Assets |-> Len(m[a])]
  <2>1. \A a \in Assets : f[a] \in 0 .. B
    BY LenProperties DEF Manifests
  <2>2. \E a \in Assets : \A b \in Assets : f[b] <= f[a]
    <3> HIDE DEF f
    <3> QED BY <1>2, <2>1, LongestExists
  <2>3. \E a \in Assets : \A b \in Assets : Len(m[b]) <= Len(m[a])
    BY <2>2
  <2> QED BY <2>3 DEF LatestAsset
<1> QED BY <1>1, <1>2

-----------------------------------------------------------------------------
(* Every step keeps the types.                                              *)

LEMMA Counted ==
  /\ IsFiniteSet(Pending) /\ Cardinality(Pending) \in Nat
  /\ IsFiniteSet(Unposted) /\ Cardinality(Unposted) \in Nat
BY TabsAssumption, FS_Subset, FS_CardinalityType DEF Pending, Unposted

LEMMA ShortLatest ==
  ASSUME NEW m \in Manifests, clicks \in Nat, NEW k \in {0, 1},
         \A a \in Assets : Len(m[a]) + Cardinality(Pending) <= clicks + k + 2
  PROVE  LatestAsset(m) \in Assets \union {NoAsset}
<1>1. \A a \in Assets : Len(m[a]) \in Nat
  BY LenProperties DEF Manifests
<1>2. \A a \in Assets : Len(m[a]) <= clicks + 3
  BY <1>1, Counted
<1> QED BY <1>2, LatestTyped

LEMMA NoSessionTyped == NoSession \in Sessions
BY EmptySeq DEF NoSession, Sessions

LEMMA NoAssetsTyped == NoAssets \in Manifests
BY EmptySeq DEF NoAssets, ManifestOf, Manifests

LEMMA ClosedTyped == Closed \in Pages /\ Created \in Pages
<1>1. TRUE \in BOOLEAN /\ FALSE \in BOOLEAN
  OBVIOUS
<1>2. 0 \in 0 .. MaxClicks /\ 0 \in Nat
  BY ClicksAssumption
<1>3. Closed \in Pages
  BY <1>1, <1>2, NoSessionTyped, NoAssetsTyped DEF Closed, Pages
<1> QED BY <1>1, <1>3 DEF Created, Pages

LEMMA GotoTyped ==
  ASSUME SessionTyped, NEW t \in Tabs, NEW l \in Busy, Goto(t, l)
  PROVE  tab' \in [Tabs -> Pages]
<1>1. tab[t] \in Pages
  BY DEF SessionTyped
<1>2. [tab[t] EXCEPT !.at = l] \in Pages
  BY <1>1 DEF Pages
<1> QED BY <1>2 DEF SessionTyped, Goto

LEMMA IdleTyped ==
  ASSUME SessionTyped, NEW t \in Tabs, NEW m \in Manifests, NEW a \in Assets \union {NoAsset},
         NEW c \in BOOLEAN, Idle(t, m, a, c)
  PROVE  tab' \in [Tabs -> Pages]
<1> DEFINE e == [Closed EXCEPT !.at = "idle", !.seen = m, !.asset = a, !.created = c]
<1>1. e \in Pages
  <2> HIDE DEF Closed
  <2> QED BY ClosedTyped DEF Pages
<1>2. tab' = [tab EXCEPT ![t] = e]
  BY DEF Idle
<1> HIDE DEF e
<1> QED BY <1>1, <1>2 DEF SessionTyped

LEMMA RefusedTyped ==
  ASSUME SessionTyped, NEW t \in Tabs, Refused(t)
  PROVE  tab' \in [Tabs -> Pages]
<1>1. tab[t].seen \in Manifests /\ tab[t].asset \in Assets \union {NoAsset} /\ tab[t].created \in BOOLEAN
  BY DEF SessionTyped, Pages
<1> QED BY <1>1, IdleTyped DEF Refused

LEMMA CutShortTyped ==
  ASSUME SessionTyped, NEW t \in Tabs, TabInv(t), CutShort(t)
  PROVE  /\ files' \in [Assets -> [Numbers -> 0 .. Blank]]
         /\ sidecar' \in [Assets -> Sessions \union {Unreadable}]
<1>1. CASE tab[t].at = "put" /\ files' = [files EXCEPT ![Target(t)][Revision(t)] = Blank]
  <2>1. Target(t) \in Assets
    BY <1>1 DEF TabInv, Target, Busy, Windows
  <2>2. Blank \in 0 .. Blank
    BY ClicksAssumption DEF Blank
  <2>3. [files[Target(t)] EXCEPT ![Revision(t)] = Blank] \in [Numbers -> 0 .. Blank]
    BY <2>1, <2>2 DEF SessionTyped
  <2>4. files' = [files EXCEPT ![Target(t)] = [files[Target(t)] EXCEPT ![Revision(t)] = Blank]]
    BY <1>1
  <2>5. files' \in [Assets -> [Numbers -> 0 .. Blank]]
    BY <2>1, <2>3, <2>4 DEF SessionTyped
  <2> QED BY <2>5 DEF SessionTyped, CutShort
<1> QED BY <1>1 DEF SessionTyped, CutShort

\* What the comparisons, the failures and the moves of a tab write is its page.
LEMMA MovesTyped ==
  ASSUME SessionInv, NEW t \in Tabs,
         \/ Compare(t) \/ Post(t) \/ Watch(t) \/ Place(t) \/ Entry(t) \/ Publish(t) \/ Temp(t)
         \/ Dies(t) \/ Fails(t) \/ \E a \in Assets : Select(t, a)
  PROVE  SessionTyped'
<1> USE DEF SessionInv
<1>1. CASE Compare(t) \/ Watch(t) \/ Place(t) \/ Entry(t) \/ Publish(t)
  <2>1. tab' \in [Tabs -> Pages]
    BY <1>1, GotoTyped, RefusedTyped DEF Compare, Watch, Place, Entry, Publish, Busy, Windows
  <2>2. UNCHANGED <<folder, server, clicks, calm>>
    BY <1>1 DEF Compare, Watch, Place, Entry, Publish
  <2> QED BY <2>1, <2>2 DEF SessionTyped, folder, server
<1>2. CASE Post(t)
  <2>1. tab' \in [Tabs -> Pages]
    BY <1>2, GotoTyped DEF Post, Busy
  <2>2. Key(t) \in Keys
    <3>1. tab[t].target \in Assets /\ tab[t].prompt \in Prompts /\ tab[t].click \in 1 .. MaxClicks
      BY <1>2 DEF Post, TabInv, Busy, Preparing
    <3>2. 0 \in 0 .. MaxClicks /\ tab[t].click \in 0 .. MaxClicks
      BY <3>1, ClicksAssumption
    <3> QED BY <3>1, <3>2 DEF Key, Keys, Target
  <2>3. wire' \subseteq Keys /\ IsFiniteSet(wire')
    BY <1>2, <2>2, FS_AddElement DEF Post, SessionTyped
  <2> QED BY <1>2, <2>1, <2>3 DEF Post, SessionTyped, folder
<1>3. CASE Temp(t)
  <2>1. tab' \in [Tabs -> Pages]
    BY <1>3, GotoTyped, RefusedTyped DEF Temp, Busy, Windows
  <2>2. temp' \in BOOLEAN
    BY <1>3 DEF Temp, SessionTyped
  <2> QED BY <1>3, <2>1, <2>2 DEF Temp, SessionTyped, server
<1>4. CASE Dies(t)
  <2>1. tab' \in [Tabs -> Pages]
    BY <1>4, ClosedTyped DEF Dies, SessionTyped
  <2> QED BY <1>4, <2>1, CutShortTyped DEF Dies, SessionTyped, server
<1>5. CASE Fails(t)
  <2>1. tab' \in [Tabs -> Pages]
    BY <1>5, RefusedTyped DEF Fails
  <2>2. wire' \subseteq Keys /\ IsFiniteSet(wire')
    <3>1. IsFiniteSet(wire \ {Key(t)})
      BY FS_RemoveElement DEF SessionTyped
    <3> QED BY <1>5, <3>1 DEF Fails, SessionTyped
  <2>3. temp' \in BOOLEAN
    BY <1>5 DEF Fails, SessionTyped
  <2> QED BY <1>5, <2>1, <2>2, <2>3, CutShortTyped DEF Fails, SessionTyped
<1>6. ASSUME NEW a \in Assets, Select(t, a) PROVE SessionTyped'
  <2>1. tab' \in [Tabs -> Pages]
    <3>1. tab[t] \in Pages
      BY DEF SessionTyped
    <3>2. [tab[t] EXCEPT !.asset = a] \in Pages
      BY <3>1 DEF Pages
    <3> QED BY <1>6, <3>2 DEF Select, SessionTyped
  <2> QED BY <1>6, <2>1 DEF Select, SessionTyped, folder, server
<1> QED BY <1>1, <1>2, <1>3, <1>4, <1>5, <1>6

\* A call that has not published yet stands for a click no revision has used.
LEMMA RevisionNumber ==
  ASSUME SessionInv, NEW t \in Pending
  PROVE  /\ Revision(t) \in Numbers /\ Cardinality(Pending) >= 1
         /\ Len(tab[t].view[Target(t)]) \in Nat /\ Target(t) \in Assets
<1>1. Target(t) \in Assets /\ t \in Tabs
  BY DEF SessionInv, TabInv, Pending, Target
<1>2. Len(tab[t].view[Target(t)]) \in Nat
  BY <1>1, LenProperties DEF SessionInv, SessionTyped, Pages, Manifests
<1>3. Cardinality(Pending) >= 1
  <2>1. Cardinality(Pending \ {t}) = Cardinality(Pending) - 1 /\ Cardinality(Pending \ {t}) \in Nat
    BY Counted, FS_RemoveElement, FS_CardinalityType
  <2> QED BY <2>1, Counted
<1>4. Len(tab[t].view[Target(t)]) + Cardinality(Pending) <= clicks + 2 /\ clicks <= MaxClicks
  BY <1>1, ClicksAssumption DEF SessionInv, BoundInv, Short, SessionTyped
<1>5. Revision(t) \in Numbers
  <2>1. Len(tab[t].view[Target(t)]) + 1 \in 1 .. MaxClicks + 2
    <3>1. clicks \in Nat /\ MaxClicks \in Nat
      BY ClicksAssumption DEF SessionInv, SessionTyped
    <3> DEFINE n == Len(tab[t].view[Target(t)])
               k == Cardinality(Pending)
    <3>2. n \in Nat /\ k \in Nat /\ k >= 1 /\ n + k <= clicks + 2 /\ clicks <= MaxClicks
      BY <1>2, <1>3, <1>4, Counted
    <3> HIDE DEF n, k
    <3>3. n + 1 \in 1 .. MaxClicks + 2
      BY <3>1, <3>2
    <3> QED BY <3>3 DEF n
  <2> QED BY <2>1 DEF Revision, Numbers
<1> QED BY <1>1, <1>2, <1>3, <1>5

LEMMA JobNumber ==
  ASSUME SessionInv
  PROVE  Len(jobs) \in 0 .. MaxClicks /\ DOMAIN jobs = 1 .. Len(jobs)
<1>1. Len(jobs) \in Nat /\ DOMAIN jobs = 1 .. Len(jobs)
  BY LenProperties DEF SessionInv, SessionTyped
<1>2. Cardinality(wire) \in Nat
  BY FS_CardinalityType DEF SessionInv, SessionTyped
<1> QED BY <1>1, <1>2, Counted, ClicksAssumption DEF SessionInv, BoundInv, SessionTyped

LEMMA HeldTyped ==
  ASSUME SessionInv, NEW t \in Tabs
  PROVE  /\ tab[t].held \in Sessions
         /\ tab[t].at = "write" => WithApproval(t) \in Sessions
<1>1. tab[t].held \in Sessions
  BY DEF SessionInv, SessionTyped, Pages
<1>2. ASSUME tab[t].at = "write" PROVE WithApproval(t) \in Sessions
  <2>1. Approval(t) \in Approvals
    BY <1>2 DEF SessionInv, TabInv, Busy, Windows, Approval, Approvals, Preparing
  <2>2. Append(tab[t].held.approvals, Approval(t)) \in Seq(Approvals)
    BY <1>1, <2>1, Appended DEF Sessions
  <2> QED BY <1>1, <2>2 DEF WithApproval, Approval, Sessions
<1> QED BY <1>1, <1>2

LEMMA EntryTyped ==
  ASSUME SessionInv, NEW t \in Tabs, tab[t].at = "note"
  PROVE  [revision |-> Revision(t), job |-> tab[t].job,
          prompt |-> ProvenPrompt(tab[t].held), reason |-> tab[t].reason] \in Entries
<1>1. t \in Pending
  BY DEF Pending, Busy, Windows
<1>2. ProvenPrompt(tab[t].held) \in Prompts
  <2>1. TabInv(t) /\ tab[t].at \in Busy /\ tab[t].at \in Filed /\ ~Preparing(t)
    BY DEF SessionInv, Busy, Filed, Windows, Preparing
  <2>2. Last(tab[t].held.approvals) = Approval(t) /\ tab[t].prompt \in Prompts
    BY <2>1 DEF TabInv
  <2> QED BY <2>2 DEF ProvenPrompt, Approval
<1>3. tab[t].job \in Nat /\ tab[t].reason \in BOOLEAN
  BY DEF SessionInv, SessionTyped, Pages
<1> QED BY <1>1, <1>2, <1>3, RevisionNumber DEF Entries

LEMMA NextExtends ==
  ASSUME NEW t, tab[t].view \in Manifests, Target(t) \in Assets
  PROVE  /\ NextManifest(t) \in Manifests
         /\ \A a \in Assets : Len(NextManifest(t)[a]) <= Len(tab[t].view[a]) + 1
<1> DEFINE m    == tab[t].view
           kind == IF Preparing(t) THEN "other" ELSE "generated"
           more == Append(m[Target(t)], kind)
<1>1. NextManifest(t) = [m EXCEPT ![Target(t)] = more]
  BY DEF NextManifest
<1>2. kind \in {"generated", "other"} /\ m[Target(t)] \in Seq({"generated", "other"})
  BY DEF Manifests
<1>3. more \in Seq({"generated", "other"}) /\ Len(more) = Len(m[Target(t)]) + 1
  <2> HIDE DEF m, kind
  <2> QED BY <1>2, Appended
<1>4. \A a \in Assets : Len(m[a]) \in Nat
  BY LenProperties DEF Manifests
<1>5. m \in Manifests
  OBVIOUS
<1> HIDE DEF m, more
<1> QED BY <1>1, <1>3, <1>4, <1>5 DEF Manifests, m

\* What the other steps write.
LEMMA WritesTyped ==
  ASSUME SessionInv, NEW t \in Tabs,
         Write(t) \/ Put(t) \/ Note(t) \/ Final(t) \/ Clean(t) \/ Answered(t) \/ Open(t)
  PROVE  SessionTyped'
<1>0. SessionTyped /\ tab[t] \in Pages
  BY DEF SessionInv, SessionTyped
<1>1. CASE Write(t)
  <2>1. WithApproval(t) \in Sessions
    BY <1>1, HeldTyped DEF Write
  <2>2. [tab[t] EXCEPT !.at = "post", !.held = WithApproval(t)] \in Pages
    BY <1>0, <2>1 DEF Pages, Busy
  <2> QED BY <1>0, <1>1, <2>1, <2>2 DEF Write, SessionTyped, server
<1>2. CASE Put(t)
  <2>1. tab' \in [Tabs -> Pages]
    BY <1>0, <1>2, GotoTyped DEF Put, Busy
  <2>2. tab[t].job \in 0 .. Blank /\ Target(t) \in Assets
    BY <1>2, JobNumber, ClicksAssumption
       DEF Put, SessionInv, TabInv, Paid, Filed, Busy, Windows, Blank, Target, Preparing
  <2>3. [files[Target(t)] EXCEPT ![Revision(t)] = tab[t].job] \in [Numbers -> 0 .. Blank]
    BY <1>0, <2>2 DEF SessionTyped
  <2>4. files' = [files EXCEPT ![Target(t)] = [files[Target(t)] EXCEPT ![Revision(t)] = tab[t].job]]
    BY <1>2 DEF Put
  <2>5. files' \in [Assets -> [Numbers -> 0 .. Blank]]
    BY <1>0, <2>2, <2>3, <2>4 DEF SessionTyped
  <2> QED BY <1>0, <1>2, <2>1, <2>5 DEF Put, SessionTyped, server
<1>3. CASE Note(t)
  <2> DEFINE entry == [revision |-> Revision(t), job |-> tab[t].job,
                       prompt |-> ProvenPrompt(tab[t].held), reason |-> tab[t].reason]
             next  == [tab[t].held EXCEPT !.entries = Append(@, entry)]
  <2>3. entry \in Entries
    BY <1>3, EntryTyped DEF Note
  <2>4. next \in Sessions
    BY <2>3, HeldTyped, Appended DEF Sessions
  <2>5. [tab[t] EXCEPT !.at = "publish", !.held = next] \in Pages
    BY <1>0, <2>4 DEF Pages, Busy
  <2>6. /\ sidecar' = [sidecar EXCEPT ![Target(t)] = next]
        /\ tab' = [tab EXCEPT ![t].at = "publish", ![t].held = next]
        /\ UNCHANGED <<manifest, files, temp, server, clicks, calm>>
    BY <1>3 DEF Note
  <2> HIDE DEF next
  <2> QED BY <1>0, <2>4, <2>5, <2>6 DEF SessionTyped, server
<1>4. ASSUME tab[t].at \in {"final", "clean"} PROVE NextManifest(t) \in Manifests
  <2>1. Target(t) \in Assets
    BY <1>4 DEF SessionInv, TabInv, Busy, Windows, Target
  <2>2. tab[t].view \in Manifests
    BY <1>0 DEF Pages
  <2> QED BY <2>1, <2>2, NextExtends
<1>5. CASE Final(t)
  <2>1. tab' \in [Tabs -> Pages]
    BY <1>0, <1>5, GotoTyped DEF Final, Busy, Windows
  <2> QED BY <1>0, <1>4, <1>5, <2>1 DEF Final, SessionTyped, server
<1>6. CASE Clean(t)
  <2>1. LatestAsset(NextManifest(t)) \in Assets \union {NoAsset}
    <3>1. Short(NextManifest(t)) /\ clicks \in Nat
      BY <1>6 DEF Clean, SessionInv, BoundInv, SessionTyped
    <3> QED BY <1>4, <1>6, <3>1, ShortLatest DEF Clean, Short
  <2>2. tab' \in [Tabs -> Pages]
    BY <1>0, <1>4, <1>6, <2>1, IdleTyped, RefusedTyped DEF Clean
  <2> QED BY <1>0, <1>6, <2>2 DEF Clean, SessionTyped, server
<1>7. CASE Answered(t)
  <2>1. PICK j \in DOMAIN jobs :
          tab' = [tab EXCEPT ![t].at = "watch", ![t].job = j, ![t].seen = tab[t].view, ![t].created = FALSE]
    BY <1>7 DEF Answered
  <2>2. j \in Nat /\ FALSE \in BOOLEAN
    BY JobNumber
  <2>3. [tab[t] EXCEPT !.at = "watch", !.job = j, !.seen = tab[t].view, !.created = FALSE] \in Pages
    BY <1>0, <2>2 DEF Pages, Busy
  <2> QED BY <1>0, <1>7, <2>1, <2>3 DEF Answered, SessionTyped, folder, server
<1>8. CASE Open(t)
  <2>1. LatestAsset(manifest) \in Assets \union {NoAsset}
    <3>1. Short(manifest) /\ clicks \in Nat /\ manifest \in Manifests
      BY DEF SessionInv, BoundInv, SessionTyped
    <3> QED BY <3>1, ShortLatest DEF Short
  <2>2. FALSE \in BOOLEAN /\ manifest \in Manifests
    BY <1>0 DEF SessionTyped
  <2>3. tab' \in [Tabs -> Pages]
    BY <1>0, <1>8, <2>1, <2>2, IdleTyped DEF Open
  <2> QED BY <1>0, <1>8, <2>3 DEF Open, SessionTyped, folder, server
<1> QED BY <1>1, <1>2, <1>3, <1>5, <1>6, <1>7, <1>8

LEMMA ClicksTyped ==
  ASSUME SessionInv, NEW t \in Tabs, NEW a \in Assets,
         Prepare(t, a) \/ \E p \in Prompts, r \in BOOLEAN : Approve(t, a, p, r)
  PROVE  SessionTyped' /\ clicks' = clicks + 1
<1>0. /\ SessionTyped /\ tab[t] \in Pages
      /\ clicks < MaxClicks /\ clicks' = clicks + 1 /\ clicks \in Nat
  <2>1. SessionTyped /\ tab[t] \in Pages /\ clicks \in Nat
    BY ClicksAssumption DEF SessionInv, SessionTyped
  <2>2. clicks < MaxClicks /\ clicks' = clicks + 1
    BY DEF Prepare, Approve
  <2> QED BY <2>1, <2>2
<1>1. clicks' \in 0 .. MaxClicks /\ clicks' \in 1 .. MaxClicks
  BY <1>0, ClicksAssumption
<1>2. CASE Prepare(t, a)
  <2>1. tab' = [tab EXCEPT ![t] = [tab[t] EXCEPT !.at = "publish", !.target = a, !.click = clicks',
                                    !.view = tab[t].seen, !.held = NoSession, !.job = 0]]
    BY <1>2 DEF Prepare
  <2>2. [tab[t] EXCEPT !.at = "publish", !.target = a, !.click = clicks',
                       !.view = tab[t].seen, !.held = NoSession, !.job = 0] \in Pages
    <3>1. clicks' \in 0 .. MaxClicks /\ "publish" \in Busy /\ 0 \in Nat
      BY <1>1 DEF Busy
    <3> QED BY <1>0, <3>1, NoSessionTyped DEF Pages
  <2>3. tab' \in [Tabs -> Pages]
    BY <1>0, <2>1, <2>2 DEF SessionTyped
  <2> QED BY <1>0, <1>1, <1>2, <2>3 DEF Prepare, SessionTyped, folder, server
<1>3. ASSUME NEW p \in Prompts, NEW r \in BOOLEAN, Approve(t, a, p, r)
      PROVE  SessionTyped'
  <2> DEFINE m == IF tab[t].created THEN manifest ELSE tab[t].seen
  <2>1. Previous(t, a) \in Sessions
    BY <1>0, <1>3, NoSessionTyped DEF Approve, Previous, SessionTyped
  <2>2. m \in Manifests
    BY <1>0 DEF SessionTyped, Pages
  <2>3. [tab[t] EXCEPT !.at = "compare", !.target = a, !.prompt = p, !.reason = r,
                       !.click = clicks', !.held = Previous(t, a), !.view = m] \in Pages
    <3>1. clicks' \in 0 .. MaxClicks /\ "compare" \in Busy
      BY <1>1 DEF Busy
    <3> HIDE DEF m
    <3> QED BY <1>0, <2>1, <2>2, <3>1 DEF Pages
  <2>4. tab' \in [Tabs -> Pages]
    <3>1. tab' = [tab EXCEPT ![t] = [tab[t] EXCEPT !.at = "compare", !.target = a, !.prompt = p,
                    !.reason = r, !.click = clicks', !.held = Previous(t, a), !.view = m]]
      BY <1>3 DEF Approve
    <3> HIDE DEF m
    <3> QED BY <1>0, <2>3, <3>1 DEF SessionTyped
  <2> QED BY <1>0, <1>1, <1>3, <2>4 DEF Approve, SessionTyped, folder, server
<1> QED BY <1>0, <1>2, <1>3

LEMMA ServerTyped ==
  ASSUME SessionInv, (\E k \in Keys : Arrive(k)) \/ \E j \in 1 .. MaxClicks : JobEnds(j)
  PROVE  SessionTyped'
<1>1. ASSUME NEW k \in Keys, Arrive(k) PROVE SessionTyped'
  <2>1. [key |-> k, status |-> "open"] \in JobRows
    BY DEF JobRows
  <2>2. jobs' \in Seq(JobRows)
    BY <1>1, <2>1, Appended DEF Arrive, SessionInv, SessionTyped
  <2>3. wire' \subseteq Keys /\ IsFiniteSet(wire')
    BY <1>1, FS_RemoveElement DEF Arrive, SessionInv, SessionTyped
  <2> QED BY <1>1, <2>2, <2>3 DEF Arrive, SessionInv, SessionTyped, folder
<1>2. ASSUME NEW j \in 1 .. MaxClicks, JobEnds(j) PROVE SessionTyped'
  <2>1. PICK s \in {"succeeded", "failed"} : jobs' = [jobs EXCEPT ![j].status = s]
    BY <1>2 DEF JobEnds
  <2>2. j \in 1 .. Len(jobs) /\ jobs \in Seq(JobRows)
    BY <1>2, JobNumber DEF JobEnds, SessionInv, SessionTyped
  <2>3. [jobs[j] EXCEPT !.status = s] \in JobRows
    <3>1. jobs[j] \in JobRows
      BY <2>2, ElementOfSeq
    <3> QED BY <3>1 DEF JobRows
  <2>4. jobs' = [jobs EXCEPT ![j] = [jobs[j] EXCEPT !.status = s]]
    BY <2>1
  <2>5. jobs' \in Seq(JobRows)
    BY <2>2, <2>3, <2>4, ExceptSeq
  <2> QED BY <1>2, <2>5 DEF JobEnds, SessionInv, SessionTyped, folder
<1> QED BY <1>1, <1>2

-----------------------------------------------------------------------------
(* What a step of a tab does to the tabs.                                   *)

TabStep(t) ==
  \/ Open(t) \/ Dies(t) \/ Fails(t) \/ Call(t)
  \/ \E a \in Assets : Select(t, a) \/ Prepare(t, a)
  \/ \E a \in Assets, p \in Prompts, r \in BOOLEAN : Approve(t, a, p, r)

ServerStep == (\E k \in Keys : Arrive(k)) \/ \E j \in 1 .. MaxClicks : JobEnds(j)

LEMMA StepTyped ==
  ASSUME SessionInv, [SessionStep]_sessionVars
  PROVE  SessionTyped'
<1>1. ASSUME NEW t \in Tabs, TabStep(t) PROVE SessionTyped'
  BY <1>1, MovesTyped, WritesTyped, ClicksTyped DEF TabStep, Call, Recording
<1>2. ASSUME ServerStep PROVE SessionTyped'
  BY <1>2, ServerTyped DEF ServerStep
<1>3. CASE UNCHANGED sessionVars
  BY <1>3 DEF SessionInv, SessionTyped, sessionVars, folder, server
<1> QED BY <1>1, <1>2, <1>3 DEF SessionStep, TabStep, ServerStep

\* The call of a tab is still about the same things.
SameCall(t) ==
  /\ tab'[t].target = tab[t].target /\ tab'[t].prompt = tab[t].prompt /\ tab'[t].click = tab[t].click
  /\ tab'[t].reason = tab[t].reason /\ tab'[t].view = tab[t].view

SameHeld(t) == tab'[t].held = tab[t].held /\ tab'[t].job = tab[t].job

\* From a comparison or a write to the next, with nothing new in the page.
Onward(t) ==
  \/ tab[t].at = "compare" /\ tab'[t].at = "write"
  \/ tab[t].at = "post"    /\ tab'[t].at = "answer"
  \/ tab[t].at = "watch"   /\ tab'[t].at = "place"
  \/ tab[t].at = "place"   /\ tab'[t].at = "put"
  \/ tab[t].at = "put"     /\ tab'[t].at = "entry"
  \/ tab[t].at = "entry"   /\ tab'[t].at = "note"
  \/ tab[t].at = "publish" /\ tab'[t].at = "temp"
  \/ tab[t].at = "temp"    /\ tab'[t].at = "final"
  \/ tab[t].at = "final"   /\ tab'[t].at = "clean"

LEMMA GoesOn ==
  ASSUME SessionTyped, NEW t \in Tabs, NEW l, Goto(t, l)
  PROVE  SameCall(t) /\ SameHeld(t) /\ tab'[t].at = l /\ tab'[t].seen = tab[t].seen
<1>1. tab'[t] = [tab[t] EXCEPT !.at = l] /\ tab[t] \in Pages
  BY DEF SessionTyped, Goto
<1> QED BY <1>1 DEF SameCall, SameHeld, Pages

LEMMA Rests ==
  ASSUME SessionTyped, NEW t \in Tabs, NEW m, NEW a, NEW c, Idle(t, m, a, c)
  PROVE  tab'[t].at = "idle" /\ tab'[t].seen = m /\ tab'[t].view = NoAssets
BY DEF SessionTyped, Idle, Closed

\* Another tab, and the rows of the API, are not a tab's to change.
LEMMA OthersStay ==
  ASSUME SessionTyped, NEW t \in Tabs, TabStep(t)
  PROVE  jobs' = jobs /\ \A u \in Tabs \ {t} : tab'[u] = tab[u]
BY DEF SessionTyped, TabStep, Call, Recording, Open, Dies, Fails, Select, Prepare, Approve, Compare,
       Write, Post, Answered, Watch, Place, Put, Entry, Note, Publish, Temp, Final, Clean, Idle, Refused,
       Goto, server

LEMMA TabMoves ==
  ASSUME SessionTyped, NEW t \in Tabs, TabStep(t)
  PROVE  \/ tab'[t].at \in {"closed", "idle"}
         \/ SameCall(t) /\ SameHeld(t) /\ (tab'[t].at = tab[t].at \/ Onward(t))
         \/ SameCall(t) /\ (Write(t) \/ Answered(t) \/ Note(t))
         \/ \E a \in Assets : Prepare(t, a)
         \/ \E a \in Assets, p \in Prompts, r \in BOOLEAN : Approve(t, a, p, r)
<1>0. tab[t] \in Pages
  BY DEF SessionTyped
<1>1. CASE Open(t) \/ Dies(t) \/ Fails(t) \/ Clean(t)
  <2>1. ASSUME NEW m, NEW a, NEW c, Idle(t, m, a, c) PROVE tab'[t].at = "idle"
    BY <2>1, Rests
  <2>2. CASE Clean(t)
    BY <2>1, <2>2, GoesOn DEF Clean, Refused
  <2>3. CASE Dies(t)
    BY <2>3 DEF Dies, Closed, SessionTyped
  <2> QED BY <1>1, <2>1, <2>2, <2>3 DEF Open, Fails, Refused
<1>2. CASE Compare(t) \/ Post(t) \/ Watch(t) \/ Place(t) \/ Put(t) \/ Entry(t) \/ Publish(t) \/ Temp(t) \/ Final(t)
  <2>1. CASE Refused(t)
    BY <2>1, Rests DEF Refused
  <2>2. ASSUME NEW l, Goto(t, l) PROVE SameCall(t) /\ SameHeld(t) /\ tab'[t].at = l
    BY <2>2, GoesOn
  <2> QED BY <1>2, <2>1, <2>2 DEF Compare, Post, Watch, Place, Put, Entry, Publish, Temp, Final, Onward
<1>3. CASE Write(t) \/ Note(t) \/ Answered(t)
  <2>1. ASSUME NEW s, tab' = [tab EXCEPT ![t].at = "post", ![t].held = s] PROVE SameCall(t)
    BY <1>0, <2>1 DEF SameCall, SessionTyped, Pages
  <2>2. ASSUME NEW s, tab' = [tab EXCEPT ![t].at = "publish", ![t].held = s] PROVE SameCall(t)
    BY <1>0, <2>2 DEF SameCall, SessionTyped, Pages
  <2>3. ASSUME NEW j, tab' = [tab EXCEPT ![t].at = "watch", ![t].job = j,
                                     ![t].seen = tab[t].view, ![t].created = FALSE]
        PROVE  SameCall(t)
    BY <1>0, <2>3 DEF SameCall, SessionTyped, Pages
  <2> QED BY <1>3, <2>1, <2>2, <2>3 DEF Write, Note, Answered
<1>4. CASE \E a \in Assets : Select(t, a)
  BY <1>0, <1>4 DEF Select, SameCall, SameHeld, SessionTyped, Pages
<1> QED BY <1>1, <1>2, <1>3, <1>4 DEF TabStep, Call, Recording

-----------------------------------------------------------------------------
(* What a tab knows, the provenance in the folder, and the rows.            *)

\* A row is never removed and never becomes the row of another request.
LEMMA RowsStay ==
  ASSUME SessionInv, [SessionStep]_sessionVars, NEW j \in DOMAIN jobs
  PROVE  j \in DOMAIN jobs' /\ jobs'[j].key = jobs[j].key
<1>0. SessionTyped /\ jobs \in Seq(JobRows) /\ jobs[j] \in JobRows /\ DOMAIN jobs = 1 .. Len(jobs)
  BY JobNumber, ElementOfSeq DEF SessionInv, SessionTyped
<1>1. ASSUME NEW t \in Tabs, TabStep(t) PROVE jobs' = jobs
  BY <1>0, <1>1, OthersStay
<1>2. ASSUME NEW k \in Keys, Arrive(k) PROVE j \in DOMAIN jobs' /\ jobs'[j] = jobs[j]
  <2>1. [key |-> k, status |-> "open"] \in JobRows
    BY DEF JobRows
  <2>2. CASE jobs' = Append(jobs, [key |-> k, status |-> "open"])
    <3>1. /\ jobs' \in Seq(JobRows) /\ Len(jobs') = Len(jobs) + 1 /\ Len(jobs) \in Nat
          /\ \A i \in 1 .. Len(jobs) : jobs'[i] = jobs[i]
      BY <1>0, <2>1, <2>2, Appended, LenProperties
    <3>2. DOMAIN jobs' = 1 .. Len(jobs')
      BY <3>1, LenProperties
    <3> QED BY <1>0, <3>1, <3>2
  <2> QED BY <1>2, <2>2 DEF Arrive
<1>3. ASSUME NEW i \in 1 .. MaxClicks, JobEnds(i) PROVE j \in DOMAIN jobs' /\ jobs'[j].key = jobs[j].key
  BY <1>0, <1>3 DEF JobEnds, JobRows
<1>4. CASE UNCHANGED sessionVars
  BY <1>4 DEF sessionVars, server
<1> QED BY <1>1, <1>2, <1>3, <1>4 DEF SessionStep, TabStep

LEMMA NoSessionOwned == \A a : Owned(a, NoSession) /\ Owned(a, Unreadable)
<1>1. ToSet(<<>>) = {}
  BY DEF ToSet
<1> QED BY <1>1 DEF Owned, NoSession, Unreadable

\* The entry a call writes is about its own job.
LEMMA NoteOwned ==
  ASSUME SessionInv, NEW t \in Tabs, tab[t].at = "note", NEW entry \in Entries,
         entry.job = tab[t].job, entry.prompt = ProvenPrompt(tab[t].held)
  PROVE  Owned(Target(t), [tab[t].held EXCEPT !.entries = Append(@, entry)])
<1>1. tab[t].held \in Sessions
  BY HeldTyped
<1>2. TabInv(t) /\ tab[t].at \in Paid /\ tab[t].at \in Filed /\ tab[t].at \in Busy /\ ~Preparing(t)
  BY DEF SessionInv, Paid, Filed, Busy, Windows, Preparing
<1>3. ToSet(Append(tab[t].held.entries, entry)) = ToSet(tab[t].held.entries) \union {entry}
  BY <1>1, Appended DEF Sessions
<1>4. jobs[tab[t].job].key.asset = Target(t) /\ jobs[tab[t].job].key.prompt = entry.prompt /\ tab[t].job \in DOMAIN jobs
  BY <1>2 DEF TabInv, Key, ProvenPrompt, Approval
<1> QED BY <1>1, <1>2, <1>3, <1>4 DEF Owned, TabInv, Sessions

LEMMA OwnTab ==
  ASSUME SessionInv, NEW t \in Tabs, TabStep(t)
  PROVE  TabInv(t)'
<1>0. SessionTyped /\ TabInv(t) /\ jobs' = jobs /\ tab[t] \in Pages
  BY OthersStay DEF SessionInv, SessionTyped
<1>1. CASE tab'[t].at \in {"closed", "idle"}
  BY <1>1 DEF TabInv, Busy, Filed, Paid, Windows
<1>2. CASE SameCall(t) /\ SameHeld(t) /\ (tab'[t].at = tab[t].at \/ Onward(t))
  <2>1. (tab'[t].at \in Busy <=> tab[t].at \in Busy) /\ (tab'[t].at \in Filed <=> tab[t].at \in Filed)
        /\ (tab'[t].at \in Paid <=> tab[t].at \in Paid)
    BY <1>2 DEF Onward, Busy, Filed, Paid, Windows
  <2>2. Preparing(t) => Preparing(t)'
    BY <1>2 DEF Onward, Preparing, SameHeld
  <2> QED BY <1>0, <1>2, <2>1, <2>2 DEF TabInv, SameCall, SameHeld, Owned, Key, Approval, Target
<1>3. CASE SameCall(t) /\ Write(t)
  <2>1. tab'[t].at = "post" /\ tab'[t].held = WithApproval(t)
    BY <1>0, <1>3 DEF Write, SessionTyped, Pages
  <2>2. Last(WithApproval(t).approvals) = Approval(t) /\ WithApproval(t).approvals # <<>>
        /\ WithApproval(t).entries = tab[t].held.entries
    <3>1. tab[t].held \in Sessions /\ Approval(t) \in Approvals
      BY <1>0, <1>3, HeldTyped DEF Write, TabInv, Busy, Windows, Approval, Approvals, Preparing
    <3> QED BY <3>1, Appended DEF WithApproval, Approval, Sessions
  <2>3. tab[t].at = "write"
    BY <1>3 DEF Write
  <2> QED BY <1>0, <1>3, <2>1, <2>2, <2>3
          DEF TabInv, SameCall, Owned, Approval, Target, Busy, Filed, Paid, Windows, Preparing
<1>4. CASE SameCall(t) /\ Answered(t)
  <2>1. PICK j \in DOMAIN jobs :
          /\ jobs[j].key = Key(t)
          /\ tab' = [tab EXCEPT ![t].at = "watch", ![t].job = j, ![t].seen = tab[t].view, ![t].created = FALSE]
    BY <1>4 DEF Answered
  <2>2. tab'[t].at = "watch" /\ tab'[t].job = j /\ tab'[t].held = tab[t].held
    BY <1>0, <2>1 DEF SessionTyped, Pages
  <2>3. tab[t].at = "answer"
    BY <1>4 DEF Answered
  <2> QED BY <1>0, <1>4, <2>1, <2>2, <2>3
          DEF TabInv, SameCall, Owned, Approval, Key, Target, Busy, Filed, Paid, Windows, Preparing
<1>5. CASE SameCall(t) /\ Note(t)
  <2> DEFINE entry == [revision |-> Revision(t), job |-> tab[t].job,
                       prompt |-> ProvenPrompt(tab[t].held), reason |-> tab[t].reason]
             next  == [tab[t].held EXCEPT !.entries = Append(@, entry)]
  <2>1. tab'[t].at = "publish" /\ tab'[t].held = next /\ tab'[t].job = tab[t].job /\ tab[t].at = "note"
    <3>1. tab' = [tab EXCEPT ![t].at = "publish", ![t].held = next] /\ tab[t].at = "note"
      BY <1>5 DEF Note
    <3> HIDE DEF next
    <3> QED BY <1>0, <3>1 DEF SessionTyped, Pages
  <2>2. entry \in Entries
    BY <2>1, EntryTyped
  <2>3. Owned(Target(t), next)
    BY <2>1, <2>2, NoteOwned
  <2>4. next.approvals = tab[t].held.approvals
    BY <1>0 DEF Pages, Sessions
  <2> HIDE DEF next
  <2> QED BY <1>0, <1>5, <2>1, <2>3, <2>4
          DEF TabInv, SameCall, Owned, Approval, Key, Target, Busy, Filed, Paid, Windows, Preparing
<1>6. ASSUME NEW a \in Assets, NEW p \in Prompts, NEW r \in BOOLEAN, Approve(t, a, p, r)
      PROVE  TabInv(t)'
  <2>1. /\ tab'[t].at = "compare" /\ tab'[t].target = a /\ tab'[t].prompt = p
        /\ tab'[t].click = clicks' /\ tab'[t].held = Previous(t, a)
    BY <1>0, <1>6 DEF Approve, SessionTyped, Pages
  <2>2. Owned(a, Previous(t, a))
    BY NoSessionOwned DEF Previous, SessionInv
  <2>3. clicks' \in 1 .. MaxClicks
    BY <1>0, <1>6, ClicksAssumption DEF Approve, SessionTyped
  <2> QED BY <1>0, <2>1, <2>2, <2>3 DEF TabInv, Owned, Target, Busy, Filed, Paid, Windows
<1>7. ASSUME NEW a \in Assets, Prepare(t, a) PROVE TabInv(t)'
  <2>1. /\ tab'[t].at = "publish" /\ tab'[t].target = a /\ tab'[t].click = clicks'
        /\ tab'[t].held = NoSession /\ tab'[t].job = 0
    BY <1>0, <1>7 DEF Prepare, SessionTyped, Pages
  <2>2. Preparing(t)'
    BY <2>1 DEF Preparing
  <2>3. clicks' \in 1 .. MaxClicks
    BY <1>0, <1>7, ClicksAssumption DEF Prepare, SessionTyped
  <2>4. Owned(Target(t), tab[t].held)'
    BY <1>0, <2>1, NoSessionOwned DEF Owned
  <2> QED BY <2>1, <2>2, <2>3, <2>4 DEF TabInv
<1> QED BY <1>0, <1>1, <1>2, <1>3, <1>4, <1>5, <1>6, <1>7, TabMoves

LEMMA TabsKeepTheirJobs ==
  ASSUME SessionInv, [SessionStep]_sessionVars
  PROVE  \A t \in Tabs : TabInv(t)'
<1>1. ASSUME NEW u \in Tabs, tab'[u] = tab[u] PROVE TabInv(u)'
  <2>1. TabInv(u)
    BY DEF SessionInv
  <2>2. tab[u].at \in Busy => Owned(Target(u), tab[u].held)'
    BY <1>1, <2>1, RowsStay DEF TabInv, Owned, Target
  <2>3. tab[u].at \in Paid => (tab[u].job \in DOMAIN jobs /\ jobs[tab[u].job].key = Key(u))' \/ Preparing(u)
    BY <1>1, <2>1, RowsStay DEF TabInv, Key, Target
  <2>4. Preparing(u)' = Preparing(u)
    BY <1>1 DEF Preparing
  <2> QED BY <1>1, <2>1, <2>2, <2>3, <2>4 DEF TabInv, Approval
<1>2. ASSUME NEW t \in Tabs, TabStep(t) PROVE \A u \in Tabs : TabInv(u)'
  BY <1>1, <1>2, OwnTab, OthersStay DEF SessionInv
<1>3. ASSUME ServerStep \/ UNCHANGED sessionVars PROVE tab' = tab
  BY <1>3 DEF ServerStep, Arrive, JobEnds, sessionVars
<1> QED BY <1>1, <1>2, <1>3 DEF SessionStep, TabStep, ServerStep

\* What a step writes in the sidecar of an asset.
LEMMA SidecarWrites ==
  ASSUME SessionInv, [SessionStep]_sessionVars, NEW a \in Assets
  PROVE  \/ sidecar'[a] = sidecar[a]
         \/ \E t \in Tabs : Write(t) /\ a = Target(t) /\ sidecar'[a] = WithApproval(t)
         \/ \E t \in Tabs : Note(t) /\ a = Target(t) /\ sidecar'[a] = tab'[t].held
         \/ sidecar[a] = NoSession /\ sidecar'[a] = Unreadable
<1>0. sidecar \in [Assets -> Sessions \union {Unreadable}] /\ tab \in [Tabs -> Pages]
  BY DEF SessionInv, SessionTyped
<1>1. ASSUME NEW t \in Tabs, Dies(t) \/ Fails(t)
      PROVE  \/ sidecar'[a] = sidecar[a]
             \/ sidecar[a] = NoSession /\ sidecar'[a] = Unreadable
  BY <1>0, <1>1 DEF Dies, Fails, CutShort
<1>2. ASSUME NEW t \in Tabs, Write(t)
      PROVE  sidecar'[a] = sidecar[a] \/ (a = Target(t) /\ sidecar'[a] = WithApproval(t))
  BY <1>0, <1>2 DEF Write
<1>3. ASSUME NEW t \in Tabs, Note(t)
      PROVE  sidecar'[a] = sidecar[a] \/ (a = Target(t) /\ sidecar'[a] = tab'[t].held)
  <2>1. PICK s : /\ sidecar' = [sidecar EXCEPT ![Target(t)] = s]
                 /\ tab' = [tab EXCEPT ![t].at = "publish", ![t].held = s]
    BY <1>3 DEF Note
  <2>2. tab'[t].held = s
    BY <1>0, <2>1 DEF Pages
  <2> QED BY <1>0, <2>1, <2>2
<1>4. ASSUME NEW t \in Tabs, TabStep(t), ~(Dies(t) \/ Fails(t) \/ Write(t) \/ Note(t)) PROVE sidecar' = sidecar
  BY <1>4 DEF TabStep, Call, Recording, Open, Select, Prepare, Approve, Compare, Post, Answered, Watch,
              Place, Put, Entry, Publish, Temp, Final, Clean, folder
<1>5. ASSUME ServerStep \/ UNCHANGED sessionVars PROVE sidecar' = sidecar
  BY <1>5 DEF ServerStep, Arrive, JobEnds, sessionVars, folder
<1> QED BY <1>1, <1>2, <1>3, <1>4, <1>5 DEF SessionStep, TabStep, ServerStep

LEMMA FolderOwned ==
  ASSUME SessionInv, [SessionStep]_sessionVars, NEW a \in Assets
  PROVE  Owned(a, sidecar[a])'
<1>1. CASE sidecar'[a] = sidecar[a]
  BY <1>1, RowsStay DEF SessionInv, Owned
<1>2. ASSUME NEW t \in Tabs, Write(t), a = Target(t), sidecar'[a] = WithApproval(t)
      PROVE  Owned(a, sidecar[a])'
  <2>1. Owned(a, tab[t].held)
    BY <1>2 DEF SessionInv, TabInv, Write, Busy, Windows
  <2>2. WithApproval(t).entries = tab[t].held.entries
    BY HeldTyped DEF WithApproval, Sessions
  <2> QED BY <1>2, <2>1, <2>2, RowsStay DEF Owned
<1>3. ASSUME NEW t \in Tabs, Note(t), a = Target(t), sidecar'[a] = tab'[t].held
      PROVE  Owned(a, sidecar[a])'
  <2>1. TabInv(t)' /\ tab'[t].at \in Busy /\ tab'[t].target = tab[t].target
    <3>1. PICK s : tab' = [tab EXCEPT ![t].at = "publish", ![t].held = s]
      BY <1>3 DEF Note
    <3>2. tab[t] \in Pages /\ tab \in [Tabs -> Pages]
      BY DEF SessionInv, SessionTyped
    <3> QED BY <3>1, <3>2, TabsKeepTheirJobs DEF Busy, Pages
  <2> QED BY <1>3, <2>1 DEF TabInv, Target, Owned
<1>4. CASE sidecar'[a] = Unreadable
  BY <1>4, NoSessionOwned DEF Owned, Unreadable, ToSet
<1> QED BY <1>1, <1>2, <1>3, <1>4, SidecarWrites

LEMMA OneRowStep ==
  ASSUME SessionInv, [SessionStep]_sessionVars
  PROVE  OneJobPerKey'
<1>0. OneJobPerKey /\ jobs \in Seq(JobRows) /\ DOMAIN jobs = 1 .. Len(jobs) /\ Len(jobs) \in Nat
  BY JobNumber, LenProperties DEF SessionInv, SessionTyped
<1>1. ASSUME NEW t \in Tabs, TabStep(t) PROVE jobs' = jobs
  BY <1>1, OthersStay DEF SessionInv
<1>2. ASSUME NEW k \in Keys, Arrive(k) PROVE OneJobPerKey'
  <2>1. CASE jobs' = jobs
    BY <1>0, <2>1 DEF OneJobPerKey
  <2>2. CASE /\ \A j \in DOMAIN jobs : jobs[j].key # k
             /\ jobs' = Append(jobs, [key |-> k, status |-> "open"])
    <3>1. [key |-> k, status |-> "open"] \in JobRows
      BY DEF JobRows
    <3>2. /\ jobs' \in Seq(JobRows) /\ Len(jobs') = Len(jobs) + 1
          /\ \A i \in 1 .. Len(jobs) : jobs'[i] = jobs[i]
          /\ jobs'[Len(jobs) + 1] = [key |-> k, status |-> "open"]
      BY <1>0, <2>2, <3>1, AppendProperties
    <3>3. DOMAIN jobs' = 1 .. Len(jobs) + 1
      BY <3>2, LenProperties
    <3> QED BY <1>0, <2>2, <3>2, <3>3 DEF OneJobPerKey
  <2> QED BY <1>2, <2>1, <2>2 DEF Arrive
<1>3. ASSUME NEW i \in 1 .. MaxClicks, JobEnds(i) PROVE OneJobPerKey'
  <2>1. \A j \in DOMAIN jobs : jobs'[j].key = jobs[j].key
    BY <1>3, RowsStay DEF SessionStep
  <2>2. DOMAIN jobs' = DOMAIN jobs
    BY <1>3 DEF JobEnds
  <2> QED BY <1>0, <2>1, <2>2 DEF OneJobPerKey
<1>4. CASE UNCHANGED sessionVars
  BY <1>0, <1>4 DEF sessionVars, server, OneJobPerKey
<1> QED BY <1>0, <1>1, <1>2, <1>3, <1>4 DEF SessionStep, TabStep, OneJobPerKey

-----------------------------------------------------------------------------
(* The clicks bound what may be published and paid for.                     *)

LEMMA Labels ==
  ASSUME SessionTyped, NEW t \in Tabs
  PROVE  /\ Write(t)    => tab[t].at = "write"  /\ tab'[t].at = "post"
         /\ Answered(t) => tab[t].at = "answer" /\ tab'[t].at = "watch"
         /\ Note(t)     => tab[t].at = "note"   /\ tab'[t].at = "publish"
         /\ Open(t) \/ Dies(t) \/ Fails(t) \/ Clean(t) => tab'[t].at \in {"closed", "idle"}
         /\ \A a \in Assets : Select(t, a) => tab'[t].at = tab[t].at
         /\ \A a \in Assets : Prepare(t, a) => tab[t].at = "idle" /\ tab'[t].at = "publish"
         /\ \A a \in Assets, p \in Prompts, r \in BOOLEAN :
              Approve(t, a, p, r) => tab[t].at = "idle" /\ tab'[t].at = "compare"
<1>0. tab \in [Tabs -> Pages] /\ tab[t] \in Pages
  BY DEF SessionTyped
<1>1. ASSUME NEW l, NEW s, tab' = [tab EXCEPT ![t].at = l, ![t].held = s] PROVE tab'[t].at = l
  BY <1>0, <1>1 DEF Pages
<1>2. ASSUME NEW j, tab' = [tab EXCEPT ![t].at = "watch", ![t].job = j,
                               ![t].seen = tab[t].view, ![t].created = FALSE]
      PROVE  tab'[t].at = "watch"
  BY <1>0, <1>2 DEF Pages
<1>3. Write(t) => tab[t].at = "write" /\ tab'[t].at = "post"
  BY <1>1 DEF Write
<1>4. Answered(t) => tab[t].at = "answer" /\ tab'[t].at = "watch"
  BY <1>2 DEF Answered
<1>5. Note(t) => tab[t].at = "note" /\ tab'[t].at = "publish"
  BY <1>1 DEF Note
<1>6. ASSUME NEW a \in Assets
      PROVE  /\ Select(t, a)  => tab'[t].at = tab[t].at
             /\ Prepare(t, a) => tab[t].at = "idle" /\ tab'[t].at = "publish"
  <2>1. Select(t, a) => tab'[t].at = tab[t].at
    BY <1>0 DEF Select, Pages
  <2>2. ASSUME Prepare(t, a) PROVE tab[t].at = "idle" /\ tab'[t].at = "publish"
    <3>1. tab[t].at = "idle" /\ tab' = [tab EXCEPT ![t] = [tab[t] EXCEPT !.at = "publish", !.target = a,
            !.click = clicks', !.view = tab[t].seen, !.held = NoSession, !.job = 0]]
      BY <2>2 DEF Prepare
    <3>2. tab'[t] = [tab[t] EXCEPT !.at = "publish", !.target = a, !.click = clicks',
                                   !.view = tab[t].seen, !.held = NoSession, !.job = 0]
      BY <1>0, <3>1
    <3> QED BY <1>0, <3>1, <3>2 DEF Pages
  <2> QED BY <2>1, <2>2
<1>7. ASSUME NEW a \in Assets, NEW p \in Prompts, NEW r \in BOOLEAN, Approve(t, a, p, r)
      PROVE  tab[t].at = "idle" /\ tab'[t].at = "compare"
  BY <1>0, <1>7 DEF Approve, Pages
<1>8. Open(t) \/ Dies(t) \/ Fails(t) \/ Clean(t) => tab'[t].at \in {"closed", "idle"}
  <2>1. ASSUME NEW m, NEW a, NEW c, Idle(t, m, a, c) PROVE tab'[t].at = "idle"
    BY <2>1, Rests
  <2>2. Clean(t) => tab'[t].at = "idle"
    BY <2>1 DEF Clean, Refused
  <2>3. Dies(t) => tab'[t].at = "closed"
    BY <1>0 DEF Dies, Closed
  <2> QED BY <2>1, <2>2, <2>3 DEF Open, Fails, Refused
<1> QED BY <1>3, <1>4, <1>5, <1>6, <1>7, <1>8

LEMMA CountedAfter ==
  /\ IsFiniteSet(Pending') /\ Cardinality(Pending') \in Nat
  /\ IsFiniteSet(Unposted') /\ Cardinality(Unposted') \in Nat
BY TabsAssumption, FS_Subset, FS_CardinalityType DEF Pending, Unposted

\* Only an approval or a preparation adds to the calls under way: a click.
LEMMA Budget ==
  ASSUME SessionInv, NEW t \in Tabs, TabStep(t)
  PROVE  /\ clicks' \in {clicks, clicks + 1}
         /\ Cardinality(Pending') + clicks <= Cardinality(Pending) + clicks'
         /\ Cardinality(Unposted') + clicks <= Cardinality(Unposted) + clicks'
         /\ Final(t) => Cardinality(Pending') + 1 + clicks <= Cardinality(Pending) + clicks'
         /\ Post(t)  => Cardinality(Unposted') + 1 + clicks <= Cardinality(Unposted) + clicks'
<1>0. SessionTyped /\ tab[t] \in Pages /\ clicks \in Nat /\ (\A u \in Tabs \ {t} : tab'[u] = tab[u])
  BY OthersStay, ClicksAssumption DEF SessionInv, SessionTyped
<1>1. CASE \E a \in Assets, p \in Prompts, r \in BOOLEAN : Approve(t, a, p, r)
  <2>1. tab[t].at = "idle" /\ tab'[t].at = "compare" /\ clicks' = clicks + 1
    <3>1. PICK a \in Assets, p \in Prompts, r \in BOOLEAN : Approve(t, a, p, r)
      BY <1>1
    <3>2. tab[t].at = "idle" /\ tab'[t].at = "compare"
      BY <1>0, <3>1, Labels
    <3> QED BY <3>1, <3>2 DEF Approve
  <2>2. Pending' = Pending \union {t} /\ Unposted' = Unposted \union {t} /\ t \notin Pending /\ t \notin Unposted
    BY <1>0, <2>1 DEF Pending, Unposted, Busy, Windows
  <2>3. /\ Cardinality(Pending') = Cardinality(Pending) + 1
        /\ Cardinality(Unposted') = Cardinality(Unposted) + 1
    BY <2>2, Counted, FS_AddElement
  <2>4. ~Final(t) /\ ~Post(t)
    BY <2>1 DEF Final, Post
  <2> QED BY <1>0, <2>1, <2>3, <2>4, Counted
<1>2. CASE \E a \in Assets : Prepare(t, a)
  <2>1. tab[t].at = "idle" /\ tab'[t].at = "publish" /\ clicks' = clicks + 1
    <3>1. PICK a \in Assets : Prepare(t, a)
      BY <1>2
    <3>2. tab[t].at = "idle" /\ tab'[t].at = "publish"
      BY <1>0, <3>1, Labels
    <3> QED BY <3>1, <3>2 DEF Prepare
  <2>2. Pending' = Pending \union {t} /\ Unposted' = Unposted /\ t \notin Pending
    BY <1>0, <2>1 DEF Pending, Unposted, Busy, Windows
  <2>3. Cardinality(Pending') = Cardinality(Pending) + 1
    BY <2>2, Counted, FS_AddElement
  <2>4. ~Final(t) /\ ~Post(t)
    BY <2>1 DEF Final, Post
  <2> QED BY <1>0, <2>1, <2>2, <2>3, <2>4, Counted
<1>3. CASE /\ ~\E a \in Assets, p \in Prompts, r \in BOOLEAN : Approve(t, a, p, r)
           /\ ~\E a \in Assets : Prepare(t, a)
  <2>1. clicks' = clicks
    BY <1>3 DEF TabStep, Call, Recording, Open, Dies, Fails, Select, Compare, Write, Post, Answered,
                Watch, Place, Put, Entry, Note, Publish, Temp, Final, Clean
  <2>3. /\ tab'[t].at \in Busy \ {"clean"} => tab[t].at \in Busy \ {"clean"}
        /\ tab'[t].at \in {"compare", "write", "post"} => tab[t].at \in {"compare", "write", "post"}
    BY <1>0, <1>3, TabMoves, Labels DEF Onward, Busy, Windows
  <2>4. Pending' \subseteq Pending /\ Unposted' \subseteq Unposted
    BY <1>0, <2>3 DEF Pending, Unposted
  <2>5. Cardinality(Pending') <= Cardinality(Pending) /\ Cardinality(Unposted') <= Cardinality(Unposted)
    BY <2>4, Counted, FS_Subset
  <2>6. ASSUME Final(t) PROVE Cardinality(Pending') + 1 <= Cardinality(Pending)
    <3>1. tab'[t].at = "clean" /\ t \in Pending
      BY <1>0, <2>6, GoesOn DEF Final, Pending, Busy, Windows
    <3>2. Pending' \subseteq Pending \ {t}
      BY <2>4, <3>1 DEF Pending
    <3>3. IsFiniteSet(Pending \ {t}) /\ Cardinality(Pending \ {t}) = Cardinality(Pending) - 1
      BY <3>1, Counted, FS_RemoveElement
    <3>4. Cardinality(Pending') <= Cardinality(Pending \ {t})
      BY <3>2, <3>3, FS_Subset
    <3> QED BY <3>3, <3>4, Counted, CountedAfter
  <2>7. ASSUME Post(t) PROVE Cardinality(Unposted') + 1 <= Cardinality(Unposted)
    <3>1. tab'[t].at = "answer" /\ t \in Unposted
      BY <1>0, <2>7, GoesOn DEF Post, Unposted
    <3>2. Unposted' \subseteq Unposted \ {t}
      BY <2>4, <3>1 DEF Unposted
    <3>3. IsFiniteSet(Unposted \ {t}) /\ Cardinality(Unposted \ {t}) = Cardinality(Unposted) - 1
      BY <3>1, Counted, FS_RemoveElement
    <3>4. Cardinality(Unposted') <= Cardinality(Unposted \ {t})
      BY <3>2, <3>3, FS_Subset
    <3> QED BY <3>3, <3>4, Counted, CountedAfter
  <2> QED BY <1>0, <2>1, <2>5, <2>6, <2>7, Counted, CountedAfter
<1> QED BY <1>1, <1>2, <1>3

\* A manifest is short enough for what is under way after the step.
Fits(m) == \A a \in Assets : Len(m[a]) + Cardinality(Pending') <= clicks' + 2

LEMMA StillFits ==
  ASSUME SessionInv, NEW t \in Tabs, TabStep(t), NEW m \in Manifests, Short(m)
  PROVE  Fits(m)
<1> SUFFICES ASSUME NEW a \in Assets PROVE Len(m[a]) + Cardinality(Pending') <= clicks' + 2
  BY DEF Fits
<1>1. Len(m[a]) \in Nat
  BY LenProperties DEF Manifests
<1>2. clicks \in Nat
  BY ClicksAssumption DEF SessionInv, SessionTyped
<1>3. Len(m[a]) + Cardinality(Pending) <= clicks + 2
  BY DEF Short
<1>4. Cardinality(Pending') + clicks <= Cardinality(Pending) + clicks' /\ clicks' \in {clicks, clicks + 1}
  BY Budget
<1> QED BY <1>1, <1>2, <1>3, <1>4, Counted, CountedAfter

LEMMA NoAssetsFit ==
  ASSUME SessionInv, NEW t \in Tabs, TabStep(t)
  PROVE  Fits(NoAssets)
<1>1. \A a \in Assets : Len(NoAssets[a]) = 0
  BY EmptySeq DEF NoAssets, ManifestOf
<1>2. clicks \in Nat /\ Cardinality(Pending) <= clicks
  BY ClicksAssumption DEF SessionInv, SessionTyped, BoundInv
<1>3. Cardinality(Pending') + clicks <= Cardinality(Pending) + clicks' /\ clicks' \in {clicks, clicks + 1}
  BY Budget
<1>4. 0 + Cardinality(Pending') <= clicks' + 2
  BY <1>2, <1>3, Counted, CountedAfter
<1> QED BY <1>1, <1>4 DEF Fits

\* One revision more fits when its click has made room for it.
LEMMA OneMoreFits ==
  ASSUME SessionInv, NEW t \in Tabs, TabStep(t), NEW m \in Manifests, Short(m), NEW n \in Manifests,
         \A a \in Assets : Len(n[a]) <= Len(m[a]) + 1,
         Cardinality(Pending') + 1 + clicks <= Cardinality(Pending) + clicks'
  PROVE  Fits(n)
<1> SUFFICES ASSUME NEW a \in Assets PROVE Len(n[a]) + Cardinality(Pending') <= clicks' + 2
  BY DEF Fits
<1>1. Len(m[a]) \in Nat /\ Len(n[a]) \in Nat
  BY LenProperties DEF Manifests
<1>2. clicks \in Nat /\ clicks' \in {clicks, clicks + 1}
  <2>1. clicks \in Nat
    BY ClicksAssumption DEF SessionInv, SessionTyped
  <2> QED BY <2>1, Budget
<1>3. Len(m[a]) + Cardinality(Pending) <= clicks + 2
  BY DEF Short
<1>4. Cardinality(Pending) \in Nat /\ Cardinality(Pending') \in Nat
  BY Counted, CountedAfter
<1>5. Len(n[a]) <= Len(m[a]) + 1
  OBVIOUS
<1>6. Len(m[a]) + 1 + Cardinality(Pending') <= clicks' + 2
  BY <1>1, <1>2, <1>3, <1>4
<1> QED BY <1>1, <1>2, <1>4, <1>5, <1>6

\* What a tab may come to know.
LEMMA PageSteps ==
  ASSUME SessionTyped, NEW t \in Tabs, TabStep(t)
  PROVE  /\ \/ tab'[t].seen \in {tab[t].seen, tab[t].view, manifest, manifest', NoAssets}
            \/ Clean(t) /\ tab'[t].seen = NextManifest(t)
         /\ tab'[t].view \in {tab[t].seen, tab[t].view, manifest, NoAssets}
<1>0. tab \in [Tabs -> Pages] /\ tab[t] \in Pages
  BY DEF SessionTyped
<1>1. ASSUME NEW m, NEW a, NEW c, Idle(t, m, a, c) PROVE tab'[t].seen = m /\ tab'[t].view = NoAssets
  BY <1>1, Rests
<1>2. ASSUME NEW l, Goto(t, l) PROVE tab'[t].seen = tab[t].seen /\ tab'[t].view = tab[t].view
  BY <1>2, GoesOn DEF SameCall
<1>3. CASE Open(t) \/ Fails(t) \/ Clean(t)
  BY <1>1, <1>3 DEF Open, Fails, Clean, Refused
<1>4. CASE Compare(t) \/ Post(t) \/ Watch(t) \/ Place(t) \/ Put(t) \/ Entry(t) \/ Publish(t) \/ Temp(t) \/ Final(t)
  BY <1>1, <1>2, <1>4 DEF Compare, Post, Watch, Place, Put, Entry, Publish, Temp, Final, Refused
<1>5. CASE Dies(t)
  BY <1>0, <1>5 DEF Dies, Closed
<1>6. CASE Write(t) \/ Note(t)
  <2>1. PICK l, s : tab' = [tab EXCEPT ![t].at = l, ![t].held = s]
    BY <1>6 DEF Write, Note
  <2> QED BY <1>0, <2>1 DEF Pages
<1>7. CASE Answered(t)
  <2>1. PICK j : tab' = [tab EXCEPT ![t].at = "watch", ![t].job = j, ![t].seen = tab[t].view, ![t].created = FALSE]
    BY <1>7 DEF Answered
  <2> QED BY <1>0, <2>1 DEF Pages
<1>8. CASE \E a \in Assets : Select(t, a) \/ Prepare(t, a)
  <2>1. ASSUME NEW a \in Assets, Select(t, a) PROVE tab'[t].seen = tab[t].seen /\ tab'[t].view = tab[t].view
    BY <1>0, <2>1 DEF Select, Pages
  <2>2. ASSUME NEW a \in Assets, Prepare(t, a) PROVE tab'[t].seen = tab[t].seen /\ tab'[t].view = tab[t].seen
    <3>1. tab'[t] = [tab[t] EXCEPT !.at = "publish", !.target = a, !.click = clicks',
                                   !.view = tab[t].seen, !.held = NoSession, !.job = 0]
      BY <1>0, <2>2 DEF Prepare
    <3> QED BY <1>0, <3>1 DEF Pages
  <2> QED BY <1>8, <2>1, <2>2
<1>9. CASE \E a \in Assets, p \in Prompts, r \in BOOLEAN : Approve(t, a, p, r)
  BY <1>0, <1>9 DEF Approve, Pages
<1> QED BY <1>3, <1>4, <1>5, <1>6, <1>7, <1>8, <1>9 DEF TabStep, Call, Recording

LEMMA ManifestWrites ==
  ASSUME [SessionStep]_sessionVars
  PROVE  manifest' = manifest \/ \E t \in Tabs : Final(t) /\ manifest' = NextManifest(t)
<1>1. ASSUME NEW t \in Tabs, TabStep(t), ~Final(t) PROVE manifest' = manifest
  BY <1>1 DEF TabStep, Call, Recording, Open, Dies, Fails, Select, Prepare, Approve, Compare, Write, Post,
              Answered, Watch, Place, Put, Entry, Note, Publish, Temp, Clean, folder
<1>2. ASSUME ServerStep \/ UNCHANGED sessionVars PROVE manifest' = manifest
  BY <1>2 DEF ServerStep, Arrive, JobEnds, sessionVars, folder
<1> QED BY <1>1, <1>2 DEF SessionStep, TabStep, ServerStep, Final

LEMMA NextManifestTyped ==
  ASSUME SessionInv, NEW t \in Pending
  PROVE  NextManifest(t) \in Manifests /\ \A a \in Assets : Len(NextManifest(t)[a]) <= Len(tab[t].view[a]) + 1
<1>1. Target(t) \in Assets /\ tab[t].view \in Manifests
  BY RevisionNumber DEF SessionInv, SessionTyped, Pages, Pending
<1> QED BY <1>1, NextExtends

LEMMA ManifestFits ==
  ASSUME SessionInv, NEW t \in Tabs, TabStep(t)
  PROVE  Fits(manifest') /\ (Final(t) => Fits(NextManifest(t)))
<1>0. SessionTyped /\ Short(manifest) /\ manifest \in Manifests /\ tab[t].view \in Manifests /\ Short(tab[t].view)
  BY DEF SessionInv, SessionTyped, BoundInv, Pages
<1>1. ASSUME Final(t) PROVE Fits(NextManifest(t)) /\ manifest' = NextManifest(t)
  <2>1. t \in Pending
    BY <1>1 DEF Final, Pending, Busy, Windows
  <2>2. Cardinality(Pending') + 1 + clicks <= Cardinality(Pending) + clicks'
    BY <1>1, Budget
  <2>3. Fits(NextManifest(t))
    BY <1>0, <2>1, <2>2, NextManifestTyped, OneMoreFits
  <2> QED BY <1>1, <2>3 DEF Final
<1>2. ASSUME ~Final(t) PROVE manifest' = manifest
  BY <1>2 DEF TabStep, Call, Recording, Open, Dies, Fails, Select, Prepare, Approve, Compare, Write, Post,
              Answered, Watch, Place, Put, Entry, Note, Publish, Temp, Clean, folder
<1>3. ASSUME manifest' = manifest PROVE Fits(manifest')
  BY <1>0, <1>3, StillFits
<1> QED BY <1>1, <1>2, <1>3

LEMMA PagesFit ==
  ASSUME SessionInv, NEW t \in Tabs, TabStep(t), NEW u \in Tabs
  PROVE  Fits(tab'[u].seen) /\ Fits(tab'[u].view)
<1>0. /\ SessionTyped /\ manifest \in Manifests /\ Short(manifest)
      /\ \A w \in Tabs : /\ tab[w].seen \in Manifests /\ Short(tab[w].seen)
                         /\ tab[w].view \in Manifests /\ Short(tab[w].view)
  BY DEF SessionInv, SessionTyped, BoundInv, Pages
<1>1. CASE u # t
  <2>1. tab'[u] = tab[u]
    BY <1>0, <1>1, OthersStay
  <2> QED BY <1>0, <2>1, StillFits
<1>2. CASE u = t
  <2>1. Fits(tab[t].seen) /\ Fits(tab[t].view) /\ Fits(manifest) /\ Fits(manifest') /\ Fits(NoAssets)
    BY <1>0, StillFits, ManifestFits, NoAssetsFit
  <2>2. ASSUME Clean(t) PROVE Fits(NextManifest(t))
    <3>1. Short(NextManifest(t)) /\ tab[t].at = "clean"
      BY <2>2 DEF Clean, SessionInv, BoundInv
    <3>2. NextManifest(t) \in Manifests
      <4>1. Target(t) \in Assets
        BY <3>1 DEF SessionInv, TabInv, Busy, Windows, Target
      <4> QED BY <1>0, <4>1, NextExtends
    <3> QED BY <3>1, <3>2, StillFits
  <2> QED BY <1>0, <1>2, <2>1, <2>2, PageSteps
<1> QED BY <1>1, <1>2

\* A call that has published and cleans up still holds what it published.
LEMMA CleanFits ==
  ASSUME SessionInv, NEW t \in Tabs, TabStep(t), NEW u \in Tabs, tab'[u].at = "clean"
  PROVE  Short(NextManifest(u))'
<1>0. SessionTyped /\ tab[t] \in Pages
  BY DEF SessionInv, SessionTyped
<1>1. CASE tab[u].at = "clean" /\ SameCall(u) /\ SameHeld(u)
  <2>1. Short(NextManifest(u)) /\ Target(u) \in Assets /\ tab[u].view \in Manifests
    BY <1>0, <1>1 DEF SessionInv, BoundInv, SessionTyped, TabInv, Busy, Windows, Pages, Target
  <2>2. Fits(NextManifest(u))
    BY <2>1, NextExtends, StillFits
  <2>3. NextManifest(u)' = NextManifest(u)
    BY <1>1 DEF NextManifest, Preparing, Target, SameCall, SameHeld
  <2> QED BY <2>2, <2>3 DEF Fits, Short
<1>2. CASE u = t /\ Final(t)
  <2>1. Fits(NextManifest(t))
    BY <1>2, ManifestFits
  <2>2. SameCall(t) /\ SameHeld(t) /\ tab[t].at = "final"
    BY <1>0, <1>2, GoesOn DEF Final
  <2>3. NextManifest(t)' = NextManifest(t)
    BY <1>2, <2>2 DEF NextManifest, Preparing, Target, SameCall, SameHeld
  <2> QED BY <1>2, <2>1, <2>3 DEF Fits, Short
<1>3. CASE u # t
  <2>1. tab'[u] = tab[u]
    BY <1>0, <1>3, OthersStay
  <2> QED BY <1>1, <2>1 DEF SameCall, SameHeld
<1>4. CASE u = t /\ tab[t].at = "clean"
  <2>1. SameCall(t) /\ SameHeld(t)
    BY <1>0, <1>4, TabMoves, Labels DEF Onward
  <2> QED BY <1>1, <1>4, <2>1
<1>5. ASSUME u = t, tab[t].at # "clean" PROVE Final(t)
  <2>1. tab[t].at = "final"
    BY <1>0, <1>5, TabMoves, Labels DEF Onward
  <2>2. tab'[t].at # "idle" /\ tab'[t].at # "closed" /\ tab'[t].at # tab[t].at
    BY <1>5, <2>1
  <2>3. ~Fails(t) /\ ~Dies(t)
    BY <1>0, <2>2, Rests DEF Fails, Dies, Refused, Closed, SessionTyped
  <2>4. \A a \in Assets : ~Select(t, a) /\ ~Prepare(t, a)
    BY <1>0, <2>1, <2>2, Labels
  <2> QED BY <2>1, <2>3, <2>4
          DEF TabStep, Call, Recording, Open, Approve, Compare, Write, Post, Answered, Watch, Place, Put,
              Entry, Note, Publish, Temp, Clean
<1> QED BY <1>2, <1>3, <1>4, <1>5

LEMMA BoundStep ==
  ASSUME SessionInv, [SessionStep]_sessionVars
  PROVE  BoundInv'
<1>0. /\ SessionTyped /\ BoundInv /\ clicks \in Nat
      /\ Len(jobs) \in Nat /\ IsFiniteSet(wire) /\ Cardinality(wire) \in Nat
  BY ClicksAssumption, JobNumber, FS_CardinalityType DEF SessionInv, SessionTyped
<1>1. ASSUME NEW t \in Tabs, TabStep(t) PROVE BoundInv'
  <2>1. Short(manifest)' /\ \A u \in Tabs : Short(tab[u].seen)' /\ Short(tab[u].view)'
    BY <1>1, ManifestFits, PagesFit DEF Fits, Short
  <2>2. \A u \in Tabs : (tab[u].at = "clean" => Short(NextManifest(u)))'
    BY <1>1, CleanFits
  <2>3. Cardinality(Pending') <= clicks'
    <3>1. Cardinality(Pending') + clicks <= Cardinality(Pending) + clicks' /\ clicks' \in {clicks, clicks + 1}
      BY <1>1, Budget
    <3> QED BY <1>0, <3>1, Counted, CountedAfter DEF BoundInv
  <2>4. Len(jobs') + Cardinality(wire') + Cardinality(Unposted') <= clicks'
    <3>1. jobs' = jobs
      BY <1>0, <1>1, OthersStay
    <3>2. Cardinality(Unposted') + clicks <= Cardinality(Unposted) + clicks' /\ clicks' \in {clicks, clicks + 1}
      BY <1>1, Budget
    <3>3. Len(jobs) + Cardinality(wire) + Cardinality(Unposted) <= clicks
      BY <1>0 DEF BoundInv
    <3>4. CASE Post(t)
      <4>1. Cardinality(Unposted') + 1 + clicks <= Cardinality(Unposted) + clicks'
        BY <1>1, <3>4, Budget
      <4>2. Cardinality(wire') \in Nat /\ Cardinality(wire') <= Cardinality(wire) + 1
        <5>1. CASE Key(t) \in wire
          <6>1. wire' = wire
            BY <3>4, <5>1 DEF Post
          <6> QED BY <1>0, <6>1
        <5>2. CASE Key(t) \notin wire
          <6>1. Cardinality(wire') = Cardinality(wire) + 1
            BY <1>0, <3>4, <5>2, FS_AddElement DEF Post
          <6> QED BY <1>0, <6>1
        <5> QED BY <5>1, <5>2
      <4> QED BY <1>0, <3>1, <3>2, <3>3, <4>1, <4>2, Counted, CountedAfter
    <3>5. CASE ~Post(t)
      <4>1. wire' = wire \/ wire' = wire \ {Key(t)}
        BY <1>1, <3>5 DEF TabStep, Call, Recording, Open, Dies, Fails, Select, Prepare, Approve, Compare,
                          Write, Answered, Watch, Place, Put, Entry, Note, Publish, Temp, Final, Clean, server
      <4>2. wire' \subseteq wire
        BY <4>1
      <4>3. Cardinality(wire') <= Cardinality(wire) /\ Cardinality(wire') \in Nat
        BY <1>0, <4>2, FS_Subset, FS_CardinalityType
      <4> QED BY <1>0, <3>1, <3>2, <3>3, <4>3, Counted, CountedAfter
    <3> QED BY <3>4, <3>5
  <2> QED BY <2>1, <2>2, <2>3, <2>4 DEF BoundInv
<1>2. ASSUME NEW k \in Keys, Arrive(k) PROVE BoundInv'
  <2>1. UNCHANGED <<folder, tab, clicks>>
    BY <1>2 DEF Arrive
  <2>2. Cardinality(wire') = Cardinality(wire) - 1 /\ Cardinality(wire') \in Nat
    BY <1>0, <1>2, FS_RemoveElement, FS_CardinalityType DEF Arrive
  <2>3. Len(jobs') \in Nat /\ Len(jobs') <= Len(jobs) + 1
    <3>1. [key |-> k, status |-> "open"] \in JobRows /\ jobs \in Seq(JobRows)
      BY <1>0 DEF JobRows, SessionTyped
    <3>2. CASE jobs' = jobs
      BY <1>0, <3>2
    <3>3. CASE jobs' = Append(jobs, [key |-> k, status |-> "open"])
      <4>1. Len(jobs') = Len(jobs) + 1
        BY <3>1, <3>3, Appended
      <4> QED BY <1>0, <4>1
    <3> QED BY <1>2, <3>2, <3>3 DEF Arrive
  <2>4. Len(jobs') + Cardinality(wire') + Cardinality(Unposted) <= clicks
    <3>1. Len(jobs) + Cardinality(wire) + Cardinality(Unposted) <= clicks
      BY <1>0 DEF BoundInv
    <3> QED BY <1>0, <2>2, <2>3, <3>1, Counted
  <2> QED BY <1>0, <2>1, <2>4 DEF BoundInv, Short, Pending, Unposted, NextManifest, Preparing, Target, folder
<1>3. ASSUME NEW j \in 1 .. MaxClicks, JobEnds(j) PROVE BoundInv'
  <2>1. UNCHANGED <<folder, wire, tab, clicks>> /\ \E s : jobs' = [jobs EXCEPT ![j].status = s]
    BY <1>3 DEF JobEnds
  <2>2. Len(jobs') = Len(jobs)
    <3>1. jobs \in Seq(JobRows) /\ j \in DOMAIN jobs
      BY <1>0, <1>3 DEF SessionTyped, JobEnds
    <3>2. jobs' \in Seq(JobRows)
      BY <1>3, ServerTyped DEF SessionTyped
    <3>3. DOMAIN jobs' = DOMAIN jobs
      BY <2>1
    <3> QED BY <3>1, <3>2, <3>3, LenProperties
  <2> QED BY <1>0, <2>1, <2>2 DEF BoundInv, Short, Pending, Unposted, NextManifest, Preparing, Target, folder
<1>4. CASE UNCHANGED sessionVars
  BY <1>0, <1>4 DEF BoundInv, Short, Pending, Unposted, NextManifest, Preparing, Target, folder, server, sessionVars
<1> QED BY <1>1, <1>2, <1>3, <1>4 DEF SessionStep, TabStep

-----------------------------------------------------------------------------
(* The first state, and the theorems that hold however the tabs overlap.    *)

LEMMA StartTyped ==
  ASSUME SessionInit
  PROVE  SessionTyped
<1>1. manifest \in Manifests
  <2>1. PICK earlier : manifest = ManifestOf(earlier)
    BY DEF SessionInit
  <2>2. <<>> \in Seq({"generated", "other"}) /\ <<"other", "other">> \in Seq({"generated", "other"})
    BY EmptySeq
  <2> QED BY <2>1, <2>2 DEF ManifestOf, Manifests
<1>2. tab \in [Tabs -> Pages]
  BY ClosedTyped DEF SessionInit
<1>3. files \in [Assets -> [Numbers -> 0 .. Blank]]
  <2>1. 0 \in 0 .. Blank
    BY ClicksAssumption DEF Blank
  <2> QED BY <2>1 DEF SessionInit
<1>4. sidecar \in [Assets -> Sessions \union {Unreadable}]
  BY NoSessionTyped DEF SessionInit
<1>5. temp \in BOOLEAN /\ calm \in BOOLEAN
  BY DEF SessionInit
<1>6. jobs \in Seq(JobRows) /\ wire \subseteq Keys /\ IsFiniteSet(wire)
  BY EmptySeq, FS_EmptySet DEF SessionInit
<1>7. clicks \in 0 .. MaxClicks
  BY ClicksAssumption DEF SessionInit
<1> QED BY <1>1, <1>2, <1>3, <1>4, <1>5, <1>6, <1>7 DEF SessionTyped

LEMMA StartInv ==
  ASSUME SessionInit
  PROVE  SessionInv
<1>0. SessionTyped
  BY StartTyped
<1>1. \A t \in Tabs : tab[t].at \in {"closed", "idle"} /\ tab[t].seen = NoAssets /\ tab[t].view = NoAssets
  <2>1. Closed.at = "closed" /\ Closed.seen = NoAssets /\ Closed.view = NoAssets
    BY DEF Closed
  <2>2. Created.at = "idle" /\ Created.seen = NoAssets /\ Created.view = NoAssets
    BY DEF Created, Closed
  <2>3. \A t \in Tabs : tab[t] \in {Closed, Created}
    BY DEF SessionInit
  <2> QED BY <2>1, <2>2, <2>3
<1>2. \A t \in Tabs : TabInv(t)
  BY <1>1 DEF TabInv, Busy, Filed, Paid, Windows
<1>3. \A a \in Assets : Owned(a, sidecar[a])
  BY NoSessionOwned DEF SessionInit
<1>4. clicks = 0 /\ Pending = {} /\ Unposted = {} /\ Cardinality({}) = 0
  BY <1>1, FS_EmptySet DEF SessionInit, Pending, Unposted, Busy, Windows
<1>5. Short(manifest) /\ Short(NoAssets)
  <2>1. PICK earlier : manifest = ManifestOf(earlier)
    BY DEF SessionInit
  <2>2. Len(<<>>) = 0 /\ Len(<<"other", "other">>) = 2
    OBVIOUS
  <2>3. \A a \in Assets : Len(manifest[a]) \in {0, 2} /\ Len(NoAssets[a]) \in {0, 2}
    BY <2>1, <2>2 DEF ManifestOf, NoAssets
  <2>4. \A n \in {0, 2} : n + 0 <= 0 + 2
    OBVIOUS
  <2> QED BY <1>4, <2>3, <2>4 DEF Short
<1>6. Len(jobs) + Cardinality(wire) + Cardinality(Unposted) <= clicks
  BY <1>4 DEF SessionInit
<1>7. BoundInv
  BY <1>1, <1>4, <1>5, <1>6 DEF BoundInv
<1>8. OneJobPerKey
  BY DEF SessionInit, OneJobPerKey
<1> QED BY <1>0, <1>2, <1>3, <1>7, <1>8 DEF SessionInv

LEMMA StepOfSession ==
  ASSUME [SessionNext]_allVars
  PROVE  [SessionStep]_sessionVars
BY DEF SessionNext, allVars

LEMMA SessionInvariant == SessionSpec => []SessionInv
<1>1. SessionInit => SessionInv
  BY StartInv
<1>2. SessionInv /\ [SessionStep]_sessionVars => SessionInv'
  BY StepTyped, TabsKeepTheirJobs, FolderOwned, BoundStep, OneRowStep DEF SessionInv
<1>3. [SessionNext]_allVars => [SessionStep]_sessionVars
  BY StepOfSession
<1> QED BY <1>1, <1>2, <1>3, PTL DEF SessionSpec

\* Only a tab that is still in its window has been overtaken in it.
LEMMA HistoryInvariant == SessionSpec => []HistoryTyped
<1>1. SessionInit => HistoryTyped
  BY DEF SessionInit, HistoryTyped
<1>2. HistoryTyped /\ [SessionNext]_allVars => HistoryTyped'
  <2>1. ASSUME HistoryTyped, Remember PROVE HistoryTyped'
    BY <2>1 DEF HistoryTyped, Remember, SameWindow, FileMoved, Windows
  <2>2. ASSUME HistoryTyped, UNCHANGED allVars PROVE HistoryTyped'
    BY <2>2 DEF HistoryTyped, allVars, sessionVars
  <2> QED BY <2>1, <2>2 DEF SessionNext
<1> QED BY <1>1, <1>2, PTL DEF SessionSpec

\* However often an approval is repeated and whatever request is lost or
\* arrives late, an idempotency key has one paid row
\* (enqueue_generation_idempotent).
THEOREM OneRowPerApproval == SessionSpec => []OneJobPerKey
<1>1. SessionInv => OneJobPerKey
  BY DEF SessionInv
<1> QED BY <1>1, SessionInvariant, PTL

\* What a sidecar gives as the provenance of a revision is the asset and the
\* prompt its job was enqueued for, whatever another tab approved meanwhile
\* (recordGeneratedRevision, ProvenPrompt).
THEOREM ProvenanceIsOfTheJob == SessionSpec => []ProvenanceIsTheJobs
<1>1. SessionInv => ProvenanceIsTheJobs
  BY DEF SessionInv, Owned, ProvenanceIsTheJobs
<1> QED BY <1>1, SessionInvariant, PTL

\* The folder, the rows, the requests and the pages keep their types: a
\* recorded job exists, a call is about an asset, and there are no more
\* revisions and rows than clicks allow.
THEOREM SessionTypeCorrect == SessionSpec => []SessionTypeOK
<1>1. ASSUME SessionInv, HistoryTyped PROVE SessionTypeOK
  <2>1. \A a \in Assets : /\ ToSet(manifest[a]) \subseteq {"generated", "other"}
                          /\ Len(manifest[a]) \in 0 .. MaxClicks + 2
    <3> SUFFICES ASSUME NEW a \in Assets
                 PROVE  /\ ToSet(manifest[a]) \subseteq {"generated", "other"}
                        /\ Len(manifest[a]) \in 0 .. MaxClicks + 2
      OBVIOUS
    <3>1. manifest[a] \in Seq({"generated", "other"})
      BY <1>1 DEF SessionInv, SessionTyped, Manifests
    <3>2. ToSet(manifest[a]) \subseteq {"generated", "other"} /\ Len(manifest[a]) \in Nat
      BY <3>1, ElementOfSeq, LenProperties DEF ToSet
    <3>3. Len(manifest[a]) + Cardinality(Pending) <= clicks + 2 /\ clicks \in 0 .. MaxClicks
      BY <1>1 DEF SessionInv, BoundInv, Short, SessionTyped
    <3> QED BY <3>2, <3>3, Counted, ClicksAssumption
  <2>2. ASSUME NEW a \in Assets
        PROVE  /\ \A x \in ToSet(sidecar[a].approvals) : x.prompt \in Prompts /\ x.click \in 1 .. MaxClicks
               /\ \A e \in ToSet(sidecar[a].entries) :
                    e.revision \in Numbers /\ e.job \in DOMAIN jobs /\ e.prompt \in Prompts
    <3>1. Owned(a, sidecar[a])
      BY <1>1 DEF SessionInv
    <3>2. CASE sidecar[a] \in Sessions
      <4>1. ToSet(sidecar[a].approvals) \subseteq Approvals /\ ToSet(sidecar[a].entries) \subseteq Entries
        <5>1. sidecar[a].approvals \in Seq(Approvals) /\ sidecar[a].entries \in Seq(Entries)
          BY <3>2 DEF Sessions
        <5> QED BY <5>1, ElementOfSeq, LenProperties DEF ToSet
      <4> QED BY <3>1, <4>1 DEF Owned, Approvals, Entries
    <3>3. CASE sidecar[a] = Unreadable
      BY <3>3 DEF Unreadable, ToSet
    <3> QED BY <1>1, <3>2, <3>3 DEF SessionInv, SessionTyped
  <2>3. \A j \in DOMAIN jobs : jobs[j].key \in Keys /\ jobs[j].status \in {"open", "succeeded", "failed"}
    <3>1. \A j \in DOMAIN jobs : jobs[j] \in JobRows
      BY <1>1, JobNumber, ElementOfSeq DEF SessionInv, SessionTyped
    <3> QED BY <3>1 DEF JobRows
  <2>4. \A t \in Tabs :
          /\ tab[t].at \in {"closed", "idle"} \union Busy
          /\ tab[t].asset \in Assets \union {NoAsset}
          /\ tab[t].at \in Busy => tab[t].target \in Assets /\ (tab[t].prompt \in Prompts \/ Preparing(t))
          /\ tab[t].at \in Busy \ {"compare", "write", "post", "answer"} =>
               tab[t].job \in DOMAIN jobs \/ Preparing(t)
    BY <1>1 DEF SessionInv, SessionTyped, Pages, TabInv, Paid, Filed
  <2> QED BY <1>1, <2>1, <2>2, <2>3, <2>4 DEF SessionTypeOK, SessionInv, SessionTyped, HistoryTyped
<1> QED BY <1>1, SessionInvariant, HistoryInvariant, PTL

-----------------------------------------------------------------------------
(* The folder, however the tabs overlap.                                    *)

\* The cases of a step that the history records.
LEMMA FolderStep ==
  ASSUME [SessionNext]_allVars
  PROVE  \/ Remember /\ \E t \in Tabs : TabStep(t)
         \/ Remember /\ ServerStep
         \/ UNCHANGED allVars
BY DEF SessionNext, SessionStep, TabStep, ServerStep

\* An asset that is not overwritten is not changed by the write of an
\* overtaken tab.
LEMMA NotOverwritten ==
  ASSUME [SessionNext]_allVars, NEW a \in Assets, a \notin overwritten'
  PROVE  /\ a \notin overwritten
         /\ \A t \in overtaken : ~SameWindow(t) =>
              manifest'[a] = manifest[a] /\ files'[a] = files[a] /\ sidecar'[a] = sidecar[a]
<1>1. CASE Remember
  BY <1>1 DEF Remember, Evidence
<1>2. CASE UNCHANGED allVars
  BY <1>2 DEF allVars, sessionVars, folder
<1> QED BY <1>1, <1>2 DEF SessionNext

\* The tab that made the step.  It enters a window through its comparison.
LEMMA OwnWindow ==
  ASSUME SessionInv, NEW t \in Tabs, TabStep(t), t \notin overtaken => Intact(t),
         SameWindow(t) => t \notin overtaken
  PROVE  Intact(t)'
<1>0. SessionTyped /\ tab[t] \in Pages /\ tab \in [Tabs -> Pages]
  BY DEF SessionInv, SessionTyped
<1>1. CASE tab'[t].at \notin Windows
  BY <1>1 DEF Intact, Windows
<1>2. CASE tab'[t].at \in Windows /\ (Compare(t) \/ Place(t) \/ Entry(t) \/ Publish(t))
  <2>1. ~Refused(t)
    BY <1>0, <1>2, Rests DEF Refused, Windows
  <2>2. UNCHANGED folder
    BY <1>2 DEF Compare, Place, Entry, Publish
  <2>3. ASSUME NEW l, Goto(t, l)
        PROVE  /\ tab'[t].at = l /\ tab'[t].target = tab[t].target /\ tab'[t].view = tab[t].view
               /\ tab'[t].held = tab[t].held
    BY <1>0, <2>3, GoesOn DEF SameCall, SameHeld
  <2>4. /\ Compare(t) => Goto(t, "write") /\ SameSidecar(t)
        /\ Place(t)   => Goto(t, "put") /\ files[Target(t)][Revision(t)] = 0
        /\ Entry(t)   => Goto(t, "note") /\ SameSidecar(t)
        /\ Publish(t) => Goto(t, "temp") /\ SameManifest(t)
    BY <2>1 DEF Compare, Place, Entry, Publish
  <2>5. CASE Compare(t) \/ Entry(t)
    BY <2>2, <2>3, <2>4, <2>5 DEF SameSidecar, Target, folder, Intact
  <2>6. CASE Place(t)
    <3>1. /\ tab'[t].at = "put" /\ tab'[t].target = tab[t].target /\ tab'[t].view = tab[t].view
          /\ files' = files
      BY <2>2, <2>3, <2>4, <2>6 DEF folder
    <3>2. files[tab[t].target][Len(tab[t].view[tab[t].target]) + 1] = 0
      BY <2>4, <2>6 DEF Target, Revision
    <3> QED BY <3>1, <3>2 DEF Intact, Target, Revision
  <2>7. CASE Publish(t)
    BY <2>2, <2>3, <2>4, <2>7 DEF SameManifest, folder, Intact
  <2> QED BY <1>2, <2>5, <2>6, <2>7
<1>3. CASE tab'[t].at \in Windows /\ Temp(t)
  <2>1. Goto(t, "final") /\ tab[t].at = "temp" /\ manifest' = manifest
    BY <1>0, <1>3, Rests DEF Refused, Windows, Temp
  <2>2. SameCall(t) /\ tab'[t].at = "final"
    BY <1>0, <2>1, GoesOn
  <2>3. Intact(t)
    BY <2>1, <2>2 DEF SameWindow
  <2> QED BY <2>1, <2>2, <2>3 DEF Intact, SameCall
<1>4. ASSUME NEW a \in Assets, Select(t, a) PROVE Intact(t)'
  <2>1. /\ tab'[t].at = tab[t].at /\ tab'[t].target = tab[t].target /\ tab'[t].view = tab[t].view
        /\ tab'[t].held = tab[t].held /\ UNCHANGED folder
    BY <1>0, <1>4 DEF Select, Pages
  <2>2. Intact(t)
    BY <2>1 DEF SameWindow
  <2> QED BY <2>1, <2>2 DEF Intact, Target, Revision, folder
<1>5. ASSUME tab'[t].at \in Windows,
             \/ Open(t) \/ Dies(t) \/ Fails(t) \/ Write(t) \/ Post(t) \/ Answered(t) \/ Watch(t)
             \/ Put(t) \/ Note(t) \/ Final(t) \/ Clean(t)
             \/ \E a \in Assets : Prepare(t, a)
             \/ \E a \in Assets, p \in Prompts, r \in BOOLEAN : Approve(t, a, p, r)
      PROVE  FALSE
  <2>1. ~(Open(t) \/ Dies(t) \/ Fails(t) \/ Clean(t))
    BY <1>0, <1>5, Labels DEF Windows
  <2>2. ~(Post(t) \/ Watch(t) \/ Put(t) \/ Final(t))
    <3>1. ~Refused(t)
      BY <1>0, <1>5, Rests DEF Refused, Windows
    <3>2. ASSUME NEW l \in {"answer", "place", "entry", "clean"}, Goto(t, l) PROVE FALSE
      BY <1>0, <1>5, <3>2, GoesOn DEF Windows
    <3> QED BY <3>1, <3>2 DEF Post, Watch, Put, Final
  <2> QED BY <1>0, <1>5, <2>1, <2>2, Labels DEF Windows
<1> QED BY <1>1, <1>2, <1>3, <1>4, <1>5 DEF TabStep, Call, Recording

LEMMA WindowStep ==
  ASSUME SessionInv, WindowInv, [SessionNext]_allVars
  PROVE  WindowInv'
<1>0. SessionTyped
  BY DEF SessionInv
\* A tab that does not move is overtaken by the write that moves its file.
<1>1. ASSUME Remember, NEW u \in Tabs, tab'[u] = tab[u], u \notin overtaken' PROVE Intact(u)'
  <2>1. SameWindow(u) /\ u \notin overtaken /\ ~FileMoved(u)
    BY <1>1 DEF Remember, SameWindow
  <2>2. Intact(u)
    BY <2>1 DEF WindowInv
  <2> QED BY <1>1, <2>1, <2>2 DEF Intact, FileMoved, Target, Revision
<1>2. ASSUME Remember, NEW t \in Tabs, TabStep(t), t \notin overtaken' PROVE Intact(t)'
  <2>1. SameWindow(t) => t \notin overtaken
    BY <1>2 DEF Remember
  <2>2. t \notin overtaken => Intact(t)
    BY DEF WindowInv
  <2> QED BY <1>2, <2>1, <2>2, OwnWindow
<1>3. ASSUME Remember, NEW t \in Tabs, TabStep(t) PROVE WindowInv'
  BY <1>0, <1>1, <1>2, <1>3, OthersStay DEF WindowInv
<1>4. ASSUME Remember, ServerStep PROVE WindowInv'
  BY <1>1, <1>4 DEF ServerStep, Arrive, JobEnds, WindowInv
<1>5. CASE UNCHANGED allVars
  BY <1>5 DEF allVars, sessionVars, folder, WindowInv, Intact, Target, Revision
<1> QED BY <1>3, <1>4, <1>5, FolderStep

\* No picture is written over, but by an overtaken tab.
LEMMA FilesKept ==
  ASSUME SessionInv, WindowInv, [SessionNext]_allVars,
         NEW a \in Assets, a \notin overwritten', NEW n \in Numbers, files[a][n] # 0
  PROVE  files'[a][n] = files[a][n]
<1>0. SessionTyped /\ files \in [Assets -> [Numbers -> 0 .. Blank]]
  BY DEF SessionInv, SessionTyped
<1>1. ASSUME NEW t \in Tabs, tab[t].at = "put", tab'[t].at \in {"entry", "closed", "idle"}, NEW v,
             files' = [files EXCEPT ![Target(t)][Revision(t)] = v]
      PROVE  files'[a][n] = files[a][n]
  <2>1. CASE t \in overtaken
    BY <1>1, <2>1, NotOverwritten DEF SameWindow
  <2>2. CASE t \notin overtaken
    <3>1. files[Target(t)][Revision(t)] = 0
      BY <1>1, <2>2 DEF WindowInv, Intact
    <3>2. Target(t) # a \/ Revision(t) # n
      BY <3>1
    <3> QED BY <1>0, <1>1, <3>2
  <2> QED BY <2>1, <2>2
<1>2. ASSUME NEW t \in Tabs, TabStep(t), ~Dies(t), ~Fails(t), ~Put(t) PROVE files' = files
  BY <1>2 DEF TabStep, Call, Recording, Open, Select, Prepare, Approve, Compare, Write, Post, Answered, Watch,
              Place, Entry, Note, Publish, Temp, Final, Clean, folder
<1>3. ASSUME NEW t \in Tabs, Dies(t) \/ Fails(t) PROVE files'[a][n] = files[a][n]
  <2>1. tab'[t].at \in {"closed", "idle"}
    BY <1>0, <1>3, Labels
  <2> QED BY <1>1, <1>3, <2>1 DEF Dies, Fails, CutShort
<1>4. ASSUME NEW t \in Tabs, Put(t) PROVE files'[a][n] = files[a][n]
  <2>1. tab'[t].at = "entry"
    BY <1>0, <1>4, GoesOn DEF Put
  <2> QED BY <1>1, <1>4, <2>1 DEF Put
<1>5. ASSUME ServerStep \/ UNCHANGED allVars PROVE files' = files
  BY <1>5 DEF ServerStep, Arrive, JobEnds, allVars, sessionVars, folder
<1> QED BY <1>2, <1>3, <1>4, <1>5, FolderStep

LEMMA SidecarGrows ==
  ASSUME SessionInv, WindowInv, [SessionNext]_allVars, NEW a \in Assets, a \notin overwritten'
  PROVE  /\ IsPrefix(sidecar[a].approvals, sidecar'[a].approvals)
         /\ IsPrefix(sidecar[a].entries, sidecar'[a].entries)
         /\ ToSet(sidecar[a].approvals) \subseteq ToSet(sidecar'[a].approvals)
         /\ ToSet(sidecar[a].entries) \subseteq ToSet(sidecar'[a].entries)
<1>0. /\ SessionTyped /\ sidecar[a] \in Sessions \union {Unreadable}
      /\ sidecar[a].approvals \in Seq(Approvals) /\ sidecar[a].entries \in Seq(Entries)
  <2>1. SessionTyped /\ sidecar[a] \in Sessions \union {Unreadable}
    BY DEF SessionInv, SessionTyped
  <2>2. CASE sidecar[a] = Unreadable
    <3>1. Unreadable.approvals = <<>> /\ Unreadable.entries = <<>>
      BY DEF Unreadable
    <3>2. <<>> \in Seq(Approvals) /\ <<>> \in Seq(Entries)
      BY EmptySeq
    <3> QED BY <2>1, <2>2, <3>1, <3>2
  <2> QED BY <2>1, <2>2 DEF Sessions
<1>1. CASE sidecar'[a] = sidecar[a]
  BY <1>0, <1>1, PrefixOfItself
<1>2. ASSUME sidecar'[a] # sidecar[a], NEW t \in Tabs, Write(t) \/ Note(t), a = Target(t)
      PROVE  sidecar[a] = tab[t].held
  <2>1. ~SameWindow(t) /\ tab[t].at \in {"write", "note"}
    BY <1>0, <1>2, Labels DEF SameWindow
  <2>2. t \notin overtaken
    BY <1>2, <2>1, NotOverwritten
  <2> QED BY <1>2, <2>1, <2>2 DEF WindowInv, Intact
<1>3. ASSUME sidecar'[a] # sidecar[a], NEW t \in Tabs, Write(t), a = Target(t), sidecar'[a] = WithApproval(t)
      PROVE  /\ sidecar'[a].entries = sidecar[a].entries
             /\ \E x \in Approvals : sidecar'[a].approvals = Append(sidecar[a].approvals, x)
  <2>1. sidecar[a] = tab[t].held /\ tab[t].held \in Sessions
    BY <1>2, <1>3, HeldTyped
  <2>2. [prompt |-> tab[t].prompt, click |-> tab[t].click] \in Approvals
    BY <1>3 DEF Write, SessionInv, TabInv, Busy, Windows, Approvals, Preparing
  <2> QED BY <1>3, <2>1, <2>2 DEF WithApproval, Sessions
<1>4. ASSUME sidecar'[a] # sidecar[a], NEW t \in Tabs, Note(t), a = Target(t), sidecar'[a] = tab'[t].held
      PROVE  /\ sidecar'[a].approvals = sidecar[a].approvals
             /\ \E e \in Entries : sidecar'[a].entries = Append(sidecar[a].entries, e)
  <2> DEFINE entry == [revision |-> Revision(t), job |-> tab[t].job,
                       prompt |-> ProvenPrompt(tab[t].held), reason |-> tab[t].reason]
             next  == [tab[t].held EXCEPT !.entries = Append(@, entry)]
  <2>1. sidecar[a] = tab[t].held /\ tab[t].held \in Sessions
    BY <1>2, <1>4, HeldTyped
  <2>2. sidecar'[a] = next
    <3>1. sidecar' = [sidecar EXCEPT ![Target(t)] = next]
      BY <1>4 DEF Note
    <3> HIDE DEF next
    <3> QED BY <1>0, <1>4, <3>1 DEF SessionTyped
  <2>3. entry \in Entries
    BY <1>4, EntryTyped DEF Note
  <2>4. next.approvals = tab[t].held.approvals /\ next.entries = Append(tab[t].held.entries, entry)
    BY <2>1 DEF Sessions
  <2> HIDE DEF next, entry
  <2> QED BY <2>1, <2>2, <2>3, <2>4
<1>5. ASSUME sidecar[a] = NoSession, sidecar'[a] = Unreadable
      PROVE  sidecar'[a].approvals = sidecar[a].approvals /\ sidecar'[a].entries = sidecar[a].entries
  BY <1>5 DEF NoSession, Unreadable
<1>6. \A x \in Approvals : /\ IsPrefix(sidecar[a].approvals, Append(sidecar[a].approvals, x))
                          /\ ToSet(sidecar[a].approvals) \subseteq ToSet(Append(sidecar[a].approvals, x))
  BY <1>0, Appended, AppendExtends
<1>7. \A e \in Entries : /\ IsPrefix(sidecar[a].entries, Append(sidecar[a].entries, e))
                        /\ ToSet(sidecar[a].entries) \subseteq ToSet(Append(sidecar[a].entries, e))
  BY <1>0, Appended, AppendExtends
<1>8. IsPrefix(sidecar[a].approvals, sidecar[a].approvals) /\ IsPrefix(sidecar[a].entries, sidecar[a].entries)
  BY <1>0, PrefixOfItself
<1>9. \/ sidecar'[a] = sidecar[a]
      \/ \E t \in Tabs : Write(t) /\ a = Target(t) /\ sidecar'[a] = WithApproval(t)
      \/ \E t \in Tabs : Note(t) /\ a = Target(t) /\ sidecar'[a] = tab'[t].held
      \/ sidecar[a] = NoSession /\ sidecar'[a] = Unreadable
  BY SidecarWrites, StepOfSession
<1> QED BY <1>1, <1>3, <1>4, <1>5, <1>6, <1>7, <1>8, <1>9

\* What a tab wrote for its call stays while it is about the same call.
LEMMA WrittenKept ==
  ASSUME SessionInv, WindowInv, [SessionNext]_allVars, NEW u \in Tabs, WrittenInv(u),
         SameCall(u), tab'[u].job = tab[u].job, Target(u) \notin overwritten', ~Preparing(u)
  PROVE  /\ tab[u].at \in {"post", "answer"} => (Approval(u) \in ToSet(sidecar[Target(u)].approvals))'
         /\ tab[u].at \in {"entry", "note", "publish", "temp", "final"} =>
              (files[Target(u)][Revision(u)] = tab[u].job)'
         /\ tab[u].at \in {"publish", "temp", "final"} =>
              (\E e \in ToSet(sidecar[Target(u)].entries) : e.revision = Revision(u) /\ e.job = tab[u].job)'
<1>0. TabInv(u) /\ (Target(u) \in Assets => Target(u) \notin overwritten)
  BY NotOverwritten DEF SessionInv
<1>1. /\ Target(u)' = Target(u) /\ Revision(u)' = Revision(u) /\ Approval(u)' = Approval(u)
      /\ tab'[u].job = tab[u].job
  BY DEF SameCall, Target, Revision, Approval
<1>2. ASSUME tab[u].at \in {"post", "answer"}
      PROVE  (Approval(u) \in ToSet(sidecar[Target(u)].approvals))'
  <2>1. Target(u) \in Assets
    BY <1>0, <1>2 DEF TabInv, Busy, Target
  <2>3. Approval(u) \in ToSet(sidecar[Target(u)].approvals)
    BY <1>0, <1>2, <2>1 DEF WrittenInv
  <2>2. Approval(u) \in ToSet(sidecar'[Target(u)].approvals)
    BY <2>1, <2>3, SidecarGrows
  <2> QED BY <1>1, <2>2
<1>3. ASSUME tab[u].at \in {"entry", "note", "publish", "temp", "final"}
      PROVE  (files[Target(u)][Revision(u)] = tab[u].job)'
  <2>1. Target(u) \in Assets /\ Revision(u) \in Numbers
    <3>1. u \in Pending
      BY <1>3 DEF Pending, Busy, Windows
    <3> QED BY <3>1, RevisionNumber
  <2>2. files[Target(u)][Revision(u)] = tab[u].job /\ tab[u].job # 0
    <3>1. tab[u].job \in DOMAIN jobs
      BY <1>0, <1>3 DEF TabInv, Paid, Filed, Busy, Windows
    <3> QED BY <1>0, <1>3, <2>1, <3>1, JobNumber DEF WrittenInv
  <2>3. files'[Target(u)][Revision(u)] = tab[u].job
    BY <2>1, <2>2, FilesKept
  <2> QED BY <1>1, <2>3
<1>4. ASSUME tab[u].at \in {"publish", "temp", "final"}
      PROVE  (\E e \in ToSet(sidecar[Target(u)].entries) : e.revision = Revision(u) /\ e.job = tab[u].job)'
  <2>1. Target(u) \in Assets
    BY <1>0, <1>4 DEF TabInv, Busy, Windows, Target
  <2>2. \E e \in ToSet(sidecar[Target(u)].entries) : e.revision = Revision(u) /\ e.job = tab[u].job
    BY <1>0, <1>4, <2>1 DEF WrittenInv
  <2>3. \E e \in ToSet(sidecar'[Target(u)].entries) : e.revision = Revision(u) /\ e.job = tab[u].job
    BY <2>1, <2>2, SidecarGrows
  <2> QED BY <1>1, <2>3
<1> QED BY <1>2, <1>3, <1>4

LEMMA WrittenStep ==
  ASSUME SessionInv, WindowInv, \A u \in Tabs : WrittenInv(u), [SessionNext]_allVars, NEW u \in Tabs
  PROVE  WrittenInv(u)'
<1>0. SessionTyped /\ tab[u] \in Pages /\ tab \in [Tabs -> Pages] /\ WrittenInv(u)
  BY DEF SessionInv, SessionTyped
<1>1. CASE tab'[u] = tab[u]
  <2>1. /\ SameCall(u) /\ tab'[u].job = tab[u].job /\ tab'[u].at = tab[u].at
        /\ Preparing(u)' = Preparing(u) /\ Target(u)' = Target(u)
    BY <1>1 DEF SameCall, Preparing, Target
  <2>2. CASE Preparing(u)
    BY <2>1, <2>2 DEF WrittenInv, Preparing
  <2>3. CASE ~Preparing(u)
    BY <1>0, <2>1, <2>3, WrittenKept DEF WrittenInv
  <2> QED BY <2>2, <2>3
<1>2. ASSUME TabStep(u) PROVE WrittenInv(u)'
  <2>1. CASE tab'[u].at \in {"closed", "idle", "compare", "write", "watch", "place", "put", "clean"}
    BY <2>1 DEF WrittenInv
  <2>2. CASE Put(u)
    <3>1. SameCall(u) /\ SameHeld(u) /\ tab'[u].at = "entry"
      BY <1>0, <2>2, GoesOn DEF Put
    <3>2. u \in Pending /\ tab[u].at = "put"
      BY <2>2 DEF Put, Pending, Busy, Windows
    <3>3. files' = [files EXCEPT ![Target(u)] = [files[Target(u)] EXCEPT ![Revision(u)] = tab[u].job]]
      BY <2>2 DEF Put
    <3>4. files'[Target(u)][Revision(u)] = tab[u].job
      BY <1>0, <3>2, <3>3, RevisionNumber DEF SessionTyped
    <3> QED BY <3>1, <3>4 DEF WrittenInv, SameCall, SameHeld, Target, Revision
  <2>3. CASE Write(u)
    <3>1. tab'[u].at = "post" /\ SameCall(u)
      <4>1. tab' = [tab EXCEPT ![u].at = "post", ![u].held = WithApproval(u)]
        BY <2>3 DEF Write
      <4> QED BY <1>0, <4>1 DEF SameCall, Pages
    <3>2. Target(u) \in Assets /\ sidecar'[Target(u)] = WithApproval(u)
      <4>1. Target(u) \in Assets
        BY <2>3 DEF Write, SessionInv, TabInv, Busy, Windows, Target
      <4> QED BY <1>0, <2>3, <4>1 DEF Write, SessionTyped
    <3>3. Approval(u) \in ToSet(WithApproval(u).approvals)
      <4>1. tab[u].held \in Sessions /\ Approval(u) \in Approvals
        BY <2>3, HeldTyped DEF Write, SessionInv, TabInv, Busy, Windows, Approval, Approvals, Preparing
      <4> QED BY <4>1, Appended DEF WithApproval, Approval, Sessions
    <3> QED BY <3>1, <3>2, <3>3 DEF WrittenInv, SameCall, Approval, Target
  <2>4. CASE Note(u)
    <3> DEFINE entry == [revision |-> Revision(u), job |-> tab[u].job,
                         prompt |-> ProvenPrompt(tab[u].held), reason |-> tab[u].reason]
               next  == [tab[u].held EXCEPT !.entries = Append(@, entry)]
    <3>1. /\ sidecar' = [sidecar EXCEPT ![Target(u)] = next] /\ tab[u].at = "note"
          /\ tab' = [tab EXCEPT ![u].at = "publish", ![u].held = next]
      BY <2>4 DEF Note
    <3>2. tab'[u].at = "publish" /\ SameCall(u) /\ tab'[u].job = tab[u].job
      <4> HIDE DEF next
      <4> QED BY <1>0, <3>1 DEF SameCall, Pages
    <3>3. Target(u) \in Assets /\ sidecar'[Target(u)] = next
      <4>1. Target(u) \in Assets
        BY <3>1 DEF SessionInv, TabInv, Busy, Windows, Target
      <4> HIDE DEF next
      <4> QED BY <1>0, <3>1, <4>1 DEF SessionTyped
    <3>4. entry \in ToSet(next.entries)
      <4>1. entry \in Entries /\ tab[u].held \in Sessions
        BY <3>1, EntryTyped, HeldTyped
      <4>2. next.entries = Append(tab[u].held.entries, entry)
        BY <4>1 DEF Sessions
      <4> HIDE DEF entry
      <4> QED BY <4>1, <4>2, Appended DEF Sessions
    <3>5. entry.revision = Revision(u) /\ entry.job = tab[u].job
      OBVIOUS
    <3>6. \E e \in ToSet(sidecar'[Target(u)].entries) : e.revision = Revision(u) /\ e.job = tab[u].job
      <4> HIDE DEF next, entry
      <4> QED BY <3>3, <3>4, <3>5
    <3>7. Target(u) \notin overwritten' => (files[Target(u)][Revision(u)] = tab[u].job)'
      BY <1>0, <3>1, <3>2, WrittenKept DEF Preparing
    <3> QED BY <3>2, <3>6, <3>7 DEF WrittenInv, SameCall, Target, Revision
  <2>5. CASE SameCall(u) /\ SameHeld(u) /\ (tab'[u].at = tab[u].at \/ Onward(u)) /\ ~Put(u)
    <3>1. ASSUME tab[u].at = "put", tab'[u].at = "entry" PROVE FALSE
      <4>1. ~Fails(u) /\ ~Dies(u) /\ (\A a \in Assets : ~Select(u, a) /\ ~Prepare(u, a))
        BY <1>0, <3>1, Labels
      <4> QED BY <1>2, <2>5, <3>1, <4>1
              DEF TabStep, Call, Recording, Open, Approve, Compare, Write, Post, Answered, Watch, Place,
                  Entry, Note, Publish, Temp, Final, Clean
    <3>2. /\ tab'[u].at \in {"post", "answer"} => tab[u].at \in {"post", "answer"}
          /\ tab'[u].at \in {"entry", "note", "publish", "temp", "final"} =>
               tab[u].at \in {"entry", "note", "publish", "temp", "final"}
          /\ tab'[u].at \in {"publish", "temp", "final"} => tab[u].at \in {"publish", "temp", "final"}
      BY <2>5, <3>1 DEF Onward
    <3>3. CASE ~Preparing(u)
      BY <1>0, <2>5, <3>2, <3>3, WrittenKept DEF WrittenInv, SameCall, SameHeld, Target
    <3>4. CASE Preparing(u)
      BY <2>5, <3>4 DEF WrittenInv, SameHeld, Preparing, Onward
    <3> QED BY <3>3, <3>4
  <2>6. Answered(u) => tab'[u].at = "watch"
    BY <1>0, Labels
  <2>7. ASSUME NEW a \in Assets, NEW p \in Prompts, NEW r \in BOOLEAN, Approve(u, a, p, r)
        PROVE  tab'[u].at = "compare"
    BY <1>0, <2>7, Labels
  <2>8. ASSUME NEW a \in Assets, Prepare(u, a) PROVE WrittenInv(u)'
    <3>1. tab'[u] = [tab[u] EXCEPT !.at = "publish", !.target = a, !.click = clicks',
                                   !.view = tab[u].seen, !.held = NoSession, !.job = 0]
      BY <1>0, <2>8 DEF Prepare
    <3>2. tab'[u].at = "publish" /\ tab'[u].job = 0
      BY <1>0, <3>1 DEF Pages
    <3> QED BY <3>2 DEF WrittenInv, Preparing
  <2> QED BY <1>0, <1>2, <2>1, <2>2, <2>3, <2>4, <2>5, <2>6, <2>7, <2>8, TabMoves
<1>3. ASSUME NEW t \in Tabs \ {u}, TabStep(t) PROVE tab'[u] = tab[u]
  BY <1>0, <1>3, OthersStay
<1>4. ASSUME ServerStep \/ UNCHANGED allVars PROVE tab' = tab
  BY <1>4 DEF ServerStep, Arrive, JobEnds, allVars, sessionVars
<1> QED BY <1>1, <1>2, <1>3, <1>4, FolderStep

Requested == wire \union {jobs[j].key : j \in DOMAIN jobs}

LEMMA RequestsStep ==
  ASSUME SessionInv, [SessionStep]_sessionVars, NEW k \in Requested'
  PROVE  k \in Requested \/ \E t \in Tabs : Post(t) /\ k = Key(t)
<1>0. SessionTyped /\ jobs \in Seq(JobRows)
  BY DEF SessionInv, SessionTyped
<1>1. ASSUME NEW t \in Tabs, TabStep(t) PROVE k \in Requested \/ (Post(t) /\ k = Key(t))
  <2>1. jobs' = jobs
    BY <1>0, <1>1, OthersStay
  <2>2. CASE Post(t)
    BY <2>1, <2>2 DEF Requested, Post
  <2>3. CASE ~Post(t)
    <3>1. wire' \subseteq wire
      BY <1>1, <2>3 DEF TabStep, Call, Recording, Open, Dies, Fails, Select, Prepare, Approve, Compare,
                        Write, Answered, Watch, Place, Put, Entry, Note, Publish, Temp, Final, Clean, server
    <3> QED BY <2>1, <3>1 DEF Requested
  <2> QED BY <2>2, <2>3
<1>2. ASSUME NEW q \in Keys, Arrive(q) PROVE k \in Requested
  <2>1. CASE jobs' = jobs
    BY <1>2, <2>1 DEF Requested, Arrive
  <2>2. CASE jobs' = Append(jobs, [key |-> q, status |-> "open"])
    <3>1. [key |-> q, status |-> "open"] \in JobRows
      BY DEF JobRows
    <3>2. ToSet(jobs') = ToSet(jobs) \union {[key |-> q, status |-> "open"]}
      BY <1>0, <2>2, <3>1, Appended
    <3>3. \A j \in DOMAIN jobs' : jobs'[j] \in ToSet(jobs) \/ jobs'[j].key = q
      BY <3>2 DEF ToSet
    <3> QED BY <1>2, <3>3 DEF Requested, Arrive, ToSet
  <2> QED BY <1>2, <2>1, <2>2 DEF Arrive
<1>3. ASSUME NEW i \in 1 .. MaxClicks, JobEnds(i) PROVE k \in Requested
  <2>1. DOMAIN jobs' = DOMAIN jobs /\ wire' = wire
    BY <1>3 DEF JobEnds
  <2>2. \A j \in DOMAIN jobs : jobs'[j].key = jobs[j].key
    BY <1>3, RowsStay DEF SessionStep
  <2> QED BY <2>1, <2>2 DEF Requested
<1>4. CASE UNCHANGED sessionVars
  BY <1>4 DEF Requested, sessionVars, server
<1> QED BY <1>1, <1>2, <1>3, <1>4 DEF SessionStep, TabStep

LEMMA ApprovedStep ==
  ASSUME SessionInv, FolderInv, [SessionNext]_allVars
  PROVE  EachJobWasApproved'
<1> DEFINE Stands(k) == \E x \in ToSet(sidecar'[k.asset].approvals) :
                          x.prompt = k.prompt /\ (k.attempt # 0 => x.click = k.attempt)
<1>1. \A k \in Requested : k.asset \in Assets
  <2>1. \A j \in DOMAIN jobs : jobs[j].key \in Keys
    <3>1. \A j \in DOMAIN jobs : jobs[j] \in JobRows
      BY JobNumber, ElementOfSeq DEF SessionInv, SessionTyped
    <3> QED BY <3>1 DEF JobRows
  <2> QED BY <2>1 DEF Requested, SessionInv, SessionTyped, Keys
<1>2. ASSUME NEW k \in Requested, k.asset \notin overwritten' PROVE Stands(k)
  <2>1. PICK x \in ToSet(sidecar[k.asset].approvals) : x.prompt = k.prompt /\ (k.attempt # 0 => x.click = k.attempt)
    BY <1>1, <1>2, NotOverwritten DEF FolderInv, EachJobWasApproved, Requested
  <2>2. x \in ToSet(sidecar'[k.asset].approvals)
    BY <1>1, <1>2, SidecarGrows DEF FolderInv
  <2> QED BY <2>1, <2>2
<1>3. ASSUME NEW t \in Tabs, Post(t), Target(t) \notin overwritten' PROVE Stands(Key(t))
  <2>1. Target(t) \in Assets
    BY <1>3 DEF Post, SessionInv, TabInv, Busy, Target
  <2>4. Approval(t) \in ToSet(sidecar[Target(t)].approvals)
    BY <1>3, <2>1, NotOverwritten DEF Post, FolderInv, WrittenInv
  <2>2. Approval(t) \in ToSet(sidecar'[Target(t)].approvals)
    BY <1>3, <2>1, <2>4, SidecarGrows DEF FolderInv
  <2>3. Key(t).asset = Target(t) /\ Approval(t).prompt = Key(t).prompt
        /\ (Key(t).attempt # 0 => Approval(t).click = Key(t).attempt)
    BY DEF Key, Approval
  <2> QED BY <2>2, <2>3
<1> HIDE DEF Stands
<1>4. \A t \in Tabs : Key(t).asset = Target(t)
  BY DEF Key
<1>5. \A k \in Requested' : k.asset \notin overwritten' => Stands(k)
  BY <1>2, <1>3, <1>4, RequestsStep, StepOfSession
<1> QED BY <1>5 DEF Stands, EachJobWasApproved, Requested

LEMMA PublishedStep ==
  ASSUME SessionInv, FolderInv, [SessionNext]_allVars
  PROVE  PublishedIsBacked'
<1>0. /\ SessionTyped /\ WindowInv /\ PublishedIsBacked
      /\ manifest \in Manifests /\ clicks \in 0 .. MaxClicks
  BY DEF SessionInv, SessionTyped, FolderInv
<1> SUFFICES ASSUME NEW a \in Assets, a \notin overwritten', NEW n \in DOMAIN manifest'[a], manifest'[a][n] = "generated"
             PROVE  /\ files'[a][n] \in DOMAIN jobs'
                    /\ \E e \in ToSet(sidecar'[a].entries) : e.revision = n /\ e.job = files'[a][n]
  BY DEF PublishedIsBacked
<1>1. /\ manifest[a] \in Seq({"generated", "other"}) /\ Len(manifest[a]) \in Nat
      /\ DOMAIN manifest[a] = 1 .. Len(manifest[a]) /\ Len(manifest[a]) <= MaxClicks + 2
  <2>1. manifest[a] \in Seq({"generated", "other"})
    BY <1>0 DEF Manifests
  <2>2. Len(manifest[a]) \in Nat /\ DOMAIN manifest[a] = 1 .. Len(manifest[a])
    BY <2>1, LenProperties
  <2>3. Len(manifest[a]) + Cardinality(Pending) <= clicks + 2
    BY DEF SessionInv, BoundInv, Short
  <2> QED BY <1>0, <2>1, <2>2, <2>3, Counted, ClicksAssumption
\* A revision that was published stays backed.
<1>2. ASSUME n \in DOMAIN manifest[a], manifest[a][n] = "generated"
      PROVE  /\ files'[a][n] \in DOMAIN jobs'
             /\ \E e \in ToSet(sidecar'[a].entries) : e.revision = n /\ e.job = files'[a][n]
  <2>1. /\ files[a][n] \in DOMAIN jobs
        /\ \E e \in ToSet(sidecar[a].entries) : e.revision = n /\ e.job = files[a][n]
    BY <1>0, <1>2, NotOverwritten DEF PublishedIsBacked
  <2>2. n \in Numbers /\ files[a][n] # 0
    BY <1>1, <1>2, <2>1, JobNumber, ClicksAssumption DEF Numbers
  <2>3. files'[a][n] = files[a][n]
    BY <1>0, <2>2, FilesKept
  <2>4. files[a][n] \in DOMAIN jobs'
    BY <2>1, RowsStay, StepOfSession
  <2> QED BY <1>0, <2>1, <2>3, <2>4, SidecarGrows
\* A new one is the picture of the call that publishes it.
<1>3. ASSUME NEW t \in Tabs, Final(t), manifest' = NextManifest(t)
      PROVE  /\ files'[a][n] \in DOMAIN jobs'
             /\ \E e \in ToSet(sidecar'[a].entries) : e.revision = n /\ e.job = files'[a][n]
  <2>0. tab[t].at = "final" /\ tab'[t].at = "clean" /\ UNCHANGED <<files, sidecar, jobs>>
    BY <1>0, <1>3, GoesOn DEF Final, server
  <2>1. CASE t \in overtaken
    <3>1. manifest'[a] = manifest[a]
      BY <2>0, <2>1, NotOverwritten DEF SameWindow
    <3> QED BY <1>2, <3>1
  <2>2. CASE t \notin overtaken /\ a # Target(t)
    <3>1. manifest = tab[t].view
      BY <1>0, <2>0, <2>2 DEF WindowInv, Intact
    <3>2. manifest'[a] = manifest[a]
      BY <1>0, <1>3, <2>2, <3>1 DEF NextManifest, Manifests
    <3> QED BY <1>2, <3>2
  <2>3. CASE t \notin overtaken /\ a = Target(t)
    <3> DEFINE kind == IF Preparing(t) THEN "other" ELSE "generated"
    <3>0. manifest = tab[t].view
      BY <1>0, <2>0, <2>3 DEF WindowInv, Intact
    <3>1. manifest'[a] = Append(manifest[a], kind)
      BY <1>0, <1>3, <2>3, <3>0 DEF NextManifest, Manifests
    <3>2. kind \in {"generated", "other"}
      OBVIOUS
    <3>3. /\ DOMAIN manifest'[a] = 1 .. Len(manifest[a]) + 1
          /\ \A i \in 1 .. Len(manifest[a]) : manifest'[a][i] = manifest[a][i]
          /\ manifest'[a][Len(manifest[a]) + 1] = kind
      <4> HIDE DEF kind
      <4>1. /\ Append(manifest[a], kind) \in Seq({"generated", "other"})
            /\ Len(Append(manifest[a], kind)) = Len(manifest[a]) + 1
            /\ \A i \in 1 .. Len(manifest[a]) : Append(manifest[a], kind)[i] = manifest[a][i]
            /\ Append(manifest[a], kind)[Len(manifest[a]) + 1] = kind
        BY <1>1, <3>2, AppendProperties
      <4>2. DOMAIN Append(manifest[a], kind) = 1 .. Len(manifest[a]) + 1
        BY <4>1, LenProperties
      <4> QED BY <3>1, <4>1, <4>2
    <3>4. CASE n = Len(manifest[a]) + 1
      <4>1. n = Revision(t) /\ ~Preparing(t)
        BY <2>3, <3>0, <3>3, <3>4 DEF Revision
      <4>2. Target(t) \notin overwritten /\ WrittenInv(t)
        BY <2>3, NotOverwritten DEF FolderInv
      <4>3. /\ files[a][n] = tab[t].job
            /\ \E e \in ToSet(sidecar[a].entries) : e.revision = n /\ e.job = tab[t].job
        BY <2>0, <2>3, <4>1, <4>2 DEF WrittenInv
      <4>4. tab[t].job \in DOMAIN jobs
        BY <2>0, <4>1 DEF SessionInv, TabInv, Paid, Filed, Busy, Windows
      <4> QED BY <2>0, <4>3, <4>4
    <3>5. CASE n \in 1 .. Len(manifest[a])
      BY <1>1, <1>2, <3>3, <3>5
    <3> QED BY <1>1, <3>3, <3>4, <3>5
  <2> QED BY <2>1, <2>2, <2>3
<1> QED BY <1>0, <1>2, <1>3, ManifestWrites, StepOfSession

LEMMA StartFolder ==
  ASSUME SessionInit
  PROVE  FolderInv
<1>1. \A t \in Tabs : tab[t].at \in {"closed", "idle"}
  <2>1. Closed.at = "closed"
    BY DEF Closed
  <2>2. Created.at = "idle"
    BY DEF Created, Closed
  <2> QED BY <2>1, <2>2 DEF SessionInit
<1>2. WindowInv /\ \A t \in Tabs : WrittenInv(t)
  BY <1>1 DEF WindowInv, Intact, WrittenInv
<1>3. EachJobWasApproved
  BY DEF SessionInit, EachJobWasApproved
<1>4. PublishedIsBacked
  <2>1. PICK earlier : manifest = ManifestOf(earlier)
    BY DEF SessionInit
  <2>2. \A a \in Assets : \A n \in DOMAIN manifest[a] : manifest[a][n] = "other"
    BY <2>1 DEF ManifestOf
  <2> QED BY <2>2 DEF PublishedIsBacked
<1> QED BY <1>2, <1>3, <1>4 DEF FolderInv

LEMMA FolderInvariant == SessionSpec => []FolderInv
<1>1. SessionInit => FolderInv
  BY StartFolder
<1>2. SessionInv /\ FolderInv /\ [SessionNext]_allVars => FolderInv'
  BY WindowStep, WrittenStep, ApprovedStep, PublishedStep DEF FolderInv
<1> QED BY <1>1, <1>2, SessionInvariant, PTL DEF SessionSpec

\* Nothing is paid for that no approval in the folder stands for, through
\* every crash and failed call and however the tabs overlap; only the write
\* of an overtaken tab takes an approval away (dispatchApprovedCreativeJob).
THEOREM PaidWasApproved == SessionSpec => []EachJobWasApproved
<1>1. FolderInv => EachJobWasApproved
  BY DEF FolderInv
<1> QED BY <1>1, FolderInvariant, PTL

\* A generated revision the manifest lists has its picture and its entry in
\* the sidecar, with the same exception (recordGeneratedRevision).
THEOREM PublishedHasEvidence == SessionSpec => []PublishedIsBacked
<1>1. FolderInv => PublishedIsBacked
  BY DEF FolderInv
<1> QED BY <1>1, FolderInvariant, PTL

\* Every step that drops an approval, an entry, a revision or a picture is the
\* write of a tab that another overtook after its comparison (the comparisons
\* of saveCreativeSession and recordGeneratedRevision).
THEOREM EvidenceIsKept == SessionSpec => EvidenceOnlyGrows
<1> DEFINE Grows == \A a \in Assets \ overwritten' :
             /\ IsPrefix(manifest[a], manifest'[a])
             /\ IsPrefix(sidecar[a].approvals, sidecar'[a].approvals)
             /\ IsPrefix(sidecar[a].entries, sidecar'[a].entries)
             /\ \A n \in Numbers : files[a][n] \in DOMAIN jobs => files'[a][n] = files[a][n]
<1>1. ASSUME SessionInv, FolderInv, [SessionNext]_allVars PROVE Grows
  <2> SUFFICES ASSUME NEW a \in Assets, a \notin overwritten'
               PROVE  /\ IsPrefix(manifest[a], manifest'[a])
                      /\ IsPrefix(sidecar[a].approvals, sidecar'[a].approvals)
                      /\ IsPrefix(sidecar[a].entries, sidecar'[a].entries)
                      /\ \A n \in Numbers : files[a][n] \in DOMAIN jobs => files'[a][n] = files[a][n]
    OBVIOUS
  <2>1. manifest \in Manifests /\ manifest[a] \in Seq({"generated", "other"}) /\ SessionTyped
    BY <1>1 DEF SessionInv, SessionTyped, Manifests
  <2>2. IsPrefix(manifest[a], manifest'[a])
    <3>1. \A k \in {"generated", "other"} : IsPrefix(manifest[a], Append(manifest[a], k))
      BY <2>1, AppendExtends
    <3>2. IsPrefix(manifest[a], manifest[a])
      BY <2>1, PrefixOfItself
    <3>3. ASSUME NEW t \in Tabs, Final(t), manifest' = NextManifest(t)
          PROVE  manifest'[a] = manifest[a] \/ \E k \in {"generated", "other"} : manifest'[a] = Append(manifest[a], k)
      <4>1. CASE t \in overtaken
        <5>1. tab[t].at = "final" /\ tab'[t].at = "clean"
          BY <2>1, <3>3, GoesOn DEF Final
        <5> QED BY <1>1, <4>1, <5>1, NotOverwritten DEF SameWindow
      <4>2. CASE t \notin overtaken
        <5>1. manifest = tab[t].view
          BY <1>1, <3>3, <4>2 DEF Final, FolderInv, WindowInv, Intact
        <5> QED BY <2>1, <3>3, <5>1 DEF NextManifest, Manifests
      <4> QED BY <4>1, <4>2
    <3>4. manifest' = manifest \/ \E t \in Tabs : Final(t) /\ manifest' = NextManifest(t)
      BY <1>1, ManifestWrites, StepOfSession
    <3> QED BY <3>1, <3>2, <3>3, <3>4
  <2>3. IsPrefix(sidecar[a].approvals, sidecar'[a].approvals) /\ IsPrefix(sidecar[a].entries, sidecar'[a].entries)
    BY <1>1, SidecarGrows DEF FolderInv
  <2>4. ASSUME NEW n \in Numbers, files[a][n] \in DOMAIN jobs PROVE files'[a][n] = files[a][n]
    <3>1. files[a][n] # 0
      BY <1>1, <2>4, JobNumber
    <3> QED BY <1>1, <3>1, FilesKept DEF FolderInv
  <2> QED BY <2>2, <2>3, <2>4
<1>2. SessionInv /\ FolderInv /\ [SessionNext]_allVars => [Grows]_sessionVars
  BY <1>1
<1> QED BY <1>2, SessionInvariant, FolderInvariant, PTL DEF SessionSpec, EvidenceOnlyGrows

=============================================================================
