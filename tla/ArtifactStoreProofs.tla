------------------------ MODULE ArtifactStoreProofs ------------------------
(***************************************************************************)
(* Theorems about ArtifactStore for any number of artifacts and downloads   *)
(* and any retention and lease times.                                       *)
(***************************************************************************)
EXTENDS ArtifactStore, TLAPS

-----------------------------------------------------------------------------
(* The inductive invariant.                                                 *)

\* How far staging and cleaning of one artifact have come, in row and file.
\* Cleaning unlinks only what it has deleted, and deletes only what has expired,
\* so where the row stands and staging has ended well the bytes stand too.
ArtifactInv(a) ==
  /\ stage[a] \in {"idle", "write", "insert"} => row[a] = "none"
  /\ stage[a] \in {"rename", "read", "acked"} => row[a] # "none"
  /\ stage[a] \in {"read", "acked"} /\ row[a] = "here" => file[a]
  /\ row[a] = "gone" => ttl[a] = 0 /\ stage[a] # "idle"
  /\ a \in doomed => row[a] = "gone"

\* A request between its claim and its end reads an acknowledged artifact.
ReaderInv(r) ==
  IF at[r] = "idle"
  THEN wants[r] = NoArtifact /\ left[r] = 0
  ELSE wants[r] \in Artifacts /\ stage[wants[r]] = "acked"

\* When every response ends within its lease, what the row says of the lease is
\* what the one request that reads the artifact has left.
LeaseInv ==
  calm =>
    /\ \A r \in Readers : at[r] # "idle" =>
         left[r] > 0 /\ hold[wants[r]] = left[r] /\ row[wants[r]] = "here"
    /\ \A r, s \in Readers : at[r] # "idle" /\ wants[r] = wants[s] => r = s

ArtInv ==
  /\ TypeOK
  /\ \A a \in Artifacts : ArtifactInv(a)
  /\ \A r \in Readers : ReaderInv(r)
  /\ LeaseInv

USE DEF ArtInv, ArtifactInv, ReaderInv, stageVars, diskVars, readerVars, artVars, Staging

-----------------------------------------------------------------------------
(* Every step keeps it.                                                     *)

\* The steps of stage_bytes, of its job and of its death touch one artifact that
\* no request reads yet, or leave row, file and lease alone.
LEMMA StagingInv ==
  ASSUME ArtInv, NEW a \in Artifacts,
         Begin(a) \/ StageStep(a) \/ JobEnds(a) \/ StagerDies(a)
  PROVE  ArtInv'
<1>1. TypeOK'
  <2>1. CASE Begin(a)
    BY <2>1, TimesAssumption DEF TypeOK, Begin, StageTo
  <2>2. CASE WriteTemporary(a)
    BY <2>2 DEF TypeOK, WriteTemporary, StageTo
  <2>3. CASE InsertRow(a)
    BY <2>3 DEF TypeOK, InsertRow, StageTo
  <2>4. CASE Rename(a)
    BY <2>4 DEF TypeOK, Rename, StageTo
  <2>5. CASE StageFails(a)
    BY <2>5 DEF TypeOK, StageFails, StageTo
  <2>6. CASE ReadBack(a)
    BY <2>6 DEF TypeOK, ReadBack, StageTo
  <2>7. CASE JobEnds(a)
    BY <2>7 DEF TypeOK, JobEnds
  <2>8. CASE StagerDies(a)
    BY <2>8 DEF TypeOK, StagerDies, StageTo
  <2> QED BY <2>1, <2>2, <2>3, <2>4, <2>5, <2>6, <2>7, <2>8 DEF StageStep
<1> USE DEF Begin, StageStep, WriteTemporary, InsertRow, Rename, StageFails, ReadBack,
            JobEnds, StagerDies, StageTo
<1>2. UNCHANGED <<hold, readerVars, doomed, calm>>
  OBVIOUS
<1>3. \A b \in Artifacts : ArtifactInv(b)'
  BY DEF TypeOK
<1>4. \A r \in Readers : ReaderInv(r)'
  BY DEF TypeOK
<1>5. \A r \in Readers : at[r] # "idle" => row'[wants[r]] = row[wants[r]]
  BY DEF TypeOK
<1>6. LeaseInv'
  BY <1>2, <1>5 DEF LeaseInv
<1> QED BY <1>1, <1>3, <1>4, <1>6

LEMMA ClaimInv ==
  ASSUME ArtInv, NEW r \in Readers, NEW a \in Artifacts, Claim(r, a)
  PROVE  ArtInv'
<1> USE DEF Claim, CanClaim, Available
<1>1. TypeOK'
  BY TimesAssumption DEF TypeOK
<1>2. \A b \in Artifacts : ArtifactInv(b)'
  OBVIOUS
<1>3. \A s \in Readers : ReaderInv(s)'
  BY DEF TypeOK
<1>4. LeaseInv'
  <2> SUFFICES ASSUME calm PROVE LeaseInv'
    BY DEF LeaseInv
  <2>1. \A s \in Readers : at[s] # "idle" => wants[s] # a
    BY DEF LeaseInv, TypeOK
  <2> QED BY <2>1, TimesAssumption, NoArtifactAssumption DEF LeaseInv, TypeOK
<1> QED BY <1>1, <1>2, <1>3, <1>4

\* The request's later steps; a release frees the row of its own request only.
LEMMA ReaderStepInv ==
  ASSUME ArtInv, NEW r \in Readers,
         Verify(r) \/ Open(r) \/ Complete(r) \/ Abandon(r)
  PROVE  ArtInv'
<1>1. UNCHANGED <<stageVars, row, ttl, diskVars, doomed, calm>>
  BY DEF Verify, Open, Complete, Abandon
<1>2. /\ at[r] # "idle"
      /\ \/ Ends(r) /\ (UNCHANGED hold \/ Release(wants[r]))
         \/ /\ \E label \in {"open", "stream"} : at' = [at EXCEPT ![r] = label]
            /\ UNCHANGED <<wants, left, hold>>
  BY DEF Verify, Open, Complete, Abandon
<1>3. TypeOK'
  <2>1. hold' \in [Artifacts -> 0 .. HoldTime]
    BY <1>2, TimesAssumption DEF TypeOK, Ends, Release
  <2>2. at' \in [Readers -> {"idle", "verify", "open", "stream"}]
    BY <1>2 DEF TypeOK, Ends
  <2>3. wants' \in [Readers -> Artifacts \union {NoArtifact}]
    BY <1>2 DEF TypeOK, Ends
  <2>4. left' \in [Readers -> 0 .. HoldTime]
    BY <1>2, TimesAssumption DEF TypeOK, Ends
  <2> QED BY <1>1, <2>1, <2>2, <2>3, <2>4 DEF TypeOK
<1>4. \A b \in Artifacts : ArtifactInv(b)'
  BY <1>1
<1>5. \A s \in Readers \ {r} : UNCHANGED <<at[s], wants[s], left[s]>>
  BY <1>2 DEF TypeOK, Ends
<1>6. \/ at'[r] = "idle" /\ wants'[r] = NoArtifact /\ left'[r] = 0
      \/ at'[r] # "idle" /\ UNCHANGED <<wants, left, hold>>
  BY <1>2 DEF TypeOK, Ends
<1>7. \A s \in Readers : ReaderInv(s)'
  BY <1>1, <1>2, <1>5, <1>6
<1>8. LeaseInv'
  <2> SUFFICES ASSUME calm PROVE LeaseInv'
    BY <1>1 DEF LeaseInv
  <2>1. wants[r] \in Artifacts /\ \A s \in Readers \ {r} : wants[s] # wants[r]
    BY <1>2 DEF LeaseInv
  <2>2. \A b \in Artifacts \ {wants[r]} : hold'[b] = hold[b]
    BY <1>2, <2>1 DEF TypeOK, Release
  <2>3. \A s \in Readers : at'[s] # "idle" =>
           at[s] # "idle" /\ UNCHANGED <<wants[s], left[s], hold[wants[s]]>>
    BY <1>2, <1>5, <1>6, <2>1, <2>2
  <2>4. \A s \in Readers : wants'[s] \in {wants[s], NoArtifact}
    BY <1>5, <1>6
  <2> QED BY <1>1, <2>3, <2>4, NoArtifactAssumption DEF LeaseInv
<1> QED BY <1>3, <1>4, <1>7, <1>8

LEMMA CleaningInv ==
  ASSUME ArtInv, DeleteRows \/ CleanerDies \/ \E a \in Artifacts : Unlink(a)
  PROVE  ArtInv'
<1> USE DEF DeleteRows, CleanerDies, Unlink, Removable
<1>1. TypeOK'
  <2>1. CASE DeleteRows
    BY <2>1 DEF TypeOK
  <2>2. CASE CleanerDies
    BY <2>2 DEF TypeOK
  <2>3. CASE \E a \in Artifacts : Unlink(a)
    BY <2>3 DEF TypeOK
  <2> QED BY <2>1, <2>2, <2>3
<1>2. \A b \in Artifacts : ArtifactInv(b)'
  BY DEF TypeOK
<1>3. \A s \in Readers : ReaderInv(s)'
  OBVIOUS
<1>4. LeaseInv'
  <2>1. UNCHANGED <<readerVars, hold, calm>>
    OBVIOUS
  <2>2. \A b \in Artifacts : hold[b] > 0 => row'[b] = row[b]
    BY DEF TypeOK
  <2> QED BY <2>1, <2>2 DEF LeaseInv
<1> QED BY <1>1, <1>2, <1>3, <1>4

\* Time takes as much from a lease as from the request that was granted it, and
\* in a calm run it waits for the request to end.
LEMMA TickInv ==
  ASSUME ArtInv, Tick
  PROVE  ArtInv'
<1> USE DEF Tick, Less
<1>1. TypeOK'
  BY TimesAssumption DEF TypeOK
<1>2. \A b \in Artifacts : ArtifactInv(b)'
  BY DEF TypeOK
<1>3. \A s \in Readers : ReaderInv(s)'
  OBVIOUS
<1>4. LeaseInv'
  BY DEF LeaseInv, TypeOK, Prompt
<1> QED BY <1>1, <1>2, <1>3, <1>4

LEMMA NextInv == ArtInv /\ [Next]_artVars => ArtInv'
<1> SUFFICES ASSUME ArtInv, [Next]_artVars PROVE ArtInv'
  OBVIOUS
<1>1. CASE UNCHANGED artVars
  BY <1>1 DEF TypeOK, LeaseInv
<1>2. CASE Next
  BY <1>2, StagingInv, ClaimInv, ReaderStepInv, CleaningInv, TickInv DEF Next
<1> QED BY <1>1, <1>2

LEMMA InitInv == Init => ArtInv
BY TimesAssumption DEF Init, TypeOK, LeaseInv

LEMMA ArtInvHolds == Spec => []ArtInv
BY InitInv, NextInv, PTL DEF Spec

-----------------------------------------------------------------------------
(* The theorems.                                                            *)

\* Every variable keeps its type; no lease is granted for longer than HoldTime.
THEOREM ArtifactTypeCorrect == Spec => []TypeOK
<1>1. ArtInv => TypeOK
  OBVIOUS
<1> QED BY <1>1, ArtInvHolds, PTL

\* What stage_bytes has returned stays retrievable until it expires, wherever
\* any number of stagers, requests and cleaning passes stop or die.
THEOREM BytesStayUntilExpiry == Spec => []BytesUntilExpiry
<1>1. ArtInv => BytesUntilExpiry
  BY DEF BytesUntilExpiry, TypeOK
<1> QED BY <1>1, ArtInvHolds, PTL

\* A row without its file is the trace of staging that has not ended well.
THEOREM NoRowWithoutBytes == Spec => []RowWithoutBytes
<1>1. ArtInv => RowWithoutBytes
  BY DEF RowWithoutBytes, TypeOK
<1> QED BY <1>1, ArtInvHolds, PTL

\* A request that ends within its lease has the artifact to itself and finds the
\* file it verified when it opens it.
THEOREM PromptReaderIsSafe == Spec => []PromptReaderKeepsFile
<1>1. ArtInv => PromptReaderKeepsFile
  <2> SUFFICES ASSUME ArtInv, calm, NEW r \in Readers, left[r] > 0, wants[r] # NoArtifact
               PROVE  /\ at[r] = "open" => file[wants[r]]
                      /\ \A s \in Readers \ {r} : wants[s] = wants[r] => left[s] = 0
    BY DEF PromptReaderKeepsFile
  <2>1. at[r] # "idle"
    OBVIOUS
  <2>2. row[wants[r]] = "here" /\ wants[r] \in Artifacts /\ stage[wants[r]] = "acked"
    BY <2>1 DEF LeaseInv
  <2>3. \A s \in Readers : wants[s] = wants[r] => r = s
    BY <2>1 DEF LeaseInv
  <2> QED BY <2>2, <2>3
<1> QED BY <1>1, ArtInvHolds, PTL

=============================================================================
