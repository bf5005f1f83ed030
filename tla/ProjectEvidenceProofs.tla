------------------------ MODULE ProjectEvidenceProofs ------------------------
(***************************************************************************)
(* Theorems about ProjectEvidence for any number of tabs, revisions,        *)
(* contents, operations and edits.                                          *)
(***************************************************************************)
EXTENDS ProjectEvidence, TLAPS, SequenceTheorems

-----------------------------------------------------------------------------
(* The scripts, step by step.                                               *)

Verbs == {"keep", "same", "take", "fits", "ask", "gate", "vacant", "fresh", "unmarked",
          "make", "put", "dir", "copy", "mark", "commit"}
Names == Files \union {"package", "marker"}
Steps == Verbs \X Names

Joins(u, s, t) ==
  /\ u \in Seq(Steps) /\ Len(u) = Len(s) + Len(t)
  /\ \A i \in 1 .. Len(s) + Len(t) : u[i] = IF i <= Len(s) THEN s[i] ELSE t[i - Len(s)]

LEMMA Joined ==
  ASSUME NEW s \in Seq(Steps), NEW t \in Seq(Steps)
  PROVE  Joins(s \o t, s, t)
<1>1. /\ s \o t \in Seq(Steps) /\ Len(s \o t) = Len(s) + Len(t)
      /\ \A i \in 1 .. Len(s) + Len(t) : (s \o t)[i] = IF i <= Len(s) THEN s[i] ELSE t[i - Len(s)]
  BY ConcatProperties
<1> QED
  BY <1>1 DEF Joins

\* The first n elements of u are those of s, the next m those of t.
Follows(u, s, n, t, m) ==
  /\ \A i \in 1 .. n : u[i] = s[i]
  /\ \A i \in 1 .. m : u[n + i] = t[i]

LEMMA JoinedAt ==
  ASSUME NEW u, NEW s, NEW t, NEW n \in Nat, NEW m \in Nat, Joins(u, s, t), Len(s) = n, Len(t) = m
  PROVE  Follows(u, s, n, t, m)
<1>2. \A i \in 1 .. n + m : u[i] = IF i <= n THEN s[i] ELSE t[i - n]
  BY DEF Joins
<1>3. ASSUME NEW i \in 1 .. m PROVE u[n + i] = t[i]
  <2>1. n + i \in 1 .. n + m /\ ~(n + i <= n) /\ (n + i) - n = i
    OBVIOUS
  <2> QED
    BY <1>2, <2>1
<1>4. \A i \in 1 .. n : u[i] = s[i]
  BY <1>2
<1> QED
  BY <1>3, <1>4 DEF Follows

\* What resolveExportPackageCandidate awaits.
Resolves(r, again) ==
  /\ r \in Seq(Steps) /\ Len(r) = 11
  /\ r[1] = <<"keep", "manifest">> /\ r[2] = Look(again, "bytes") /\ r[3] = Look(again, "metadata")
  /\ r[4] = <<"same", "metadata">> /\ r[5] = Look(again, "audit") /\ r[6] = Look(again, "approval")
  /\ r[7] = <<"take", "master">> /\ r[8] = <<"fits", "master">> /\ r[9] = <<"gate", "approval">>
  /\ r[10] = <<"same", "bytes">> /\ r[11] = <<"same", "approval">>

LEMMA Named ==
  /\ \A f \in Names : Keep(f) \in Steps /\ Same(f) \in Steps /\ Take(f) \in Steps
  /\ \A f \in Names, again \in BOOLEAN : Look(again, f) \in Steps
  /\ {"manifest", "bytes", "metadata", "audit", "approval", "master", "package", "marker"} = Names
  /\ Files \subseteq Names
BY DEF Steps, Verbs, Names, Files, Keep, Same, Take, Look

LEMMA MasterSteps ==
  /\ Master \in Seq(Steps) /\ Len(Master) = 2 /\ Master[1] = <<"take", "master">> /\ Master[2] = <<"fits", "master">>
  /\ Gate \in Seq(Steps) /\ Len(Gate) = 1 /\ Gate[1] = <<"gate", "approval">>
<1>1. <<"take", "master">> \in Steps /\ <<"fits", "master">> \in Steps /\ <<"gate", "approval">> \in Steps
  BY DEF Steps, Verbs, Names, Files
<1> QED
  BY <1>1 DEF Master, Gate, Take

LEMMA ResolveSteps ==
  ASSUME NEW again \in BOOLEAN
  PROVE  Resolves(Resolve(again), again)
<1> DEFINE a == << Keep("manifest"), Look(again, "bytes"), Look(again, "metadata"), Same("metadata"),
                   Look(again, "audit"), Look(again, "approval") >>
           b == << Same("bytes"), Same("approval") >>
           c == a \o Master
           d == c \o Gate
           r == d \o b
<1>1. a \in Seq(Steps) /\ Len(a) = 6
  BY Named
<1>2. b \in Seq(Steps) /\ Len(b) = 2
  BY Named
<1>3. /\ a[1] = Keep("manifest") /\ a[2] = Look(again, "bytes") /\ a[3] = Look(again, "metadata")
      /\ a[4] = Same("metadata") /\ a[5] = Look(again, "audit") /\ a[6] = Look(again, "approval")
      /\ b[1] = Same("bytes") /\ b[2] = Same("approval")
  OBVIOUS
<1>4. Resolve(again) = r
  BY DEF Resolve
<1> HIDE DEF a, b
<1>5. Joins(c, a, Master)
  BY <1>1, MasterSteps, Joined
<1> HIDE DEF c
<1>6. c \in Seq(Steps) /\ Len(c) = 8 /\ \A i \in 1 .. 8 : c[i] = IF i <= 6 THEN a[i] ELSE Master[i - 6]
  BY <1>1, <1>5, MasterSteps DEF Joins
<1>7. Joins(d, c, Gate)
  BY <1>6, MasterSteps, Joined
<1> HIDE DEF d
<1>8. d \in Seq(Steps) /\ Len(d) = 9 /\ \A i \in 1 .. 9 : d[i] = IF i <= 8 THEN c[i] ELSE Gate[i - 8]
  BY <1>6, <1>7, MasterSteps DEF Joins
<1>9. Joins(r, d, b)
  BY <1>2, <1>8, Joined
<1> HIDE DEF r
<1>10. r \in Seq(Steps) /\ Len(r) = 11 /\ \A i \in 1 .. 11 : r[i] = IF i <= 9 THEN d[i] ELSE b[i - 9]
  BY <1>2, <1>8, <1>9 DEF Joins
<1> QED
  BY <1>3, <1>4, <1>6, <1>8, <1>10, MasterSteps DEF Resolves, Keep, Same

\* Where writeExportPackage resolves and verifies its candidate again.
Verified == {11, 22, 35, 56, 68, 80, 91, 102, 114}
Copied   == <<"bytes", "metadata", "audit", "approval", "manifest">>

Exports(e) ==
  /\ e \in Seq(Steps) /\ Len(e) = 125
  /\ \A i \in 1 .. 11 : e[i] = Candidate[i]
  /\ \A b \in Verified, i \in 1 .. 11 : e[b + i] = Verify[i]
  /\ e[34] = <<"vacant", "package">> /\ e[35] = <<"dir", "package">>
  /\ \A j \in 1 .. 5 : e[45 + 2 * j] = <<"fresh", Copied[j]>> /\ e[46 + 2 * j] = <<"copy", Copied[j]>>
  /\ e[68] = <<"unmarked", "marker">> /\ e[80] = <<"mark", "marker">> /\ e[114] = <<"commit", "marker">>

LEMMA PartSteps ==
  ASSUME NEW f \in Files
  PROVE  Part(f) \in Seq(Steps) /\ Len(Part(f)) = 2 /\ Part(f)[1] = <<"fresh", f>> /\ Part(f)[2] = <<"copy", f>>
<1>1. <<"fresh", f>> \in Steps /\ <<"copy", f>> \in Steps
  BY DEF Steps, Verbs, Names
<1> QED
  BY <1>1 DEF Part

LEMMA ExportSteps == Exports(Script["export"]) /\ Len(Body["export"]) = 102 /\ Len(Closing["export"]) = 12
<1> DEFINE vac == << <<"vacant", "package">>, <<"dir", "package">> >>
           un  == << <<"unmarked", "marker">> >>
           mk  == << <<"mark", "marker">> >>
           co  == << <<"commit", "marker">> >>
           p_bytes == Part("bytes")
           p_metadata == Part("metadata")
           p_audit == Part("audit")
           p_approval == Part("approval")
           p_manifest == Part("manifest")
           x1 == Candidate \o Verify
           x2 == x1 \o Verify
           x3 == x2 \o vac
           x4 == x3 \o Verify
           x5 == x4 \o p_bytes
           x6 == x5 \o p_metadata
           x7 == x6 \o p_audit
           x8 == x7 \o p_approval
           x9 == x8 \o p_manifest
           x10 == x9 \o Verify
           x11 == x10 \o un
           x12 == x11 \o Verify
           x13 == x12 \o mk
           x14 == x13 \o Verify
           x15 == x14 \o Verify
           y == Verify \o co
           z == x15 \o y
           e == z \o Verify
<1>1. /\ vac \in Seq(Steps) /\ un \in Seq(Steps) /\ mk \in Seq(Steps) /\ co \in Seq(Steps)
      /\ Len(vac) = 2 /\ Len(un) = 1 /\ Len(mk) = 1 /\ Len(co) = 1
  <2>1. /\ <<"vacant", "package">> \in Steps /\ <<"dir", "package">> \in Steps
        /\ <<"unmarked", "marker">> \in Steps /\ <<"mark", "marker">> \in Steps /\ <<"commit", "marker">> \in Steps
    BY DEF Steps, Verbs, Names
  <2> QED
    BY <2>1
<1>2. /\ vac[1] = <<"vacant", "package">> /\ vac[2] = <<"dir", "package">>
      /\ un[1] = <<"unmarked", "marker">> /\ mk[1] = <<"mark", "marker">> /\ co[1] = <<"commit", "marker">>
  OBVIOUS
<1>3. /\ Verify \in Seq(Steps) /\ Len(Verify) = 11 /\ Candidate \in Seq(Steps) /\ Len(Candidate) = 11
  BY ResolveSteps DEF Resolves, Verify, Candidate
<1>4. ExportBody = x15
  BY DEF ExportBody
<1>5. Body["export"] = x15 /\ Closing["export"] = y
  BY <1>4 DEF Body, Closing
<1>6. Script["export"] = e
  BY <1>5 DEF Script, Kinds
<1> HIDE DEF vac, un, mk, co
<1>7. p_bytes \in Seq(Steps) /\ Len(p_bytes) = 2
  BY PartSteps DEF Files
<1>8. p_metadata \in Seq(Steps) /\ Len(p_metadata) = 2
  BY PartSteps DEF Files
<1>9. p_audit \in Seq(Steps) /\ Len(p_audit) = 2
  BY PartSteps DEF Files
<1>10. p_approval \in Seq(Steps) /\ Len(p_approval) = 2
  BY PartSteps DEF Files
<1>11. p_manifest \in Seq(Steps) /\ Len(p_manifest) = 2
  BY PartSteps DEF Files
<1>12. p_bytes[1] = <<"fresh", "bytes">> /\ p_bytes[2] = <<"copy", "bytes">>
  BY PartSteps DEF Files
<1>13. p_metadata[1] = <<"fresh", "metadata">> /\ p_metadata[2] = <<"copy", "metadata">>
  BY PartSteps DEF Files
<1>14. p_audit[1] = <<"fresh", "audit">> /\ p_audit[2] = <<"copy", "audit">>
  BY PartSteps DEF Files
<1>15. p_approval[1] = <<"fresh", "approval">> /\ p_approval[2] = <<"copy", "approval">>
  BY PartSteps DEF Files
<1>16. p_manifest[1] = <<"fresh", "manifest">> /\ p_manifest[2] = <<"copy", "manifest">>
  BY PartSteps DEF Files
<1> HIDE DEF p_bytes, p_metadata, p_audit, p_approval, p_manifest
<1>17. Joins(x1, Candidate, Verify)
  BY <1>3, Joined
<1> HIDE DEF x1
<1>18. x1 \in Seq(Steps) /\ Len(x1) = 22
  BY <1>3, <1>17 DEF Joins
<1>19. Follows(x1, Candidate, 11, Verify, 11)
  <2>1. Len(Candidate) = 11 /\ Len(Verify) = 11
    BY <1>3
  <2>2. Len(Candidate) \in Nat /\ Len(Verify) \in Nat
    BY <2>1
  <2>3. Follows(x1, Candidate, Len(Candidate), Verify, Len(Verify))
    BY <1>17, <2>2, JoinedAt, Zenon
  <2> QED
    BY <2>1, <2>3, Zenon
<1>20. Joins(x2, x1, Verify)
  BY <1>18, <1>3, Joined
<1> HIDE DEF x2
<1>21. x2 \in Seq(Steps) /\ Len(x2) = 33
  BY <1>18, <1>3, <1>20 DEF Joins
<1>22. Follows(x2, x1, 22, Verify, 11)
  <2>1. Len(x1) = 22 /\ Len(Verify) = 11
    BY <1>18, <1>3
  <2>2. Len(x1) \in Nat /\ Len(Verify) \in Nat
    BY <2>1
  <2>3. Follows(x2, x1, Len(x1), Verify, Len(Verify))
    BY <1>20, <2>2, JoinedAt, Zenon
  <2> QED
    BY <2>1, <2>3, Zenon
<1>23. Joins(x3, x2, vac)
  BY <1>1, <1>21, Joined
<1> HIDE DEF x3
<1>24. x3 \in Seq(Steps) /\ Len(x3) = 35
  BY <1>1, <1>21, <1>23 DEF Joins
<1>25. Follows(x3, x2, 33, vac, 2)
  <2>1. Len(x2) = 33 /\ Len(vac) = 2
    BY <1>1, <1>21
  <2>2. Len(x2) \in Nat /\ Len(vac) \in Nat
    BY <2>1
  <2>3. Follows(x3, x2, Len(x2), vac, Len(vac))
    BY <1>23, <2>2, JoinedAt, Zenon
  <2> QED
    BY <2>1, <2>3, Zenon
<1>26. Joins(x4, x3, Verify)
  BY <1>24, <1>3, Joined
<1> HIDE DEF x4
<1>27. x4 \in Seq(Steps) /\ Len(x4) = 46
  BY <1>24, <1>3, <1>26 DEF Joins
<1>28. Follows(x4, x3, 35, Verify, 11)
  <2>1. Len(x3) = 35 /\ Len(Verify) = 11
    BY <1>24, <1>3
  <2>2. Len(x3) \in Nat /\ Len(Verify) \in Nat
    BY <2>1
  <2>3. Follows(x4, x3, Len(x3), Verify, Len(Verify))
    BY <1>26, <2>2, JoinedAt, Zenon
  <2> QED
    BY <2>1, <2>3, Zenon
<1>29. Joins(x5, x4, p_bytes)
  BY <1>27, <1>7, Joined
<1> HIDE DEF x5
<1>30. x5 \in Seq(Steps) /\ Len(x5) = 48
  BY <1>27, <1>7, <1>29 DEF Joins
<1>31. Follows(x5, x4, 46, p_bytes, 2)
  <2>1. Len(x4) = 46 /\ Len(p_bytes) = 2
    BY <1>27, <1>7
  <2>2. Len(x4) \in Nat /\ Len(p_bytes) \in Nat
    BY <2>1
  <2>3. Follows(x5, x4, Len(x4), p_bytes, Len(p_bytes))
    BY <1>29, <2>2, JoinedAt, Zenon
  <2> QED
    BY <2>1, <2>3, Zenon
<1>32. Joins(x6, x5, p_metadata)
  BY <1>30, <1>8, Joined
<1> HIDE DEF x6
<1>33. x6 \in Seq(Steps) /\ Len(x6) = 50
  BY <1>30, <1>8, <1>32 DEF Joins
<1>34. Follows(x6, x5, 48, p_metadata, 2)
  <2>1. Len(x5) = 48 /\ Len(p_metadata) = 2
    BY <1>30, <1>8
  <2>2. Len(x5) \in Nat /\ Len(p_metadata) \in Nat
    BY <2>1
  <2>3. Follows(x6, x5, Len(x5), p_metadata, Len(p_metadata))
    BY <1>32, <2>2, JoinedAt, Zenon
  <2> QED
    BY <2>1, <2>3, Zenon
<1>35. Joins(x7, x6, p_audit)
  BY <1>33, <1>9, Joined
<1> HIDE DEF x7
<1>36. x7 \in Seq(Steps) /\ Len(x7) = 52
  BY <1>33, <1>9, <1>35 DEF Joins
<1>37. Follows(x7, x6, 50, p_audit, 2)
  <2>1. Len(x6) = 50 /\ Len(p_audit) = 2
    BY <1>33, <1>9
  <2>2. Len(x6) \in Nat /\ Len(p_audit) \in Nat
    BY <2>1
  <2>3. Follows(x7, x6, Len(x6), p_audit, Len(p_audit))
    BY <1>35, <2>2, JoinedAt, Zenon
  <2> QED
    BY <2>1, <2>3, Zenon
<1>38. Joins(x8, x7, p_approval)
  BY <1>10, <1>36, Joined
<1> HIDE DEF x8
<1>39. x8 \in Seq(Steps) /\ Len(x8) = 54
  BY <1>10, <1>36, <1>38 DEF Joins
<1>40. Follows(x8, x7, 52, p_approval, 2)
  <2>1. Len(x7) = 52 /\ Len(p_approval) = 2
    BY <1>10, <1>36
  <2>2. Len(x7) \in Nat /\ Len(p_approval) \in Nat
    BY <2>1
  <2>3. Follows(x8, x7, Len(x7), p_approval, Len(p_approval))
    BY <1>38, <2>2, JoinedAt, Zenon
  <2> QED
    BY <2>1, <2>3, Zenon
<1>41. Joins(x9, x8, p_manifest)
  BY <1>11, <1>39, Joined
<1> HIDE DEF x9
<1>42. x9 \in Seq(Steps) /\ Len(x9) = 56
  BY <1>11, <1>39, <1>41 DEF Joins
<1>43. Follows(x9, x8, 54, p_manifest, 2)
  <2>1. Len(x8) = 54 /\ Len(p_manifest) = 2
    BY <1>11, <1>39
  <2>2. Len(x8) \in Nat /\ Len(p_manifest) \in Nat
    BY <2>1
  <2>3. Follows(x9, x8, Len(x8), p_manifest, Len(p_manifest))
    BY <1>41, <2>2, JoinedAt, Zenon
  <2> QED
    BY <2>1, <2>3, Zenon
<1>44. Joins(x10, x9, Verify)
  BY <1>3, <1>42, Joined
<1> HIDE DEF x10
<1>45. x10 \in Seq(Steps) /\ Len(x10) = 67
  BY <1>3, <1>42, <1>44 DEF Joins
<1>46. Follows(x10, x9, 56, Verify, 11)
  <2>1. Len(x9) = 56 /\ Len(Verify) = 11
    BY <1>3, <1>42
  <2>2. Len(x9) \in Nat /\ Len(Verify) \in Nat
    BY <2>1
  <2>3. Follows(x10, x9, Len(x9), Verify, Len(Verify))
    BY <1>44, <2>2, JoinedAt, Zenon
  <2> QED
    BY <2>1, <2>3, Zenon
<1>47. Joins(x11, x10, un)
  BY <1>1, <1>45, Joined
<1> HIDE DEF x11
<1>48. x11 \in Seq(Steps) /\ Len(x11) = 68
  BY <1>1, <1>45, <1>47 DEF Joins
<1>49. Follows(x11, x10, 67, un, 1)
  <2>1. Len(x10) = 67 /\ Len(un) = 1
    BY <1>1, <1>45
  <2>2. Len(x10) \in Nat /\ Len(un) \in Nat
    BY <2>1
  <2>3. Follows(x11, x10, Len(x10), un, Len(un))
    BY <1>47, <2>2, JoinedAt, Zenon
  <2> QED
    BY <2>1, <2>3, Zenon
<1>50. Joins(x12, x11, Verify)
  BY <1>3, <1>48, Joined
<1> HIDE DEF x12
<1>51. x12 \in Seq(Steps) /\ Len(x12) = 79
  BY <1>3, <1>48, <1>50 DEF Joins
<1>52. Follows(x12, x11, 68, Verify, 11)
  <2>1. Len(x11) = 68 /\ Len(Verify) = 11
    BY <1>3, <1>48
  <2>2. Len(x11) \in Nat /\ Len(Verify) \in Nat
    BY <2>1
  <2>3. Follows(x12, x11, Len(x11), Verify, Len(Verify))
    BY <1>50, <2>2, JoinedAt, Zenon
  <2> QED
    BY <2>1, <2>3, Zenon
<1>53. Joins(x13, x12, mk)
  BY <1>1, <1>51, Joined
<1> HIDE DEF x13
<1>54. x13 \in Seq(Steps) /\ Len(x13) = 80
  BY <1>1, <1>51, <1>53 DEF Joins
<1>55. Follows(x13, x12, 79, mk, 1)
  <2>1. Len(x12) = 79 /\ Len(mk) = 1
    BY <1>1, <1>51
  <2>2. Len(x12) \in Nat /\ Len(mk) \in Nat
    BY <2>1
  <2>3. Follows(x13, x12, Len(x12), mk, Len(mk))
    BY <1>53, <2>2, JoinedAt, Zenon
  <2> QED
    BY <2>1, <2>3, Zenon
<1>56. Joins(x14, x13, Verify)
  BY <1>3, <1>54, Joined
<1> HIDE DEF x14
<1>57. x14 \in Seq(Steps) /\ Len(x14) = 91
  BY <1>3, <1>54, <1>56 DEF Joins
<1>58. Follows(x14, x13, 80, Verify, 11)
  <2>1. Len(x13) = 80 /\ Len(Verify) = 11
    BY <1>3, <1>54
  <2>2. Len(x13) \in Nat /\ Len(Verify) \in Nat
    BY <2>1
  <2>3. Follows(x14, x13, Len(x13), Verify, Len(Verify))
    BY <1>56, <2>2, JoinedAt, Zenon
  <2> QED
    BY <2>1, <2>3, Zenon
<1>59. Joins(x15, x14, Verify)
  BY <1>3, <1>57, Joined
<1> HIDE DEF x15
<1>60. x15 \in Seq(Steps) /\ Len(x15) = 102
  BY <1>3, <1>57, <1>59 DEF Joins
<1>61. Follows(x15, x14, 91, Verify, 11)
  <2>1. Len(x14) = 91 /\ Len(Verify) = 11
    BY <1>3, <1>57
  <2>2. Len(x14) \in Nat /\ Len(Verify) \in Nat
    BY <2>1
  <2>3. Follows(x15, x14, Len(x14), Verify, Len(Verify))
    BY <1>59, <2>2, JoinedAt, Zenon
  <2> QED
    BY <2>1, <2>3, Zenon
<1>62. Joins(y, Verify, co)
  BY <1>1, <1>3, Joined
<1> HIDE DEF y
<1>63. y \in Seq(Steps) /\ Len(y) = 12
  BY <1>1, <1>3, <1>62 DEF Joins
<1>64. Follows(y, Verify, 11, co, 1)
  <2>1. Len(Verify) = 11 /\ Len(co) = 1
    BY <1>1, <1>3
  <2>2. Len(Verify) \in Nat /\ Len(co) \in Nat
    BY <2>1
  <2>3. Follows(y, Verify, Len(Verify), co, Len(co))
    BY <1>62, <2>2, JoinedAt, Zenon
  <2> QED
    BY <2>1, <2>3, Zenon
<1>65. Joins(z, x15, y)
  BY <1>60, <1>63, Joined
<1> HIDE DEF z
<1>66. z \in Seq(Steps) /\ Len(z) = 114
  BY <1>60, <1>63, <1>65 DEF Joins
<1>67. Follows(z, x15, 102, y, 12)
  <2>1. Len(x15) = 102 /\ Len(y) = 12
    BY <1>60, <1>63
  <2>2. Len(x15) \in Nat /\ Len(y) \in Nat
    BY <2>1
  <2>3. Follows(z, x15, Len(x15), y, Len(y))
    BY <1>65, <2>2, JoinedAt, Zenon
  <2> QED
    BY <2>1, <2>3, Zenon
<1>68. Joins(e, z, Verify)
  BY <1>3, <1>66, Joined
<1> HIDE DEF e
<1>69. e \in Seq(Steps) /\ Len(e) = 125
  BY <1>3, <1>66, <1>68 DEF Joins
<1>70. Follows(e, z, 114, Verify, 11)
  <2>1. Len(z) = 114 /\ Len(Verify) = 11
    BY <1>3, <1>66
  <2>2. Len(z) \in Nat /\ Len(Verify) \in Nat
    BY <2>1
  <2>3. Follows(e, z, Len(z), Verify, Len(Verify))
    BY <1>68, <2>2, JoinedAt, Zenon
  <2> QED
    BY <2>1, <2>3, Zenon
<1>71. \A i \in 1 .. 114 : e[i] = z[i]
  BY <1>70 DEF Follows
<1>72. \A i \in 1 .. 102 : e[i] = x15[i]
  BY <1>67, <1>71 DEF Follows
<1>73. \A i \in 1 .. 91 : e[i] = x14[i]
  BY <1>61, <1>72 DEF Follows
<1>74. \A i \in 1 .. 80 : e[i] = x13[i]
  BY <1>58, <1>73 DEF Follows
<1>75. \A i \in 1 .. 79 : e[i] = x12[i]
  BY <1>55, <1>74 DEF Follows
<1>76. \A i \in 1 .. 68 : e[i] = x11[i]
  BY <1>52, <1>75 DEF Follows
<1>77. \A i \in 1 .. 67 : e[i] = x10[i]
  BY <1>49, <1>76 DEF Follows
<1>78. \A i \in 1 .. 56 : e[i] = x9[i]
  BY <1>46, <1>77 DEF Follows
<1>79. \A i \in 1 .. 54 : e[i] = x8[i]
  BY <1>43, <1>78 DEF Follows
<1>80. \A i \in 1 .. 52 : e[i] = x7[i]
  BY <1>40, <1>79 DEF Follows
<1>81. \A i \in 1 .. 50 : e[i] = x6[i]
  BY <1>37, <1>80 DEF Follows
<1>82. \A i \in 1 .. 48 : e[i] = x5[i]
  BY <1>34, <1>81 DEF Follows
<1>83. \A i \in 1 .. 46 : e[i] = x4[i]
  BY <1>31, <1>82 DEF Follows
<1>84. \A i \in 1 .. 35 : e[i] = x3[i]
  BY <1>28, <1>83 DEF Follows
<1>85. \A i \in 1 .. 33 : e[i] = x2[i]
  BY <1>25, <1>84 DEF Follows
<1>86. \A i \in 1 .. 22 : e[i] = x1[i]
  BY <1>22, <1>85 DEF Follows
<1>87. \A i \in 1 .. 11 : e[i] = Candidate[i]
  BY <1>19, <1>86 DEF Follows
<1>88. \A i \in 1 .. 11 : e[11 + i] = Verify[i]
  BY <1>19, <1>86 DEF Follows
<1>89. \A i \in 1 .. 11 : e[22 + i] = Verify[i]
  BY <1>22, <1>85 DEF Follows
<1>90. e[34] = <<"vacant", "package">> /\ e[35] = <<"dir", "package">>
  <2>1. e[34] = vac[1] /\ e[35] = vac[2]
    BY <1>25, <1>84 DEF Follows
  <2> QED
    BY <2>1, <1>2
<1>91. \A i \in 1 .. 11 : e[35 + i] = Verify[i]
  BY <1>28, <1>83 DEF Follows
<1>92. e[47] = <<"fresh", "bytes">> /\ e[48] = <<"copy", "bytes">>
  <2>1. e[47] = p_bytes[1] /\ e[48] = p_bytes[2]
    BY <1>31, <1>82 DEF Follows
  <2> QED
    BY <2>1, <1>2, <1>12
<1>93. e[49] = <<"fresh", "metadata">> /\ e[50] = <<"copy", "metadata">>
  <2>1. e[49] = p_metadata[1] /\ e[50] = p_metadata[2]
    BY <1>34, <1>81 DEF Follows
  <2> QED
    BY <2>1, <1>2, <1>13
<1>94. e[51] = <<"fresh", "audit">> /\ e[52] = <<"copy", "audit">>
  <2>1. e[51] = p_audit[1] /\ e[52] = p_audit[2]
    BY <1>37, <1>80 DEF Follows
  <2> QED
    BY <2>1, <1>2, <1>14
<1>95. e[53] = <<"fresh", "approval">> /\ e[54] = <<"copy", "approval">>
  <2>1. e[53] = p_approval[1] /\ e[54] = p_approval[2]
    BY <1>40, <1>79 DEF Follows
  <2> QED
    BY <2>1, <1>2, <1>15
<1>96. e[55] = <<"fresh", "manifest">> /\ e[56] = <<"copy", "manifest">>
  <2>1. e[55] = p_manifest[1] /\ e[56] = p_manifest[2]
    BY <1>43, <1>78 DEF Follows
  <2> QED
    BY <2>1, <1>2, <1>16
<1>97. \A i \in 1 .. 11 : e[56 + i] = Verify[i]
  BY <1>46, <1>77 DEF Follows
<1>98. e[68] = <<"unmarked", "marker">>
  <2>1. e[68] = un[1]
    BY <1>49, <1>76 DEF Follows
  <2> QED
    BY <2>1, <1>2
<1>99. \A i \in 1 .. 11 : e[68 + i] = Verify[i]
  BY <1>52, <1>75 DEF Follows
<1>100. e[80] = <<"mark", "marker">>
  <2>1. e[80] = mk[1]
    BY <1>55, <1>74 DEF Follows
  <2> QED
    BY <2>1, <1>2
<1>101. \A i \in 1 .. 11 : e[80 + i] = Verify[i]
  BY <1>58, <1>73 DEF Follows
<1>102. \A i \in 1 .. 11 : e[91 + i] = Verify[i]
  BY <1>61, <1>72 DEF Follows
<1>103. \A i \in 1 .. 11 : e[102 + i] = Verify[i]
  BY <1>64, <1>67, <1>71 DEF Follows
<1>104. e[114] = <<"commit", "marker">>
  BY <1>2, <1>64, <1>67, <1>71 DEF Follows
<1>105. \A i \in 1 .. 11 : e[114 + i] = Verify[i]
  BY <1>70 DEF Follows
<1>106. Len(Body["export"]) = 102 /\ Len(Closing["export"]) = 12
  BY <1>5, <1>60, <1>63
<1>107. \A b \in Verified, i \in 1 .. 11 : e[b + i] = Verify[i]
  BY <1>88, <1>89, <1>91, <1>97, <1>99, <1>101, <1>102, <1>103, <1>105 DEF Verified
<1>108. \A j \in 1 .. 5 : e[45 + 2 * j] = <<"fresh", Copied[j]>> /\ e[46 + 2 * j] = <<"copy", Copied[j]>>
  <2>1. \A j \in 1 .. 5 : j = 1 \/ j = 2 \/ j = 3 \/ j = 4 \/ j = 5
    OBVIOUS
  <2> QED
    BY <2>1, <1>92, <1>93, <1>94, <1>95, <1>96 DEF Copied
<1> QED
  BY <1>6, <1>69, <1>106, <1>87, <1>107, <1>108, <1>90, <1>98, <1>100, <1>104 DEF Exports

LEMMA SaveSteps ==
  ASSUME NEW f \in Files
  PROVE  /\ Save(f) \in Seq(Steps) /\ Len(Save(f)) = 2
         /\ Save(f)[1] = <<"make", f>> /\ Save(f)[2] = <<"put", f>>
<1>1. <<"make", f>> \in Steps /\ <<"put", f>> \in Steps
  BY DEF Steps, Verbs, Names
<1> QED
  BY <1>1 DEF Save

\* Every script but that of the export is its body and its closing steps.
LEMMA ScriptJoins ==
  ASSUME NEW k \in Kinds \ {"export"}, NEW n \in Nat, NEW m \in Nat,
         Body[k] \in Seq(Steps), Len(Body[k]) = n, Closing[k] \in Seq(Steps), Len(Closing[k]) = m
  PROVE  /\ Script[k] \in Seq(Steps) /\ Len(Script[k]) = n + m
         /\ Follows(Script[k], Body[k], n, Closing[k], m)
<1> DEFINE z == Body[k] \o Closing[k]
           e == z \o << >>
<1>1. Script[k] = e
  BY DEF Script
<1>2. Joins(z, Body[k], Closing[k])
  BY Joined
<1> HIDE DEF z
<1>3. z \in Seq(Steps) /\ Len(z) = n + m
  BY <1>2 DEF Joins
<1>4. << >> \in Seq(Steps) /\ Len(<< >>) = 0
  BY EmptySeq
<1>5. Joins(e, z, << >>)
  BY <1>3, <1>4, Joined
<1> HIDE DEF e
<1>6. e \in Seq(Steps) /\ Len(e) = n + m
  BY <1>3, <1>4, <1>5 DEF Joins
<1>7. Follows(z, Body[k], n, Closing[k], m)
  BY <1>2, JoinedAt
<1>8. \A i \in 1 .. n + m : e[i] = z[i]
  <2>1. \A i \in 1 .. Len(z) + Len(<< >>) : e[i] = IF i <= Len(z) THEN z[i] ELSE << >>[i - Len(z)]
    BY <1>5 DEF Joins
  <2> QED
    BY <2>1, <1>3, <1>4
<1>9. Follows(e, Body[k], n, Closing[k], m)
  <2>1. \A i \in 1 .. n : i \in 1 .. n + m
    OBVIOUS
  <2>2. \A i \in 1 .. m : n + i \in 1 .. n + m
    OBVIOUS
  <2> QED
    BY <1>7, <1>8, <2>1, <2>2 DEF Follows
<1> QED
  BY <1>1, <1>6, <1>9

MetadataScript(e) ==
  /\ e \in Seq(Steps) /\ Len(e) = 6
  /\ e[1] = <<"keep", "manifest">> /\ e[2] = <<"keep", "metadata">> /\ e[3] = <<"keep", "manifest">>
  /\ e[4] = <<"keep", "metadata">> /\ e[5] = <<"make", "metadata">> /\ e[6] = <<"put", "metadata">>

LEMMA MetadataSteps == MetadataScript(Script["metadata"]) /\ Len(Body["metadata"]) = 2 /\ Len(Closing["metadata"]) = 4
<1> DEFINE b1 == << Keep("manifest"), Keep("metadata") >>
           c == << Keep("manifest"), Keep("metadata") >>
           s == Save("metadata")
           y == c \o s
<1>1. b1 \in Seq(Steps) /\ Len(b1) = 2
  BY Named
<1>2. c \in Seq(Steps) /\ Len(c) = 2
  BY Named
<1>3. s \in Seq(Steps) /\ Len(s) = 2
  BY SaveSteps DEF Files
<1>4. s[1] = <<"make", "metadata">> /\ s[2] = <<"put", "metadata">>
  BY SaveSteps DEF Files
<1>5. b1[1] = <<"keep", "manifest">> /\ b1[2] = <<"keep", "metadata">>
  BY DEF Keep, Same, Take
<1>6. c[1] = <<"keep", "manifest">> /\ c[2] = <<"keep", "metadata">>
  BY DEF Keep, Same, Take
<1>7. Body["metadata"] = b1 /\ Closing["metadata"] = y
  BY DEF Body, Closing
<1> HIDE DEF b1, c, s
<1>8. Joins(y, c, s)
  BY <1>2, <1>3, Joined
<1> HIDE DEF y
<1>9. y \in Seq(Steps) /\ Len(y) = 4
  BY <1>2, <1>3, <1>8 DEF Joins
<1>10. Follows(y, c, 2, s, 2)
  BY <1>2, <1>3, <1>8, JoinedAt
<1>11. /\ Script["metadata"] \in Seq(Steps) /\ Len(Script["metadata"]) = 6
      /\ Follows(Script["metadata"], b1, 2, y, 4)
  <2>1. Body["metadata"] \in Seq(Steps) /\ Len(Body["metadata"]) = 2 /\ Closing["metadata"] \in Seq(Steps) /\ Len(Closing["metadata"]) = 4
    BY <1>1, <1>9, <1>7
  <2>2. "metadata" \in Kinds \ {"export"} /\ 2 \in Nat /\ 4 \in Nat
    BY DEF Kinds
  <2>3. /\ Script["metadata"] \in Seq(Steps) /\ Len(Script["metadata"]) = 2 + 4
        /\ Follows(Script["metadata"], Body["metadata"], 2, Closing["metadata"], 4)
    BY <2>1, <2>2, ScriptJoins, Zenon
  <2> QED
    BY <2>3, <1>7
<1> DEFINE e == Script["metadata"]
<1> HIDE DEF e
<1>12. e \in Seq(Steps) /\ Len(e) = 6 /\ Follows(e, b1, 2, y, 4)
  BY <1>11 DEF e
<1>13. e[1] = <<"keep", "manifest">> /\ e[2] = <<"keep", "metadata">> /\ e[3] = <<"keep", "manifest">> /\ e[4] = <<"keep", "metadata">> /\ e[5] = <<"make", "metadata">> /\ e[6] = <<"put", "metadata">>
  BY <1>12, <1>5, <1>6, <1>10, <1>4 DEF Follows
<1>14. MetadataScript(e)
  BY <1>12, <1>13 DEF MetadataScript
<1> QED
  BY <1>14, <1>1, <1>9, <1>7 DEF e

AuditScript(e) ==
  /\ e \in Seq(Steps) /\ Len(e) = 13
  /\ e[1] = <<"keep", "manifest">> /\ e[2] = <<"take", "bytes">> /\ e[3] = <<"take", "metadata">>
  /\ e[4] = <<"ask", "audit">> /\ e[5] = <<"keep", "manifest">> /\ e[6] = <<"keep", "audit">>
  /\ e[7] = <<"keep", "manifest">> /\ e[8] = <<"keep", "audit">> /\ e[9] = <<"keep", "manifest">>
  /\ e[10] = <<"same", "bytes">> /\ e[11] = <<"same", "metadata">> /\ e[12] = <<"make", "audit">>
  /\ e[13] = <<"put", "audit">>

LEMMA AuditSteps == AuditScript(Script["audit"]) /\ Len(Body["audit"]) = 6 /\ Len(Closing["audit"]) = 7
<1> DEFINE b1 == << Keep("manifest"), Take("bytes"), Take("metadata"), <<"ask", "audit">>, Keep("manifest"), Keep("audit") >>
           c == << Keep("manifest"), Keep("audit"), Keep("manifest"), Same("bytes"), Same("metadata") >>
           s == Save("audit")
           y == c \o s
<1>1. b1 \in Seq(Steps) /\ Len(b1) = 6
  <2>1. <<"ask", "audit">> \in Steps
    BY DEF Steps, Verbs, Names, Files
  <2> QED
    BY <2>1, Named
<1>2. c \in Seq(Steps) /\ Len(c) = 5
  BY Named
<1>3. s \in Seq(Steps) /\ Len(s) = 2
  BY SaveSteps DEF Files
<1>4. s[1] = <<"make", "audit">> /\ s[2] = <<"put", "audit">>
  BY SaveSteps DEF Files
<1>5. b1[1] = <<"keep", "manifest">> /\ b1[2] = <<"take", "bytes">> /\ b1[3] = <<"take", "metadata">> /\ b1[4] = <<"ask", "audit">> /\ b1[5] = <<"keep", "manifest">> /\ b1[6] = <<"keep", "audit">>
  BY DEF Keep, Same, Take
<1>6. c[1] = <<"keep", "manifest">> /\ c[2] = <<"keep", "audit">> /\ c[3] = <<"keep", "manifest">> /\ c[4] = <<"same", "bytes">> /\ c[5] = <<"same", "metadata">>
  BY DEF Keep, Same, Take
<1>7. Body["audit"] = b1 /\ Closing["audit"] = y
  BY DEF Body, Closing
<1> HIDE DEF b1, c, s
<1>8. Joins(y, c, s)
  BY <1>2, <1>3, Joined
<1> HIDE DEF y
<1>9. y \in Seq(Steps) /\ Len(y) = 7
  BY <1>2, <1>3, <1>8 DEF Joins
<1>10. Follows(y, c, 5, s, 2)
  BY <1>2, <1>3, <1>8, JoinedAt
<1>11. /\ Script["audit"] \in Seq(Steps) /\ Len(Script["audit"]) = 13
      /\ Follows(Script["audit"], b1, 6, y, 7)
  <2>1. Body["audit"] \in Seq(Steps) /\ Len(Body["audit"]) = 6 /\ Closing["audit"] \in Seq(Steps) /\ Len(Closing["audit"]) = 7
    BY <1>1, <1>9, <1>7
  <2>2. "audit" \in Kinds \ {"export"} /\ 6 \in Nat /\ 7 \in Nat
    BY DEF Kinds
  <2>3. /\ Script["audit"] \in Seq(Steps) /\ Len(Script["audit"]) = 6 + 7
        /\ Follows(Script["audit"], Body["audit"], 6, Closing["audit"], 7)
    BY <2>1, <2>2, ScriptJoins, Zenon
  <2> QED
    BY <2>3, <1>7
<1> DEFINE e == Script["audit"]
<1> HIDE DEF e
<1>12. e \in Seq(Steps) /\ Len(e) = 13 /\ Follows(e, b1, 6, y, 7)
  BY <1>11 DEF e
<1>13. e[1] = <<"keep", "manifest">> /\ e[2] = <<"take", "bytes">> /\ e[3] = <<"take", "metadata">> /\ e[4] = <<"ask", "audit">> /\ e[5] = <<"keep", "manifest">> /\ e[6] = <<"keep", "audit">> /\ e[7] = <<"keep", "manifest">> /\ e[8] = <<"keep", "audit">> /\ e[9] = <<"keep", "manifest">> /\ e[10] = <<"same", "bytes">> /\ e[11] = <<"same", "metadata">> /\ e[12] = <<"make", "audit">> /\ e[13] = <<"put", "audit">>
  BY <1>12, <1>5, <1>6, <1>10, <1>4 DEF Follows
<1>14. AuditScript(e)
  BY <1>12, <1>13 DEF AuditScript
<1> QED
  BY <1>14, <1>1, <1>9, <1>7 DEF e

ReauditScript(e) ==
  /\ e \in Seq(Steps) /\ Len(e) = 13
  /\ e[1] = <<"ask", "audit">> /\ e[2] = <<"keep", "manifest">> /\ e[3] = <<"same", "bytes">>
  /\ e[4] = <<"same", "metadata">> /\ e[5] = <<"keep", "manifest">> /\ e[6] = <<"keep", "audit">>
  /\ e[7] = <<"keep", "manifest">> /\ e[8] = <<"keep", "audit">> /\ e[9] = <<"keep", "manifest">>
  /\ e[10] = <<"same", "bytes">> /\ e[11] = <<"same", "metadata">> /\ e[12] = <<"make", "audit">>
  /\ e[13] = <<"put", "audit">>

LEMMA ReauditSteps == ReauditScript(Script["reaudit"]) /\ Len(Body["reaudit"]) = 6 /\ Len(Closing["reaudit"]) = 7
<1> DEFINE b1 == << <<"ask", "audit">>, Keep("manifest"), Same("bytes"), Same("metadata"), Keep("manifest"), Keep("audit") >>
           c == << Keep("manifest"), Keep("audit"), Keep("manifest"), Same("bytes"), Same("metadata") >>
           s == Save("audit")
           y == c \o s
<1>1. b1 \in Seq(Steps) /\ Len(b1) = 6
  <2>1. <<"ask", "audit">> \in Steps
    BY DEF Steps, Verbs, Names, Files
  <2> QED
    BY <2>1, Named
<1>2. c \in Seq(Steps) /\ Len(c) = 5
  BY Named
<1>3. s \in Seq(Steps) /\ Len(s) = 2
  BY SaveSteps DEF Files
<1>4. s[1] = <<"make", "audit">> /\ s[2] = <<"put", "audit">>
  BY SaveSteps DEF Files
<1>5. b1[1] = <<"ask", "audit">> /\ b1[2] = <<"keep", "manifest">> /\ b1[3] = <<"same", "bytes">> /\ b1[4] = <<"same", "metadata">> /\ b1[5] = <<"keep", "manifest">> /\ b1[6] = <<"keep", "audit">>
  BY DEF Keep, Same, Take
<1>6. c[1] = <<"keep", "manifest">> /\ c[2] = <<"keep", "audit">> /\ c[3] = <<"keep", "manifest">> /\ c[4] = <<"same", "bytes">> /\ c[5] = <<"same", "metadata">>
  BY DEF Keep, Same, Take
<1>7. Body["reaudit"] = b1 /\ Closing["reaudit"] = y
  BY DEF Body, Closing
<1> HIDE DEF b1, c, s
<1>8. Joins(y, c, s)
  BY <1>2, <1>3, Joined
<1> HIDE DEF y
<1>9. y \in Seq(Steps) /\ Len(y) = 7
  BY <1>2, <1>3, <1>8 DEF Joins
<1>10. Follows(y, c, 5, s, 2)
  BY <1>2, <1>3, <1>8, JoinedAt
<1>11. /\ Script["reaudit"] \in Seq(Steps) /\ Len(Script["reaudit"]) = 13
      /\ Follows(Script["reaudit"], b1, 6, y, 7)
  <2>1. Body["reaudit"] \in Seq(Steps) /\ Len(Body["reaudit"]) = 6 /\ Closing["reaudit"] \in Seq(Steps) /\ Len(Closing["reaudit"]) = 7
    BY <1>1, <1>9, <1>7
  <2>2. "reaudit" \in Kinds \ {"export"} /\ 6 \in Nat /\ 7 \in Nat
    BY DEF Kinds
  <2>3. /\ Script["reaudit"] \in Seq(Steps) /\ Len(Script["reaudit"]) = 6 + 7
        /\ Follows(Script["reaudit"], Body["reaudit"], 6, Closing["reaudit"], 7)
    BY <2>1, <2>2, ScriptJoins, Zenon
  <2> QED
    BY <2>3, <1>7
<1> DEFINE e == Script["reaudit"]
<1> HIDE DEF e
<1>12. e \in Seq(Steps) /\ Len(e) = 13 /\ Follows(e, b1, 6, y, 7)
  BY <1>11 DEF e
<1>13. e[1] = <<"ask", "audit">> /\ e[2] = <<"keep", "manifest">> /\ e[3] = <<"same", "bytes">> /\ e[4] = <<"same", "metadata">> /\ e[5] = <<"keep", "manifest">> /\ e[6] = <<"keep", "audit">> /\ e[7] = <<"keep", "manifest">> /\ e[8] = <<"keep", "audit">> /\ e[9] = <<"keep", "manifest">> /\ e[10] = <<"same", "bytes">> /\ e[11] = <<"same", "metadata">> /\ e[12] = <<"make", "audit">> /\ e[13] = <<"put", "audit">>
  BY <1>12, <1>5, <1>6, <1>10, <1>4 DEF Follows
<1>14. ReauditScript(e)
  BY <1>12, <1>13 DEF ReauditScript
<1> QED
  BY <1>14, <1>1, <1>9, <1>7 DEF e

MasterCallScript(e) ==
  /\ e \in Seq(Steps) /\ Len(e) = 9
  /\ e[1] = <<"keep", "manifest">> /\ e[2] = <<"take", "bytes">> /\ e[3] = <<"keep", "manifest">>
  /\ e[4] = <<"keep", "master">> /\ e[5] = <<"keep", "manifest">> /\ e[6] = <<"same", "bytes">>
  /\ e[7] = <<"keep", "master">> /\ e[8] = <<"make", "master">> /\ e[9] = <<"put", "master">>

LEMMA MasterCallSteps == MasterCallScript(Script["master"]) /\ Len(Body["master"]) = 4 /\ Len(Closing["master"]) = 5
<1> DEFINE b1 == << Keep("manifest"), Take("bytes"), Keep("manifest"), Keep("master") >>
           c == << Keep("manifest"), Same("bytes"), Keep("master") >>
           s == Save("master")
           y == c \o s
<1>1. b1 \in Seq(Steps) /\ Len(b1) = 4
  BY Named
<1>2. c \in Seq(Steps) /\ Len(c) = 3
  BY Named
<1>3. s \in Seq(Steps) /\ Len(s) = 2
  BY SaveSteps DEF Files
<1>4. s[1] = <<"make", "master">> /\ s[2] = <<"put", "master">>
  BY SaveSteps DEF Files
<1>5. b1[1] = <<"keep", "manifest">> /\ b1[2] = <<"take", "bytes">> /\ b1[3] = <<"keep", "manifest">> /\ b1[4] = <<"keep", "master">>
  BY DEF Keep, Same, Take
<1>6. c[1] = <<"keep", "manifest">> /\ c[2] = <<"same", "bytes">> /\ c[3] = <<"keep", "master">>
  BY DEF Keep, Same, Take
<1>7. Body["master"] = b1 /\ Closing["master"] = y
  BY DEF Body, Closing
<1> HIDE DEF b1, c, s
<1>8. Joins(y, c, s)
  BY <1>2, <1>3, Joined
<1> HIDE DEF y
<1>9. y \in Seq(Steps) /\ Len(y) = 5
  BY <1>2, <1>3, <1>8 DEF Joins
<1>10. Follows(y, c, 3, s, 2)
  BY <1>2, <1>3, <1>8, JoinedAt
<1>11. /\ Script["master"] \in Seq(Steps) /\ Len(Script["master"]) = 9
      /\ Follows(Script["master"], b1, 4, y, 5)
  <2>1. Body["master"] \in Seq(Steps) /\ Len(Body["master"]) = 4 /\ Closing["master"] \in Seq(Steps) /\ Len(Closing["master"]) = 5
    BY <1>1, <1>9, <1>7
  <2>2. "master" \in Kinds \ {"export"} /\ 4 \in Nat /\ 5 \in Nat
    BY DEF Kinds
  <2>3. /\ Script["master"] \in Seq(Steps) /\ Len(Script["master"]) = 4 + 5
        /\ Follows(Script["master"], Body["master"], 4, Closing["master"], 5)
    BY <2>1, <2>2, ScriptJoins, Zenon
  <2> QED
    BY <2>3, <1>7
<1> DEFINE e == Script["master"]
<1> HIDE DEF e
<1>12. e \in Seq(Steps) /\ Len(e) = 9 /\ Follows(e, b1, 4, y, 5)
  BY <1>11 DEF e
<1>13. e[1] = <<"keep", "manifest">> /\ e[2] = <<"take", "bytes">> /\ e[3] = <<"keep", "manifest">> /\ e[4] = <<"keep", "master">> /\ e[5] = <<"keep", "manifest">> /\ e[6] = <<"same", "bytes">> /\ e[7] = <<"keep", "master">> /\ e[8] = <<"make", "master">> /\ e[9] = <<"put", "master">>
  BY <1>12, <1>5, <1>6, <1>10, <1>4 DEF Follows
<1>14. MasterCallScript(e)
  BY <1>12, <1>13 DEF MasterCallScript
<1> QED
  BY <1>14, <1>1, <1>9, <1>7 DEF e

ApproveScript(e) ==
  /\ e \in Seq(Steps) /\ Len(e) = 26
  /\ e[1] = <<"keep", "manifest">> /\ e[2] = <<"take", "bytes">> /\ e[3] = <<"take", "metadata">>
  /\ e[4] = <<"take", "audit">> /\ e[5] = <<"keep", "manifest">> /\ e[6] = <<"take", "master">>
  /\ e[7] = <<"fits", "master">> /\ e[8] = <<"gate", "approval">> /\ e[9] = <<"keep", "manifest">>
  /\ e[10] = <<"same", "bytes">> /\ e[11] = <<"same", "metadata">> /\ e[12] = <<"keep", "manifest">>
  /\ e[13] = <<"same", "master">> /\ e[14] = <<"fits", "master">> /\ e[15] = <<"keep", "manifest">>
  /\ e[16] = <<"keep", "metadata">> /\ e[17] = <<"same", "audit">> /\ e[18] = <<"same", "master">>
  /\ e[19] = <<"keep", "approval">> /\ e[20] = <<"keep", "manifest">> /\ e[21] = <<"keep", "approval">>
  /\ e[22] = <<"keep", "metadata">> /\ e[23] = <<"same", "audit">> /\ e[24] = <<"same", "master">>
  /\ e[25] = <<"make", "approval">> /\ e[26] = <<"put", "approval">>

LEMMA ApproveSteps == ApproveScript(Script["approve"]) /\ Len(Body["approve"]) = 19 /\ Len(Closing["approve"]) = 7
<1> DEFINE b1 == << Keep("manifest"), Take("bytes"), Take("metadata"), Take("audit"), Keep("manifest") >>
           b4 == << Keep("manifest"), Same("bytes"), Same("metadata"), Keep("manifest"), Same("master"), <<"fits", "master">>, Keep("manifest"), Keep("metadata"), Same("audit"), Same("master"), Keep("approval") >>
           c == << Keep("manifest"), Keep("approval"), Keep("metadata"), Same("audit"), Same("master") >>
           s == Save("approval")
           d1 == b1 \o Master
           d2 == d1 \o Gate
           d3 == d2 \o b4
           y == c \o s
<1>1. b1 \in Seq(Steps) /\ Len(b1) = 5
  BY Named
<1>2. b4 \in Seq(Steps) /\ Len(b4) = 11
  <2>1. <<"fits", "master">> \in Steps
    BY DEF Steps, Verbs, Names, Files
  <2> QED
    BY <2>1, Named
<1>3. c \in Seq(Steps) /\ Len(c) = 5
  BY Named
<1>4. s \in Seq(Steps) /\ Len(s) = 2
  BY SaveSteps DEF Files
<1>5. s[1] = <<"make", "approval">> /\ s[2] = <<"put", "approval">>
  BY SaveSteps DEF Files
<1>6. b1[1] = <<"keep", "manifest">> /\ b1[2] = <<"take", "bytes">> /\ b1[3] = <<"take", "metadata">> /\ b1[4] = <<"take", "audit">> /\ b1[5] = <<"keep", "manifest">>
  BY DEF Keep, Same, Take
<1>7. b4[1] = <<"keep", "manifest">> /\ b4[2] = <<"same", "bytes">> /\ b4[3] = <<"same", "metadata">> /\ b4[4] = <<"keep", "manifest">> /\ b4[5] = <<"same", "master">> /\ b4[6] = <<"fits", "master">> /\ b4[7] = <<"keep", "manifest">> /\ b4[8] = <<"keep", "metadata">> /\ b4[9] = <<"same", "audit">> /\ b4[10] = <<"same", "master">> /\ b4[11] = <<"keep", "approval">>
  BY DEF Keep, Same, Take
<1>8. c[1] = <<"keep", "manifest">> /\ c[2] = <<"keep", "approval">> /\ c[3] = <<"keep", "metadata">> /\ c[4] = <<"same", "audit">> /\ c[5] = <<"same", "master">>
  BY DEF Keep, Same, Take
<1>9. Body["approve"] = d3 /\ Closing["approve"] = y
  BY DEF Body, Closing
<1> HIDE DEF b1, b4, c, s
<1>10. Joins(d1, b1, Master)
  BY <1>1, MasterSteps, Joined
<1> HIDE DEF d1
<1>11. d1 \in Seq(Steps) /\ Len(d1) = 7
  BY <1>1, MasterSteps, <1>10 DEF Joins
<1>12. Follows(d1, b1, 5, Master, 2)
  BY <1>1, MasterSteps, <1>10, JoinedAt
<1>13. Joins(d2, d1, Gate)
  BY <1>11, MasterSteps, Joined
<1> HIDE DEF d2
<1>14. d2 \in Seq(Steps) /\ Len(d2) = 8
  BY <1>11, MasterSteps, <1>13 DEF Joins
<1>15. Follows(d2, d1, 7, Gate, 1)
  BY <1>11, MasterSteps, <1>13, JoinedAt
<1>16. Joins(d3, d2, b4)
  BY <1>14, <1>2, Joined
<1> HIDE DEF d3
<1>17. d3 \in Seq(Steps) /\ Len(d3) = 19
  BY <1>14, <1>2, <1>16 DEF Joins
<1>18. Follows(d3, d2, 8, b4, 11)
  BY <1>14, <1>2, <1>16, JoinedAt
<1>19. Joins(y, c, s)
  BY <1>3, <1>4, Joined
<1> HIDE DEF y
<1>20. y \in Seq(Steps) /\ Len(y) = 7
  BY <1>3, <1>4, <1>19 DEF Joins
<1>21. Follows(y, c, 5, s, 2)
  BY <1>3, <1>4, <1>19, JoinedAt
<1>22. /\ Script["approve"] \in Seq(Steps) /\ Len(Script["approve"]) = 26
      /\ Follows(Script["approve"], d3, 19, y, 7)
  <2>1. Body["approve"] \in Seq(Steps) /\ Len(Body["approve"]) = 19 /\ Closing["approve"] \in Seq(Steps) /\ Len(Closing["approve"]) = 7
    BY <1>17, <1>20, <1>9
  <2>2. "approve" \in Kinds \ {"export"} /\ 19 \in Nat /\ 7 \in Nat
    BY DEF Kinds
  <2>3. /\ Script["approve"] \in Seq(Steps) /\ Len(Script["approve"]) = 19 + 7
        /\ Follows(Script["approve"], Body["approve"], 19, Closing["approve"], 7)
    BY <2>1, <2>2, ScriptJoins, Zenon
  <2> QED
    BY <2>3, <1>9
<1> DEFINE e == Script["approve"]
<1> HIDE DEF e
<1>23. e \in Seq(Steps) /\ Len(e) = 26 /\ Follows(e, d3, 19, y, 7)
  BY <1>22 DEF e
<1>24. e[1] = <<"keep", "manifest">> /\ e[2] = <<"take", "bytes">> /\ e[3] = <<"take", "metadata">> /\ e[4] = <<"take", "audit">> /\ e[5] = <<"keep", "manifest">> /\ e[6] = <<"take", "master">> /\ e[7] = <<"fits", "master">> /\ e[8] = <<"gate", "approval">> /\ e[9] = <<"keep", "manifest">> /\ e[10] = <<"same", "bytes">> /\ e[11] = <<"same", "metadata">> /\ e[12] = <<"keep", "manifest">> /\ e[13] = <<"same", "master">> /\ e[14] = <<"fits", "master">> /\ e[15] = <<"keep", "manifest">> /\ e[16] = <<"keep", "metadata">> /\ e[17] = <<"same", "audit">> /\ e[18] = <<"same", "master">> /\ e[19] = <<"keep", "approval">> /\ e[20] = <<"keep", "manifest">> /\ e[21] = <<"keep", "approval">> /\ e[22] = <<"keep", "metadata">> /\ e[23] = <<"same", "audit">> /\ e[24] = <<"same", "master">> /\ e[25] = <<"make", "approval">> /\ e[26] = <<"put", "approval">>
  <2>1. e[1] = d3[1] /\ e[2] = d3[2] /\ e[3] = d3[3] /\ e[4] = d3[4] /\ e[5] = d3[5] /\ e[6] = d3[6] /\ e[7] = d3[7] /\ e[8] = d3[8] /\ e[9] = d3[9] /\ e[10] = d3[10] /\ e[11] = d3[11] /\ e[12] = d3[12] /\ e[13] = d3[13] /\ e[14] = d3[14] /\ e[15] = d3[15] /\ e[16] = d3[16] /\ e[17] = d3[17] /\ e[18] = d3[18] /\ e[19] = d3[19]
    BY <1>23 DEF Follows
  <2>2. e[20] = y[1] /\ e[21] = y[2] /\ e[22] = y[3] /\ e[23] = y[4] /\ e[24] = y[5] /\ e[25] = y[6] /\ e[26] = y[7]
    BY <1>23 DEF Follows
  <2>3. d3[1] = <<"keep", "manifest">> /\ d3[2] = <<"take", "bytes">> /\ d3[3] = <<"take", "metadata">> /\ d3[4] = <<"take", "audit">> /\ d3[5] = <<"keep", "manifest">> /\ d3[6] = <<"take", "master">> /\ d3[7] = <<"fits", "master">> /\ d3[8] = <<"gate", "approval">> /\ d3[9] = <<"keep", "manifest">> /\ d3[10] = <<"same", "bytes">> /\ d3[11] = <<"same", "metadata">> /\ d3[12] = <<"keep", "manifest">> /\ d3[13] = <<"same", "master">> /\ d3[14] = <<"fits", "master">> /\ d3[15] = <<"keep", "manifest">> /\ d3[16] = <<"keep", "metadata">> /\ d3[17] = <<"same", "audit">> /\ d3[18] = <<"same", "master">> /\ d3[19] = <<"keep", "approval">>
    <3>1. d2[1] = <<"keep", "manifest">> /\ d2[2] = <<"take", "bytes">> /\ d2[3] = <<"take", "metadata">> /\ d2[4] = <<"take", "audit">> /\ d2[5] = <<"keep", "manifest">> /\ d2[6] = <<"take", "master">> /\ d2[7] = <<"fits", "master">> /\ d2[8] = <<"gate", "approval">>
      BY <1>6, <1>7, <1>8, <1>12, <1>15, MasterSteps DEF Follows
    <3> QED
      BY <3>1, <1>6, <1>7, <1>8, <1>18 DEF Follows
  <2>4. y[1] = <<"keep", "manifest">> /\ y[2] = <<"keep", "approval">> /\ y[3] = <<"keep", "metadata">> /\ y[4] = <<"same", "audit">> /\ y[5] = <<"same", "master">> /\ y[6] = <<"make", "approval">> /\ y[7] = <<"put", "approval">>
    BY <1>6, <1>7, <1>8, <1>21, <1>5 DEF Follows
  <2> QED
    BY <2>1, <2>2, <2>3, <2>4
<1>25. ApproveScript(e)
  BY <1>23, <1>24 DEF ApproveScript
<1> QED
  BY <1>25, <1>17, <1>20, <1>9 DEF e

-----------------------------------------------------------------------------
(* What the scripts have in common.                                         *)

LEMMA CandidateSteps ==
  /\ Candidate[1] = <<"keep", "manifest">> /\ Candidate[2] = <<"take", "bytes">>
  /\ Candidate[3] = <<"take", "metadata">> /\ Candidate[4] = <<"same", "metadata">>
  /\ Candidate[5] = <<"take", "audit">> /\ Candidate[6] = <<"take", "approval">>
  /\ Candidate[7] = <<"take", "master">> /\ Candidate[8] = <<"fits", "master">>
  /\ Candidate[9] = <<"gate", "approval">>
  /\ Candidate[10] = <<"same", "bytes">> /\ Candidate[11] = <<"same", "approval">>
<1>1. Resolves(Candidate, FALSE)
  BY ResolveSteps DEF Candidate
<1> QED
  BY <1>1 DEF Resolves, Look, Take

LEMMA VerifySteps ==
  /\ Verify[1] = <<"keep", "manifest">> /\ Verify[2] = <<"same", "bytes">>
  /\ Verify[3] = <<"same", "metadata">> /\ Verify[4] = <<"same", "metadata">>
  /\ Verify[5] = <<"same", "audit">> /\ Verify[6] = <<"same", "approval">>
  /\ Verify[7] = <<"take", "master">> /\ Verify[8] = <<"fits", "master">>
  /\ Verify[9] = <<"gate", "approval">>
  /\ Verify[10] = <<"same", "bytes">> /\ Verify[11] = <<"same", "approval">>
<1>1. Resolves(Verify, TRUE)
  BY ResolveSteps DEF Verify
<1> QED
  BY <1>1 DEF Resolves, Look, Same

Verifications == {"keep", "same", "fits", "gate"}

\* The steps of an export: resolving, verifying, and its own nine sorts.
LEMMA ExportStep ==
  ASSUME NEW i \in 1 .. 125
  PROVE  LET s == Script["export"][i] IN
         \/ i \in 1 .. 11 /\ s = Candidate[i]
         \/ \E b \in Verified, j \in 1 .. 11 : i = b + j /\ s = Verify[j]
         \/ i = 34 /\ s = <<"vacant", "package">>
         \/ i = 35 /\ s = <<"dir", "package">>
         \/ \E j \in 1 .. 5 : \/ i = 45 + 2 * j /\ s = <<"fresh", Copied[j]>>
                              \/ i = 46 + 2 * j /\ s = <<"copy", Copied[j]>>
         \/ i = 68 /\ s = <<"unmarked", "marker">>
         \/ i = 80 /\ s = <<"mark", "marker">>
         \/ i = 114 /\ s = <<"commit", "marker">>
<1> DEFINE e == Script["export"]
<1>1. Exports(e)
  BY ExportSteps
<1> HIDE DEF e
<1>2. \/ i \in 1 .. 11
      \/ \E b \in Verified, j \in 1 .. 11 : i = b + j
      \/ i \in {34, 35, 68, 80, 114}
      \/ \E j \in 1 .. 5 : i = 45 + 2 * j \/ i = 46 + 2 * j
  <2>1. CASE i \in 1 .. 11 \/ i \in {34, 35, 68, 80, 114}
    BY <2>1
  <2>2. CASE i \in 47 .. 56
    <3>1. \/ i = 45 + 2 * 1 \/ i = 46 + 2 * 1 \/ i = 45 + 2 * 2 \/ i = 46 + 2 * 2 \/ i = 45 + 2 * 3
          \/ i = 46 + 2 * 3 \/ i = 45 + 2 * 4 \/ i = 46 + 2 * 4 \/ i = 45 + 2 * 5 \/ i = 46 + 2 * 5
      BY <2>2
    <3> QED
      BY <3>1
  <2>3. ASSUME NEW b \in {11, 22, 35, 56, 68, 80, 91, 102, 114}, i \in b + 1 .. b + 11
        PROVE  \E c \in Verified, j \in 1 .. 11 : i = c + j
    <3>1. i - b \in 1 .. 11 /\ i = b + (i - b) /\ b \in Verified
      BY <2>3 DEF Verified
    <3> QED
      BY <3>1
  <2>4. \/ i \in 1 .. 11 \/ i \in {34, 35, 68, 80, 114} \/ i \in 47 .. 56
        \/ i \in 11 + 1 .. 11 + 11 \/ i \in 22 + 1 .. 22 + 11 \/ i \in 35 + 1 .. 35 + 11
        \/ i \in 56 + 1 .. 56 + 11 \/ i \in 68 + 1 .. 68 + 11 \/ i \in 80 + 1 .. 80 + 11
        \/ i \in 91 + 1 .. 91 + 11 \/ i \in 102 + 1 .. 102 + 11 \/ i \in 114 + 1 .. 114 + 11
    OBVIOUS
  <2> QED
    BY <2>1, <2>2, <2>3, <2>4
<1>3. CASE i \in 1 .. 11
  BY <1>1, <1>3 DEF Exports, e
<1>4. CASE \E b \in Verified, j \in 1 .. 11 : i = b + j
  <2>1. PICK b \in Verified, j \in 1 .. 11 : i = b + j
    BY <1>4
  <2>2. e[b + j] = Verify[j]
    BY <1>1 DEF Exports
  <2> QED
    BY <2>1, <2>2 DEF e
<1>5. CASE i \in {34, 35, 68, 80, 114}
  BY <1>1, <1>5 DEF Exports, e
<1>6. CASE \E j \in 1 .. 5 : i = 45 + 2 * j \/ i = 46 + 2 * j
  <2>1. PICK j \in 1 .. 5 : i = 45 + 2 * j \/ i = 46 + 2 * j
    BY <1>6
  <2>2. e[45 + 2 * j] = <<"fresh", Copied[j]>> /\ e[46 + 2 * j] = <<"copy", Copied[j]>>
    BY <1>1 DEF Exports
  <2>3. \/ i = 45 + 2 * j /\ e[i] = <<"fresh", Copied[j]>>
        \/ i = 46 + 2 * j /\ e[i] = <<"copy", Copied[j]>>
    BY <2>1, <2>2
  <2>4. \E m \in 1 .. 5 : \/ i = 45 + 2 * m /\ e[i] = <<"fresh", Copied[m]>>
                          \/ i = 46 + 2 * m /\ e[i] = <<"copy", Copied[m]>>
    BY <2>3
  <2> QED
    BY <2>4 DEF e
<1> QED
  BY <1>2, <1>3, <1>4, <1>5, <1>6

\* Where an export does what only an export does, and what it takes.
LEMMA ExportVerbs ==
  ASSUME NEW i \in 1 .. 125
  PROVE  LET s == Script["export"][i] IN
         /\ s[1] = "vacant" => i = 34
         /\ s[1] = "dir" => i = 35
         /\ s[1] \in {"fresh", "copy"} => i \in 47 .. 56 /\ s[2] \in Parts
         /\ s[1] = "unmarked" => i = 68
         /\ s[1] = "mark" => i = 80
         /\ s[1] = "commit" => i = 114
         /\ s[1] \notin {"ask", "make", "put"}
         /\ s[1] \in {"keep", "same", "take"} => s[2] \in Files
         /\ s[1] = "take" => s[2] = "master" \/ i <= 6
         /\ s[1] = "gate" => i >= 9
<1> DEFINE s == Script["export"][i]
<1> HIDE DEF s
<1>1. CASE i \in 1 .. 11 /\ s = Candidate[i]
  BY <1>1, CandidateSteps DEF Files, s
<1>2. CASE \E b \in Verified, j \in 1 .. 11 : i = b + j /\ s = Verify[j]
  <2>1. PICK b \in Verified, j \in 1 .. 11 : i = b + j /\ s = Verify[j]
    BY <1>2
  <2>2. i >= 9
    BY <2>1 DEF Verified
  <2>3. /\ s[1] \in {"keep", "same", "take", "fits", "gate"}
        /\ s[1] \in {"keep", "same", "take"} => s[2] \in Files
        /\ s[1] = "take" => s[2] = "master"
    BY <2>1, VerifySteps DEF Files
  <2> QED
    BY <2>2, <2>3 DEF s
<1>3. CASE \E j \in 1 .. 5 : \/ i = 45 + 2 * j /\ s = <<"fresh", Copied[j]>>
                             \/ i = 46 + 2 * j /\ s = <<"copy", Copied[j]>>
  BY <1>3 DEF s, Copied, Parts, Files
<1>4. CASE \/ i = 34 /\ s = <<"vacant", "package">>
           \/ i = 35 /\ s = <<"dir", "package">>
           \/ i = 68 /\ s = <<"unmarked", "marker">>
           \/ i = 80 /\ s = <<"mark", "marker">>
           \/ i = 114 /\ s = <<"commit", "marker">>
  BY <1>4 DEF s
<1> QED
  BY <1>1, <1>2, <1>3, <1>4, ExportStep DEF s

\* The file a save is about, and the length of its script.
Target == [metadata |-> "metadata", audit |-> "audit", reaudit |-> "audit",
           master |-> "master", approve |-> "approval"]
Extent == [metadata |-> 6, audit |-> 13, reaudit |-> 13, master |-> 9, approve |-> 26, export |-> 125]

LEMMA ScriptSteps ==
  ASSUME NEW k \in Kinds
  PROVE  Script[k] \in Seq(Steps) /\ Len(Script[k]) = Extent[k] /\ DOMAIN Script[k] = 1 .. Extent[k]
<1>1. Script[k] \in Seq(Steps) /\ Len(Script[k]) = Extent[k]
  <2>1. CASE k = "metadata"
    BY <2>1, MetadataSteps DEF MetadataScript, Extent
  <2>2. CASE k = "audit"
    BY <2>2, AuditSteps DEF AuditScript, Extent
  <2>3. CASE k = "reaudit"
    BY <2>3, ReauditSteps DEF ReauditScript, Extent
  <2>4. CASE k = "master"
    BY <2>4, MasterCallSteps DEF MasterCallScript, Extent
  <2>5. CASE k = "approve"
    BY <2>5, ApproveSteps DEF ApproveScript, Extent
  <2>6. CASE k = "export"
    BY <2>6, ExportSteps DEF Exports, Extent
  <2> QED
    BY <2>1, <2>2, <2>3, <2>4, <2>5, <2>6 DEF Kinds
<1> QED
  BY <1>1

\* Where a save writes, asks and takes.
SaveVerbs(k, i, s) ==
  /\ s[1] \in {"keep", "same", "take", "fits", "ask", "gate", "make", "put"}
  /\ s[1] \in {"make", "put"} => s[2] = Target[k]
  /\ s[1] = "make" => i = Extent[k] - 1
  /\ s[1] = "put" => i = Extent[k]
  /\ s[1] = "ask" => ((k = "audit" /\ i = 4) \/ (k = "reaudit" /\ i = 1)) /\ s[2] = "audit"
  /\ s[1] \in {"keep", "same", "take"} => s[2] \in Files
  /\ s[1] = "take" => \/ k \in {"audit", "master", "approve"} /\ i \in 2 .. 4 /\ s[2] \in {"bytes", "metadata", "audit"}
                      \/ k = "approve" /\ i = 6 /\ s[2] = "master"
  /\ s[1] = "gate" => k = "approve" /\ i = 8

LEMMA SaveStep ==
  ASSUME NEW k \in Kinds \ {"export"}, NEW i \in 1 .. Extent[k]
  PROVE  SaveVerbs(k, i, Script[k][i])
<1>1. ASSUME NEW e, MetadataScript(e), NEW j \in 1 .. 6 PROVE SaveVerbs("metadata", j, e[j])
  <2>1. j = 1 \/ j = 2 \/ j = 3 \/ j = 4 \/ j = 5 \/ j = 6
    OBVIOUS
  <2> QED
    BY <1>1, <2>1 DEF MetadataScript, SaveVerbs, Target, Extent, Files
<1>2. ASSUME NEW e, AuditScript(e), NEW j \in 1 .. 13 PROVE SaveVerbs("audit", j, e[j])
  <2>1. Extent["audit"] = 13 /\ Target["audit"] = "audit"
    BY DEF Extent, Target
  <2>2. CASE j \in 1 .. 3
    <3>1. /\ e[1] = <<"keep", "manifest">> /\ e[2] = <<"take", "bytes">> /\ e[3] = <<"take", "metadata">>
      BY <1>2 DEF AuditScript
    <3>2. \/ j = 1 \/ j = 2 \/ j = 3
      BY <2>2
    <3> QED
      BY <2>1, <3>1, <3>2 DEF SaveVerbs, Files
  <2>3. CASE j \in 4 .. 4
    <3>1. /\ e[4] = <<"ask", "audit">>
      BY <1>2 DEF AuditScript
    <3>2. \/ j = 4
      BY <2>3
    <3> QED
      BY <2>1, <3>1, <3>2 DEF SaveVerbs, Files
  <2>4. CASE j \in 5 .. 9
    <3>1. /\ e[5] = <<"keep", "manifest">> /\ e[6] = <<"keep", "audit">> /\ e[7] = <<"keep", "manifest">>
          /\ e[8] = <<"keep", "audit">> /\ e[9] = <<"keep", "manifest">>
      BY <1>2 DEF AuditScript
    <3>2. \/ j = 5 \/ j = 6 \/ j = 7 \/ j = 8 \/ j = 9
      BY <2>4
    <3> QED
      BY <2>1, <3>1, <3>2 DEF SaveVerbs, Files
  <2>5. CASE j \in 10 .. 13
    <3>1. /\ e[10] = <<"same", "bytes">> /\ e[11] = <<"same", "metadata">> /\ e[12] = <<"make", "audit">>
          /\ e[13] = <<"put", "audit">>
      BY <1>2 DEF AuditScript
    <3>2. \/ j = 10 \/ j = 11 \/ j = 12 \/ j = 13
      BY <2>5
    <3> QED
      BY <2>1, <3>1, <3>2 DEF SaveVerbs, Files
  <2> QED
    BY <2>2, <2>3, <2>4, <2>5
<1>3. ASSUME NEW e, ReauditScript(e), NEW j \in 1 .. 13 PROVE SaveVerbs("reaudit", j, e[j])
  BY <1>3 DEF ReauditScript, SaveVerbs, Target, Extent, Files
<1>4. ASSUME NEW e, MasterCallScript(e), NEW j \in 1 .. 9 PROVE SaveVerbs("master", j, e[j])
  BY <1>4 DEF MasterCallScript, SaveVerbs, Target, Extent, Files
<1>5. ASSUME NEW e, ApproveScript(e), NEW j \in 1 .. 26 PROVE SaveVerbs("approve", j, e[j])
  <2>1. Extent["approve"] = 26 /\ Target["approve"] = "approval"
    BY DEF Extent, Target
  <2>2. CASE j \in 1 .. 8
    <3>1. /\ e[1] = <<"keep", "manifest">> /\ e[2] = <<"take", "bytes">> /\ e[3] = <<"take", "metadata">>
          /\ e[4] = <<"take", "audit">> /\ e[5] = <<"keep", "manifest">> /\ e[6] = <<"take", "master">>
          /\ e[7] = <<"fits", "master">> /\ e[8] = <<"gate", "approval">>
      BY <1>5 DEF ApproveScript
    <3>2. \/ j = 1 \/ j = 2 \/ j = 3 \/ j = 4 \/ j = 5 \/ j = 6 \/ j = 7 \/ j = 8
      BY <2>2
    <3> QED
      BY <2>1, <3>1, <3>2 DEF SaveVerbs, Files
  <2>3. CASE j \in 9 .. 17
    <3>1. /\ e[9] = <<"keep", "manifest">> /\ e[10] = <<"same", "bytes">> /\ e[11] = <<"same", "metadata">>
          /\ e[12] = <<"keep", "manifest">> /\ e[13] = <<"same", "master">> /\ e[14] = <<"fits", "master">>
          /\ e[15] = <<"keep", "manifest">> /\ e[16] = <<"keep", "metadata">> /\ e[17] = <<"same", "audit">>
      BY <1>5 DEF ApproveScript
    <3>2. \/ j = 9 \/ j = 10 \/ j = 11 \/ j = 12 \/ j = 13 \/ j = 14 \/ j = 15 \/ j = 16 \/ j = 17
      BY <2>3
    <3> QED
      BY <2>1, <3>1, <3>2 DEF SaveVerbs, Files
  <2>4. CASE j \in 18 .. 26
    <3>1. /\ e[18] = <<"same", "master">> /\ e[19] = <<"keep", "approval">> /\ e[20] = <<"keep", "manifest">>
          /\ e[21] = <<"keep", "approval">> /\ e[22] = <<"keep", "metadata">> /\ e[23] = <<"same", "audit">>
          /\ e[24] = <<"same", "master">> /\ e[25] = <<"make", "approval">> /\ e[26] = <<"put", "approval">>
      BY <1>5 DEF ApproveScript
    <3>2. \/ j = 18 \/ j = 19 \/ j = 20 \/ j = 21 \/ j = 22 \/ j = 23 \/ j = 24 \/ j = 25 \/ j = 26
      BY <2>4
    <3> QED
      BY <2>1, <3>1, <3>2 DEF SaveVerbs, Files
  <2> QED
    BY <2>2, <2>3, <2>4
<1>6. CASE k = "metadata"
  BY <1>1, <1>6, MetadataSteps DEF Extent
<1>7. CASE k = "audit"
  BY <1>2, <1>7, AuditSteps DEF Extent
<1>8. CASE k = "reaudit"
  BY <1>3, <1>8, ReauditSteps DEF Extent
<1>9. CASE k = "master"
  BY <1>4, <1>9, MasterCallSteps DEF Extent
<1>10. CASE k = "approve"
  BY <1>5, <1>10, ApproveSteps DEF Extent
<1> QED
  BY <1>6, <1>7, <1>8, <1>9, <1>10 DEF Kinds

-----------------------------------------------------------------------------
(* The inductive invariant: what the files and the calls may hold, what a   *)
(* call knows of the files it took, and that nothing is packed into a       *)
(* package that is not there.                                               *)

Values == (UNION {ValuesOf(f) : f \in Files}) \union {None}
Calls  == [kind : Kinds \union {"none"}, rev : Revisions, at : Nat, n : Stamps,
           held : [Files -> Values], got : [Files -> Values]]
Packs  == [exists : BOOLEAN, parts : [Parts -> Values], marker : Values \union [Parts -> Values]]

Usable(f) == {v \in ValuesOf(f) : There(v)}

\* The gate was passed with these records.
Agreed(c) ==
  /\ Sound(c.got["audit"], c.got["bytes"], c.got["metadata"])
  /\ c.kind = "export" => Exact(c.got["approval"], c.got["bytes"], c.got["metadata"], c.got["audit"])

\* What a step leaves behind for the rest of the call.
Achieved(c, s) ==
  /\ s[1] = "take" => /\ c.got[s[2]] \in Usable(s[2])
                      /\ s[2] = "master" => c.got["master"].rev = c.rev
  /\ s[1] = "ask" => /\ c.got["audit"] \in Audits
                     /\ c.got["audit"].sub = c.got["bytes"] /\ c.got["audit"].meta = c.got["metadata"]
  /\ s[1] = "gate" => Agreed(c)

CallOK(c) ==
  /\ c \in Calls
  /\ c.kind # "none" =>
       /\ c.at \in 1 .. Extent[c.kind]
       /\ \A f \in Files : c.held[f] \in ValuesOf(f) \union {None} /\ c.got[f] \in ValuesOf(f) \union {None}
       /\ c.kind \in {"metadata", "reaudit"} => c.got["metadata"] \in Contents
       /\ c.kind = "reaudit" => c.got["bytes"] \in Contents
       /\ c.kind = "export" => c.held["manifest"] = c.rev
       /\ \A i \in 1 .. c.at - 1 : Achieved(c, Script[c.kind][i])

DiskOK ==
  /\ disk \in [Files -> [Revisions -> Values]]
  /\ \A f \in Files, q \in Revisions : disk[f][q] \in ValuesOf(f)
  /\ \A f \in Shared, q \in Revisions : disk[f][q] = disk[f][1]

PackagesOK ==
  /\ packages \in [Revisions \X Contents -> Packs]
  /\ \A k \in Revisions \X Contents, f \in Parts : packages[k].parts[f] \in ValuesOf(f) \union {None}
  /\ \A k \in Revisions \X Contents : ~packages[k].exists => packages[k] = NoPackage

Exporting(p) == call[p].kind = "export"

CountersOK ==
  /\ calls \in Stamps /\ edits \in 0 .. MaxEdits
  /\ calm \in BOOLEAN /\ plan \in Plans

CallsOK == call \in [Tabs -> Calls] /\ \A p \in Tabs : CallOK(call[p])

DirectoryMade == \A p \in Tabs : Exporting(p) /\ call[p].at > 35 => Package(p).exists

EvidenceInv == DiskOK /\ PackagesOK /\ CallsOK /\ CountersOK /\ DirectoryMade /\ ApprovalIsEarned

LEMMA FileValues ==
  /\ \A f \in Files : ValuesOf(f) \subseteq Values /\ Usable(f) \subseteq ValuesOf(f)
  /\ None \in Values
  /\ Usable("bytes") \subseteq Contents /\ Usable("metadata") \subseteq Contents
  /\ Usable("audit") \subseteq Audits /\ Usable("approval") \subseteq Approvals
  /\ Usable("master") \subseteq Masters
  /\ ValuesOf("manifest") = Revisions /\ ValuesOf("bytes") = Contents
  /\ ValuesOf("metadata") = Contents \union {None, Empty} /\ ValuesOf("audit") = Audits \union {None, Empty}
  /\ ValuesOf("approval") = Approvals \union {None, Empty} /\ ValuesOf("master") = Masters \union {None, Empty}
<1>1. /\ ValuesOf("manifest") = Revisions /\ ValuesOf("bytes") = Contents
      /\ ValuesOf("metadata") = Contents \union {None, Empty} /\ ValuesOf("audit") = Audits \union {None, Empty}
      /\ ValuesOf("approval") = Approvals \union {None, Empty} /\ ValuesOf("master") = Masters \union {None, Empty}
  BY DEF ValuesOf
<1>2. \A f \in Files : ValuesOf(f) \subseteq Values
  BY DEF Values
<1>3. None \in Values
  BY DEF Values
<1>4. \A f : Usable(f) \subseteq ValuesOf(f) /\ \A v \in Usable(f) : v # None /\ v # Empty
  BY DEF Usable, There
<1> QED
  BY <1>1, <1>2, <1>3, <1>4

LEMMA IdleOK == Idle \in Calls /\ CallOK(Idle)
<1>1. [f \in Files |-> None] \in [Files -> Values]
  BY FileValues
<1>2. 1 \in Revisions /\ 0 \in Stamps
  BY DataAssumption, EvidenceBounds DEF Revisions, Stamps
<1>3. Idle \in Calls
  BY <1>1, <1>2 DEF Idle, Nothing, Calls
<1>4. Idle.kind = "none"
  BY DEF Idle
<1> QED
  BY <1>3, <1>4 DEF CallOK

LEMMA AnyStep ==
  ASSUME NEW c, CallOK(c), c.kind # "none"
  PROVE  /\ c.kind \in Kinds /\ c.at \in 1 .. Extent[c.kind] /\ Extent[c.kind] \in Nat
         /\ Len(Script[c.kind]) = Extent[c.kind]
         /\ LET s == Script[c.kind][c.at] IN
            /\ s \in Steps
            /\ c.kind = "export" => c.at \in 1 .. 125
            /\ c.kind # "export" => SaveVerbs(c.kind, c.at, s)
            /\ s[1] \in {"keep", "same", "take"} => s[2] \in Files
<1> DEFINE s == Script[c.kind][c.at]
<1>1. c.kind \in Kinds /\ c.at \in 1 .. Extent[c.kind]
  BY DEF CallOK, Calls
<1>2. Extent[c.kind] \in Nat /\ (c.kind = "export" => Extent[c.kind] = 125)
  BY <1>1 DEF Kinds, Extent
<1>3. /\ Script[c.kind] \in Seq(Steps) /\ Len(Script[c.kind]) = Extent[c.kind]
      /\ DOMAIN Script[c.kind] = 1 .. Extent[c.kind]
  BY <1>1, ScriptSteps
<1>4. s \in Steps
  BY <1>1, <1>3, ElementOfSeq
<1>5. c.kind = "export" /\ s[1] \in {"keep", "same", "take"} => s[2] \in Files
  BY <1>1, <1>2, ExportVerbs
<1>6. c.kind # "export" => SaveVerbs(c.kind, c.at, s)
  BY <1>1, SaveStep
<1>7. c.kind # "export" /\ s[1] \in {"keep", "same", "take"} => s[2] \in Files
  BY <1>6 DEF SaveVerbs
<1> QED
  BY <1>1, <1>2, <1>3, <1>4, <1>5, <1>6, <1>7

\* A step that achieves what its verb asks for moves the call on.
LEMMA Moves ==
  ASSUME NEW c, CallOK(c), c.kind # "none", Achieved(c, Script[c.kind][c.at])
  PROVE  /\ CallOK(Onward(c))
         /\ \/ Onward(c) = Idle
            \/ Onward(c) = [c EXCEPT !.at = @ + 1] /\ c.at + 1 \in 1 .. Extent[c.kind]
<1>1. c.at \in Nat /\ c.at \in 1 .. Extent[c.kind] /\ Extent[c.kind] \in Nat /\ Len(Script[c.kind]) = Extent[c.kind]
  BY AnyStep
<1>2. CASE c.at = Len(Script[c.kind])
  BY <1>2, IdleOK DEF Onward
<1>3. CASE c.at # Len(Script[c.kind])
  <2> DEFINE d == [c EXCEPT !.at = @ + 1]
  <2>1. Onward(c) = d
    BY <1>3 DEF Onward
  <2>2. c.at + 1 \in 1 .. Extent[c.kind]
    BY <1>1, <1>3
  <2>3. /\ d \in Calls /\ d.at = c.at + 1 /\ d.kind = c.kind /\ d.got = c.got /\ d.held = c.held /\ d.rev = c.rev
    BY <1>1 DEF CallOK, Calls
  <2>4. \A i \in 1 .. d.at - 1 : Achieved(c, Script[c.kind][i])
    <3>1. \A i \in 1 .. d.at - 1 : i \in 1 .. c.at - 1 \/ i = c.at
      BY <1>1, <2>3
    <3> QED
      BY <3>1 DEF CallOK
  <2>5. \A i : Achieved(c, Script[c.kind][i]) <=> Achieved(d, Script[d.kind][i])
    BY <2>3 DEF Achieved, Agreed
  <2> HIDE DEF d
  <2>6. CallOK(d)
    BY <2>2, <2>3, <2>4, <2>5 DEF CallOK
  <2> QED
    BY <2>1, <2>2, <2>6 DEF d
<1> QED
  BY <1>2, <1>3

\* What a file holds when a call takes it, or the audit it was answered, is
\* kept, and nothing the gate has seen is taken again.
LEMMA Takes ==
  ASSUME NEW c, CallOK(c), c.kind # "none", NEW f \in Files, NEW v,
         \/ Script[c.kind][c.at] = <<"take", f>> /\ v \in Usable(f) /\ (f = "master" => v.rev = c.rev)
         \/ /\ Script[c.kind][c.at] = <<"ask", "audit">> /\ f = "audit" /\ v \in Audits
            /\ v.sub = c.got["bytes"] /\ v.meta = c.got["metadata"]
  PROVE  LET d == [Onward(c) EXCEPT !.got[f] = v] IN
         /\ CallOK(d)
         /\ \/ d.kind = "none"
            \/ /\ d = [c EXCEPT !.at = @ + 1, !.got = [@ EXCEPT ![f] = v]]
               /\ c.at + 1 \in 1 .. Extent[c.kind]
<1> DEFINE o == Onward(c)
           d == [o EXCEPT !.got[f] = v]
           s == Script[c.kind][c.at]
<1>1. /\ c \in Calls /\ c.kind \in Kinds /\ c.at \in 1 .. Extent[c.kind] /\ c.at \in Nat
      /\ Extent[c.kind] \in Nat /\ Len(Script[c.kind]) = Extent[c.kind]
  <2>1. c \in Calls
    BY DEF CallOK
  <2>2. /\ c.kind \in Kinds /\ c.at \in 1 .. Extent[c.kind]
        /\ Extent[c.kind] \in Nat /\ Len(Script[c.kind]) = Extent[c.kind]
    BY AnyStep
  <2> QED
    BY <2>1, <2>2
<1>2. v \in ValuesOf(f) /\ v \in Values
  BY FileValues
<1>3. CASE c.at = Len(Script[c.kind])
  <2>1. o = Idle
    BY <1>3 DEF Onward
  <2>2. d \in Calls /\ d.kind = "none"
    BY <2>1, <1>2, IdleOK DEF Idle, Calls
  <2> QED
    BY <2>2 DEF CallOK
<1>4. CASE c.at # Len(Script[c.kind])
  <2>1. o = [c EXCEPT !.at = @ + 1]
    BY <1>4 DEF Onward
  <2>2. c.at + 1 \in 1 .. Extent[c.kind]
    BY <1>1, <1>4
  <2>3. d = [c EXCEPT !.at = @ + 1, !.got = [@ EXCEPT ![f] = v]]
    BY <1>1, <2>1 DEF Calls
  <2>4. /\ d \in Calls /\ d.kind = c.kind /\ d.at = c.at + 1 /\ d.held = c.held /\ d.rev = c.rev
        /\ d.got = [c.got EXCEPT ![f] = v] /\ c.got \in [Files -> Values]
    <3>1. c.got \in [Files -> Values] /\ [c.got EXCEPT ![f] = v] \in [Files -> Values] /\ c.at + 1 \in Nat
      BY <1>1, <1>2 DEF Calls
    <3> QED
      BY <1>1, <2>3, <3>1 DEF Calls
  <2> HIDE DEF d, o
  <2>5. d.got[f] = v /\ \A g \in Files \ {f} : d.got[g] = c.got[g]
    BY <2>4
  <2>6. \A g \in Files : d.held[g] \in ValuesOf(g) \union {None} /\ d.got[g] \in ValuesOf(g) \union {None}
    BY <1>2, <2>4, <2>5 DEF CallOK
  <2>7. s[1] \in {"take", "ask"} /\ s[2] = f
    BY DEF s
  <2>8. \A i \in 1 .. c.at - 1 : Achieved(d, Script[d.kind][i])
    <3> SUFFICES ASSUME NEW i \in 1 .. c.at - 1 PROVE Achieved(d, Script[c.kind][i])
      BY <2>4
    <3> DEFINE t == Script[c.kind][i]
    <3>1. Achieved(c, t)
      BY DEF CallOK
    <3>2. i \in 1 .. Extent[c.kind] /\ i < c.at
      BY <1>1
    <3>3. t[1] \in {"keep", "same", "take"} => t[2] \in Files
      <4>1. CASE c.kind = "export"
        <5>1. i \in 1 .. 125
          BY <3>2, <4>1 DEF Extent
        <5> QED
          BY <4>1, <5>1, ExportVerbs
      <4>2. CASE c.kind # "export"
        BY <1>1, <3>2, <4>2, SaveStep DEF SaveVerbs
      <4> QED
        BY <4>1, <4>2
    <3> HIDE DEF t, s
    <3>4. ASSUME t[1] = "take"
          PROVE  d.got[t[2]] \in Usable(t[2]) /\ (t[2] = "master" => d.got["master"].rev = d.rev)
      <4>1. CASE t[2] # f
        BY <2>4, <2>5, <3>1, <3>3, <3>4, <4>1 DEF Achieved
      <4>2. CASE t[2] = f /\ v \in Usable(f) /\ (f = "master" => v.rev = c.rev)
        BY <2>4, <2>5, <4>2
      <4>3. CASE t[2] = f /\ s[1] = "ask"
        <5>1. c.kind # "export" /\ (c.kind = "audit" \/ c.at = 1)
          <6>1. ASSUME c.kind = "export" PROVE FALSE
            <7>1. c.at \in 1 .. 125
              BY <1>1, <6>1 DEF Extent
            <7> QED
              BY <4>3, <6>1, <7>1, ExportVerbs DEF s
          <6>2. SaveVerbs(c.kind, c.at, s)
            BY <1>1, <6>1, SaveStep DEF s
          <6> QED
            BY <4>3, <6>1, <6>2 DEF SaveVerbs
        <5>2. c.kind = "audit"
          BY <3>2, <5>1
        <5>3. s = <<"ask", "audit">> /\ f = "audit" /\ c.at = 4
          <6>1. SaveVerbs(c.kind, c.at, s)
            BY <1>1, <5>1, SaveStep DEF s
          <6>2. s = <<"ask", "audit">> /\ f = "audit"
            BY <4>3 DEF s
          <6> QED
            BY <5>2, <6>1, <6>2 DEF SaveVerbs
        <5>4. i \in 1 .. 3 /\ Script["audit"][1][1] = "keep" /\ Script["audit"][2][2] = "bytes" /\ Script["audit"][3][2] = "metadata"
          BY <3>2, <5>3, AuditSteps DEF AuditScript
        <5> QED
          BY <3>4, <4>3, <5>2, <5>3, <5>4 DEF t
      <4> QED
        BY <4>1, <4>2, <4>3 DEF s
    <3>5. t[1] # "ask"
      <4> SUFFICES ASSUME t[1] = "ask" PROVE FALSE
        OBVIOUS
      <4>1. ASSUME c.kind = "export" PROVE FALSE
        <5>1. i \in 1 .. 125
          BY <3>2, <4>1 DEF Extent
        <5> QED
          BY <4>1, <5>1, ExportVerbs DEF t
      <4>2. SaveVerbs(c.kind, c.at, s) /\ SaveVerbs(c.kind, i, t)
        BY <1>1, <3>2, <4>1, SaveStep DEF s, t
      <4>3. (c.kind = "audit" /\ i = 4) \/ (c.kind = "reaudit" /\ i = 1)
        BY <4>2 DEF SaveVerbs
      <4>4. s[1] = "take" \/ s[1] = "ask"
        BY <2>7
      <4>5. s[1] = "ask" => c.at = i
        BY <4>2, <4>3 DEF SaveVerbs
      <4>6. s[1] = "take" => c.kind = "audit" /\ c.at \in 2 .. 4
        BY <4>2, <4>3 DEF SaveVerbs
      <4> QED
        BY <3>2, <4>3, <4>4, <4>5, <4>6
    <3>6. ASSUME t[1] = "gate" PROVE Agreed(d)
      <4>1. f = "master"
        <5>1. CASE c.kind = "export"
          <6>1. s[1] \in {"take", "ask"} /\ c.at \in 1 .. 125 /\ i \in 1 .. 125
            BY <1>1, <2>7, <3>2, <5>1 DEF Extent
          <6>2. s[1] # "ask" /\ (s[1] = "take" => s[2] = "master" \/ c.at <= 6)
            <7>1. LET u == Script["export"][c.at] IN
                  u[1] \notin {"ask", "make", "put"} /\ (u[1] = "take" => u[2] = "master" \/ c.at <= 6)
              BY <6>1, ExportVerbs
            <7>2. s = Script["export"][c.at]
              BY <5>1 DEF s
            <7> QED
              BY <7>1, <7>2
          <6>3. i >= 9
            <7>1. LET u == Script["export"][i] IN u[1] = "gate" => i >= 9
              BY <6>1, ExportVerbs
            <7>2. t = Script["export"][i]
              BY <5>1 DEF t
            <7> QED
              BY <3>6, <7>1, <7>2
          <6> QED
            BY <2>7, <3>2, <6>1, <6>2, <6>3
        <5>2. CASE c.kind # "export"
          <6>1. SaveVerbs(c.kind, c.at, s) /\ SaveVerbs(c.kind, i, t)
            BY <1>1, <3>2, <5>2, SaveStep DEF s, t
          <6>2. c.kind = "approve" /\ i = 8
            BY <3>6, <6>1 DEF SaveVerbs
          <6>3. s[1] = "take" /\ ~(c.at \in 2 .. 4)
            BY <2>7, <3>2, <6>1, <6>2 DEF SaveVerbs
          <6> QED
            BY <2>7, <6>1, <6>3 DEF SaveVerbs
        <5> QED
          BY <5>1, <5>2
      <4>2. Agreed(c)
        BY <3>1, <3>6 DEF Achieved
      <4>3. /\ d.got["audit"] = c.got["audit"] /\ d.got["bytes"] = c.got["bytes"]
            /\ d.got["metadata"] = c.got["metadata"] /\ d.got["approval"] = c.got["approval"]
        BY <2>5, <4>1 DEF Files
      <4> QED
        BY <2>4, <4>2, <4>3 DEF Agreed
    <3> QED
      BY <3>4, <3>5, <3>6 DEF Achieved, t
  <2>9. Achieved(d, Script[d.kind][c.at])
    <3>1. Script[d.kind][c.at] = s
      BY <2>4
    <3>2. \/ s = <<"take", f>> /\ v \in Usable(f) /\ (f = "master" => v.rev = c.rev)
          \/ /\ s = <<"ask", "audit">> /\ f = "audit" /\ v \in Audits
             /\ v.sub = c.got["bytes"] /\ v.meta = c.got["metadata"]
      OBVIOUS
    <3>3. "bytes" \in Files /\ "metadata" \in Files
      BY DEF Files
    <3>4. d.got[f] = v
      BY <2>5
    <3>5. CASE s = <<"take", f>> /\ v \in Usable(f) /\ (f = "master" => v.rev = c.rev)
      BY <2>4, <3>1, <3>4, <3>5 DEF Achieved
    <3>6. CASE /\ s = <<"ask", "audit">> /\ f = "audit" /\ v \in Audits
               /\ v.sub = c.got["bytes"] /\ v.meta = c.got["metadata"]
      <4>1. d.got["bytes"] = c.got["bytes"] /\ d.got["metadata"] = c.got["metadata"]
        BY <2>5, <3>3, <3>6
      <4> QED
        BY <3>1, <3>4, <3>6, <4>1 DEF Achieved
    <3> QED
      BY <3>2, <3>5, <3>6
  <2>10. \A i \in 1 .. d.at - 1 : Achieved(d, Script[d.kind][i])
    <3>1. \A i \in 1 .. d.at - 1 : i \in 1 .. c.at - 1 \/ i = c.at
      BY <1>1, <2>4
    <3> QED
      BY <3>1, <2>8, <2>9
  <2>11. /\ d.kind \in {"metadata", "reaudit"} => d.got["metadata"] \in Contents
         /\ d.kind = "reaudit" => d.got["bytes"] \in Contents
         /\ d.kind = "export" => d.held["manifest"] = d.rev
    <3>1. /\ c.kind \in {"metadata", "reaudit"} => c.got["metadata"] \in Contents
          /\ c.kind = "reaudit" => c.got["bytes"] \in Contents
          /\ c.kind = "export" => c.held["manifest"] = c.rev
      BY <1>1 DEF CallOK
    <3>2. ASSUME c.kind \in {"metadata", "reaudit"} PROVE f = "audit"
      <4>1. SaveVerbs(c.kind, c.at, s)
        BY <1>1, <3>2, SaveStep
      <4> QED
        BY <2>7, <3>2, <4>1 DEF SaveVerbs
    <3> QED
      BY <2>4, <2>5, <3>1, <3>2 DEF Files
  <2>12. d.at \in 1 .. Extent[d.kind]
    BY <2>2, <2>4
  <2>13. CallOK(d)
    BY <2>4, <2>6, <2>10, <2>11, <2>12 DEF CallOK
  <2> QED
    BY <2>2, <2>3, <2>13 DEF d, o
<1> QED
  BY <1>3, <1>4

-----------------------------------------------------------------------------
(* Every action keeps the invariant.                                        *)

LEMMA CallTaken ==
  ASSUME CallsOK, NEW p \in Tabs, NEW d, CallOK(d), call' = [call EXCEPT ![p] = d]
  PROVE  CallsOK' /\ call'[p] = d /\ \A r \in Tabs \ {p} : call'[r] = call[r]
<1>1. d \in Calls
  BY DEF CallOK
<1>2. call' \in [Tabs -> Calls] /\ call'[p] = d /\ \A r \in Tabs \ {p} : call'[r] = call[r]
  BY <1>1 DEF CallsOK
<1>3. \A r \in Tabs : CallOK(call'[r])
  BY <1>2 DEF CallsOK
<1>4. (\A r \in Tabs : CallOK(call[r]))' <=> \A r \in Tabs : CallOK(call'[r])
  BY DEF CallOK, Achieved, Agreed, Sound, Exact, There
<1> QED
  BY <1>2, <1>3, <1>4 DEF CallsOK

\* What a step or the end of a call leaves of it.
Follower(c, d) ==
  \/ d.kind = "none"
  \/ /\ d.kind = c.kind /\ d.rev = c.rev /\ d.n = c.n /\ d.held = c.held
     /\ d.at = c.at + 1 /\ d.at \in 1 .. Extent[d.kind]
     /\ \/ d.got = c.got
        \/ /\ Script[c.kind][c.at][1] \in {"take", "ask"}
           /\ \A f \in Files \ {Script[c.kind][c.at][2]} : d.got[f] = c.got[f]

LEMMA Onwards ==
  ASSUME CallsOK, NEW p \in Tabs, Running(p), Verb(p) \notin {"take", "ask"},
         Verb(p) = "gate" => Agreed(call[p]), Advance(p)
  PROVE  CallsOK' /\ Follower(call[p], call'[p]) /\ \A r \in Tabs \ {p} : call'[r] = call[r]
<1> DEFINE c == call[p]
           d == Onward(c)
<1>1. CallOK(c) /\ c.kind # "none" /\ c \in Calls
  BY DEF CallsOK, Running
<1>2. Achieved(c, Script[c.kind][c.at])
  BY DEF Achieved, Verb, StepOf
<1>3. /\ CallOK(d)
      /\ d = Idle \/ (d = [c EXCEPT !.at = @ + 1] /\ c.at + 1 \in 1 .. Extent[c.kind])
  BY <1>1, <1>2, Moves
<1>4. call' = [call EXCEPT ![p] = d]
  BY DEF Advance, CallsOK
<1>5. Idle.kind = "none"
  BY DEF Idle
<1>6. Follower(c, d)
  BY <1>1, <1>3, <1>5 DEF Follower, Calls
<1> HIDE DEF d
<1> QED
  BY <1>3, <1>4, <1>6, CallTaken

LEMMA Leaves ==
  ASSUME CallsOK, NEW p \in Tabs, Leave(p)
  PROVE  /\ CallsOK' /\ Follower(call[p], call'[p]) /\ \A r \in Tabs \ {p} : call'[r] = call[r]
         /\ call'[p] = Idle /\ Idle.kind = "none"
<1>1. call' = [call EXCEPT ![p] = Idle]
  BY DEF Leave
<1>2. CallsOK' /\ call'[p] = Idle /\ \A r \in Tabs \ {p} : call'[r] = call[r]
  BY <1>1, IdleOK, CallTaken
<1>3. Idle.kind = "none"
  BY DEF Idle
<1> QED
  BY <1>2, <1>3 DEF Follower

LEMMA HasTaken ==
  ASSUME CallsOK, DiskOK, NEW p \in Tabs, TakeFile(p) \/ \E b \in BOOLEAN : Ask(p, b)
  PROVE  CallsOK' /\ Follower(call[p], call'[p]) /\ \A r \in Tabs \ {p} : call'[r] = call[r]
<1> DEFINE c == call[p]
           s == Script[c.kind][c.at]
<1>1. CallOK(c) /\ c.kind # "none" /\ c \in Calls /\ s \in Steps /\ s = <<s[1], s[2]>>
  <2>1. CallOK(c) /\ c.kind # "none"
    BY DEF CallsOK, TakeFile, Ask, At, Running
  <2>2. s \in Steps
    BY <2>1, AnyStep
  <2> QED
    BY <2>1, <2>2 DEF CallOK, Steps
<1>2. PICK f \in Files, v \in Values \union Audits :
        /\ \/ s = <<"take", f>> /\ v \in Usable(f) /\ (f = "master" => v.rev = c.rev)
           \/ /\ s = <<"ask", "audit">> /\ f = "audit" /\ v \in Audits
              /\ v.sub = c.got["bytes"] /\ v.meta = c.got["metadata"]
        /\ call' = [call EXCEPT ![p] = [Onward(c) EXCEPT !.got[f] = v]]
  <2>1. CASE TakeFile(p)
    <3>1. /\ Verb(p) = "take" /\ There(Here(p)) /\ (Name(p) = "master" => Here(p).rev = c.rev)
          /\ call' = [call EXCEPT ![p] = [Onward(@) EXCEPT !.got[Name(p)] = Here(p)]]
      BY <2>1 DEF TakeFile, At, Passes
    <3>2. s[1] = "take" /\ s[2] = Name(p)
      BY <3>1 DEF Verb, StepOf, Name
    <3>3. Name(p) \in Files
      BY <1>1, <3>2, AnyStep
    <3>4. Here(p) \in Usable(Name(p))
      BY <1>1, <3>1, <3>3 DEF Here, DiskOK, Usable, Calls
    <3>5. call' = [call EXCEPT ![p] = [Onward(c) EXCEPT !.got[Name(p)] = Here(p)]]
      BY <3>1 DEF CallsOK
    <3>6. s = <<"take", Name(p)>>
      BY <1>1, <3>2
    <3>7. Here(p) \in Values
      BY <3>3, <3>4, FileValues
    <3> QED
      BY <3>1, <3>3, <3>4, <3>5, <3>6, <3>7
  <2>2. ASSUME NEW b \in BOOLEAN, Ask(p, b)
        PROVE  \E v \in Audits : /\ s = <<"ask", "audit">>
                                 /\ v.sub = c.got["bytes"] /\ v.meta = c.got["metadata"]
                                 /\ call' = [call EXCEPT ![p] = [Onward(c) EXCEPT !.got["audit"] = v]]
    <3> DEFINE v == [sub |-> Got(p)["bytes"], meta |-> Got(p)["metadata"], blocks |-> b, n |-> call[p].n]
    <3>1. Verb(p) = "ask" /\ call' = [call EXCEPT ![p] = [Onward(c) EXCEPT !.got["audit"] = v]]
      BY <2>2 DEF Ask, At, CallsOK
    <3>2. s[1] = "ask" /\ c.kind # "export"
      <4>1. s[1] = "ask"
        BY <3>1 DEF Verb, StepOf
      <4>2. ASSUME c.kind = "export" PROVE FALSE
        <5>1. c.at \in 1 .. 125
          BY <1>1, <4>2, AnyStep
        <5> QED
          BY <4>1, <4>2, <5>1, ExportVerbs
      <4> QED
        BY <4>1, <4>2
    <3>3. SaveVerbs(c.kind, c.at, s)
      BY <1>1, <3>2, AnyStep
    <3>4. s = <<"ask", "audit">> /\ ((c.kind = "audit" /\ c.at = 4) \/ c.kind = "reaudit")
      BY <1>1, <3>2, <3>3 DEF SaveVerbs
    <3>5. c.got["bytes"] \in Contents /\ c.got["metadata"] \in Contents
      <4>1. CASE c.kind = "reaudit"
        BY <1>1, <4>1 DEF CallOK
      <4>2. CASE c.kind = "audit" /\ c.at = 4
        <5>1. 2 \in 1 .. c.at - 1 /\ 3 \in 1 .. c.at - 1
          BY <4>2
        <5>2. Achieved(c, Script["audit"][2]) /\ Achieved(c, Script["audit"][3])
          BY <1>1, <4>2, <5>1 DEF CallOK
        <5>3. Script["audit"][2] = <<"take", "bytes">> /\ Script["audit"][3] = <<"take", "metadata">>
          BY AuditSteps DEF AuditScript
        <5> QED
          BY <5>2, <5>3, FileValues DEF Achieved
      <4> QED
        BY <3>4, <4>1, <4>2
    <3>6. v \in Audits
      BY <1>1, <3>5 DEF Audits, Got, Calls
    <3>7. v.sub = c.got["bytes"] /\ v.meta = c.got["metadata"]
      BY DEF Got
    <3> HIDE DEF v
    <3> QED
      BY <3>1, <3>4, <3>6, <3>7
  <2>3. "audit" \in Files
    BY DEF Files
  <2> QED
    BY <2>1, <2>2, <2>3, FileValues
<1> DEFINE d == [Onward(c) EXCEPT !.got[f] = v]
<1>3. /\ CallOK(d)
      /\ \/ d.kind = "none"
         \/ /\ d = [c EXCEPT !.at = @ + 1, !.got = [@ EXCEPT ![f] = v]]
            /\ c.at + 1 \in 1 .. Extent[c.kind]
  BY <1>1, <1>2, Takes
<1>4. call' = [call EXCEPT ![p] = d]
  BY <1>2
<1>5. s[1] \in {"take", "ask"} /\ s[2] = f
  <2>1. s = <<"take", f>> \/ (s = <<"ask", "audit">> /\ f = "audit")
    BY <1>2
  <2> HIDE DEF s
  <2> QED
    BY <2>1
<1> HIDE DEF d, s
<1>6. Follower(c, d)
  <2>1. CASE d.kind = "none"
    BY <2>1 DEF Follower
  <2>2. CASE /\ d = [c EXCEPT !.at = @ + 1, !.got = [@ EXCEPT ![f] = v]]
             /\ c.at + 1 \in 1 .. Extent[c.kind]
    <3>1. /\ d.kind = c.kind /\ d.rev = c.rev /\ d.n = c.n /\ d.held = c.held /\ d.at = c.at + 1
          /\ d.got = [c.got EXCEPT ![f] = v] /\ c.got \in [Files -> Values]
      BY <1>1, <2>2 DEF Calls
    <3>2. \A g \in Files \ {f} : d.got[g] = c.got[g]
      BY <3>1
    <3> QED
      BY <1>5, <2>2, <3>1, <3>2 DEF Follower, s
  <2> QED
    BY <1>3, <2>1, <2>2
<1> QED
  BY <1>3, <1>4, <1>6, CallTaken

\* The audit, the selection or the approval a save writes at last.
LEMMA Records ==
  ASSUME CallsOK, NEW p \in Tabs, Running(p), Verb(p) = "put"
  PROVE  /\ Name(p) \in Files /\ Record(p) \in ValuesOf(Name(p))
         /\ Name(p) = "approval" => Covers(Record(p), Record(p).sub, Record(p).meta, Record(p).audit)
<1> DEFINE c == call[p]
           s == Script[c.kind][c.at]
<1>1. CallOK(c) /\ c.kind # "none" /\ c \in Calls /\ c.kind \in Kinds /\ c.at \in 1 .. Extent[c.kind]
  <2>1. CallOK(c) /\ c.kind # "none"
    BY DEF CallsOK, Running
  <2> QED
    BY <2>1, AnyStep DEF CallOK
<1>2. s[1] = "put" /\ s[2] = Name(p)
  BY DEF Verb, StepOf, Name
<1>3. c.kind # "export"
  <2>1. ASSUME c.kind = "export" PROVE c.at \in 1 .. 125
    BY <1>1, <2>1, AnyStep
  <2> QED
    BY <1>2, <2>1, ExportVerbs
<1>4. SaveVerbs(c.kind, c.at, s)
  BY <1>1, <1>3, AnyStep
<1>5. c.at = Extent[c.kind] /\ Name(p) = Target[c.kind]
  BY <1>2, <1>4 DEF SaveVerbs
<1>6. \A i \in 1 .. Extent[c.kind] - 1 : Achieved(c, Script[c.kind][i])
  BY <1>1, <1>5 DEF CallOK
<1>7. CASE c.kind = "metadata"
  <2>1. Name(p) = "metadata" /\ Record(p) = c.got["metadata"]
    BY <1>5, <1>7 DEF Target, Record, Got
  <2>2. c.got["metadata"] \in Contents
    BY <1>1, <1>7 DEF CallOK
  <2> QED
    BY <2>1, <2>2, FileValues DEF Files
<1>8. CASE c.kind \in {"audit", "reaudit"}
  <2>1. Name(p) = "audit" /\ Record(p) = c.got["audit"]
    BY <1>5, <1>8 DEF Target, Record, Got
  <2>2. c.got["audit"] \in Audits
    <3>1. CASE c.kind = "audit"
      <4>1. Achieved(c, Script["audit"][4])
        BY <1>6, <3>1 DEF Extent
      <4>2. Script["audit"][4] = <<"ask", "audit">>
        BY AuditSteps DEF AuditScript
      <4> QED
        BY <4>1, <4>2 DEF Achieved
    <3>2. CASE c.kind = "reaudit"
      <4>1. Achieved(c, Script["reaudit"][1])
        BY <1>6, <3>2 DEF Extent
      <4>2. Script["reaudit"][1] = <<"ask", "audit">>
        BY ReauditSteps DEF ReauditScript
      <4> QED
        BY <4>1, <4>2 DEF Achieved
    <3> QED
      BY <1>8, <3>1, <3>2
  <2> QED
    BY <2>1, <2>2, FileValues DEF Files
<1>9. CASE c.kind = "master"
  <2>1. Name(p) = "master" /\ Record(p) = [rev |-> c.rev, sum |-> c.got["bytes"], n |-> c.n]
    BY <1>5, <1>9 DEF Target, Record, Got
  <2>2. Achieved(c, Script["master"][2])
    BY <1>6, <1>9 DEF Extent
  <2>3. Script["master"][2] = <<"take", "bytes">>
    BY MasterCallSteps DEF MasterCallScript
  <2>4. c.got["bytes"] \in Contents
    BY <2>2, <2>3, FileValues DEF Achieved
  <2>5. Record(p) \in Masters
    BY <1>1, <2>1, <2>4 DEF Masters, Calls
  <2> QED
    BY <2>1, <2>5, FileValues DEF Files
<1>10. CASE c.kind = "approve"
  <2>1. /\ Name(p) = "approval"
        /\ Record(p) = [sub |-> c.got["bytes"], meta |-> c.got["metadata"], audit |-> c.got["audit"], n |-> c.n]
    BY <1>5, <1>10 DEF Target, Record, Got
  <2>2. /\ Achieved(c, Script["approve"][2]) /\ Achieved(c, Script["approve"][3])
        /\ Achieved(c, Script["approve"][4]) /\ Achieved(c, Script["approve"][8])
    BY <1>6, <1>10 DEF Extent
  <2>3. /\ Script["approve"][2] = <<"take", "bytes">> /\ Script["approve"][3] = <<"take", "metadata">>
        /\ Script["approve"][4] = <<"take", "audit">> /\ Script["approve"][8] = <<"gate", "approval">>
    BY ApproveSteps DEF ApproveScript
  <2>4. c.got["bytes"] \in Contents /\ c.got["metadata"] \in Contents /\ c.got["audit"] \in Audits
    BY <2>2, <2>3, FileValues DEF Achieved
  <2>5. Agreed(c)
    BY <2>2, <2>3 DEF Achieved
  <2>6. Record(p) \in Approvals
    BY <1>1, <2>1, <2>4 DEF Approvals, Calls
  <2>7. Covers(Record(p), Record(p).sub, Record(p).meta, Record(p).audit)
    BY <2>1, <2>5 DEF Agreed, Sound, Covers
  <2> QED
    BY <2>1, <2>6, <2>7, FileValues DEF Files
<1> QED
  BY <1>1, <1>3, <1>7, <1>8, <1>9, <1>10 DEF Kinds

LEMMA Written ==
  ASSUME DiskOK, NEW f \in Files, NEW q \in Revisions, NEW v \in ValuesOf(f), Onto(f, q, v)
  PROVE  /\ DiskOK'
         /\ \A g \in Files \ {f} : disk'[g] = disk[g]
         /\ \A r \in Revisions : disk'[f][r] = IF f \in Shared \/ r = q THEN v ELSE disk[f][r]
<1> DEFINE w == [r \in Revisions |-> IF f \in Shared \/ r = q THEN v ELSE disk[f][r]]
<1>1. disk' = [disk EXCEPT ![f] = w]
  BY DEF Onto, DiskOK
<1>2. v \in Values /\ disk \in [Files -> [Revisions -> Values]]
  BY FileValues DEF DiskOK
<1>3. w \in [Revisions -> Values]
  BY <1>2
<1>4. /\ disk' \in [Files -> [Revisions -> Values]]
      /\ disk'[f] = w /\ \A g \in Files \ {f} : disk'[g] = disk[g]
  <2> HIDE DEF w
  <2> QED
    BY <1>1, <1>2, <1>3
<1>5. \A r \in Revisions : disk'[f][r] = IF f \in Shared \/ r = q THEN v ELSE disk[f][r]
  BY <1>4
<1>6. \A g \in Files, r \in Revisions : disk'[g][r] \in ValuesOf(g)
  BY <1>4, <1>5 DEF DiskOK
<1>7. 1 \in Revisions
  BY DataAssumption DEF Revisions
<1>8. \A g \in Shared, r \in Revisions : disk'[g][r] = disk'[g][1]
  <2>1. Shared \subseteq Files
    BY DEF Shared, Files
  <2> QED
    BY <1>4, <1>5, <1>7, <2>1 DEF DiskOK
<1> HIDE DEF w
<1> QED
  BY <1>4, <1>5, <1>6, <1>8 DEF DiskOK

LEMMA EarnedKept ==
  ASSUME DiskOK, ApprovalIsEarned, NEW f \in Files, NEW q \in Revisions, NEW v \in ValuesOf(f), Onto(f, q, v),
         f = "approval" => (There(v) => Covers(v, v.sub, v.meta, v.audit))
  PROVE  DiskOK' /\ ApprovalIsEarned'
<1>1. /\ DiskOK'
      /\ \A g \in Files \ {f} : disk'[g] = disk[g]
      /\ \A r \in Revisions : disk'[f][r] = IF f \in Shared \/ r = q THEN v ELSE disk[f][r]
  BY Written
<1>2. ASSUME NEW r \in Revisions, There(disk'["approval"][r])
      PROVE  LET a == disk'["approval"][r] IN Covers(a, a.sub, a.meta, a.audit)
  <2>1. disk'["approval"][r] = disk["approval"][r] \/ (f = "approval" /\ disk'["approval"][r] = v)
    BY <1>1 DEF Files
  <2> QED
    BY <1>2, <2>1 DEF ApprovalIsEarned
<1> QED
  BY <1>1, <1>2 DEF ApprovalIsEarned, There, Covers

\* A package is looked for under a revision and a checksum.
LEMMA Keyed ==
  ASSUME CallsOK, NEW p \in Tabs, Exporting(p), call[p].at > 6
  PROVE  Key(p) \in Revisions \X Contents
<1> DEFINE c == call[p]
<1>1. CallOK(c) /\ c.kind = "export" /\ c \in Calls /\ c.at \in Nat /\ c.kind # "none"
  BY DEF CallsOK, Exporting, CallOK, Calls
<1>2. Achieved(c, Script["export"][2])
  <2>1. 2 \in 1 .. c.at - 1
    BY <1>1
  <2> QED
    BY <1>1, <2>1 DEF CallOK
<1>3. Script["export"][2] = <<"take", "bytes">>
  <2>1. 2 \in 1 .. 11
    OBVIOUS
  <2> QED
    BY <2>1, ExportSteps, CandidateSteps DEF Exports
<1>4. c.got["bytes"] \in Contents
  BY <1>2, <1>3, FileValues DEF Achieved
<1>5. c.rev \in Revisions
  BY <1>1 DEF Calls
<1> QED
  BY <1>4, <1>5 DEF Key, Got

\* A call that goes on, while packages stay, still has its directory.
LEMMA DirectoryKept ==
  ASSUME CallsOK, DirectoryMade, NEW p \in Tabs, Follower(call[p], call'[p]),
         \A r \in Tabs \ {p} : call'[r] = call[r],
         \A k : packages[k].exists => packages'[k].exists,
         call'[p].kind # "none" /\ Exporting(p) /\ call[p].at = 35 => packages'[Key(p)].exists
  PROVE  DirectoryMade'
<1> SUFFICES ASSUME NEW r \in Tabs, call'[r].kind = "export", call'[r].at > 35
             PROVE  packages'[<<call'[r].rev, call'[r].got["bytes"]>>].exists
  BY DEF DirectoryMade, Exporting, Package, Key, Got
<1>1. CASE r # p
  BY <1>1 DEF DirectoryMade, Exporting, Package, Key, Got
<1>2. CASE r = p
  <2> DEFINE c == call[p]
             d == call'[p]
  <2>1. CallOK(c) /\ c \in Calls
    BY DEF CallsOK, CallOK
  <2>2. /\ c.kind = "export" /\ d.rev = c.rev /\ d.at = c.at + 1
        /\ \/ d.got = c.got
           \/ /\ Script[c.kind][c.at][1] \in {"take", "ask"}
              /\ \A f \in Files \ {Script[c.kind][c.at][2]} : d.got[f] = c.got[f]
    BY <1>2 DEF Follower
  <2>3. c.at \in 1 .. 125 /\ c.at >= 35
    <3>1. c.at \in 1 .. 125
      BY <2>1, <2>2, AnyStep
    <3> QED
      BY <1>2, <2>2, <3>1
  <2>4. d.got["bytes"] = c.got["bytes"]
    <3>1. Script["export"][c.at][1] \in {"take", "ask"} => Script["export"][c.at][2] = "master"
      <4>1. /\ Script["export"][c.at][1] \notin {"ask", "make", "put"}
            /\ Script["export"][c.at][1] = "take" => Script["export"][c.at][2] = "master" \/ c.at <= 6
        BY <2>3, ExportVerbs
      <4> QED
        BY <2>3, <4>1
    <3> QED
      BY <2>2, <3>1 DEF Files
  <2>5. packages'[<<c.rev, c.got["bytes"]>>].exists
    <3>1. CASE c.at > 35
      <4>1. Package(p).exists
        BY <2>2, <3>1 DEF DirectoryMade, Exporting
      <4> QED
        BY <1>2, <2>2, <2>3, <3>1, <4>1 DEF Package, Key, Got
    <3>2. CASE ~(c.at > 35)
      <4>1. c.at = 35
        BY <2>3, <3>2
      <4>2. Exporting(p) /\ call'[p].kind # "none"
        BY <1>2, <2>2 DEF Exporting
      <4> QED
        BY <4>1, <4>2 DEF Key, Got
    <3> QED
      BY <3>1, <3>2
  <2> QED
    BY <1>2, <2>2, <2>4, <2>5
<1> QED
  BY <1>1, <1>2

LEMMA Checks ==
  ASSUME CallsOK, NEW p \in Tabs, Check(p)
  PROVE  CallsOK' /\ Follower(call[p], call'[p]) /\ \A r \in Tabs \ {p} : call'[r] = call[r]
<1>1. Verb(p) \notin {"take", "ask"} /\ Advance(p) /\ Running(p)
  BY DEF Check, At, Comparisons
<1>2. CallOK(call[p]) /\ call[p].kind # "none"
  BY <1>1 DEF Running, CallsOK
<1>3. Verb(p) = "gate" => Agreed(call[p])
  <2> SUFFICES ASSUME Verb(p) = "gate" PROVE Agreed(call[p])
    OBVIOUS
  <2>1. IF call[p].kind = "approve" THEN GateOn(Got(p), None) = "ready"
        ELSE GateOn(Got(p), Got(p)["approval"]) = "clear"
    BY DEF Check, Passes
  <2>2. call[p].kind \in {"approve", "export"}
    <3>1. call[p].kind # "export" => SaveVerbs(call[p].kind, call[p].at, StepOf(p))
      BY <1>2, AnyStep DEF StepOf
    <3> QED
      BY <3>1 DEF SaveVerbs, Verb
  <2> QED
    BY <2>1, <2>2 DEF GateOn, GateOf, Agreed, Got
<1> QED
  BY <1>1, <1>3, Onwards

LEMMA StepMoves ==
  ASSUME CallsOK, DiskOK, NEW p \in Tabs, Step(p)
  PROVE  CallsOK' /\ Follower(call[p], call'[p]) /\ \A r \in Tabs \ {p} : call'[r] = call[r]
<1>1. CASE Check(p)
  BY <1>1, Checks
<1>2. CASE TakeFile(p) \/ \E b \in BOOLEAN : Ask(p, b)
  BY <1>2, HasTaken
<1>3. CASE Refuse(p)
  BY <1>3, Leaves DEF Refuse
<1>4. CASE Make(p) \/ Put(p) \/ Directory(p) \/ Copy(p) \/ Mark(p) \/ Commit(p)
  <2>1. Running(p) /\ Verb(p) \notin {"take", "ask", "gate"} /\ Advance(p)
    BY <1>4 DEF Make, Put, Directory, Copy, Mark, Commit, Packing, At
  <2> QED
    BY <2>1, Onwards
<1> QED
  BY <1>1, <1>2, <1>3, <1>4 DEF Step

LEMMA StepsKeepInv ==
  ASSUME EvidenceInv, NEW p \in Tabs, Check(p) \/ TakeFile(p) \/ Refuse(p) \/ GiveUp(p) \/ \E b \in BOOLEAN : Ask(p, b)
  PROVE  EvidenceInv'
<1>1. UNCHANGED <<disk, packages, calls, edits, calm, plan>> /\ CallsOK /\ DiskOK /\ DirectoryMade
  BY DEF EvidenceInv, Check, TakeFile, Refuse, GiveUp, Ask
<1>2. Running(p) /\ CallOK(call[p]) /\ call[p].kind # "none"
  BY <1>1 DEF Check, TakeFile, Refuse, GiveUp, Ask, At, Running, CallsOK
<1>3. CallsOK' /\ Follower(call[p], call'[p]) /\ \A r \in Tabs \ {p} : call'[r] = call[r]
  <2>1. CASE Check(p)
    BY <1>1, <2>1, Checks
  <2>2. CASE TakeFile(p) \/ \E b \in BOOLEAN : Ask(p, b)
    BY <1>1, <2>2, HasTaken
  <2>3. CASE Refuse(p) \/ GiveUp(p)
    <3>1. Leave(p)
      BY <2>3 DEF Refuse, GiveUp
    <3> QED
      BY <1>1, <3>1, Leaves
  <2> QED
    BY <2>1, <2>2, <2>3
<1>4. call'[p].kind # "none" /\ Exporting(p) /\ call[p].at = 35 => packages'[Key(p)].exists
  <2> SUFFICES ASSUME call'[p].kind # "none", Exporting(p), call[p].at = 35 PROVE FALSE
    OBVIOUS
  <2>1. StepOf(p) = <<"dir", "package">>
    BY ExportSteps DEF Exports, StepOf, Exporting
  <2>2. Verb(p) = "dir"
    BY <2>1 DEF Verb
  <2>3. GiveUp(p)
    BY <2>2 DEF Check, TakeFile, Refuse, Ask, At, Comparisons
  <2>4. Leave(p)
    BY <2>3 DEF GiveUp
  <2> QED
    BY <1>1, <2>4, Leaves
<1>5. DirectoryMade'
  BY <1>1, <1>3, <1>4, DirectoryKept
<1>6. DiskOK' /\ PackagesOK' /\ CountersOK' /\ ApprovalIsEarned'
  BY <1>1 DEF EvidenceInv, DiskOK, PackagesOK, CountersOK, ApprovalIsEarned
<1> QED
  BY <1>3, <1>5, <1>6 DEF EvidenceInv

LEMMA SavesKeepInv ==
  ASSUME EvidenceInv, NEW p \in Tabs, Make(p) \/ Put(p)
  PROVE  EvidenceInv'
<1> DEFINE c == call[p]
           s == Script[c.kind][c.at]
<1>1. /\ UNCHANGED <<packages, calls, edits, calm, plan>> /\ CallsOK /\ DiskOK /\ DirectoryMade
      /\ Running(p) /\ Verb(p) \in {"make", "put"} /\ Advance(p)
  BY DEF EvidenceInv, Make, Put, At
<1>2. CallOK(c) /\ c.kind # "none" /\ c.rev \in Revisions
  BY <1>1 DEF Running, CallsOK, Calls
<1>3. CallsOK' /\ Follower(call[p], call'[p]) /\ \A r \in Tabs \ {p} : call'[r] = call[r]
  BY <1>1, Onwards
<1>4. s[1] = Verb(p) /\ s[2] = Name(p)
  BY DEF Verb, Name, StepOf
<1>5. c.kind # "export"
  <2>1. ASSUME c.kind = "export" PROVE c.at \in 1 .. 125
    BY <1>2, <2>1, AnyStep
  <2> QED
    BY <1>1, <1>4, <2>1, ExportVerbs
<1>6. Name(p) \in {"metadata", "audit", "master", "approval"}
  <2>1. SaveVerbs(c.kind, c.at, s) /\ c.kind \in Kinds
    BY <1>2, <1>5, AnyStep
  <2>2. Name(p) = Target[c.kind]
    BY <1>1, <1>4, <2>1 DEF SaveVerbs
  <2> QED
    BY <1>5, <2>1, <2>2 DEF Target, Kinds
<1>7. PICK v \in ValuesOf(Name(p)) :
        /\ Onto(Name(p), c.rev, v)
        /\ Name(p) = "approval" => (There(v) => Covers(v, v.sub, v.meta, v.audit))
  <2>1. CASE Make(p)
    <3>1. Onto(Name(p), c.rev, IF Here(p) = None THEN Empty ELSE Here(p))
      BY <2>1 DEF Make
    <3>2. Here(p) \in ValuesOf(Name(p)) /\ Empty \in ValuesOf(Name(p))
      BY <1>1, <1>2, <1>6, FileValues DEF Here, DiskOK, Files
    <3>3. Name(p) = "approval" /\ There(Here(p)) => Covers(Here(p), Here(p).sub, Here(p).meta, Here(p).audit)
      BY <1>2 DEF Here, EvidenceInv, ApprovalIsEarned
    <3>4. ~There(Empty)
      BY DEF There
    <3> QED
      BY <3>1, <3>2, <3>3, <3>4
  <2>2. CASE Put(p)
    <3>1. Onto(Name(p), c.rev, Record(p)) /\ Verb(p) = "put"
      BY <2>2 DEF Put, At
    <3> QED
      BY <1>1, <3>1, Records
  <2> QED
    BY <2>1, <2>2
<1>8. DiskOK' /\ ApprovalIsEarned'
  <2>1. Name(p) \in Files /\ ApprovalIsEarned
    BY <1>6 DEF Files, EvidenceInv
  <2> QED
    BY <1>1, <1>2, <1>7, <2>1, EarnedKept
<1>9. DirectoryMade'
  <2>1. ASSUME Exporting(p) PROVE FALSE
    BY <1>5, <2>1 DEF Exporting
  <2> QED
    BY <1>1, <1>3, <2>1, DirectoryKept
<1> QED
  BY <1>1, <1>3, <1>8, <1>9 DEF EvidenceInv, PackagesOK, CountersOK

\* What a packing step needs to know: the package is there from the
\* directory's making on, and the new package is of the right type.
LEMMA PackingKeepsInv ==
  ASSUME EvidenceInv, NEW p \in Tabs, Running(p), NEW new \in Packs,
         Verb(p) \in {"dir", "copy", "mark", "commit"}, Packing(p, new),
         new.exists, \A f \in Parts : new.parts[f] \in ValuesOf(f) \union {None}
  PROVE  EvidenceInv'
<1>1. /\ UNCHANGED <<disk, calls, edits, calm, plan>> /\ CallsOK /\ DirectoryMade /\ PackagesOK
      /\ Advance(p) /\ packages' = [packages EXCEPT ![Key(p)] = new]
  BY DEF EvidenceInv, Packing
<1>2. CallsOK' /\ Follower(call[p], call'[p]) /\ \A r \in Tabs \ {p} : call'[r] = call[r]
  BY <1>1, Onwards
<1>3. \A k \in Revisions \X Contents : packages'[k] = packages[k] \/ packages'[k] = new
  BY <1>1 DEF PackagesOK
<1>4. \A k : packages[k].exists => packages'[k].exists
  BY <1>1 DEF PackagesOK
<1>5. Exporting(p) /\ call[p].at = 35 => packages'[Key(p)].exists
  BY <1>1, Keyed DEF PackagesOK
<1>6. DirectoryMade'
  BY <1>1, <1>2, <1>4, <1>5, DirectoryKept
<1>7. PackagesOK'
  <2>1. packages' \in [Revisions \X Contents -> Packs]
    BY <1>1 DEF PackagesOK
  <2>2. \A k \in Revisions \X Contents, f \in Parts : packages'[k].parts[f] \in ValuesOf(f) \union {None}
    BY <1>1, <1>3 DEF PackagesOK
  <2>3. \A k \in Revisions \X Contents : ~packages'[k].exists => packages'[k] = NoPackage
    BY <1>1, <1>3 DEF PackagesOK
  <2> QED
    BY <2>1, <2>2, <2>3 DEF PackagesOK
<1>8. DiskOK' /\ CountersOK' /\ ApprovalIsEarned'
  BY <1>1 DEF EvidenceInv, DiskOK, CountersOK, ApprovalIsEarned
<1> QED
  BY <1>2, <1>6, <1>7, <1>8 DEF EvidenceInv

LEMMA CandidateTyped ==
  ASSUME CallsOK, NEW p \in Tabs, Exporting(p)
  PROVE  CandidateOf(p) \in [Parts -> Values] /\ \A f \in Parts : CandidateOf(p)[f] \in ValuesOf(f) \union {None}
<1>1. CallOK(call[p]) /\ call[p].kind # "none" /\ Parts \subseteq Files
  BY DEF CallsOK, Exporting, Parts
<1>2. \A f \in Files : call[p].held[f] \in ValuesOf(f) \union {None} /\ call[p].got[f] \in ValuesOf(f) \union {None}
  BY <1>1 DEF CallOK
<1>3. \A f \in Parts : CandidateOf(p)[f] \in ValuesOf(f) \union {None}
  BY <1>1, <1>2 DEF CandidateOf, Got
<1>4. \A f \in Parts : CandidateOf(p)[f] \in Values
  BY <1>1, <1>3, FileValues
<1>5. CandidateOf(p) = [f \in Parts |-> CandidateOf(p)[f]]
  BY DEF CandidateOf
<1> HIDE DEF CandidateOf
<1> QED
  BY <1>3, <1>4, <1>5

\* Only an export packs, at these steps.
LEMMA Packer ==
  ASSUME CallsOK, NEW p \in Tabs, Running(p), Verb(p) \in {"vacant", "dir", "fresh", "copy", "unmarked", "mark", "commit"}
  PROVE  /\ Exporting(p) /\ call[p].at \in 34 .. 125
         /\ Verb(p) = "vacant" => call[p].at = 34
         /\ Verb(p) = "dir" => call[p].at = 35
         /\ Verb(p) \in {"fresh", "copy"} => call[p].at \in 47 .. 56 /\ Name(p) \in Parts
         /\ Verb(p) = "unmarked" => call[p].at = 68
         /\ Verb(p) = "mark" => call[p].at = 80
         /\ Verb(p) = "commit" => call[p].at = 114
<1> DEFINE c == call[p]
           s == Script[c.kind][c.at]
<1>1. CallOK(c) /\ c.kind # "none"
  BY DEF CallsOK, Running
<1>2. s[1] = Verb(p) /\ s[2] = Name(p)
  BY DEF Verb, Name, StepOf
<1>3. c.kind = "export"
  <2>1. c.kind # "export" => SaveVerbs(c.kind, c.at, s)
    BY <1>1, AnyStep
  <2> QED
    BY <1>2, <2>1 DEF SaveVerbs
<1>4. c.at \in 1 .. 125
  BY <1>1, <1>3, AnyStep
<1>5. LET t == Script["export"][c.at] IN
         /\ t[1] = "vacant" => c.at = 34
         /\ t[1] = "dir" => c.at = 35
         /\ t[1] \in {"fresh", "copy"} => c.at \in 47 .. 56 /\ t[2] \in Parts
         /\ t[1] = "unmarked" => c.at = 68
         /\ t[1] = "mark" => c.at = 80
         /\ t[1] = "commit" => c.at = 114
  BY <1>4, ExportVerbs
<1> QED
  BY <1>2, <1>3, <1>4, <1>5 DEF Exporting

LEMMA ExportKeepsInv ==
  ASSUME EvidenceInv, NEW p \in Tabs, Directory(p) \/ Copy(p) \/ Mark(p) \/ Commit(p)
  PROVE  EvidenceInv'
<1>1. CallsOK /\ PackagesOK /\ DirectoryMade /\ Running(p) /\ Verb(p) \in {"dir", "copy", "mark", "commit"}
  BY DEF EvidenceInv, Directory, Copy, Mark, Commit, At
<1>2. /\ Exporting(p) /\ call[p].at \in 34 .. 125
      /\ Verb(p) # "dir" => call[p].at > 35
      /\ Verb(p) = "copy" => Name(p) \in Parts
  BY <1>1, Packer
<1>3. Key(p) \in Revisions \X Contents
  BY <1>1, <1>2, Keyed
<1>4. Package(p) \in Packs /\ \A f \in Parts : Package(p).parts[f] \in ValuesOf(f) \union {None}
  BY <1>1, <1>3 DEF PackagesOK, Package
<1>5. Verb(p) # "dir" => Package(p).exists
  BY <1>1, <1>2 DEF DirectoryMade
<1>6. CandidateOf(p) \in [Parts -> Values] /\ \A f \in Parts : CandidateOf(p)[f] \in ValuesOf(f) \union {None}
  BY <1>1, <1>2, CandidateTyped
<1> DEFINE old == Package(p)
           cand == CandidateOf(p)
<1> HIDE DEF old, cand
<1>7. /\ old \in Packs /\ \A f \in Parts : old.parts[f] \in ValuesOf(f) \union {None}
      /\ Verb(p) # "dir" => old.exists
      /\ cand \in [Parts -> Values] /\ \A f \in Parts : cand[f] \in ValuesOf(f) \union {None}
  BY <1>4, <1>5, <1>6 DEF old, cand
<1>8. CASE Directory(p)
  <2> DEFINE new == [old EXCEPT !.exists = TRUE]
  <2>1. Packing(p, new)
    BY <1>8 DEF Directory, old
  <2>2. new \in Packs /\ new.exists /\ new.parts = old.parts
    BY <1>7 DEF Packs
  <2> HIDE DEF new
  <2> QED
    BY <1>1, <1>7, <2>1, <2>2, PackingKeepsInv
<1>9. CASE Copy(p)
  <2> DEFINE new == [old EXCEPT !.parts[Name(p)] = cand[Name(p)]]
  <2>1. Packing(p, new) /\ Verb(p) = "copy"
    BY <1>9 DEF Copy, At, old, cand
  <2>2. /\ new \in Packs /\ new.exists
        /\ \A f \in Parts : new.parts[f] = IF f = Name(p) THEN cand[f] ELSE old.parts[f]
    BY <1>2, <1>7, <2>1 DEF Packs
  <2> HIDE DEF new
  <2>3. \A f \in Parts : new.parts[f] \in ValuesOf(f) \union {None}
    BY <1>7, <2>2
  <2> QED
    BY <1>1, <2>1, <2>2, <2>3, PackingKeepsInv
<1>10. CASE Mark(p)
  <2> DEFINE new == [old EXCEPT !.marker = IF @ = None THEN Empty ELSE @]
  <2>1. Packing(p, new) /\ Verb(p) = "mark"
    BY <1>10 DEF Mark, At, old
  <2>2. Empty \in Values
    BY FileValues DEF Files
  <2>3. new \in Packs /\ new.exists /\ new.parts = old.parts
    BY <1>7, <2>1, <2>2 DEF Packs
  <2> HIDE DEF new
  <2> QED
    BY <1>1, <1>7, <2>1, <2>3, PackingKeepsInv
<1>11. CASE Commit(p)
  <2> DEFINE new == [old EXCEPT !.marker = cand]
  <2>1. Packing(p, new) /\ Verb(p) = "commit"
    BY <1>11 DEF Commit, At, old, cand
  <2>2. new \in Packs /\ new.exists /\ new.parts = old.parts
    BY <1>7, <2>1 DEF Packs
  <2> HIDE DEF new
  <2> QED
    BY <1>1, <1>7, <2>1, <2>2, PackingKeepsInv
<1> QED
  BY <1>8, <1>9, <1>10, <1>11

LEMMA NeedsOfReaudit == {"bytes", "metadata"} \subseteq Needs["reaudit"]["same"]
<1>1. /\ Script["reaudit"][3] = <<"same", "bytes">> /\ Script["reaudit"][4] = <<"same", "metadata">>
      /\ DOMAIN Script["reaudit"] = 1 .. 13
  BY ReauditSteps, ScriptSteps DEF ReauditScript, Extent, Kinds
<1>2. /\ \E i \in DOMAIN Script["reaudit"] : Script["reaudit"][i] = <<"same", "bytes">>
      /\ \E i \in DOMAIN Script["reaudit"] : Script["reaudit"][i] = <<"same", "metadata">>
  BY <1>1
<1> QED
  BY <1>2 DEF Needs, Kinds, Files

LEMMA NeedsOfExport == "manifest" \in Needs["export"]["keep"]
<1>1. Script["export"][1] = <<"keep", "manifest">>
  <2>1. 1 \in 1 .. 11
    OBVIOUS
  <2> QED
    BY <2>1, ExportSteps, CandidateSteps DEF Exports
<1>2. DOMAIN Script["export"] = 1 .. 125
  BY ScriptSteps DEF Extent, Kinds
<1>3. \E i \in DOMAIN Script["export"] : Script["export"][i] = <<"keep", "manifest">>
  BY <1>1, <1>2
<1> QED
  BY <1>3 DEF Needs, Kinds, Files

LEMMA ScreenShows ==
  ASSUME DiskOK, NEW q \in Revisions, NEW f \in Files
  PROVE  /\ Screen(q)[f] = None \/ (Screen(q)[f] = disk[f][q] /\ disk[f][q] # Empty)
         /\ Screen(q)[f] \in ValuesOf(f) \union {None} /\ Screen(q)[f] \in Values
<1>1. Screen(q)[f] = None \/ (Screen(q)[f] = disk[f][q] /\ disk[f][q] # Empty)
  BY DEF Screen
<1> QED
  BY <1>1, FileValues DEF DiskOK

LEMMA BeginKeepsInv ==
  ASSUME EvidenceInv, NEW p \in Tabs, NEW k \in Kinds, NEW q \in Revisions, NEW content \in Contents,
         Begin(p, k, q, content)
  PROVE  EvidenceInv'
<1> DEFINE seen == Screen(q)
           held == Needed(k, "keep", seen)
           got  == IF k = "metadata" THEN [Nothing EXCEPT !["metadata"] = content] ELSE Needed(k, "same", seen)
           d == [kind |-> k, rev |-> q, at |-> 1, n |-> calls', held |-> held, got |-> got]
<1>1. /\ UNCHANGED <<disk, packages, edits, calm, plan>> /\ CallsOK /\ DirectoryMade /\ DiskOK
      /\ call' = [call EXCEPT ![p] = d] /\ calls' = calls + 1 /\ calls < MaxCalls /\ MayBegin(k, q, seen)
      /\ calls \in Stamps
  BY DEF EvidenceInv, CountersOK, Begin
<1>2. calls' \in Stamps
  BY <1>1, EvidenceBounds DEF Stamps
<1>3. \A f \in Files : seen[f] \in ValuesOf(f) \union {None} /\ seen[f] \in Values
  BY <1>1, ScreenShows
<1> HIDE DEF seen
<1>4. held \in [Files -> Values] /\ \A f \in Files : held[f] \in ValuesOf(f) \union {None}
  BY <1>3, FileValues DEF Needed
<1>5. got \in [Files -> Values] /\ \A f \in Files : got[f] \in ValuesOf(f) \union {None}
  <2>1. CASE k = "metadata"
    <3>1. content \in ValuesOf("metadata") /\ content \in Values /\ "metadata" \in Files
      BY FileValues DEF Files
    <3> QED
      BY <2>1, <3>1, FileValues DEF Nothing
  <2>2. CASE k # "metadata"
    BY <1>3, <2>2, FileValues DEF Needed
  <2> QED
    BY <2>1, <2>2
<1>6. k = "metadata" => got["metadata"] = content
  BY DEF Nothing, Files
<1>7. k = "reaudit" => got["metadata"] \in Contents /\ got["bytes"] \in Contents
  <2> SUFFICES ASSUME k = "reaudit" PROVE got["metadata"] \in Contents /\ got["bytes"] \in Contents
    OBVIOUS
  <2>1. got["metadata"] = seen["metadata"] /\ got["bytes"] = seen["bytes"]
    BY NeedsOfReaudit DEF Needed, Files
  <2>2. seen["metadata"] # None
    BY <1>1 DEF MayBegin
  <2>3. /\ seen["metadata"] = None \/ (seen["metadata"] = disk["metadata"][q] /\ disk["metadata"][q] # Empty)
        /\ disk["metadata"][q] \in Contents \union {None, Empty}
    BY <1>1, ScreenShows, FileValues DEF seen, Files, DiskOK
  <2>4. seen["bytes"] = disk["bytes"][q] /\ disk["bytes"][q] \in Contents
    <3>1. disk["bytes"][q] \in Contents
      BY <1>1, FileValues DEF DiskOK, Files
    <3> QED
      BY <3>1, NoFileAssumption DEF seen, Screen, Files
  <2> QED
    BY <2>1, <2>2, <2>3, <2>4
<1>13. k = "export" => held["manifest"] = q
  BY <1>1, NeedsOfExport DEF Needed, MayBegin, Files
<1> HIDE DEF held, got
<1>8. CallOK(d)
  <2>1. d \in Calls
    BY <1>2, <1>4, <1>5 DEF Calls
  <2>2. 1 \in 1 .. Extent[k]
    BY DEF Extent, Kinds
  <2>3. /\ d.kind = k /\ d.at = 1 /\ d.held = held /\ d.got = got /\ d.rev = q
    OBVIOUS
  <2> HIDE DEF d
  <2>4. d.at - 1 = 0 /\ \A i : ~(i \in 1 .. d.at - 1)
    BY <2>3
  <2> QED
    BY <1>4, <1>5, <1>6, <1>7, <1>13, <2>1, <2>2, <2>3, <2>4 DEF CallOK
<1>9. CallsOK' /\ call'[p] = d /\ \A r \in Tabs \ {p} : call'[r] = call[r]
  <2> HIDE DEF d
  <2> QED
    BY <1>1, <1>8, CallTaken
<1>10. d.at = 1
  OBVIOUS
<1> HIDE DEF d
<1>11. DirectoryMade'
  BY <1>1, <1>9, <1>10 DEF DirectoryMade, Exporting, Package, Key, Got
<1>12. DiskOK' /\ PackagesOK' /\ CountersOK' /\ ApprovalIsEarned'
  BY <1>1, <1>2 DEF EvidenceInv, DiskOK, PackagesOK, CountersOK, ApprovalIsEarned
<1> QED
  BY <1>9, <1>11, <1>12 DEF EvidenceInv

LEMMA EditKeepsInv ==
  ASSUME EvidenceInv, NEW f \in Files, NEW q \in Revisions, NEW v, Edit(f, q, v)
  PROVE  EvidenceInv'
<1>1. /\ UNCHANGED <<packages, call, calls, calm, plan>> /\ CallsOK /\ DirectoryMade /\ DiskOK /\ ApprovalIsEarned
      /\ Onto(f, q, v) /\ edits' = edits + 1 /\ edits < MaxEdits /\ edits \in 0 .. MaxEdits
  BY DEF EvidenceInv, CountersOK, Edit, Outside
<1>2. v \in ValuesOf(f)
  BY FileValues DEF Edit, Files
<1>3. f = "approval" => ~There(v)
  BY DEF Edit, There
<1>4. DiskOK' /\ ApprovalIsEarned'
  BY <1>1, <1>2, <1>3, EarnedKept
<1>5. edits' \in 0 .. MaxEdits
  BY <1>1, EvidenceBounds
<1>6. CallsOK' /\ DirectoryMade' /\ PackagesOK' /\ CountersOK'
  BY <1>1, <1>5 DEF EvidenceInv, CallsOK, DirectoryMade, Exporting, Package, Key, Got, PackagesOK, CountersOK
<1> QED
  BY <1>4, <1>6 DEF EvidenceInv

LEMMA InitOK == EvidenceInit => EvidenceInv
<1> SUFFICES ASSUME EvidenceInit PROVE EvidenceInv
  OBVIOUS
<1>1. /\ 1 \in Revisions /\ LastRevision \in Revisions /\ 1 \in Contents /\ 0 \in Stamps /\ 0 \in 0 .. MaxEdits
  BY DataAssumption, EvidenceBounds DEF Revisions, Stamps
<1>2. \A m \in Contents : Passed(m) \in Audits /\ Consent(m) \in Approvals
  BY <1>1 DEF Passed, Consent, Audits, Approvals
<1>3. [rev |-> LastRevision, sum |-> 1, n |-> 0] \in Masters
  BY <1>1 DEF Masters
<1>4. CallsOK /\ DirectoryMade
  <2>1. \A p \in Tabs : call[p] = Idle
    BY DEF EvidenceInit
  <2>2. Idle.kind = "none"
    BY DEF Idle
  <2>3. call \in [Tabs -> Calls]
    BY IdleOK DEF EvidenceInit
  <2> QED
    BY <2>1, <2>2, <2>3, IdleOK DEF CallsOK, DirectoryMade, Exporting
<1>5. CountersOK
  BY <1>1 DEF EvidenceInit, CountersOK
<1>6. /\ Fresh \in [Files -> [Revisions -> Values]] /\ Fresh["manifest"] = On(1) /\ Fresh["bytes"] = On(1)
      /\ \A f \in Files \ {"manifest", "bytes"} : Fresh[f] = On(None)
  <2>1. On(1) \in [Revisions -> Values] /\ On(None) \in [Revisions -> Values]
    BY <1>1, FileValues DEF On, Files
  <2>2. /\ DOMAIN Fresh = Files /\ Fresh["manifest"] = On(1) /\ Fresh["bytes"] = On(1)
        /\ \A f \in Files \ {"manifest", "bytes"} : Fresh[f] = On(None)
        /\ Fresh = [f \in Files |-> Fresh[f]]
    BY DEF Fresh, Files
  <2> QED
    BY <2>1, <2>2
<1>7. \A q \in Revisions : On(1)[q] = 1 /\ On(None)[q] = None /\ On(LastRevision)[q] = LastRevision
  BY DEF On
<1>8. ASSUME disk = Fresh PROVE DiskOK /\ ApprovalIsEarned
  <2>1. DiskOK
    <3>1. \A f \in Files, q \in Revisions : disk[f][q] \in ValuesOf(f)
      BY <1>1, <1>6, <1>7, <1>8, FileValues DEF Files
    <3>2. \A f \in Shared, q \in Revisions : disk[f][q] = disk[f][1]
      BY <1>1, <1>6, <1>7, <1>8 DEF Shared, Files
    <3> QED
      BY <1>6, <1>8, <3>1, <3>2 DEF DiskOK
  <2>2. ApprovalIsEarned
    BY <1>6, <1>7, <1>8 DEF ApprovalIsEarned, There, Files
  <2> QED
    BY <2>1, <2>2
<1>9. ASSUME disk = Approved PROVE DiskOK /\ ApprovalIsEarned
  <2> DEFINE m == [rev |-> LastRevision, sum |-> 1, n |-> 0]
             au == [On(None) EXCEPT ![LastRevision] = Passed(1)]
             ap == [On(None) EXCEPT ![LastRevision] = Consent(1)]
  <2>1. /\ disk["manifest"] = On(LastRevision) /\ disk["bytes"] = On(1) /\ disk["metadata"] = On(1)
        /\ disk["master"] = On(m) /\ disk["audit"] = au /\ disk["approval"] = ap
        /\ disk = [f \in Files |-> disk[f]]
    BY <1>6, <1>9 DEF Approved, Files
  <2>2. /\ On(LastRevision) \in [Revisions -> Values] /\ On(1) \in [Revisions -> Values]
        /\ On(m) \in [Revisions -> Values] /\ au \in [Revisions -> Values] /\ ap \in [Revisions -> Values]
    <3>1. /\ LastRevision \in Values /\ 1 \in Values /\ None \in Values /\ m \in Values
          /\ Passed(1) \in Values /\ Consent(1) \in Values
      BY <1>1, <1>2, <1>3, FileValues DEF Files
    <3> HIDE DEF m
    <3> QED
      BY <3>1 DEF On
  <2>3. \A q \in Revisions : /\ On(m)[q] = m
                             /\ au[q] = IF q = LastRevision THEN Passed(1) ELSE None
                             /\ ap[q] = IF q = LastRevision THEN Consent(1) ELSE None
    BY DEF On
  <2>4. m \in Masters
    BY <1>3
  <2> HIDE DEF m, au, ap
  <2>5. disk \in [Files -> [Revisions -> Values]]
    <3>1. \A f \in Files : disk[f] \in [Revisions -> Values]
      BY <2>1, <2>2 DEF Files
    <3> QED
      BY <2>1, <3>1
  <2>6. \A f \in Files, q \in Revisions : disk[f][q] \in ValuesOf(f)
    <3> SUFFICES ASSUME NEW q \in Revisions PROVE \A f \in Files : disk[f][q] \in ValuesOf(f)
      OBVIOUS
    <3>1. disk["manifest"][q] \in Revisions /\ disk["bytes"][q] \in Contents /\ disk["metadata"][q] \in Contents
      BY <1>1, <1>7, <2>1
    <3>2. disk["master"][q] \in Masters /\ disk["audit"][q] \in Audits \union {None} /\ disk["approval"][q] \in Approvals \union {None}
      BY <1>1, <1>2, <2>1, <2>3, <2>4
    <3> QED
      BY <3>1, <3>2, FileValues DEF Files
  <2>7. \A f \in Shared, q \in Revisions : disk[f][q] = disk[f][1]
    BY <1>1, <1>7, <2>1, <2>3 DEF Shared
  <2>8. ApprovalIsEarned
    <3> SUFFICES ASSUME NEW q \in Revisions, There(disk["approval"][q])
                 PROVE  LET a == disk["approval"][q] IN Covers(a, a.sub, a.meta, a.audit)
      BY DEF ApprovalIsEarned
    <3>1. disk["approval"][q] = Consent(1)
      BY <2>1, <2>3 DEF There
    <3> QED
      BY <3>1 DEF Consent, Passed, Covers
  <2> QED
    BY <2>5, <2>6, <2>7, <2>8 DEF DiskOK
<1>10. DiskOK /\ ApprovalIsEarned
  BY <1>8, <1>9 DEF EvidenceInit
<1>11. NoPackage \in Packs /\ \A f \in Parts : NoPackage.parts[f] = None
  BY FileValues DEF NoPackage, Packs
<1>12. \A m \in Contents : /\ Exported(m) \in Packs /\ Exported(m).exists
                           /\ \A f \in Parts : Exported(m).parts[f] \in ValuesOf(f)
  <2> SUFFICES ASSUME NEW m \in Contents
               PROVE  /\ Exported(m) \in Packs /\ Exported(m).exists
                      /\ \A f \in Parts : Exported(m).parts[f] \in ValuesOf(f)
    OBVIOUS
  <2> DEFINE parts == [manifest |-> LastRevision, bytes |-> 1, metadata |-> m, audit |-> Passed(m),
                       approval |-> Consent(m)]
  <2>1. Exported(m) = [exists |-> TRUE, parts |-> parts, marker |-> parts]
    BY DEF Exported
  <2>2. DOMAIN parts = Parts
    BY DEF Parts, Files
  <2>3. \A f \in Parts : parts[f] \in ValuesOf(f) /\ parts[f] \in Values
    <3>1. /\ parts["manifest"] = LastRevision /\ parts["bytes"] = 1 /\ parts["metadata"] = m
          /\ parts["audit"] = Passed(m) /\ parts["approval"] = Consent(m)
      OBVIOUS
    <3> HIDE DEF parts
    <3>2. \A f \in Parts : parts[f] \in ValuesOf(f)
      BY <1>1, <1>2, <3>1, FileValues DEF Parts, Files
    <3> QED
      BY <3>2, FileValues DEF Parts
  <2>4. parts = [f \in Parts |-> parts[f]]
    BY <2>2
  <2> HIDE DEF parts
  <2>5. parts \in [Parts -> Values]
    BY <2>3, <2>4
  <2> QED
    BY <2>1, <2>3, <2>5 DEF Packs
<1>13. PackagesOK
  <2>1. Unexported \in [Revisions \X Contents -> Packs] /\ \A k \in Revisions \X Contents : Unexported[k] = NoPackage
    BY <1>11 DEF Unexported
  <2>2. CASE packages = Unexported
    BY <1>11, <2>1, <2>2 DEF PackagesOK
  <2>3. ASSUME NEW m \in Contents, packages = [Unexported EXCEPT ![<<LastRevision, 1>>] = Exported(m)]
        PROVE  PackagesOK
    <3>1. /\ packages \in [Revisions \X Contents -> Packs]
          /\ \A k \in Revisions \X Contents : packages[k] = NoPackage \/ packages[k] = Exported(m)
      BY <1>12, <2>1, <2>3
    <3>2. \A k \in Revisions \X Contents, f \in Parts : packages[k].parts[f] \in ValuesOf(f) \union {None}
      BY <1>11, <1>12, <3>1
    <3>3. \A k \in Revisions \X Contents : ~packages[k].exists => packages[k] = NoPackage
      BY <1>12, <3>1
    <3> QED
      BY <3>1, <3>2, <3>3 DEF PackagesOK
  <2> QED
    BY <2>2, <2>3 DEF EvidenceInit
<1> QED
  BY <1>4, <1>5, <1>10, <1>13 DEF EvidenceInv

LEMMA NextKeepsInv == EvidenceInv /\ [EvidenceNext]_evidenceVars => EvidenceInv'
<1> SUFFICES ASSUME EvidenceInv, [EvidenceNext]_evidenceVars PROVE EvidenceInv'
  OBVIOUS
<1>1. CASE UNCHANGED evidenceVars
  BY <1>1 DEF evidenceVars, EvidenceInv, DiskOK, PackagesOK, CallsOK, CountersOK, DirectoryMade,
              Exporting, Package, Key, Got, ApprovalIsEarned
<1>2. ASSUME NEW p \in Tabs, Step(p) \/ GiveUp(p) PROVE EvidenceInv'
  BY <1>2, StepsKeepInv, SavesKeepInv, ExportKeepsInv DEF Step
<1>3. ASSUME NEW p \in Tabs, NEW k \in plan.kinds, NEW q \in Revisions, NEW c \in Contents, Begin(p, k, q, c)
      PROVE  EvidenceInv'
  <2>1. k \in Kinds
    BY EvidenceBounds DEF EvidenceInv, CountersOK
  <2> QED
    BY <1>3, <2>1, BeginKeepsInv
<1>4. ASSUME NEW f \in Files, NEW q \in Revisions, NEW v \in Contents \union Revisions \union {None}, Edit(f, q, v)
      PROVE  EvidenceInv'
  BY <1>4, EditKeepsInv
<1> QED
  BY <1>1, <1>2, <1>3, <1>4 DEF EvidenceNext

LEMMA InvAlways == EvidenceSpec => []EvidenceInv
<1>1. EvidenceInit => EvidenceInv
  BY InitOK
<1>2. EvidenceInv /\ [EvidenceNext]_evidenceVars => EvidenceInv'
  BY NextKeepsInv
<1> QED
  BY <1>1, <1>2, PTL DEF EvidenceSpec

\* The files hold records of their kinds, a file that all revisions share is
\* one file, a package that is not there holds nothing, and a call is at a step
\* of its script with records of the right files (the schemas every store parses
\* before it writes, project-manifest.ts and its neighbours).
THEOREM EvidenceTypeCorrect == EvidenceSpec => []EvidenceTypeOK
<1>1. EvidenceInv => EvidenceTypeOK
  <2> SUFFICES ASSUME EvidenceInv PROVE EvidenceTypeOK
    OBVIOUS
  <2>1. \A f \in Files : disk[f] \in [Revisions -> ValuesOf(f)]
    BY DEF EvidenceInv, DiskOK
  <2>2. \A f \in Shared : \A q \in Revisions : disk[f][q] = disk[f][1]
    BY DEF EvidenceInv, DiskOK
  <2>3. \A k \in Revisions \X Contents :
          /\ packages[k].exists \in BOOLEAN
          /\ \A f \in Parts : packages[k].parts[f] \in ValuesOf(f) \union {None}
          /\ ~packages[k].exists => packages[k] = NoPackage
    BY DEF EvidenceInv, PackagesOK, Packs
  <2>4. ASSUME NEW p \in Tabs, Running(p)
        PROVE  /\ call[p].kind \in Kinds /\ call[p].rev \in Revisions
               /\ call[p].at \in DOMAIN Script[call[p].kind]
               /\ \A f \in Files : call[p].held[f] \in ValuesOf(f) \union {None} /\ call[p].got[f] \in ValuesOf(f) \union {None}
    <3>1. CallOK(call[p]) /\ call[p].kind # "none"
      BY <2>4 DEF EvidenceInv, CallsOK, Running
    <3>2. call[p].kind \in Kinds /\ call[p].at \in 1 .. Extent[call[p].kind]
      BY <3>1, AnyStep
    <3>3. DOMAIN Script[call[p].kind] = 1 .. Extent[call[p].kind]
      BY <3>2, ScriptSteps
    <3> QED
      BY <3>1, <3>2, <3>3 DEF CallOK, Calls
  <2>5. CountersOK
    BY DEF EvidenceInv
  <2> QED
    BY <2>1, <2>2, <2>3, <2>4, <2>5 DEF EvidenceTypeOK, CountersOK
<1> QED
  BY <1>1, InvAlways, PTL

\* Whatever was saved, edited, audited again or selected meanwhile, an approval
\* in the folder was given for an audit of exactly the submission and metadata
\* it names, without a blocking finding (approveCurrentRevision).
THEOREM ApprovalAlwaysEarned == EvidenceSpec => []ApprovalIsEarned
<1>1. EvidenceInv => ApprovalIsEarned
  BY DEF EvidenceInv
<1> QED
  BY <1>1, InvAlways, PTL

-----------------------------------------------------------------------------
(* What a call has compared in closing still holds while nobody disturbs    *)
(* it.                                                                      *)

\* The closing steps of a script are those after Opening up to Ending.
Opening == [metadata |-> 2, audit |-> 6, reaudit |-> 6, master |-> 4, approve |-> 19, export |-> 102]
Ending  == [Extent EXCEPT !["export"] = 114]
Closes(c) == c.kind # "none" /\ c.at \in Opening[c.kind] + 1 .. Ending[c.kind]

LEMMA ClosingSteps ==
  ASSUME NEW c, CallOK(c), c.kind # "none"
  PROVE  /\ Closes(c) <=> LET first == Len(Body[c.kind]) IN c.at \in first + 1 .. first + Len(Closing[c.kind])
         /\ Opening[c.kind] \in 2 .. 102 /\ Ending[c.kind] \in Nat
         /\ c.kind # "export" => Ending[c.kind] = Extent[c.kind] /\ Extent[c.kind] \in 6 .. 26
<1>1. c.kind \in Kinds
  BY AnyStep
<1>2. Len(Body[c.kind]) = Opening[c.kind] /\ Len(Body[c.kind]) + Len(Closing[c.kind]) = Ending[c.kind]
  <2>1. CASE c.kind = "metadata"
    BY <2>1, MetadataSteps DEF Opening, Ending, Extent
  <2>2. CASE c.kind = "audit"
    BY <2>2, AuditSteps DEF Opening, Ending, Extent
  <2>3. CASE c.kind = "reaudit"
    BY <2>3, ReauditSteps DEF Opening, Ending, Extent
  <2>4. CASE c.kind = "master"
    BY <2>4, MasterCallSteps DEF Opening, Ending, Extent
  <2>5. CASE c.kind = "approve"
    BY <2>5, ApproveSteps DEF Opening, Ending, Extent
  <2>6. CASE c.kind = "export"
    BY <2>6, ExportSteps DEF Opening, Ending, Extent
  <2> QED
    BY <1>1, <2>1, <2>2, <2>3, <2>4, <2>5, <2>6 DEF Kinds
<1>3. /\ Opening[c.kind] \in 2 .. 102 /\ Ending[c.kind] \in Nat
      /\ c.kind # "export" => Ending[c.kind] = Extent[c.kind] /\ Extent[c.kind] \in 6 .. 26
  BY <1>1 DEF Opening, Ending, Extent, Kinds
<1> QED
  BY <1>2, <1>3 DEF Closes

LEMMA InClosingIs ==
  ASSUME CallsOK
  PROVE  \A p \in Tabs : InClosing(p) <=> Closes(call[p])
BY ClosingSteps DEF InClosing, Running, Closes, CallsOK

\* The closing of a save: comparisons, the last but one step makes the file,
\* the last writes it.
LEMMA SaveClosing ==
  ASSUME NEW k \in Kinds \ {"export"}, NEW i \in Opening[k] + 1 .. Extent[k]
  PROVE  LET s == Script[k][i] IN
         /\ s[1] \in {"keep", "same", "make", "put"} /\ s[2] \in Files
         /\ s[1] = "same" => s[2] # Target[k]
         /\ i = Extent[k] => s[1] = "put"
         /\ i = Extent[k] - 1 => s[1] = "make"
<1>1. CASE k = "metadata"
  <2>1. i \in 3 .. 6
    BY <1>1 DEF Opening, Extent
  <2>2. i = 3 \/ i = 4 \/ i = 5 \/ i = 6
    BY <2>1
  <2>3. LET e == Script["metadata"] IN
        /\ e[3] = <<"keep", "manifest">> /\ e[4] = <<"keep", "metadata">>
        /\ e[5] = <<"make", "metadata">> /\ e[6] = <<"put", "metadata">>
    BY MetadataSteps DEF MetadataScript
  <2> QED
    BY <1>1, <2>2, <2>3 DEF Files, Target, Extent
<1>2. CASE k = "audit"
  <2>1. i \in 7 .. 13
    BY <1>2 DEF Opening, Extent
  <2>2. i = 7 \/ i = 8 \/ i = 9 \/ i = 10 \/ i = 11 \/ i = 12 \/ i = 13
    BY <2>1
  <2>3. LET e == Script["audit"] IN
        /\ e[7] = <<"keep", "manifest">> /\ e[8] = <<"keep", "audit">> /\ e[9] = <<"keep", "manifest">>
        /\ e[10] = <<"same", "bytes">> /\ e[11] = <<"same", "metadata">>
        /\ e[12] = <<"make", "audit">> /\ e[13] = <<"put", "audit">>
    BY AuditSteps DEF AuditScript
  <2> QED
    BY <1>2, <2>2, <2>3 DEF Files, Target, Extent
<1>3. CASE k = "reaudit"
  <2>1. i \in 7 .. 13
    BY <1>3 DEF Opening, Extent
  <2>2. i = 7 \/ i = 8 \/ i = 9 \/ i = 10 \/ i = 11 \/ i = 12 \/ i = 13
    BY <2>1
  <2>3. LET e == Script["reaudit"] IN
        /\ e[7] = <<"keep", "manifest">> /\ e[8] = <<"keep", "audit">> /\ e[9] = <<"keep", "manifest">>
        /\ e[10] = <<"same", "bytes">> /\ e[11] = <<"same", "metadata">>
        /\ e[12] = <<"make", "audit">> /\ e[13] = <<"put", "audit">>
    BY ReauditSteps DEF ReauditScript
  <2> QED
    BY <1>3, <2>2, <2>3 DEF Files, Target, Extent
<1>4. CASE k = "master"
  <2>1. i \in 5 .. 9
    BY <1>4 DEF Opening, Extent
  <2>2. i = 5 \/ i = 6 \/ i = 7 \/ i = 8 \/ i = 9
    BY <2>1
  <2>3. LET e == Script["master"] IN
        /\ e[5] = <<"keep", "manifest">> /\ e[6] = <<"same", "bytes">> /\ e[7] = <<"keep", "master">>
        /\ e[8] = <<"make", "master">> /\ e[9] = <<"put", "master">>
    BY MasterCallSteps DEF MasterCallScript
  <2> QED
    BY <1>4, <2>2, <2>3 DEF Files, Target, Extent
<1>5. CASE k = "approve"
  <2>1. i \in 20 .. 26
    BY <1>5 DEF Opening, Extent
  <2>2. i = 20 \/ i = 21 \/ i = 22 \/ i = 23 \/ i = 24 \/ i = 25 \/ i = 26
    BY <2>1
  <2>3. LET e == Script["approve"] IN
        /\ e[20] = <<"keep", "manifest">> /\ e[21] = <<"keep", "approval">> /\ e[22] = <<"keep", "metadata">>
        /\ e[23] = <<"same", "audit">> /\ e[24] = <<"same", "master">>
        /\ e[25] = <<"make", "approval">> /\ e[26] = <<"put", "approval">>
    BY ApproveSteps DEF ApproveScript
  <2> QED
    BY <1>5, <2>2, <2>3 DEF Files, Target, Extent
<1> QED
  BY <1>1, <1>2, <1>3, <1>4, <1>5 DEF Kinds

\* The closing of an export: one verification, and the marker.
LEMMA ExportClosing ==
  LET e == Script["export"] IN
  /\ e[103] = <<"keep", "manifest">> /\ e[104] = <<"same", "bytes">> /\ e[105] = <<"same", "metadata">>
  /\ e[106] = <<"same", "metadata">> /\ e[107] = <<"same", "audit">> /\ e[108] = <<"same", "approval">>
  /\ e[109] = <<"take", "master">> /\ e[110] = <<"fits", "master">> /\ e[111] = <<"gate", "approval">>
  /\ e[112] = <<"same", "bytes">> /\ e[113] = <<"same", "approval">> /\ e[114] = <<"commit", "marker">>
<1> DEFINE e == Script["export"]
<1>1. \A i \in 1 .. 11 : e[102 + i] = Verify[i]
  <2>1. 102 \in Verified
    BY DEF Verified
  <2> QED
    BY <2>1, ExportSteps DEF Exports
<1>2. e[114] = <<"commit", "marker">>
  BY ExportSteps DEF Exports
<1> HIDE DEF e
<1>3. /\ e[103] = Verify[1] /\ e[104] = Verify[2] /\ e[105] = Verify[3] /\ e[106] = Verify[4]
      /\ e[107] = Verify[5] /\ e[108] = Verify[6] /\ e[109] = Verify[7] /\ e[110] = Verify[8]
      /\ e[111] = Verify[9] /\ e[112] = Verify[10] /\ e[113] = Verify[11]
  BY <1>1
<1> QED
  BY <1>2, <1>3, VerifySteps DEF e

\* A closing comparison the call has passed holds of the folder on; when the
\* file to be written was made meanwhile, it is empty.
Holds(c, i, on) ==
  LET s == Script[c.kind][i] IN
  /\ s[1] = "keep" => \/ on[s[2]][c.rev] = c.held[s[2]]
                      \/ /\ c.kind # "export" /\ c.at = Extent[c.kind] /\ s[2] = Target[c.kind]
                         /\ c.held[s[2]] = None /\ on[s[2]][c.rev] = Empty
  /\ s[1] \in {"same", "take"} => on[s[2]][c.rev] = c.got[s[2]]
  /\ s[1] = "fits" => on["bytes"][c.got["master"].rev] = c.got["master"].sum

StillHolds(c, on) == \A i \in Opening[c.kind] + 1 .. c.at - 1 : Holds(c, i, on)

Undisturbed ==
  calm => /\ \A p, r \in Tabs : Closes(call[p]) /\ Closes(call[r]) => p = r
          /\ \A p \in Tabs : Closes(call[p]) => StillHolds(call[p], disk)

\* A step of p leaves every other call alone.
LEMMA UndisturbedBy ==
  ASSUME Undisturbed, NEW p \in Tabs, calm' = calm, \A r \in Tabs \ {p} : call'[r] = call[r],
         calm => \A r \in Tabs \ {p} : ~Closes(call[r]),
         calm /\ Closes(call'[p]) => StillHolds(call'[p], disk')
  PROVE  Undisturbed'
<1> SUFFICES ASSUME calm
             PROVE  /\ \A r, t \in Tabs : Closes(call'[r]) /\ Closes(call'[t]) => r = t
                    /\ \A r \in Tabs : Closes(call'[r]) => StillHolds(call'[r], disk')
  BY DEF Undisturbed, Closes, StillHolds, Holds
<1>1. \A r \in Tabs \ {p} : ~Closes(call'[r])
  OBVIOUS
<1> QED
  BY <1>1

LEMMA TakenIsHere ==
  ASSUME CallsOK, NEW p \in Tabs, TakeFile(p)
  PROVE  call'[p].kind # "none" => call'[p].got[Name(p)] = Here(p)
<1> DEFINE o == Onward(call[p])
<1>1. CallOK(call[p]) /\ call[p].kind # "none" /\ call[p] \in Calls /\ Verb(p) = "take"
  BY DEF CallsOK, TakeFile, At, Running
<1>2. Name(p) \in Files
  BY <1>1, AnyStep DEF Name, Verb, StepOf
<1>3. o \in Calls
  <2>1. CASE o = Idle
    BY <2>1, IdleOK
  <2>2. CASE o = [call[p] EXCEPT !.at = @ + 1]
    BY <1>1, <2>2 DEF Calls
  <2> QED
    BY <2>1, <2>2 DEF Onward
<1>4. call'[p] = [o EXCEPT !.got[Name(p)] = Here(p)]
  BY DEF TakeFile, CallsOK
<1> HIDE DEF o
<1> QED
  BY <1>2, <1>3, <1>4 DEF Calls

\* What the step before it compared, for the call d that went on from c.
Compared(c, d, on) ==
  LET s == Script[c.kind][c.at] IN
  /\ s[1] = "keep" => on[s[2]][c.rev] = c.held[s[2]]
  /\ s[1] = "same" => on[s[2]][c.rev] = c.got[s[2]]
  /\ s[1] = "take" => d.got[s[2]] = on[s[2]][c.rev]
  /\ s[1] = "fits" => on["bytes"][c.got["master"].rev] = c.got["master"].sum

LEMMA ComparedHolds ==
  ASSUME NEW c, CallOK(c), c.kind # "none", NEW d, Follower(c, d), Closes(d), NEW on,
         Closes(c) => StillHolds(c, on), Compared(c, d, on),
         Script[c.kind][c.at][1] \notin {"make", "put"}
  PROVE  StillHolds(d, on)
<1> DEFINE s == Script[c.kind][c.at]
<1>1. /\ d.kind = c.kind /\ d.rev = c.rev /\ d.held = c.held /\ d.at = c.at + 1
      /\ \/ d.got = c.got
         \/ s[1] \in {"take", "ask"} /\ \A f \in Files \ {s[2]} : d.got[f] = c.got[f]
  BY DEF Follower, Closes
<1>2. /\ c.kind \in Kinds /\ c.at \in Nat /\ Opening[c.kind] \in 2 .. 102 /\ Ending[c.kind] \in Nat
      /\ c.kind # "export" => Ending[c.kind] = Extent[c.kind] /\ Extent[c.kind] \in 6 .. 26
      /\ c.at + 1 <= Ending[c.kind]
  <2>1. c.kind \in Kinds /\ c.at \in Nat
    BY AnyStep
  <2>2. /\ Opening[c.kind] \in 2 .. 102 /\ Ending[c.kind] \in Nat
        /\ c.kind # "export" => Ending[c.kind] = Extent[c.kind] /\ Extent[c.kind] \in 6 .. 26
    BY ClosingSteps
  <2>3. c.at + 1 \in Opening[c.kind] + 1 .. Ending[c.kind]
    BY <1>1 DEF Closes
  <2> QED
    BY <2>1, <2>2, <2>3
<1> SUFFICES ASSUME NEW i \in Opening[c.kind] + 1 .. c.at PROVE Holds(d, i, on)
  BY <1>1, <1>2 DEF StillHolds
<1>3. c.at \in Opening[c.kind] + 1 .. Ending[c.kind] - 1 /\ Closes(c)
  BY <1>2 DEF Closes
<1>4. i < c.at => Holds(c, i, on)
  BY <1>2, <1>3 DEF StillHolds
<1>5. CASE d.got = c.got
  <2>1. ~(c.kind # "export" /\ c.at = Extent[c.kind])
    BY <1>2
  <2>2. CASE i < c.at
    BY <1>1, <1>4, <1>5, <2>1, <2>2 DEF Holds
  <2>3. CASE i = c.at
    BY <1>1, <1>5, <2>3 DEF Holds, Compared
  <2> QED
    BY <1>2, <2>2, <2>3
<1>6. CASE s[1] \in {"take", "ask"} /\ \A f \in Files \ {s[2]} : d.got[f] = c.got[f]
  <2>1. c.kind = "export"
    <3> SUFFICES ASSUME c.kind # "export" PROVE FALSE
      OBVIOUS
    <3>1. c.kind \in Kinds \ {"export"} /\ c.at \in Opening[c.kind] + 1 .. Extent[c.kind]
      BY <1>2, <1>3
    <3>2. s[1] \in {"keep", "same", "make", "put"}
      BY <3>1, SaveClosing
    <3> QED
      BY <1>6, <3>2
  <2>2. c.at \in 103 .. 113 /\ i \in 103 .. c.at
    BY <1>3, <2>1 DEF Opening, Ending, Extent
  <2>3. c.at = 109 /\ s = <<"take", "master">>
    <3>1. c.at = 103 \/ c.at = 104 \/ c.at = 105 \/ c.at = 106 \/ c.at = 107 \/ c.at = 108 \/ c.at = 109
          \/ c.at = 110 \/ c.at = 111 \/ c.at = 112 \/ c.at = 113
      BY <2>2
    <3> QED
      BY <1>6, <2>1, <3>1, ExportClosing
  <2>4. /\ d.got["bytes"] = c.got["bytes"] /\ d.got["metadata"] = c.got["metadata"]
        /\ d.got["audit"] = c.got["audit"] /\ d.got["approval"] = c.got["approval"]
    BY <1>6, <2>3 DEF Files
  <2>5. CASE i = 109
    BY <1>1, <2>1, <2>3, <2>5 DEF Holds, Compared
  <2>6. CASE i # 109
    <3>1. i < c.at /\ (i = 103 \/ i = 104 \/ i = 105 \/ i = 106 \/ i = 107 \/ i = 108)
      BY <2>2, <2>3, <2>6
    <3>2. Script["export"][i] \in {<<"keep", "manifest">>, <<"same", "bytes">>, <<"same", "metadata">>,
                                   <<"same", "audit">>, <<"same", "approval">>}
      BY <3>1, ExportClosing
    <3>3. Holds(c, i, on)
      BY <1>4, <3>1
    <3> QED
      BY <1>1, <2>1, <2>4, <3>2, <3>3 DEF Holds
  <2> QED
    BY <2>5, <2>6
<1> QED
  BY <1>1, <1>5, <1>6

LEMMA MadeHolds ==
  ASSUME DiskOK, CallsOK, NEW p \in Tabs, Make(p), Closes(call[p]), StillHolds(call[p], disk),
         Follower(call[p], call'[p]), Closes(call'[p])
  PROVE  StillHolds(call'[p], disk')
<1> DEFINE c == call[p]
           d == call'[p]
           f == Name(p)
           v == IF Here(p) = None THEN Empty ELSE Here(p)
<1>1. /\ CallOK(c) /\ c.kind # "none" /\ c.rev \in Revisions /\ Verb(p) = "make" /\ Onto(f, c.rev, v)
      /\ Script[c.kind][c.at][1] = "make"
  BY DEF CallsOK, Make, At, Running, Calls, Verb, StepOf
<1>2. c.kind # "export"
  <2>1. ASSUME c.kind = "export" PROVE c.at \in 1 .. 125
    BY <1>1, <2>1, AnyStep
  <2> QED
    BY <1>1, <2>1, ExportVerbs
<1>3. c.kind \in Kinds \ {"export"} /\ f = Target[c.kind] /\ c.at = Extent[c.kind] - 1 /\ Extent[c.kind] \in 6 .. 26
  <2>1. SaveVerbs(c.kind, c.at, Script[c.kind][c.at]) /\ c.kind \in Kinds /\ Extent[c.kind] \in 6 .. 26
    BY <1>1, <1>2, AnyStep, ClosingSteps
  <2> QED
    BY <1>1, <1>2, <2>1 DEF SaveVerbs, Name, StepOf
<1>4. f \in {"metadata", "audit", "master", "approval"}
  BY <1>3 DEF Target, Kinds
<1>5. /\ d.kind = c.kind /\ d.rev = c.rev /\ d.held = c.held /\ d.at = Extent[c.kind] /\ d.got = c.got
  <2>1. d.kind # "none"
    BY DEF Closes
  <2>2. /\ d.kind = c.kind /\ d.rev = c.rev /\ d.held = c.held /\ d.at = c.at + 1 /\ d.got = c.got
    BY <1>1, <2>1 DEF Follower
  <2> QED
    BY <1>3, <2>2
<1>6. /\ \A g \in Files \ {f} : disk'[g] = disk[g]
      /\ disk'[f][c.rev] = v
  <2>1. f \in Files /\ Here(p) \in ValuesOf(f)
    BY <1>1, <1>4 DEF Files, Here, DiskOK
  <2>2. v \in ValuesOf(f)
    BY <1>4, <2>1, FileValues
  <2> HIDE DEF v
  <2> QED
    BY <1>1, <2>1, <2>2, Written
<1> SUFFICES ASSUME NEW i \in Opening[c.kind] + 1 .. c.at PROVE Holds(d, i, disk')
  BY <1>3, <1>5 DEF StillHolds
<1> DEFINE s == Script[c.kind][i]
<1>7. s[1] \in {"keep", "same", "make", "put"} /\ s[2] \in Files /\ (s[1] = "same" => s[2] # f)
  <2>1. Opening[c.kind] \in Nat
    <3>1. Opening[c.kind] \in 2 .. 102
      BY <1>1, ClosingSteps
    <3> QED
      BY <3>1
  <2>2. i \in Opening[c.kind] + 1 .. Extent[c.kind]
    BY <1>3, <2>1
  <2> QED
    BY <1>3, <2>2, SaveClosing
<1>8. i < c.at => Holds(c, i, disk)
  <2>1. Opening[c.kind] \in Nat
    <3>1. Opening[c.kind] \in 2 .. 102
      BY <1>1, ClosingSteps
    <3> QED
      BY <3>1
  <2> QED
    BY <1>3, <2>1 DEF StillHolds
<1>9. CASE i = c.at
  BY <1>1, <1>5, <1>9 DEF Holds
<1>10. CASE i < c.at
  <2>1. Holds(c, i, disk)
    BY <1>8, <1>10
  <2>2. c.at # Extent[c.kind]
    BY <1>3
  <2>3. /\ s[1] = "keep" => disk[s[2]][c.rev] = c.held[s[2]]
        /\ s[1] = "same" => disk[s[2]][c.rev] = c.got[s[2]]
    BY <2>1, <2>2 DEF Holds
  <2>4. Here(p) = disk[f][c.rev]
    BY DEF Here
  <2>5. s[1] = "keep" => \/ disk'[s[2]][c.rev] = c.held[s[2]]
                         \/ s[2] = f /\ c.held[s[2]] = None /\ disk'[s[2]][c.rev] = Empty
    BY <1>6, <1>7, <2>3, <2>4
  <2>6. s[1] = "same" => disk'[s[2]][c.rev] = c.got[s[2]]
    BY <1>6, <1>7, <2>3
  <2> QED
    BY <1>2, <1>3, <1>5, <1>7, <2>5, <2>6 DEF Holds
<1> QED
  BY <1>3, <1>9, <1>10

LEMMA StepsUndisturbed ==
  ASSUME EvidenceInv, Undisturbed, NEW p \in Tabs, Step(p)
  PROVE  Undisturbed'
<1> DEFINE c == call[p]
           d == call'[p]
           s == Script[c.kind][c.at]
<1>1. CallsOK /\ DiskOK
  BY DEF EvidenceInv
<1>2. /\ calm' = calm /\ Running(p) /\ (calm => \A r \in Tabs \ {p} : ~Closes(call[r]))
  <2>1. calm' = calm /\ Running(p) /\ (calm => \A r \in Tabs \ {p} : ~InClosing(r))
    BY DEF Step, Check, TakeFile, Refuse, Make, Put, Directory, Copy, Mark, Commit, Packing, Ask, At
  <2> QED
    BY <1>1, <2>1, InClosingIs
<1>3. CallOK(c) /\ c.kind # "none"
  BY <1>1, <1>2 DEF CallsOK, Running
<1>4. s[1] = Verb(p) /\ s[2] = Name(p)
  BY DEF Verb, Name, StepOf
<1>5. Follower(c, d) /\ \A r \in Tabs \ {p} : call'[r] = call[r]
  BY <1>1, StepMoves
<1>6. ASSUME calm, Closes(d) PROVE StillHolds(d, disk')
  <2>1. d.kind = c.kind /\ d.at = c.at + 1 /\ c.at \in Nat /\ d.at \in 1 .. Extent[c.kind]
    <3>1. d.kind # "none"
      BY <1>6 DEF Closes
    <3>2. d.kind = c.kind /\ d.at = c.at + 1 /\ d.at \in 1 .. Extent[c.kind]
      BY <1>5, <3>1 DEF Follower
    <3>3. c.at \in Nat
      BY <1>3, AnyStep
    <3> QED
      BY <3>2, <3>3
  <2>2. Opening[c.kind] \in 2 .. 102 /\ Ending[c.kind] \in Nat
    BY <1>3, ClosingSteps
  <2>3. CASE ~Closes(c)
    <3>1. d.at \in Opening[c.kind] + 1 .. Ending[c.kind] /\ ~(c.at \in Opening[c.kind] + 1 .. Ending[c.kind])
      BY <1>3, <1>6, <2>1, <2>3 DEF Closes
    <3>2. \A i : ~(i \in Opening[d.kind] + 1 .. d.at - 1)
      BY <2>1, <2>2, <3>1
    <3> QED
      BY <3>2 DEF StillHolds
  <2>4. CASE Closes(c) /\ Make(p)
    <3>1. StillHolds(c, disk)
      BY <1>6, <2>4 DEF Undisturbed
    <3> QED
      BY <1>1, <1>5, <1>6, <2>4, <3>1, MadeHolds
  <2>5. CASE Put(p)
    <3>1. s[1] = "put"
      BY <1>4, <2>5 DEF Put, At
    <3>2. c.kind # "export"
      <4>1. ASSUME c.kind = "export" PROVE c.at \in 1 .. 125
        BY <1>3, <4>1, AnyStep
      <4> QED
        BY <3>1, <4>1, ExportVerbs
    <3>3. c.at = Extent[c.kind] /\ Extent[c.kind] \in Nat
      BY <1>3, <3>1, <3>2, AnyStep DEF SaveVerbs
    <3> QED
      BY <2>1, <3>3
  <2>6. CASE Closes(c) /\ ~Make(p) /\ ~Put(p)
    <3>1. StillHolds(c, disk)
      BY <1>6, <2>6 DEF Undisturbed
    <3>2. ~Refuse(p)
      BY <1>1, <1>6, Leaves DEF Refuse, Closes
    <3>3. disk' = disk /\ s[1] \notin {"make", "put"}
      BY <1>4, <2>6, <3>2 DEF Step, Check, TakeFile, Directory, Copy, Mark, Commit, Packing, Ask, At, Comparisons
    <3>4. Compared(c, d, disk)
      <4>1. CASE Check(p)
        BY <1>4, <4>1 DEF Check, At, Comparisons, Passes, Here, Got, Compared
      <4>2. CASE TakeFile(p)
        <5>1. d.got[Name(p)] = Here(p)
          BY <1>1, <1>6, <4>2, TakenIsHere DEF Closes
        <5> QED
          BY <1>4, <4>2, <5>1 DEF TakeFile, At, Here, Compared
      <4>3. CASE Directory(p) \/ Copy(p) \/ Mark(p) \/ Commit(p) \/ \E b \in BOOLEAN : Ask(p, b)
        BY <1>4, <4>3 DEF Directory, Copy, Mark, Commit, Ask, At, Compared
      <4> QED
        BY <2>6, <3>2, <4>1, <4>2, <4>3 DEF Step
    <3> QED
      BY <1>3, <1>5, <1>6, <3>1, <3>3, <3>4, ComparedHolds
  <2> QED
    BY <2>3, <2>4, <2>5, <2>6
<1> QED
  BY <1>2, <1>5, <1>6, UndisturbedBy

LEMMA UndisturbedKept == EvidenceInv /\ Undisturbed /\ [EvidenceNext]_evidenceVars => Undisturbed'
<1> SUFFICES ASSUME EvidenceInv, Undisturbed, [EvidenceNext]_evidenceVars PROVE Undisturbed'
  OBVIOUS
<1>1. CallsOK /\ DiskOK
  BY DEF EvidenceInv
<1>2. \A p \in Tabs : InClosing(p) <=> Closes(call[p])
  BY <1>1, InClosingIs
<1>3. CASE UNCHANGED evidenceVars
  BY <1>3 DEF evidenceVars, Undisturbed
<1>4. ASSUME NEW p \in Tabs, Step(p) PROVE Undisturbed'
  BY <1>4, StepsUndisturbed
<1>5. ASSUME NEW p \in Tabs, GiveUp(p) PROVE Undisturbed'
  <2>1. Leave(p) /\ calm' = calm /\ (calm => \A r \in Tabs \ {p} : ~Closes(call[r]))
    BY <1>2, <1>5 DEF GiveUp
  <2>2. ~Closes(call'[p]) /\ \A r \in Tabs \ {p} : call'[r] = call[r]
    BY <1>1, <2>1, Leaves DEF Closes
  <2> QED
    BY <2>1, <2>2, UndisturbedBy
<1>6. ASSUME NEW p \in Tabs, NEW k \in plan.kinds, NEW q \in Revisions, NEW c \in Contents, Begin(p, k, q, c)
      PROVE  Undisturbed'
  <2>1. calm' = calm /\ (calm => \A r \in Tabs \ {p} : ~Closes(call[r]))
    BY <1>2, <1>6 DEF Begin
  <2>2. call'[p].at = 1 /\ call'[p].kind = k /\ k \in Kinds /\ \A r \in Tabs \ {p} : call'[r] = call[r]
    BY <1>1, <1>6, EvidenceBounds DEF EvidenceInv, CountersOK, Begin, CallsOK
  <2>3. ~Closes(call'[p])
    <3>1. Opening[k] \in 2 .. 102
      BY <2>2 DEF Opening, Kinds
    <3> QED
      BY <2>2, <3>1 DEF Closes
  <2> QED
    BY <2>1, <2>2, <2>3, UndisturbedBy
<1>7. ASSUME NEW f \in Files, NEW q \in Revisions, NEW v \in Contents \union Revisions \union {None}, Edit(f, q, v)
      PROVE  Undisturbed'
  <2>1. call' = call /\ calm' = calm /\ (calm => \A r \in Tabs : ~Closes(call[r]))
    BY <1>2, <1>7 DEF Edit, Outside
  <2> QED
    BY <2>1 DEF Undisturbed
<1> QED
  BY <1>3, <1>4, <1>5, <1>6, <1>7 DEF EvidenceNext

LEMMA UndisturbedInit == EvidenceInit => Undisturbed
BY DEF EvidenceInit, Undisturbed, Closes, Idle

LEMMA PutsCurrent ==
  ASSUME EvidenceInv, Undisturbed, calm, NEW p \in Tabs, Put(p)
  PROVE  Seen(p) /\ OfTheFolder(p)
<1> DEFINE c == call[p]
           s == Script[c.kind][c.at]
<1>1. CallsOK /\ DiskOK /\ Running(p) /\ Verb(p) = "put"
  BY DEF EvidenceInv, Put, At
<1>2. CallOK(c) /\ c.kind # "none" /\ c.rev \in Revisions /\ c.kind \in Kinds
  BY <1>1, AnyStep DEF CallsOK, Running, Calls
<1>3. s[1] = "put" /\ s[2] = Name(p)
  BY <1>1 DEF Verb, Name, StepOf
<1>4. c.kind # "export"
  <2>1. ASSUME c.kind = "export" PROVE c.at \in 1 .. 125
    BY <1>2, <2>1, AnyStep
  <2> QED
    BY <1>3, <2>1, ExportVerbs
<1>5. c.at = Extent[c.kind] /\ Name(p) = Target[c.kind]
  <2>1. SaveVerbs(c.kind, c.at, s)
    BY <1>2, <1>4, AnyStep
  <2> QED
    BY <1>3, <2>1 DEF SaveVerbs
<1>6. \A i \in Opening[c.kind] + 1 .. Extent[c.kind] - 1 : Holds(c, i, disk)
  <2>1. Closes(c)
    BY <1>2, <1>4, <1>5 DEF Closes, Opening, Ending, Extent, Kinds
  <2> QED
    BY <1>5, <2>1 DEF Undisturbed, StillHolds
<1>7. \A i \in 1 .. Extent[c.kind] - 1 : Achieved(c, Script[c.kind][i])
  BY <1>2, <1>5 DEF CallOK
<1>8. \E i \in Opening[c.kind] + 1 .. Extent[c.kind] - 1 : Script[c.kind][i] = <<"keep", Target[c.kind]>>
  <2>1. CASE c.kind = "metadata"
    <3>1. Script["metadata"][4] = <<"keep", "metadata">>
      BY MetadataSteps DEF MetadataScript
    <3> QED
      BY <2>1, <3>1 DEF Opening, Extent, Target
  <2>2. CASE c.kind = "audit"
    <3>1. Script["audit"][8] = <<"keep", "audit">>
      BY AuditSteps DEF AuditScript
    <3> QED
      BY <2>2, <3>1 DEF Opening, Extent, Target
  <2>3. CASE c.kind = "reaudit"
    <3>1. Script["reaudit"][8] = <<"keep", "audit">>
      BY ReauditSteps DEF ReauditScript
    <3> QED
      BY <2>3, <3>1 DEF Opening, Extent, Target
  <2>4. CASE c.kind = "master"
    <3>1. Script["master"][7] = <<"keep", "master">>
      BY MasterCallSteps DEF MasterCallScript
    <3> QED
      BY <2>4, <3>1 DEF Opening, Extent, Target
  <2>5. CASE c.kind = "approve"
    <3>1. Script["approve"][21] = <<"keep", "approval">>
      BY ApproveSteps DEF ApproveScript
    <3> QED
      BY <2>5, <3>1 DEF Opening, Extent, Target
  <2>6. c.kind \in {"metadata", "audit", "reaudit", "master", "approve"}
    BY <1>2, <1>4 DEF Kinds
  <2> QED
    BY <2>1, <2>2, <2>3, <2>4, <2>5, <2>6
<1>9. Seen(p)
  <2>1. PICK i \in Opening[c.kind] + 1 .. Extent[c.kind] - 1 : Script[c.kind][i] = <<"keep", Target[c.kind]>>
    BY <1>8
  <2>2. Holds(c, i, disk)
    BY <1>6
  <2> QED
    BY <1>5, <2>1, <2>2 DEF Holds, Seen, Here
<1>10. ASSUME Name(p) = "audit"
       PROVE  Record(p).sub = disk["bytes"][c.rev] /\ Record(p).meta = disk["metadata"][1]
  <2>1. c.kind \in {"audit", "reaudit"} /\ Record(p) = c.got["audit"]
    BY <1>2, <1>4, <1>5, <1>10 DEF Target, Kinds, Record, Got
  <2>2. c.got["audit"].sub = c.got["bytes"] /\ c.got["audit"].meta = c.got["metadata"]
    <3>1. CASE c.kind = "audit"
      <4>1. Achieved(c, Script["audit"][4])
        BY <1>7, <3>1 DEF Extent
      <4>2. Script["audit"][4] = <<"ask", "audit">>
        BY AuditSteps DEF AuditScript
      <4> QED
        BY <4>1, <4>2 DEF Achieved
    <3>2. CASE c.kind = "reaudit"
      <4>1. Achieved(c, Script["reaudit"][1])
        BY <1>7, <3>2 DEF Extent
      <4>2. Script["reaudit"][1] = <<"ask", "audit">>
        BY ReauditSteps DEF ReauditScript
      <4> QED
        BY <4>1, <4>2 DEF Achieved
    <3> QED
      BY <2>1, <3>1, <3>2
  <2>3. Holds(c, 10, disk) /\ Holds(c, 11, disk)
    BY <1>6, <2>1 DEF Opening, Extent
  <2>4. Script[c.kind][10] = <<"same", "bytes">> /\ Script[c.kind][11] = <<"same", "metadata">>
    BY <2>1, AuditSteps, ReauditSteps DEF AuditScript, ReauditScript
  <2>5. disk["bytes"][c.rev] = c.got["bytes"] /\ disk["metadata"][c.rev] = c.got["metadata"]
    BY <2>3, <2>4 DEF Holds
  <2>6. disk["metadata"][c.rev] = disk["metadata"][1]
    BY <1>1, <1>2 DEF DiskOK, Shared
  <2> QED
    BY <2>1, <2>2, <2>5, <2>6
<1>11. ASSUME Name(p) = "approval"
       PROVE  /\ Record(p).audit = disk["audit"][c.rev]
              /\ disk["master"][1] = Got(p)["master"] /\ disk["master"][1].rev = c.rev
  <2>1. c.kind = "approve" /\ Record(p).audit = c.got["audit"]
    BY <1>2, <1>4, <1>5, <1>11 DEF Target, Kinds, Record, Got
  <2>2. Achieved(c, Script["approve"][6]) /\ Holds(c, 23, disk) /\ Holds(c, 24, disk)
    BY <1>6, <1>7, <2>1 DEF Opening, Extent
  <2>3. /\ Script["approve"][6] = <<"take", "master">>
        /\ Script["approve"][23] = <<"same", "audit">> /\ Script["approve"][24] = <<"same", "master">>
    BY ApproveSteps DEF ApproveScript
  <2>4. c.got["master"].rev = c.rev /\ disk["audit"][c.rev] = c.got["audit"] /\ disk["master"][c.rev] = c.got["master"]
    BY <2>1, <2>2, <2>3 DEF Holds, Achieved
  <2>5. disk["master"][c.rev] = disk["master"][1]
    BY <1>1, <1>2 DEF DiskOK, Shared
  <2> QED
    BY <2>1, <2>4, <2>5 DEF Got
<1> QED
  BY <1>9, <1>10, <1>11 DEF OfTheFolder

LEMMA CommitsCurrent ==
  ASSUME EvidenceInv, Undisturbed, calm, NEW p \in Tabs, Commit(p)
  PROVE  LET m == disk["master"][1] IN
         /\ \A f \in Parts : disk[f][call[p].rev] = packages'[Key(p)].marker[f]
         /\ Stands(m) /\ m.rev = call[p].rev
<1> DEFINE c == call[p]
<1>1. CallsOK /\ DiskOK /\ PackagesOK /\ Running(p) /\ Verb(p) = "commit" /\ Packing(p, [Package(p) EXCEPT !.marker = CandidateOf(p)])
  BY DEF EvidenceInv, Commit, At
<1>2. c.kind = "export" /\ c.at = 114
  BY <1>1, Packer DEF Exporting
<1>3. CallOK(c) /\ c.kind # "none" /\ c.rev \in Revisions
  BY <1>1, <1>2 DEF CallsOK, Calls
<1>4. StillHolds(c, disk)
  <2>1. Closes(c)
    BY <1>2 DEF Closes, Opening, Ending, Extent
  <2> QED
    BY <2>1 DEF Undisturbed
<1>5. \A i \in 103 .. 113 : Holds(c, i, disk)
  BY <1>2, <1>4 DEF StillHolds, Opening
<1>6. /\ Holds(c, 103, disk) /\ Holds(c, 104, disk) /\ Holds(c, 105, disk) /\ Holds(c, 107, disk)
      /\ Holds(c, 108, disk) /\ Holds(c, 109, disk) /\ Holds(c, 110, disk)
  BY <1>5
<1>7. /\ disk["manifest"][c.rev] = c.held["manifest"] /\ disk["bytes"][c.rev] = c.got["bytes"]
      /\ disk["metadata"][c.rev] = c.got["metadata"] /\ disk["audit"][c.rev] = c.got["audit"]
      /\ disk["approval"][c.rev] = c.got["approval"] /\ disk["master"][c.rev] = c.got["master"]
      /\ disk["bytes"][c.got["master"].rev] = c.got["master"].sum
  <2>1. disk["manifest"][c.rev] = c.held["manifest"]
    <3>1. Holds(c, 103, disk) /\ Script["export"][103] = <<"keep", "manifest">>
      BY <1>6, ExportClosing
    <3> QED
      BY <1>2, <3>1 DEF Holds
  <2>2. disk["bytes"][c.rev] = c.got["bytes"]
    <3>1. Holds(c, 104, disk) /\ Script["export"][104] = <<"same", "bytes">>
      BY <1>6, ExportClosing
    <3> QED
      BY <1>2, <3>1 DEF Holds
  <2>3. disk["metadata"][c.rev] = c.got["metadata"]
    <3>1. Holds(c, 105, disk) /\ Script["export"][105] = <<"same", "metadata">>
      BY <1>6, ExportClosing
    <3> QED
      BY <1>2, <3>1 DEF Holds
  <2>4. disk["audit"][c.rev] = c.got["audit"]
    <3>1. Holds(c, 107, disk) /\ Script["export"][107] = <<"same", "audit">>
      BY <1>6, ExportClosing
    <3> QED
      BY <1>2, <3>1 DEF Holds
  <2>5. disk["approval"][c.rev] = c.got["approval"]
    <3>1. Holds(c, 108, disk) /\ Script["export"][108] = <<"same", "approval">>
      BY <1>6, ExportClosing
    <3> QED
      BY <1>2, <3>1 DEF Holds
  <2>6. disk["master"][c.rev] = c.got["master"]
    <3>1. Holds(c, 109, disk) /\ Script["export"][109] = <<"take", "master">>
      BY <1>6, ExportClosing
    <3> QED
      BY <1>2, <3>1 DEF Holds
  <2>7. disk["bytes"][c.got["master"].rev] = c.got["master"].sum
    <3>1. Holds(c, 110, disk) /\ Script["export"][110] = <<"fits", "master">>
      BY <1>6, ExportClosing
    <3> QED
      BY <1>2, <3>1 DEF Holds
  <2> QED
    BY <2>1, <2>2, <2>3, <2>4, <2>5, <2>6, <2>7
<1>8. packages'[Key(p)].marker = CandidateOf(p)
  <2>1. Key(p) \in Revisions \X Contents
    BY <1>1, <1>2, Keyed DEF Exporting
  <2>2. Package(p) \in Packs
    BY <1>1, <2>1 DEF PackagesOK, Package
  <2>3. packages' = [packages EXCEPT ![Key(p)] = [Package(p) EXCEPT !.marker = CandidateOf(p)]]
    BY <1>1 DEF Packing
  <2> HIDE DEF CandidateOf, Key, Package
  <2> QED
    BY <1>1, <2>1, <2>2, <2>3 DEF PackagesOK, Packs
<1>9. \A f \in Parts : CandidateOf(p)[f] = disk[f][c.rev]
  BY <1>7 DEF CandidateOf, Parts, Files, Got
<1>10. disk["master"][c.rev] = disk["master"][1] /\ disk["manifest"][c.rev] = disk["manifest"][1]
  BY <1>1, <1>3 DEF DiskOK, Shared
<1>11. c.got["master"].rev = c.rev /\ There(c.got["master"])
  <2>1. 109 \in 1 .. c.at - 1
    BY <1>2
  <2>2. Achieved(c, Script["export"][109])
    BY <1>2, <1>3, <2>1 DEF CallOK
  <2> QED
    BY <2>2, ExportClosing DEF Achieved, Usable
<1>12. c.held["manifest"] = c.rev
  BY <1>2, <1>3 DEF CallOK
<1>13. c.rev <= disk["manifest"][1]
  <2>1. c.rev \in Nat
    BY <1>3, DataAssumption DEF Revisions
  <2>2. disk["manifest"][1] = c.rev
    BY <1>7, <1>10, <1>12
  <2> QED
    BY <2>1, <2>2
<1> QED
  BY <1>7, <1>8, <1>9, <1>10, <1>11, <1>13 DEF Stands

\* Undisturbed, no save replaces a record its screen did not show, an audit is of
\* the bytes and metadata the folder holds, an approval of its audit and for its
\* master, and a package is completed over evidence the folder still holds (the four stores, and the
\* last verifyCurrentEvidence of writeExportPackage).
THEOREM WritesStayCurrent == EvidenceSpec => WritesAreCurrent
<1>1. EvidenceInit => EvidenceInv /\ Undisturbed
  BY InitOK, UndisturbedInit
<1>2. EvidenceInv /\ Undisturbed /\ [EvidenceNext]_evidenceVars => (EvidenceInv /\ Undisturbed)'
  BY NextKeepsInv, UndisturbedKept
<1>3. EvidenceInv /\ Undisturbed =>
        \A p \in Tabs : calm =>
          /\ Put(p) => Seen(p) /\ OfTheFolder(p)
          /\ Commit(p) =>
               LET m == disk["master"][1] IN
               /\ \A f \in Parts : disk[f][call[p].rev] = packages'[Key(p)].marker[f]
               /\ Stands(m) /\ m.rev = call[p].rev
  BY PutsCurrent, CommitsCurrent
<1> QED
  BY <1>1, <1>2, <1>3, PTL DEF EvidenceSpec, WritesAreCurrent

-----------------------------------------------------------------------------
(* No approval is given twice: what a running approval will write is on no  *)
(* disk and in no other call's hands.                                       *)

Given(a, by, n) == There(a) => a.n <= n /\ \A p \in Tabs : by[p].kind = "approve" => a.n # by[p].n

Stamped ==
  /\ \A p \in Tabs : Running(p) => call[p].n <= calls
  /\ \A p, r \in Tabs : Running(p) /\ Running(r) /\ call[p].n = call[r].n => p = r
  /\ \A q \in Revisions : Given(disk["approval"][q], call, calls)
  /\ \A p \in Tabs : Running(p) => Given(call[p].got["approval"], call, calls)

\* How the approval of a revision may change.
Reapproved(old, new) ==
  \/ new = old
  \/ ~There(new)
  \/ \E p \in Tabs : call[p].kind = "approve" /\ call'[p].kind = "none" /\ new.n = call[p].n

LEMMA StepReapproves ==
  ASSUME EvidenceInv, NEW p \in Tabs, Step(p), NEW q \in Revisions
  PROVE  Reapproved(disk["approval"][q], disk'["approval"][q])
<1> DEFINE c == call[p]
           s == Script[c.kind][c.at]
<1>1. CallsOK /\ DiskOK
  BY DEF EvidenceInv
<1>2. CASE ~Make(p) /\ ~Put(p)
  <2>1. disk' = disk
    BY <1>2 DEF Step, Check, TakeFile, Refuse, Directory, Copy, Mark, Commit, Packing, Ask
  <2> QED
    BY <2>1 DEF Reapproved
<1>3. CASE Make(p)
  <2>1. Running(p) /\ Verb(p) = "make" /\ Onto(Name(p), c.rev, IF Here(p) = None THEN Empty ELSE Here(p))
    BY <1>3 DEF Make, At
  <2>2. c.rev \in Revisions
    BY <1>1 DEF CallsOK, Calls
  <2>3. CASE Name(p) = "approval"
    <3>1. \/ disk'["approval"][q] = disk["approval"][q]
          \/ disk'["approval"][q] = (IF Here(p) = None THEN Empty ELSE Here(p)) /\ q = c.rev
      BY <1>1, <2>1, <2>2, <2>3 DEF Onto, DiskOK, Shared, Files
    <3> QED
      BY <2>3, <3>1 DEF Here, There, Reapproved
  <2>4. CASE Name(p) # "approval"
    <3>1. disk'["approval"] = disk["approval"]
      BY <1>1, <2>1, <2>4 DEF Onto, DiskOK, Files
    <3> QED
      BY <3>1 DEF Reapproved
  <2> QED
    BY <2>3, <2>4
<1>4. CASE Put(p)
  <2>1. Running(p) /\ Verb(p) = "put" /\ Onto(Name(p), c.rev, Record(p)) /\ Advance(p)
    BY <1>4 DEF Put, At
  <2>2. c.rev \in Revisions /\ CallOK(c) /\ c.kind # "none"
    BY <1>1, <2>1 DEF CallsOK, Calls, Running
  <2>3. CASE Name(p) = "approval"
    <3>1. \/ disk'["approval"][q] = disk["approval"][q]
          \/ disk'["approval"][q] = Record(p) /\ q = c.rev
      BY <1>1, <2>1, <2>2, <2>3 DEF Onto, DiskOK, Shared, Files
    <3>2. Record(p).n = c.n
      BY <2>3 DEF Record
    <3>3. s[1] = "put" /\ s[2] = "approval"
      BY <2>1, <2>3 DEF Verb, Name, StepOf
    <3>4. c.kind # "export" /\ c.kind \in Kinds
      <4>1. ASSUME c.kind = "export" PROVE c.at \in 1 .. 125
        BY <2>2, <4>1, AnyStep
      <4> QED
        BY <2>2, <3>3, <4>1, ExportVerbs, AnyStep
    <3>5. SaveVerbs(c.kind, c.at, s) /\ Len(Script[c.kind]) = Extent[c.kind]
      BY <2>2, <3>4, AnyStep
    <3>6. c.kind = "approve" /\ c.at = Len(Script[c.kind])
      BY <3>3, <3>4, <3>5 DEF SaveVerbs, Target, Kinds
    <3>7. call'[p] = Idle /\ Idle.kind = "none"
      BY <1>1, <2>1, <3>6 DEF Advance, Onward, CallsOK, Idle
    <3> QED
      BY <3>1, <3>2, <3>6, <3>7 DEF Reapproved
  <2>4. CASE Name(p) # "approval"
    <3>1. disk'["approval"] = disk["approval"]
      BY <1>1, <2>1, <2>4 DEF Onto, DiskOK, Files
    <3> QED
      BY <3>1 DEF Reapproved
  <2> QED
    BY <2>3, <2>4
<1> QED
  BY <1>2, <1>3, <1>4

LEMMA Reapproves ==
  ASSUME EvidenceInv, [EvidenceNext]_evidenceVars, NEW q \in Revisions
  PROVE  Reapproved(disk["approval"][q], disk'["approval"][q])
<1>1. CASE UNCHANGED evidenceVars
  BY <1>1 DEF evidenceVars, Reapproved
<1>2. ASSUME NEW p \in Tabs, Step(p) PROVE Reapproved(disk["approval"][q], disk'["approval"][q])
  BY <1>2, StepReapproves
<1>3. ASSUME NEW p \in Tabs, GiveUp(p) \/ \E k \in plan.kinds, r \in Revisions, c \in Contents : Begin(p, k, r, c)
      PROVE  Reapproved(disk["approval"][q], disk'["approval"][q])
  BY <1>3 DEF GiveUp, Begin, Reapproved
<1>4. ASSUME NEW f \in Files, NEW r \in Revisions, NEW v, Edit(f, r, v)
      PROVE  Reapproved(disk["approval"][q], disk'["approval"][q])
  <2>1. Onto(f, r, v) /\ (f = "approval" => ~There(v)) /\ DiskOK
    BY <1>4 DEF Edit, Outside, There, EvidenceInv
  <2>2. CASE f = "approval"
    <3>1. disk'["approval"][q] = disk["approval"][q] \/ disk'["approval"][q] = v
      BY <2>1, <2>2 DEF Onto, DiskOK, Shared, Files
    <3> QED
      BY <2>1, <2>2, <3>1 DEF Reapproved
  <2>3. CASE f # "approval"
    <3>1. disk'["approval"] = disk["approval"]
      BY <2>1, <2>3 DEF Onto, DiskOK, Files
    <3> QED
      BY <3>1 DEF Reapproved
  <2> QED
    BY <2>2, <2>3
<1> QED
  BY <1>1, <1>2, <1>3, <1>4 DEF EvidenceNext

\* A step takes no approval but the one that is in the folder.
LEMMA GotFromDisk ==
  ASSUME CallsOK, DiskOK, NEW p \in Tabs, Step(p), call'[p].kind # "none"
  PROVE  \/ call'[p].got["approval"] = call[p].got["approval"]
         \/ \E q \in Revisions : call'[p].got["approval"] = disk["approval"][q]
<1> DEFINE c == call[p]
           s == Script[c.kind][c.at]
<1>1. Follower(c, call'[p]) /\ Running(p)
  BY StepMoves DEF Step, Check, TakeFile, Refuse, Make, Put, Directory, Copy, Mark, Commit, Packing, Ask, At
<1>2. CallOK(c) /\ c.kind # "none" /\ c.rev \in Revisions
  BY <1>1 DEF CallsOK, Calls, Running
<1>3. CASE s[2] = "approval" /\ s[1] = "take"
  <2>1. Verb(p) = "take" /\ Name(p) = "approval"
    BY <1>3 DEF Verb, Name, StepOf
  <2>2. TakeFile(p) \/ Refuse(p)
    BY <2>1 DEF Step, Check, Make, Put, Directory, Copy, Mark, Commit, Ask, At, Comparisons
  <2>3. ~Refuse(p)
    BY Leaves DEF Refuse
  <2>4. call'[p].got["approval"] = Here(p)
    BY <2>1, <2>2, <2>3, TakenIsHere
  <2> QED
    BY <1>2, <2>1, <2>4 DEF Here
<1>4. CASE s[2] # "approval" \/ s[1] # "take"
  <2>1. s[1] = "ask" => s[2] = "audit"
    <3>1. ASSUME c.kind = "export" PROVE s[1] # "ask"
      <4>1. c.at \in 1 .. 125
        BY <1>2, <3>1, AnyStep
      <4> QED
        BY <3>1, <4>1, ExportVerbs
    <3>2. c.kind # "export" => SaveVerbs(c.kind, c.at, s)
      BY <1>2, AnyStep
    <3> QED
      BY <3>1, <3>2 DEF SaveVerbs
  <2> QED
    BY <1>1, <1>4, <2>1 DEF Follower, Files
<1> QED
  BY <1>3, <1>4

LEMMA GivenKept ==
  ASSUME CountersOK, calls' \in {calls, calls + 1}, NEW a \in Approvals \union {None, Empty}, Given(a, call, calls),
         \A p \in Tabs : call'[p].kind = "approve" =>
           \/ call[p].kind = "approve" /\ call'[p].n = call[p].n
           \/ call'[p].n = calls + 1 /\ calls' = calls + 1
  PROVE  Given(a, call', calls')
<1> SUFFICES ASSUME There(a) PROVE a.n <= calls' /\ \A p \in Tabs : call'[p].kind = "approve" => a.n # call'[p].n
  BY DEF Given
<1>1. a \in Approvals /\ a.n \in Nat /\ calls \in Nat /\ a.n <= calls
  <2>1. a \in Approvals
    BY DEF There
  <2>2. a.n \in Stamps
    BY <2>1 DEF Approvals
  <2> QED
    BY <2>1, <2>2, EvidenceBounds DEF CountersOK, Stamps, Given
<1>2. \A p \in Tabs : call[p].kind = "approve" => a.n # call[p].n
  BY DEF Given
<1> QED
  BY <1>1, <1>2

\* A call keeps its number, or is the one that has just begun; and where the
\* approval it holds comes from.
Numbered(p) ==
  \/ call[p].kind = call'[p].kind /\ call'[p].n = call[p].n
  \/ call'[p].n = calls + 1 /\ calls' = calls + 1
BegunHere(p) == call'[p].kind # "none" /\ call'[p].n = calls + 1
Brought(p) ==
  \/ ~There(call'[p].got["approval"])
  \/ Running(p) /\ call'[p].got["approval"] = call[p].got["approval"]
  \/ \E q \in Revisions : call'[p].got["approval"] = disk["approval"][q]

LEMMA StampsKept ==
  ASSUME EvidenceInv, Stamped, calls' \in {calls, calls + 1},
         \A p \in Tabs : call'[p].kind # "none" => Numbered(p) /\ Brought(p),
         \A p, r \in Tabs : BegunHere(p) /\ BegunHere(r) => p = r,
         \A q \in Revisions : Reapproved(disk["approval"][q], disk'["approval"][q])
  PROVE  Stamped'
<1>1. /\ CountersOK /\ calls \in Nat
      /\ \A p \in Tabs : call[p].kind # "none" => call[p].n \in Nat /\ call[p].n <= calls
      /\ \A p, r \in Tabs : call[p].kind # "none" /\ call[r].kind # "none" /\ call[p].n = call[r].n => p = r
  BY EvidenceBounds DEF EvidenceInv, CountersOK, Stamps, CallsOK, Calls, Stamped, Running
<1>2. \A q \in Revisions : /\ Given(disk["approval"][q], call, calls)
                           /\ disk["approval"][q] \in Approvals \union {None, Empty}
  BY FileValues DEF Stamped, EvidenceInv, DiskOK, Files
<1>3. ASSUME NEW p \in Tabs, Running(p)
      PROVE  /\ Given(call[p].got["approval"], call, calls)
             /\ call[p].got["approval"] \in Approvals \union {None, Empty}
  <2>1. CallOK(call[p]) /\ call[p].kind # "none"
    BY <1>3 DEF EvidenceInv, CallsOK, Running
  <2>2. call[p].got["approval"] \in ValuesOf("approval") \union {None}
    BY <2>1 DEF CallOK, Files
  <2> QED
    BY <1>3, <2>2, FileValues DEF Stamped
<1>4. \A a \in Approvals \union {None, Empty} : Given(a, call, calls) => Given(a, call', calls')
  BY <1>1, GivenKept DEF Numbered
<1>5. ASSUME NEW p \in Tabs, call'[p].kind # "none" PROVE call'[p].n <= calls'
  BY <1>1, <1>5 DEF Numbered
<1>6. ASSUME NEW p \in Tabs, NEW r \in Tabs, call'[p].kind # "none", call'[r].kind # "none", call'[p].n = call'[r].n
      PROVE  p = r
  BY <1>1, <1>6 DEF Numbered, BegunHere
<1>7. ASSUME NEW q \in Revisions PROVE Given(disk'["approval"][q], call', calls')
  <2>1. CASE disk'["approval"][q] = disk["approval"][q]
    BY <1>2, <1>4, <2>1
  <2>2. CASE ~There(disk'["approval"][q])
    BY <2>2 DEF Given
  <2>3. ASSUME NEW p \in Tabs, call[p].kind = "approve", call'[p].kind = "none", disk'["approval"][q].n = call[p].n
        PROVE  Given(disk'["approval"][q], call', calls')
    <3>1. call[p].n \in Nat /\ call[p].n <= calls
      BY <1>1, <2>3
    <3>2. call[p].n <= calls'
      BY <1>1, <3>1
    <3>3. ASSUME NEW r \in Tabs, call'[r].kind = "approve" PROVE call'[r].n # call[p].n
      <4>1. r # p /\ call'[r].kind # "none"
        BY <2>3, <3>3
      <4> QED
        BY <1>1, <2>3, <3>1, <3>3, <4>1 DEF Numbered
    <3> QED
      BY <2>3, <3>2, <3>3 DEF Given
  <2> QED
    BY <2>1, <2>2, <2>3 DEF Reapproved
<1>8. ASSUME NEW p \in Tabs, call'[p].kind # "none" PROVE Given(call'[p].got["approval"], call', calls')
  <2>1. CASE ~There(call'[p].got["approval"])
    BY <2>1 DEF Given
  <2>2. CASE Running(p) /\ call'[p].got["approval"] = call[p].got["approval"]
    BY <1>3, <1>4, <2>2
  <2>3. ASSUME NEW q \in Revisions, call'[p].got["approval"] = disk["approval"][q]
        PROVE  Given(call'[p].got["approval"], call', calls')
    BY <1>2, <1>4, <2>3
  <2> QED
    BY <1>8, <2>1, <2>2, <2>3 DEF Brought
<1> QED
  BY <1>5, <1>6, <1>7, <1>8 DEF Stamped, Running

LEMMA StampedKept == EvidenceInv /\ Stamped /\ [EvidenceNext]_evidenceVars => Stamped'
<1> SUFFICES ASSUME EvidenceInv, Stamped, [EvidenceNext]_evidenceVars PROVE Stamped'
  OBVIOUS
<1>1. CallsOK /\ DiskOK /\ calls \in Nat
  BY EvidenceBounds DEF EvidenceInv, CountersOK, Stamps
<1>2. \A q \in Revisions : Reapproved(disk["approval"][q], disk'["approval"][q])
  BY Reapproves
<1>3. \A p \in Tabs : Running(p) => call[p].n \in Nat /\ call[p].n <= calls
  BY EvidenceBounds DEF EvidenceInv, CallsOK, Calls, Stamps, Stamped
<1>4. CASE UNCHANGED evidenceVars
  BY <1>4 DEF evidenceVars, Stamped, Running
<1>5. ASSUME NEW p \in Tabs, Step(p) PROVE Stamped'
  <2>1. /\ calls' = calls /\ Follower(call[p], call'[p]) /\ \A r \in Tabs \ {p} : call'[r] = call[r]
        /\ Running(p)
    <3>1. calls' = calls /\ Running(p)
      BY <1>5 DEF Step, Check, TakeFile, Refuse, Make, Put, Directory, Copy, Mark, Commit, Packing, Ask, At
    <3> QED
      BY <1>1, <1>5, <3>1, StepMoves
  <2>2. \A r \in Tabs : call'[r].kind # "none" => call[r].kind = call'[r].kind /\ call'[r].n = call[r].n
    BY <2>1 DEF Follower
  <2>3. \A r \in Tabs : ~BegunHere(r)
    BY <1>1, <1>3, <2>2 DEF Running, BegunHere
  <2>4. \A r \in Tabs : call'[r].kind # "none" => Brought(r)
    <3>1. call'[p].kind # "none" => Brought(p)
      BY <1>1, <1>5, <2>1, GotFromDisk DEF Brought
    <3> QED
      BY <2>1, <3>1 DEF Running, Brought
  <2>5. calls' \in {calls, calls + 1}
    BY <2>1
  <2>6. \A r \in Tabs : call'[r].kind # "none" => Numbered(r) /\ Brought(r)
    BY <2>2, <2>4 DEF Numbered
  <2> QED
    BY <1>2, <2>3, <2>5, <2>6, StampsKept
<1>6. ASSUME NEW p \in Tabs, GiveUp(p) PROVE Stamped'
  <2>1. /\ calls' = calls /\ Leave(p)
    BY <1>6 DEF GiveUp
  <2>2. call'[p].kind = "none" /\ \A r \in Tabs \ {p} : call'[r] = call[r]
    BY <1>1, <2>1, Leaves
  <2>3. \A r \in Tabs : call'[r].kind # "none" => call'[r] = call[r] /\ Running(r) /\ call'[r].n # calls + 1
    BY <1>1, <1>3, <2>2 DEF Running
  <2>4. calls' \in {calls, calls + 1}
    BY <2>1
  <2>5. \A r \in Tabs : call'[r].kind # "none" => Numbered(r) /\ Brought(r) /\ ~BegunHere(r)
    BY <2>3 DEF Numbered, Brought, BegunHere
  <2>6. \A r \in Tabs : ~BegunHere(r)
    BY <2>5 DEF BegunHere
  <2> QED
    BY <1>2, <2>4, <2>5, <2>6, StampsKept
<1>7. ASSUME NEW p \in Tabs, NEW k \in plan.kinds, NEW q \in Revisions, NEW c \in Contents, Begin(p, k, q, c)
      PROVE  Stamped'
  <2>1. /\ calls' = calls + 1 /\ call'[p].n = calls + 1 /\ ~Running(p)
        /\ \A r \in Tabs \ {p} : call'[r] = call[r]
    BY <1>1, <1>7 DEF Begin, CallsOK
  <2>2. call'[p].got["approval"] = None \/ call'[p].got["approval"] = Screen(q)["approval"]
    BY <1>1, <1>7 DEF Begin, CallsOK, Nothing, Needed, Files
  <2>3. ~There(call'[p].got["approval"]) \/ call'[p].got["approval"] = disk["approval"][q]
    BY <1>1, <2>2, ScreenShows DEF There, Files
  <2>4. \A r \in Tabs \ {p} : call'[r].kind # "none" => call'[r] = call[r] /\ Running(r) /\ call'[r].n # calls + 1
    BY <1>1, <1>3, <2>1 DEF Running
  <2>5. calls' \in {calls, calls + 1}
    BY <2>1
  <2>6. \A r \in Tabs : call'[r].kind # "none" => Numbered(r) /\ Brought(r)
    <3>1. Numbered(p) /\ Brought(p)
      BY <2>1, <2>3 DEF Numbered, Brought
    <3>2. \A r \in Tabs \ {p} : call'[r].kind # "none" => Numbered(r) /\ Brought(r)
      BY <2>4 DEF Numbered, Brought
    <3> QED
      BY <3>1, <3>2
  <2>7. \A t, r \in Tabs : BegunHere(t) /\ BegunHere(r) => t = r
    <3>1. \A r \in Tabs : BegunHere(r) => r = p
      BY <2>4 DEF BegunHere
    <3> QED
      BY <3>1
  <2> QED
    BY <1>2, <2>5, <2>6, <2>7, StampsKept
<1>8. ASSUME NEW f \in Files, NEW q \in Revisions, NEW v \in Contents \union Revisions \union {None}, Edit(f, q, v)
      PROVE  Stamped'
  <2>1. calls' = calls /\ call' = call
    BY <1>8 DEF Edit, Outside
  <2>2. \A r \in Tabs : call'[r].kind # "none" => call'[r] = call[r] /\ Running(r) /\ call'[r].n # calls + 1
    BY <1>1, <1>3, <2>1 DEF Running
  <2>3. calls' \in {calls, calls + 1}
    BY <2>1
  <2>4. \A r \in Tabs : call'[r].kind # "none" => Numbered(r) /\ Brought(r) /\ ~BegunHere(r)
    BY <2>2 DEF Numbered, Brought, BegunHere
  <2>5. \A r \in Tabs : ~BegunHere(r)
    BY <2>4 DEF BegunHere
  <2> QED
    BY <1>2, <2>3, <2>4, <2>5, StampsKept
<1> QED
  BY <1>4, <1>5, <1>6, <1>7, <1>8 DEF EvidenceNext

LEMMA StampedInit == EvidenceInit => Stamped
<1> SUFFICES ASSUME EvidenceInit PROVE Stamped
  OBVIOUS
<1>1. \A p \in Tabs : call[p] = Idle /\ Idle.kind = "none"
  BY DEF EvidenceInit, Idle
<1>2. ASSUME NEW q \in Revisions, There(disk["approval"][q]) PROVE disk["approval"][q].n = 0
  <2>1. CASE disk = Fresh
    BY <1>2, <2>1 DEF Fresh, On, There
  <2>2. CASE disk = Approved
    <3>1. disk["approval"] = [On(None) EXCEPT ![LastRevision] = Consent(1)]
      BY <2>2 DEF Approved, Fresh
    <3>2. disk["approval"][q] = Consent(1)
      BY <1>2, <3>1 DEF On, There
    <3> QED
      BY <3>2 DEF Consent
  <2> QED
    BY <2>1, <2>2 DEF EvidenceInit
<1>3. calls = 0
  BY DEF EvidenceInit
<1> QED
  BY <1>1, <1>2, <1>3 DEF Stamped, Running, Given

-----------------------------------------------------------------------------
(* One candidate to a package.  Two exports may look for the same package;  *)
(* the approvals they hold may differ.  The one whose approval is no longer *)
(* the one in the folder cannot pass the verification that stands before    *)
(* the first copy.                                                          *)

\* An export that has come to step n: 35 makes the directory, 47 is the first
\* step after the verification that follows.
Past(c, n) == c.kind = "export" /\ c.at >= n

CandOf(c) == [f \in Parts |-> IF f = "manifest" THEN c.held[f] ELSE c.got[f]]
KeyOf(c)  == <<c.rev, c.got["bytes"]>>

\* The approval the call holds is not the one in the folder.
Superseded(c, on) == on["approval"][c.rev] # c.got["approval"]

\* Nothing but this candidate is in the package.
Only(package, cand) ==
  /\ \A f \in Parts : package.parts[f] \in {None, cand[f]}
  /\ package.marker \in {None, Empty, cand}

Rival(c, d) == KeyOf(c) = KeyOf(d) /\ c.got["approval"] # d.got["approval"]

Beaten(c, on) == c.at <= 46 /\ Superseded(c, on)

Rivals == \A p, r \in Tabs :
  Past(call[p], 35) /\ Past(call[r], 47) /\ Rival(call[p], call[r]) => Beaten(call[p], disk)

Filled == \A p \in Tabs :
  Past(call[p], 35) => Beaten(call[p], disk) \/ Only(packages[KeyOf(call[p])], CandOf(call[p]))

CopiesMade == \A p \in Tabs, j \in 1 .. 5 :
  Past(call[p], 47) /\ call[p].at > 46 + 2 * j =>
    packages[KeyOf(call[p])].parts[Copied[j]] = CandOf(call[p])[Copied[j]]

Complete == \A k \in Revisions \X Contents : OneCandidate(k)

PackInv == Rivals /\ Filled /\ CopiesMade /\ Complete

\* What an export knows once it has passed the gate.
LEMMA ExportAgreed ==
  ASSUME NEW c, CallOK(c), Past(c, 34)
  PROVE  /\ Agreed(c) /\ There(c.got["approval"]) /\ c.held["manifest"] = c.rev
         /\ c.rev \in Revisions /\ c.got["bytes"] \in Contents /\ KeyOf(c) \in Revisions \X Contents
         /\ c.at \in 34 .. 125 /\ c.kind # "none"
         /\ Covers(c.got["approval"], c.got["bytes"], c.got["metadata"], c.got["audit"])
<1>1. c.kind = "export" /\ c.at \in Nat /\ c.at >= 34 /\ c.rev \in Revisions /\ c.held["manifest"] = c.rev
  BY DEF Past, CallOK, Calls
<1>2. c.at \in 34 .. 125
  <2>1. c.at \in 1 .. 125
    BY <1>1, AnyStep
  <2> QED
    BY <1>1, <2>1
<1>3. Achieved(c, Script["export"][2]) /\ Achieved(c, Script["export"][9])
  <2>1. 2 \in 1 .. c.at - 1 /\ 9 \in 1 .. c.at - 1
    BY <1>2
  <2> QED
    BY <1>1, <2>1 DEF CallOK
<1>4. Script["export"][2] = <<"take", "bytes">> /\ Script["export"][9] = <<"gate", "approval">>
  <2>1. 2 \in 1 .. 11 /\ 9 \in 1 .. 11
    OBVIOUS
  <2> QED
    BY <2>1, ExportSteps, CandidateSteps DEF Exports
<1>5. c.got["bytes"] \in Contents /\ Agreed(c)
  BY <1>3, <1>4, FileValues DEF Achieved
<1> QED
  BY <1>1, <1>2, <1>5 DEF Agreed, Exact, Sound, Covers, KeyOf

\* One approval, one candidate.
LEMMA SameCand ==
  ASSUME NEW c, NEW d, CallOK(c), CallOK(d), Past(c, 34), Past(d, 34), KeyOf(c) = KeyOf(d), ~Rival(c, d)
  PROVE  CandOf(c) = CandOf(d)
<1>1. /\ Agreed(c) /\ Agreed(d) /\ c.kind = "export" /\ d.kind = "export"
      /\ c.held["manifest"] = c.rev /\ d.held["manifest"] = d.rev
  BY ExportAgreed DEF Past
<1>2. c.rev = d.rev /\ c.got["bytes"] = d.got["bytes"] /\ c.got["approval"] = d.got["approval"]
  BY DEF KeyOf, Rival
<1>3. c.got["metadata"] = d.got["metadata"] /\ c.got["audit"] = d.got["audit"]
  BY <1>1, <1>2 DEF Agreed, Exact
<1>4. \A f \in Parts : (IF f = "manifest" THEN c.held[f] ELSE c.got[f]) = (IF f = "manifest" THEN d.held[f] ELSE d.got[f])
  BY <1>1, <1>2, <1>3 DEF Parts, Files
<1> QED
  BY <1>4 DEF CandOf

\* Where an export past the gate comes from: it holds what it held before.
Came(c, d) ==
  /\ Past(c, 34) /\ KeyOf(d) = KeyOf(c) /\ CandOf(d) = CandOf(c) /\ d.rev = c.rev
  /\ d.got["approval"] = c.got["approval"] /\ d.kind = c.kind

LEMMA CameFrom ==
  ASSUME EvidenceInv, [EvidenceNext]_evidenceVars, NEW p \in Tabs, Past(call'[p], 35)
  PROVE  /\ Came(call[p], call'[p])
         /\ \/ call'[p] = call[p]
            \/ Step(p) /\ call'[p].at = call[p].at + 1 /\ \A r \in Tabs \ {p} : call'[r] = call[r]
<1> DEFINE c == call[p]
           d == call'[p]
<1>1. CallsOK /\ DiskOK
  BY DEF EvidenceInv
<1>2. CallOK(c)
  BY <1>1 DEF CallsOK
<1>3. CASE d = c
  <2>1. c.at \in Nat /\ Past(c, 35)
    BY <1>2, <1>3 DEF CallOK, Calls
  <2> QED
    BY <1>3, <2>1 DEF Past, Came
<1>4. CASE Step(p)
  <2>1. Follower(c, d) /\ \A r \in Tabs \ {p} : call'[r] = call[r]
    BY <1>1, <1>4, StepMoves
  <2>2. /\ c.kind = "export" /\ d.kind = c.kind /\ d.rev = c.rev /\ d.held = c.held /\ d.at = c.at + 1 /\ d.at >= 35
        /\ \/ d.got = c.got
           \/ /\ Script[c.kind][c.at][1] \in {"take", "ask"}
              /\ \A f \in Files \ {Script[c.kind][c.at][2]} : d.got[f] = c.got[f]
    BY <2>1 DEF Follower, Past
  <2>3. c.at \in 1 .. 125 /\ c.at >= 34
    <3>1. c.at \in 1 .. 125
      BY <1>2, <2>2, AnyStep
    <3> QED
      BY <2>2, <3>1
  <2>4. Script["export"][c.at][1] \in {"take", "ask"} => Script["export"][c.at][2] = "master"
    <3>1. /\ Script["export"][c.at][1] \notin {"ask", "make", "put"}
          /\ Script["export"][c.at][1] = "take" => Script["export"][c.at][2] = "master" \/ c.at <= 6
      BY <2>3, ExportVerbs
    <3> QED
      BY <2>3, <3>1
  <2>5. \A f \in Parts : d.got[f] = c.got[f]
    BY <2>2, <2>4 DEF Parts, Files
  <2>6. CandOf(d) = CandOf(c)
    BY <2>2, <2>5 DEF CandOf
  <2>7. d.got["bytes"] = c.got["bytes"] /\ d.got["approval"] = c.got["approval"]
    BY <2>5 DEF Parts, Files
  <2> QED
    BY <1>4, <2>1, <2>2, <2>3, <2>6, <2>7 DEF Came, Past, KeyOf
<1>5. ASSUME NEW r \in Tabs, Step(r), r # p PROVE d = c
  BY <1>1, <1>5, StepMoves
<1>6. ASSUME NEW r \in Tabs, GiveUp(r) PROVE d = c
  <2>1. call'[r] = Idle /\ Idle.kind = "none" /\ \A t \in Tabs \ {r} : call'[t] = call[t]
    BY <1>1, <1>6, Leaves DEF GiveUp
  <2> QED
    BY <2>1 DEF Past
<1>7. ASSUME NEW r \in Tabs, NEW k \in plan.kinds, NEW q \in Revisions, NEW x \in Contents, Begin(r, k, q, x)
      PROVE  d = c
  <2>1. call'[r].at = 1 /\ \A t \in Tabs \ {r} : call'[t] = call[t]
    BY <1>1, <1>7 DEF Begin, CallsOK
  <2> QED
    BY <2>1 DEF Past
<1>8. ASSUME call' = call PROVE d = c
  BY <1>8
<1> QED
  BY <1>3, <1>4, <1>5, <1>6, <1>7, <1>8 DEF EvidenceNext, Edit, Outside, evidenceVars

\* A superseded approval is not given again.
LEMMA SupersededStays ==
  ASSUME EvidenceInv, Stamped, [EvidenceNext]_evidenceVars, NEW p \in Tabs, Past(call'[p], 35),
         Superseded(call[p], disk)
  PROVE  Superseded(call'[p], disk')
<1> DEFINE c == call[p]
           d == call'[p]
<1>1. Came(c, d)
  BY CameFrom
<1>2. CallOK(c)
  BY DEF EvidenceInv, CallsOK
<1>3. There(c.got["approval"]) /\ c.rev \in Revisions /\ c.kind # "none"
  BY <1>1, <1>2, ExportAgreed DEF Came
<1>4. Given(c.got["approval"], call, calls)
  BY <1>3 DEF Stamped, Running
<1>5. Reapproved(disk["approval"][c.rev], disk'["approval"][c.rev])
  BY <1>3, Reapproves
<1>6. disk'["approval"][c.rev] # c.got["approval"]
  BY <1>3, <1>4, <1>5 DEF Reapproved, Given, Superseded
<1> QED
  BY <1>1, <1>6 DEF Came, Superseded

\* The last comparison of the verification before the first copy.
LEMMA Arrives47 ==
  ASSUME EvidenceInv, NEW p \in Tabs, Step(p), call[p].kind = "export", call[p].at = 46, call'[p].kind # "none"
  PROVE  ~Superseded(call[p], disk) /\ UNCHANGED <<disk, packages>>
<1>1. CallsOK
  BY DEF EvidenceInv
<1>2. Script["export"][46] = <<"same", "approval">>
  <2>1. 35 \in Verified /\ 11 \in 1 .. 11
    BY DEF Verified
  <2>2. Script["export"][35 + 11] = Verify[11]
    BY <2>1, ExportSteps DEF Exports
  <2> QED
    BY <2>2, VerifySteps
<1>3. Verb(p) = "same" /\ Name(p) = "approval"
  BY <1>2 DEF Verb, Name, StepOf
<1>4. Check(p) \/ Refuse(p)
  BY <1>3 DEF Step, TakeFile, Make, Put, Directory, Copy, Mark, Commit, Ask, At
<1>5. ~Refuse(p)
  BY <1>1, Leaves DEF Refuse
<1> QED
  BY <1>3, <1>4, <1>5 DEF Check, Passes, Here, Got, Superseded

\* The directory is made where none was seen.
LEMMA Arrives35 ==
  ASSUME EvidenceInv, NEW p \in Tabs, Step(p), call[p].kind = "export", call[p].at = 34, call'[p].kind # "none"
  PROVE  ~packages[KeyOf(call[p])].exists /\ UNCHANGED <<disk, packages>>
<1>1. CallsOK
  BY DEF EvidenceInv
<1>2. Script["export"][34] = <<"vacant", "package">>
  BY ExportSteps DEF Exports
<1>3. Verb(p) = "vacant"
  BY <1>2 DEF Verb, StepOf
<1>4. Check(p) \/ Refuse(p)
  BY <1>3 DEF Step, TakeFile, Make, Put, Directory, Copy, Mark, Commit, Ask, At
<1>5. ~Refuse(p)
  BY <1>1, Leaves DEF Refuse
<1> QED
  BY <1>3, <1>4, <1>5 DEF Check, Passes, Vacant, Package, Key, Got, KeyOf

\* What a step of the export c may make of its package.
Grows(c, old, new) ==
  /\ c.at < 47 => new.parts = old.parts /\ new.marker = old.marker
  /\ \A f \in Parts : new.parts[f] \in {old.parts[f], CandOf(c)[f]}
  /\ \/ new.marker = old.marker
     \/ old.marker = None /\ new.marker = Empty
     \/ c.at = 114 /\ new.marker = CandOf(c) /\ new.parts = old.parts
  /\ old.exists => new.exists
  /\ new \in Packs

LEMMA PackageGrows ==
  ASSUME EvidenceInv, NEW p \in Tabs, Step(p)
  PROVE  \/ packages' = packages
         \/ /\ Past(call[p], 34) /\ Running(p) /\ UNCHANGED disk
            /\ packages' = [packages EXCEPT ![KeyOf(call[p])] = packages'[KeyOf(call[p])]]
            /\ KeyOf(call[p]) \in Revisions \X Contents
            /\ Grows(call[p], packages[KeyOf(call[p])], packages'[KeyOf(call[p])])
<1> DEFINE c == call[p]
           k == KeyOf(c)
           old == packages[k]
           new == packages'[k]
<1>1. CallsOK /\ PackagesOK
  BY DEF EvidenceInv
<1>2. CASE ~(Directory(p) \/ Copy(p) \/ Mark(p) \/ Commit(p))
  BY <1>2 DEF Step, Check, TakeFile, Refuse, Make, Put, Ask
<1>3. CASE Directory(p) \/ Copy(p) \/ Mark(p) \/ Commit(p)
  <2>1. Running(p) /\ Verb(p) \in {"dir", "copy", "mark", "commit"} /\ disk' = disk
    BY <1>3 DEF Directory, Copy, Mark, Commit, Packing, At
  <2>2. /\ c.kind = "export" /\ c.at \in 34 .. 125
        /\ Verb(p) = "dir" => c.at = 35
        /\ Verb(p) = "copy" => c.at \in 47 .. 56 /\ Name(p) \in Parts
        /\ Verb(p) = "mark" => c.at = 80
        /\ Verb(p) = "commit" => c.at = 114
    BY <1>1, <2>1, Packer DEF Exporting
  <2>3. Past(c, 34) /\ CallOK(c)
    BY <1>1, <2>2 DEF Past, CallsOK
  <2>4. k \in Revisions \X Contents /\ k = Key(p)
    BY <2>3, ExportAgreed DEF KeyOf, Key, Got
  <2>5. old = Package(p) /\ CandOf(c) = CandidateOf(p) /\ old \in Packs
    BY <1>1, <2>4 DEF Package, CandOf, CandidateOf, Got, PackagesOK
  <2>6. CandOf(c) \in [Parts -> Values]
    BY <1>1, <2>2, <2>5, CandidateTyped DEF Exporting
  <2> HIDE DEF old, k
  <2>7. ASSUME NEW x, Packing(p, x) PROVE packages' = [packages EXCEPT ![k] = x] /\ new = x
    BY <1>1, <2>4, <2>7 DEF Packing, PackagesOK
  <2> HIDE DEF new
  <2> DEFINE cand == CandOf(c)
  <2> HIDE DEF cand
  <2>8. cand \in [Parts -> Values] /\ cand = CandidateOf(p)
    BY <2>5, <2>6 DEF cand
  <2>9. CASE Directory(p)
    <3>1. Verb(p) = "dir" /\ Packing(p, [old EXCEPT !.exists = TRUE])
      BY <2>5, <2>9 DEF Directory, At
    <3>2. packages' = [packages EXCEPT ![k] = new] /\ new = [old EXCEPT !.exists = TRUE]
      BY <2>7, <3>1
    <3>3. new \in Packs /\ new.exists /\ new.parts = old.parts /\ new.marker = old.marker
      BY <2>5, <3>2 DEF Packs
    <3>4. Grows(c, old, new)
      BY <3>3 DEF Grows
    <3> QED
      BY <2>1, <2>3, <2>4, <3>2, <3>4 DEF old, new, k
  <2>10. CASE Copy(p)
    <3>1. Verb(p) = "copy" /\ Packing(p, [old EXCEPT !.parts[Name(p)] = cand[Name(p)]])
      BY <2>5, <2>8, <2>10 DEF Copy, At
    <3>2. packages' = [packages EXCEPT ![k] = new] /\ new = [old EXCEPT !.parts[Name(p)] = cand[Name(p)]]
      BY <2>7, <3>1
    <3>3. Name(p) \in Parts /\ c.at \in 47 .. 56
      BY <2>2, <3>1
    <3>4. /\ new \in Packs /\ new.marker = old.marker /\ new.exists = old.exists
          /\ \A f \in Parts : new.parts[f] = IF f = Name(p) THEN cand[f] ELSE old.parts[f]
      BY <2>5, <2>8, <3>2, <3>3 DEF Packs
    <3>5. Grows(c, old, new)
      BY <3>3, <3>4 DEF Grows, cand
    <3> QED
      BY <2>1, <2>3, <2>4, <3>2, <3>5 DEF old, new, k
  <2>11. CASE Mark(p)
    <3>1. Verb(p) = "mark" /\ Packing(p, [old EXCEPT !.marker = IF @ = None THEN Empty ELSE @])
      BY <2>5, <2>11 DEF Mark, At
    <3>2. packages' = [packages EXCEPT ![k] = new] /\ new = [old EXCEPT !.marker = IF @ = None THEN Empty ELSE @]
      BY <2>7, <3>1
    <3>3. Empty \in Values
      BY FileValues DEF Files
    <3>4. /\ new \in Packs /\ new.exists = old.exists /\ new.parts = old.parts
          /\ new.marker = IF old.marker = None THEN Empty ELSE old.marker
      BY <2>5, <3>2, <3>3 DEF Packs
    <3>5. c.at = 80
      BY <2>2, <3>1
    <3>6. Grows(c, old, new)
      BY <3>4, <3>5 DEF Grows
    <3> QED
      BY <2>1, <2>3, <2>4, <3>2, <3>6 DEF old, new, k
  <2>12. CASE Commit(p)
    <3>1. Verb(p) = "commit" /\ Packing(p, [old EXCEPT !.marker = cand])
      BY <2>5, <2>8, <2>12 DEF Commit, At
    <3>2. packages' = [packages EXCEPT ![k] = new] /\ new = [old EXCEPT !.marker = cand]
      BY <2>7, <3>1
    <3>3. /\ new \in Packs /\ new.exists = old.exists /\ new.parts = old.parts /\ new.marker = cand
      BY <2>5, <2>8, <3>2 DEF Packs
    <3>4. c.at = 114
      BY <2>2, <3>1
    <3>5. Grows(c, old, new)
      BY <3>3, <3>4 DEF Grows, cand
    <3> QED
      BY <2>1, <2>3, <2>4, <3>2, <3>5 DEF old, new, k
  <2> QED
    BY <1>3, <2>9, <2>10, <2>11, <2>12
<1> QED
  BY <1>2, <1>3

\* A copying step that goes on has copied.
LEMMA Copying ==
  ASSUME EvidenceInv, NEW p \in Tabs, Step(p), call[p].kind = "export", NEW j \in 1 .. 5, call[p].at = 46 + 2 * j
  PROVE  packages'[KeyOf(call[p])].parts[Copied[j]] = CandOf(call[p])[Copied[j]]
<1> DEFINE c == call[p]
<1>1. CallsOK /\ PackagesOK
  BY DEF EvidenceInv
<1>2. Script["export"][46 + 2 * j] = <<"copy", Copied[j]>>
  BY ExportSteps DEF Exports
<1>3. Verb(p) = "copy" /\ Name(p) = Copied[j]
  BY <1>2 DEF Verb, Name, StepOf
<1>4. Packing(p, [Package(p) EXCEPT !.parts[Name(p)] = CandidateOf(p)[Name(p)]])
  BY <1>3 DEF Step, Check, TakeFile, Refuse, Make, Put, Directory, Copy, Mark, Commit, Ask, At, Comparisons
<1>5. CallOK(c) /\ Past(c, 34) /\ Running(p)
  BY <1>1 DEF CallsOK, Past, Running
<1>6. Key(p) = KeyOf(c) /\ KeyOf(c) \in Revisions \X Contents /\ CandidateOf(p) = CandOf(c) /\ Name(p) \in Parts
  BY <1>1, <1>3, <1>5, ExportAgreed, Packer DEF KeyOf, Key, Got, CandOf, CandidateOf
<1>7. Package(p) \in Packs
  BY <1>1, <1>6 DEF PackagesOK, Package
<1> DEFINE cand == CandOf(c)
           k == KeyOf(c)
<1> HIDE DEF cand, k
<1>8. packages' = [packages EXCEPT ![k] = [Package(p) EXCEPT !.parts[Name(p)] = cand[Name(p)]]]
  BY <1>4, <1>6 DEF Packing, cand, k
<1>9. packages'[k] = [Package(p) EXCEPT !.parts[Name(p)] = cand[Name(p)]]
  BY <1>1, <1>6, <1>8 DEF PackagesOK, k
<1>10. packages'[k].parts[Name(p)] = cand[Name(p)]
  BY <1>6, <1>7, <1>9 DEF Packs
<1> QED
  BY <1>3, <1>10 DEF cand, k

\* What a step does to one package, whoever takes it.
Added(k) == \E r \in Tabs : /\ Step(r) /\ Past(call[r], 34) /\ CallOK(call[r]) /\ KeyOf(call[r]) = k
                            /\ Grows(call[r], packages[k], packages'[k])

LEMMA AnyAdded ==
  ASSUME EvidenceInv, [EvidenceNext]_evidenceVars, NEW k \in Revisions \X Contents
  PROVE  packages'[k] = packages[k] \/ Added(k)
<1>1. ASSUME NEW r \in Tabs, Step(r) PROVE packages'[k] = packages[k] \/ Added(k)
  <2>1. CASE packages' = packages
    BY <2>1
  <2>2. CASE /\ Past(call[r], 34)
             /\ packages' = [packages EXCEPT ![KeyOf(call[r])] = packages'[KeyOf(call[r])]]
             /\ KeyOf(call[r]) \in Revisions \X Contents
             /\ Grows(call[r], packages[KeyOf(call[r])], packages'[KeyOf(call[r])])
    <3>1. CASE k = KeyOf(call[r])
      BY <1>1, <2>2, <3>1 DEF Added, EvidenceInv, CallsOK
    <3>2. CASE k # KeyOf(call[r])
      BY <2>2, <3>2 DEF EvidenceInv, PackagesOK
    <3> QED
      BY <3>1, <3>2
  <2> QED
    BY <1>1, <2>1, <2>2, PackageGrows
<1>2. ASSUME UNCHANGED packages PROVE packages'[k] = packages[k]
  BY <1>2
<1> QED
  BY <1>1, <1>2 DEF EvidenceNext, GiveUp, Begin, Edit, Outside, evidenceVars

\* No rival writes to the package of an export that has begun to copy.
LEMMA NoRivalWrites ==
  ASSUME EvidenceInv, PackInv, NEW p \in Tabs, Past(call[p], 47), NEW r \in Tabs, Past(call[r], 47),
         KeyOf(call[r]) = KeyOf(call[p])
  PROVE  CandOf(call[r]) = CandOf(call[p])
<1>1. CallOK(call[p]) /\ CallOK(call[r])
  BY DEF EvidenceInv, CallsOK
<1>2. call[p].at \in Nat /\ call[r].at \in Nat
  BY <1>1 DEF CallOK, Calls
<1>3. Past(call[p], 34) /\ Past(call[r], 34) /\ Past(call[p], 35) /\ ~(call[p].at <= 46)
  BY <1>2 DEF Past
<1>4. ~Rival(call[p], call[r])
  BY <1>3 DEF PackInv, Rivals, Beaten
<1>5. ~Rival(call[r], call[p])
  BY <1>4 DEF Rival
<1> QED
  BY <1>1, <1>3, <1>5, SameCand

\* A beaten export stays so: it does not get past the verification.
LEMMA BeatenStays ==
  ASSUME EvidenceInv, Stamped, [EvidenceNext]_evidenceVars, NEW p \in Tabs, Past(call'[p], 35),
         Beaten(call[p], disk)
  PROVE  Beaten(call'[p], disk')
<1>1. Superseded(call'[p], disk')
  BY SupersededStays DEF Beaten
<1>2. /\ Came(call[p], call'[p])
      /\ \/ call'[p] = call[p]
         \/ Step(p) /\ call'[p].at = call[p].at + 1 /\ \A r \in Tabs \ {p} : call'[r] = call[r]
  BY CameFrom
<1>3. call[p].at \in Nat
  BY DEF EvidenceInv, CallsOK, CallOK, Calls
<1>4. ASSUME Step(p), call[p].at = 46 PROVE FALSE
  <2>1. call[p].kind = "export" /\ call'[p].kind # "none"
    BY <1>2 DEF Came, Past
  <2> QED
    BY <1>4, <2>1, Arrives47 DEF Beaten
<1>5. call'[p].at <= 46
  BY <1>2, <1>3, <1>4 DEF Beaten
<1> QED
  BY <1>1, <1>5 DEF Beaten

LEMMA RivalsKept ==
  ASSUME EvidenceInv, Stamped, PackInv, [EvidenceNext]_evidenceVars
  PROVE  Rivals'
<1> SUFFICES ASSUME NEW p \in Tabs, NEW r \in Tabs, Past(call'[p], 35), Past(call'[r], 47),
                    Rival(call'[p], call'[r])
             PROVE  Beaten(call'[p], disk')
  BY DEF Rivals, Past, Rival, KeyOf, Beaten, Superseded
<1> DEFINE c == call[p]
           e == call[r]
<1>1. /\ c.at \in Nat /\ e.at \in Nat /\ CallOK(c) /\ CallOK(e)
  BY DEF EvidenceInv, CallsOK, CallOK, Calls
<1>2. /\ Came(c, call'[p])
      /\ \/ call'[p] = c
         \/ Step(p) /\ call'[p].at = c.at + 1 /\ \A t \in Tabs \ {p} : call'[t] = call[t]
  BY CameFrom
<1>3. /\ Came(e, call'[r]) /\ Past(e, 46)
      /\ \/ call'[r] = e
         \/ Step(r) /\ call'[r].at = e.at + 1 /\ \A t \in Tabs \ {r} : call'[t] = call[t]
  <2>1. call'[r].at \in Nat
    BY NextKeepsInv DEF EvidenceInv, CallsOK, CallOK, Calls
  <2>2. Past(call'[r], 35)
    BY <2>1 DEF Past
  <2>3. /\ Came(e, call'[r])
        /\ \/ call'[r] = e
           \/ Step(r) /\ call'[r].at = e.at + 1 /\ \A t \in Tabs \ {r} : call'[t] = call[t]
    BY <2>2, CameFrom
  <2>4. Past(e, 46)
    BY <1>1, <2>3 DEF Came, Past
  <2> QED
    BY <2>3, <2>4
<1>4. Rival(c, e) /\ p # r /\ c.rev = e.rev /\ c.kind = "export" /\ e.kind = "export"
  BY <1>2, <1>3 DEF Came, Rival, KeyOf, Past
<1>5. call'[p].kind # "none" /\ call'[r].kind # "none"
  BY DEF Past
<1>6. CASE Past(e, 47) /\ Past(c, 35)
  <2>1. Beaten(c, disk)
    BY <1>4, <1>6 DEF PackInv, Rivals
  <2> QED
    BY <2>1, BeatenStays
<1>7. CASE Past(e, 47) /\ ~Past(c, 35)
  <2>1. Step(p) /\ c.at = 34
    BY <1>1, <1>2, <1>7 DEF Came, Past
  <2>2. ~packages[KeyOf(c)].exists
    BY <1>4, <1>5, <2>1, Arrives35
  <2>3. packages[KeyOf(e)].exists
    <3>1. Exporting(r) /\ e.at > 35
      BY <1>1, <1>7 DEF Past, Exporting
    <3> QED
      BY <3>1 DEF EvidenceInv, DirectoryMade, Package, Key, Got, KeyOf
  <2> QED
    BY <1>4, <2>2, <2>3 DEF Rival
<1>8. CASE ~Past(e, 47)
  <2>1. Step(r) /\ e.at = 46 /\ call'[p] = c
    BY <1>1, <1>3, <1>4, <1>8 DEF Past
  <2>2. ~Superseded(e, disk) /\ disk' = disk
    BY <1>4, <1>5, <2>1, Arrives47
  <2>3. Superseded(c, disk')
    BY <1>4, <2>2 DEF Superseded, Rival
  <2>4. c.at <= 46
    <3>1. SUFFICES ASSUME Past(c, 47) PROVE FALSE
      BY <1>1, <1>4 DEF Past
    <3>2. Past(e, 35) /\ Rival(e, c)
      BY <1>4, <2>1 DEF Past, Rival
    <3>3. Beaten(e, disk)
      BY <3>1, <3>2 DEF PackInv, Rivals
    <3> QED
      BY <2>2, <3>3 DEF Beaten
  <2> QED
    BY <2>1, <2>3, <2>4 DEF Beaten
<1> QED
  BY <1>6, <1>7, <1>8

LEMMA FilledKept ==
  ASSUME EvidenceInv, Stamped, PackInv, [EvidenceNext]_evidenceVars
  PROVE  Filled'
<1> SUFFICES ASSUME NEW p \in Tabs, Past(call'[p], 35), ~Beaten(call'[p], disk')
             PROVE  Only(packages'[KeyOf(call'[p])], CandOf(call'[p]))
  BY DEF Filled, Past, Beaten, Superseded, Only, KeyOf, CandOf
<1> DEFINE c == call[p]
           k == KeyOf(c)
<1>1. c.at \in Nat /\ CallOK(c)
  BY DEF EvidenceInv, CallsOK, CallOK, Calls
<1>2. /\ Came(c, call'[p])
      /\ \/ call'[p] = c
         \/ Step(p) /\ call'[p].at = c.at + 1 /\ \A t \in Tabs \ {p} : call'[t] = call[t]
  BY CameFrom
<1>3. k \in Revisions \X Contents /\ c.kind = "export" /\ Past(c, 34)
  BY <1>1, <1>2, ExportAgreed DEF Came, Past
<1>4. ~Beaten(c, disk)
  BY BeatenStays
<1>5. CASE ~Past(c, 35)
  <2>1. Step(p) /\ c.at = 34 /\ call'[p].kind # "none"
    BY <1>1, <1>2, <1>5 DEF Came, Past
  <2>2. ~packages[k].exists /\ packages' = packages
    BY <1>3, <2>1, Arrives35
  <2>3. packages'[k] = NoPackage
    BY <1>3, <2>2 DEF EvidenceInv, PackagesOK
  <2>4. Only(NoPackage, CandOf(c))
    BY DEF NoPackage, Only
  <2> QED
    BY <1>2, <2>3, <2>4 DEF Came
<1>6. CASE Past(c, 35)
  <2>1. Only(packages[k], CandOf(c))
    BY <1>4, <1>6 DEF PackInv, Filled
  <2>2. CASE packages'[k] = packages[k]
    BY <1>2, <2>1, <2>2 DEF Came
  <2>3. CASE Added(k)
    <3>1. PICK r \in Tabs : /\ Past(call[r], 34) /\ CallOK(call[r]) /\ KeyOf(call[r]) = k
                            /\ Grows(call[r], packages[k], packages'[k])
      BY <2>3 DEF Added
    <3>2. call[r].at \in Nat
      BY <3>1 DEF CallOK, Calls
    <3>3. CASE call[r].at < 47
      <4>1. packages'[k].parts = packages[k].parts /\ packages'[k].marker = packages[k].marker
        BY <3>1, <3>3 DEF Grows
      <4>2. Only(packages'[k], CandOf(c))
        BY <2>1, <4>1 DEF Only
      <4> QED
        BY <1>2, <4>2 DEF Came
    <3>4. CASE ~(call[r].at < 47)
      <4>1. Past(call[r], 47)
        BY <3>1, <3>2, <3>4 DEF Past
      <4>2. ~Rival(c, call[r])
        BY <1>4, <1>6, <4>1 DEF PackInv, Rivals
      <4>3. CandOf(call[r]) = CandOf(c)
        BY <1>1, <1>3, <3>1, <4>2, SameCand
      <4>4. Only(packages'[k], CandOf(c))
        BY <2>1, <3>1, <4>3 DEF Only, Grows
      <4> QED
        BY <1>2, <4>4 DEF Came
    <3> QED
      BY <3>3, <3>4
  <2> QED
    BY <1>3, <2>2, <2>3, AnyAdded
<1> QED
  BY <1>5, <1>6

LEMMA CopiesKept ==
  ASSUME EvidenceInv, Stamped, PackInv, [EvidenceNext]_evidenceVars
  PROVE  CopiesMade'
<1> SUFFICES ASSUME NEW p \in Tabs, NEW j \in 1 .. 5, Past(call'[p], 47), call'[p].at > 46 + 2 * j
             PROVE  packages'[KeyOf(call'[p])].parts[Copied[j]] = CandOf(call'[p])[Copied[j]]
  BY DEF CopiesMade, Past, KeyOf, CandOf
<1> DEFINE c == call[p]
           k == KeyOf(c)
           f == Copied[j]
<1>1. c.at \in Nat /\ CallOK(c) /\ call'[p].at \in Nat /\ j \in Nat /\ j >= 1
  BY NextKeepsInv DEF EvidenceInv, CallsOK, CallOK, Calls
<1>2. /\ Came(c, call'[p])
      /\ \/ call'[p] = c
         \/ Step(p) /\ call'[p].at = c.at + 1 /\ \A t \in Tabs \ {p} : call'[t] = call[t]
  <2>1. Past(call'[p], 35)
    BY <1>1 DEF Past
  <2> QED
    BY <2>1, CameFrom
<1>3. k \in Revisions \X Contents /\ c.kind = "export" /\ Past(c, 34)
  BY <1>1, <1>2, ExportAgreed DEF Came, Past
<1>4. c.at >= 46 + 2 * j /\ Past(c, 47)
  BY <1>1, <1>2, <1>3 DEF Past
<1>5. CASE c.at = 46 + 2 * j
  <2>1. Step(p)
    BY <1>1, <1>2, <1>5
  <2> QED
    <3>1. packages'[k].parts[f] = CandOf(c)[f]
      BY <1>3, <1>5, <2>1, Copying
    <3> QED
      BY <1>2, <3>1 DEF Came
<1>6. CASE c.at # 46 + 2 * j
  <2>1. packages[k].parts[f] = CandOf(c)[f]
    BY <1>1, <1>4, <1>6 DEF PackInv, CopiesMade
  <2>2. CASE packages'[k] = packages[k]
    BY <1>2, <2>1, <2>2 DEF Came
  <2>3. CASE Added(k)
    <3>1. PICK r \in Tabs : /\ Past(call[r], 34) /\ CallOK(call[r]) /\ KeyOf(call[r]) = k
                            /\ Grows(call[r], packages[k], packages'[k])
      BY <2>3 DEF Added
    <3>2. call[r].at \in Nat /\ f \in Parts
      <4>1. j = 1 \/ j = 2 \/ j = 3 \/ j = 4 \/ j = 5
        OBVIOUS
      <4>2. f \in Parts
        BY <4>1 DEF Copied, Parts, Files
      <4> QED
        BY <3>1, <4>2 DEF CallOK, Calls
    <3>3. CASE call[r].at < 47
      BY <1>2, <2>1, <3>1, <3>3 DEF Grows, Came
    <3>4. CASE ~(call[r].at < 47)
      <4>1. Past(call[r], 47)
        BY <3>1, <3>2, <3>4 DEF Past
      <4>2. CandOf(call[r]) = CandOf(c)
        BY <1>4, <3>1, <4>1, NoRivalWrites
      <4>3. packages'[k].parts[f] = CandOf(c)[f]
        <5>1. packages'[k].parts[f] \in {packages[k].parts[f], CandOf(call[r])[f]}
          BY <3>1, <3>2 DEF Grows
        <5> QED
          BY <2>1, <4>2, <5>1
      <4> QED
        BY <1>2, <4>3 DEF Came
    <3> QED
      BY <3>3, <3>4
  <2> QED
    BY <1>3, <2>2, <2>3, AnyAdded
<1> QED
  BY <1>5, <1>6

\* What is complete stays, and what is completed is one candidate.
LEMMA CompleteKept ==
  ASSUME EvidenceInv, PackInv, [EvidenceNext]_evidenceVars, NEW k \in Revisions \X Contents
  PROVE  /\ OneCandidate(k)'
         /\ There(packages[k].marker) => packages'[k] = packages[k]
<1> DEFINE old == packages[k]
           new == packages'[k]
<1>1. OneCandidate(k) /\ old \in Packs /\ (~old.exists => old = NoPackage)
  BY DEF PackInv, Complete, EvidenceInv, PackagesOK
<1>2. CASE new = old
  BY <1>1, <1>2 DEF OneCandidate, There, Covers
<1>3. CASE Added(k)
  <2>1. PICK r \in Tabs : /\ Past(call[r], 34) /\ CallOK(call[r]) /\ KeyOf(call[r]) = k /\ Grows(call[r], old, new)
    BY <1>3 DEF Added
  <2> DEFINE c == call[r]
             cand == CandOf(c)
  <2>2. c.at \in 34 .. 125 /\ Covers(c.got["approval"], c.got["bytes"], c.got["metadata"], c.got["audit"])
    BY <2>1, ExportAgreed
  <2>3. new \in Packs /\ (old.exists => new.exists)
    BY <2>1 DEF Grows
  <2>4. c.at >= 47 => Only(old, cand)
    <3> SUFFICES ASSUME c.at >= 47 PROVE Only(old, cand)
      OBVIOUS
    <3>1. Past(c, 35) /\ ~(c.at <= 46)
      BY <2>1, <2>2 DEF Past
    <3> QED
      BY <2>1, <3>1 DEF PackInv, Filled, Beaten
  <2>5. ASSUME There(old.marker) PROVE new = old
    <3>1. old.exists /\ new.exists
      BY <1>1, <2>3, <2>5 DEF NoPackage, There
    <3>2. new.parts = old.parts /\ new.marker = old.marker
      <4>1. CASE c.at < 47
        BY <2>1, <4>1 DEF Grows
      <4>2. CASE ~(c.at < 47)
        <5>1. old.marker = cand /\ old.parts = old.marker
          BY <1>1, <2>2, <2>4, <2>5, <4>2 DEF Only, OneCandidate, There
        <5>2. \A f \in Parts : new.parts[f] = old.parts[f]
          BY <2>1, <5>1 DEF Grows
        <5>3. new.marker = old.marker
          BY <2>1, <2>5, <5>1 DEF Grows, There
        <5>4. new.parts = old.parts
          BY <1>1, <2>3, <5>2 DEF Packs
        <5> QED
          BY <5>3, <5>4
      <4> QED
        BY <4>1, <4>2
    <3> QED
      BY <1>1, <2>3, <3>1, <3>2 DEF Packs
  <2>6. ASSUME ~There(old.marker), There(new.marker)
        PROVE  /\ new.parts = new.marker /\ new.marker["bytes"] = k[2]
               /\ LET m == new.marker IN Covers(m["approval"], m["bytes"], m["metadata"], m["audit"])
    <3>1. c.at = 114 /\ new.marker = cand /\ new.parts = old.parts
      BY <2>1, <2>6 DEF Grows, There
    <3>2. \A j \in 1 .. 5 : old.parts[Copied[j]] = cand[Copied[j]]
      <4>1. \A j \in 1 .. 5 : Past(c, 47) /\ c.at > 46 + 2 * j
        BY <2>1, <3>1 DEF Past
      <4> QED
        BY <2>1, <4>1 DEF PackInv, CopiesMade
    <3>3. \A f \in Parts : old.parts[f] = cand[f]
      <4>1. \A f \in Parts : \E j \in 1 .. 5 : f = Copied[j]
        <5>1. /\ Copied[1] = "bytes" /\ Copied[2] = "metadata" /\ Copied[3] = "audit"
              /\ Copied[4] = "approval" /\ Copied[5] = "manifest"
          BY DEF Copied
        <5>2. 1 \in 1 .. 5 /\ 2 \in 1 .. 5 /\ 3 \in 1 .. 5 /\ 4 \in 1 .. 5 /\ 5 \in 1 .. 5
          OBVIOUS
        <5>3. \A f \in Parts : f \in {"manifest", "bytes", "metadata", "audit", "approval"}
          BY DEF Parts, Files
        <5> QED
          BY <5>1, <5>2, <5>3
      <4> QED
        BY <3>2, <4>1
    <3>4. cand = [f \in Parts |-> cand[f]] /\ old.parts = [f \in Parts |-> old.parts[f]]
      BY <1>1 DEF CandOf, Packs
    <3> HIDE DEF cand, old
    <3>5. old.parts = cand
      BY <3>3, <3>4
    <3>6. /\ cand["bytes"] = c.got["bytes"] /\ cand["approval"] = c.got["approval"]
          /\ cand["metadata"] = c.got["metadata"] /\ cand["audit"] = c.got["audit"]
      BY DEF cand, CandOf, Parts, Files
    <3>7. k[2] = c.got["bytes"]
      BY <2>1 DEF KeyOf
    <3> QED
      BY <2>2, <3>1, <3>5, <3>6, <3>7
  <2>7. OneCandidate(k)'
    <3>1. CASE There(old.marker)
      BY <1>1, <2>5, <3>1 DEF OneCandidate, There, Covers
    <3>2. CASE ~There(old.marker)
      BY <2>6, <3>2 DEF OneCandidate, There, Covers
    <3> QED
      BY <3>1, <3>2
  <2> QED
    BY <2>5, <2>7
<1> QED
  BY <1>2, <1>3, AnyAdded

LEMMA PackInvKept ==
  EvidenceInv /\ Stamped /\ PackInv /\ [EvidenceNext]_evidenceVars => PackInv'
<1> SUFFICES ASSUME EvidenceInv, Stamped, PackInv, [EvidenceNext]_evidenceVars PROVE PackInv'
  OBVIOUS
<1>1. Complete'
  BY CompleteKept DEF Complete
<1> QED
  BY <1>1, RivalsKept, FilledKept, CopiesKept DEF PackInv

LEMMA PackInvInit == EvidenceInit => PackInv
<1> SUFFICES ASSUME EvidenceInit PROVE PackInv
  OBVIOUS
<1>1. \A p \in Tabs : call[p].kind = "none"
  BY DEF EvidenceInit, Idle
<1>2. Rivals /\ Filled /\ CopiesMade
  BY <1>1 DEF Rivals, Filled, CopiesMade, Past
<1>3. \A k \in Revisions \X Contents : Unexported[k].marker = None
  BY DEF Unexported, NoPackage
<1>4. CASE packages = Unexported
  BY <1>2, <1>3, <1>4 DEF PackInv, Complete, OneCandidate, There
<1>5. ASSUME NEW m \in Contents, packages = [Unexported EXCEPT ![<<LastRevision, 1>>] = Exported(m)]
      PROVE  PackInv
  <2>1. /\ Exported(m).parts = Exported(m).marker /\ Exported(m).marker["bytes"] = 1
        /\ LET e == Exported(m).marker IN Covers(e["approval"], e["bytes"], e["metadata"], e["audit"])
    BY DEF Exported, Consent, Passed, Covers
  <2>2. \A k \in Revisions \X Contents :
          packages[k] = Unexported[k] \/ (packages[k] = Exported(m) /\ k = <<LastRevision, 1>>)
    BY <1>5 DEF Unexported
  <2>3. \A k \in Revisions \X Contents : OneCandidate(k)
    BY <1>3, <2>1, <2>2 DEF OneCandidate, There
  <2> QED
    BY <1>2, <2>3 DEF PackInv, Complete
<1> QED
  BY <1>4, <1>5 DEF EvidenceInit

\* A package with a written marker is whole and one approved candidate, and
\* stays as it is, whatever exports, saves and edits run beside it
\* (writeExportPackage and its repeated verifyCurrentEvidence).
THEOREM PackagesAreOneCandidate == EvidenceSpec => CompletePackageIsOneCandidate
<1>1. EvidenceInit => EvidenceInv /\ Stamped /\ PackInv
  BY InitOK, StampedInit, PackInvInit
<1>2. EvidenceInv /\ Stamped /\ PackInv /\ [EvidenceNext]_evidenceVars => (EvidenceInv /\ Stamped /\ PackInv)'
  BY NextKeepsInv, StampedKept, PackInvKept
<1>3. EvidenceInv /\ PackInv /\ [EvidenceNext]_evidenceVars =>
        \A k \in Revisions \X Contents :
          /\ OneCandidate(k)'
          /\ There(packages[k].marker) => packages'[k] = packages[k]
  BY CompleteKept
<1> QED
  BY <1>1, <1>2, <1>3, PTL DEF EvidenceSpec, CompletePackageIsOneCandidate
=============================================================================
