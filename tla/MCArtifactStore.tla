-------------------------- MODULE MCArtifactStore --------------------------
(* ArtifactStore on small instances.                                        *)
EXTENDS ArtifactStore
CONSTANTS a1, a2, r1, r2

TwoArtifacts == {a1, a2}
TwoReaders   == {r1, r2}
=============================================================================
