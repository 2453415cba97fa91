-------------------------- MODULE MCArtifactRemnants --------------------------
(* Small instances of ArtifactRemnants. *)
EXTENDS ArtifactRemnants, TLC

CONSTANTS k1, k2, a1, t1, p1, p2, h1, h2, r1

MCManifest == t1 :> (p1 :> h1 @@ p2 :> h2)

\* One tick to the second.
MCSecond == [t \in 0..(MaxTime + TTL) |-> t]
=============================================================================
