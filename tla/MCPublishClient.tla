---------------------------- MODULE MCPublishClient ----------------------------
(***************************************************************************)
(* Two small instances of PublishClient in one run.  In the scene "update" *)
(* the command updates an artifact that another client creates and updates *)
(* too, and gives up on one kind of call.  In the scene "create" it        *)
(* creates one, alone, gives up on two, and the clock runs until both of   *)
(* its sessions have expired.                                              *)
(***************************************************************************)
EXTENDS PublishClient, TLC

CONSTANTS k1, k2, k3, a1, a2, t1, t2, p1, h1, r1, r2

VARIABLE scene

mcVars == <<clientVars, scene>>

\* Two trees of one file: they differ in their entrypoint.
MCManifest == [t \in Trees |-> (p1 :> h1)]

\* Two ticks to the second: a session may expire at its first or at its second.
MCSecond == [t \in 0..(MaxTime + TTL) |-> (t + 1) \div 2]

UpdateScene ==
  /\ want # NoSession => want.base > 0
  /\ Cardinality({session[k].artifact : k \in {j \in Keys : Exists(j)}}) <= 1
  /\ Cardinality(late) <= 1
  /\ now <= 3

CreateScene ==
  /\ \A r \in Requests : ~At(r, "idle") => request[r].key # k3
  /\ ~Exists(k3)

InScene == IF scene = "update" THEN UpdateScene ELSE CreateScene

MCInit == ClientInit /\ scene \in {"update", "create"}

MCSpec ==
  /\ MCInit
  /\ [][UNCHANGED scene /\ ClientNext /\ InScene']_mcVars

MCSymmetry == Permutations(Artifacts) \cup Permutations(Trees) \cup Permutations(Requests)
=============================================================================
