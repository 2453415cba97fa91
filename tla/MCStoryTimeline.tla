---------------------------- MODULE MCStoryTimeline ----------------------------
(***************************************************************************)
(* Two small instances of StoryTimeline in one run.  In the scene "news"   *)
(* the story begins without owners and PATCHes give it to one user at a    *)
(* time.  In the scene "owners" anybody may own it at the beginning or     *)
(* through its creation, and PATCHes ask for the status and any list of    *)
(* owners; what is told of it is left to the other scene.                  *)
(***************************************************************************)
EXTENDS StoryTimeline, FiniteSets, TLC

CONSTANTS u1, u2, p1, p2, r1, r2, s1, s2, s3, t1, t2

VARIABLE scene

mcVars == <<vars, scene>>

\* Every description mentions everybody.
MCMentions == [t \in Texts |-> Users]

MCWishes == SUBSET Users

Asks(r) == request[r].at \in {"read", "write"}

NewsScene ==
  \A r \in Requests : Asks(r) => request[r].wish = Keep \/ Cardinality(request[r].wish) = 1

OwnersScene ==
  /\ \A r \in Requests : request[r].at # "record"
  /\ \A r \in Requests : Asks(r) => DOMAIN request[r].set \subseteq {"status"}

InScene == IF scene = "news" THEN NewsScene ELSE OwnersScene

MCInit ==
  /\ Init /\ scene \in {"news", "owners"}
  /\ scene = "news" => owners = {} /\ inserting = {}

MCSpec ==
  /\ MCInit
  /\ [][UNCHANGED scene /\ Next /\ InScene']_mcVars

MCSymmetry ==
  Permutations(Patches) \cup Permutations(Requests) \cup Permutations(Users)
    \cup Permutations(Statuses) \cup Permutations(Texts)
=============================================================================
