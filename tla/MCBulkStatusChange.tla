-------------------------- MODULE MCBulkStatusChange --------------------------
(***************************************************************************)
(* Two small instances of BulkStatusChange in one run.  In the scene       *)
(* "bulk" one client sends bulk changes of two stories, of which one may   *)
(* need an estimate to start, beside everything the other does; no cron    *)
(* runs.  In the scene "story" the two clients edit, archive and restore   *)
(* one story, over and over, while the cron carries work over.             *)
(***************************************************************************)
EXTENDS BulkStatusChange

CONSTANTS s1, s2, r1, r2

VARIABLE scene

mcVars == <<bulkVars, scene>>

MCNew ==
  {[type |-> type, estimated |-> FALSE, status |-> "Unstarted", icebox |-> icebox,
    iteration |-> 0, archivedAt |-> 0, completed |-> FALSE] :
     type \in {"bug", "feature"}, icebox \in BOOLEAN}

MCEdits ==
  {[type |-> Absent, estimated |-> Absent, status |-> status, icebox |-> Absent] :
     status \in {"Unstarted", "Started"}}
    \cup {[type |-> Absent, estimated |-> TRUE, status |-> "Started", icebox |-> Absent]}

MCBulkTo == {"Started"}

BulkScene ==
  /\ \A s \in Stories : ~story[s].icebox /\ Len(trail[s]) <= 1
  /\ bulk # Idle => bulk.by = r1
  /\ request[r1] # Idle => bulk # Idle
  /\ \A r \in Requests : request[r].at = "row" => request[r].edit.status = "Started"
  /\ cron = Idle

StoryScene ==
  /\ bulk = Idle
  /\ story[s1].type = "bug" /\ story[s2].type = "feature"
  /\ story[s2].status = "Unstarted" /\ ~story[s2].icebox
  /\ story[s2].iteration = 0 /\ story[s2].archivedAt = 0
  /\ \A r \in Requests : request[r] # Idle => request[r].story = s1
  /\ \A r \in Requests : request[r].at = "row" => request[r].edit.estimated = Absent

InScene == IF scene = "bulk" THEN BulkScene ELSE StoryScene

\* A run of the cron, in the scene that has one.
Runs(A) == scene = "story" /\ UNCHANGED scene /\ Beside(A)

MCInit == BulkInit /\ scene \in {"bulk", "story"} /\ InScene

MCSpec ==
  /\ MCInit
  /\ [][UNCHANGED scene /\ BulkNext /\ InScene']_mcVars
  /\ WF_mcVars(Runs(StartCron))
  /\ SF_mcVars(Runs(EnsureCurrentIteration))
  /\ SF_mcVars(Runs(ListIterations))
  /\ SF_mcVars(Runs(ReassignStories))
=============================================================================
