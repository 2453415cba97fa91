---------------------------- MODULE StoryWorkflow ----------------------------
(***************************************************************************)
(* What the tracker promises of a story, without requests, iterations or   *)
(* the cron: it moves along the transition table of story.ts, is in the    *)
(* Icebox only while nobody has started it, and is frozen while archived,  *)
(* which only a story nobody works on can be.                              *)
(***************************************************************************)
EXTENDS Naturals

CONSTANT Stories

VARIABLES
  status,   \* status of each story
  icebox,   \* whether it is in the Icebox
  archived  \* whether it is archived

workflowVars == <<status, icebox, archived>>

Status == {"Unstarted", "Started", "Finished", "Delivered", "Accepted", "Rejected"}

Transitions ==
  [Unstarted |-> {"Started"},
   Started   |-> {"Unstarted", "Finished"},
   Finished  |-> {"Started", "Delivered"},
   Delivered |-> {"Finished", "Accepted", "Rejected"},
   Accepted  |-> {"Unstarted", "Started"},
   Rejected  |-> {"Started"}]

CanTransition(from, to) == to = from \/ to \in Transitions[from]

CanArchive(st) == st \in {"Unstarted", "Rejected"}

Init ==
  /\ status = [s \in Stories |-> "Unstarted"]
  /\ icebox \in [Stories -> BOOLEAN]
  /\ archived = [s \in Stories |-> FALSE]

Work(s) ==
  /\ ~archived[s]
  /\ \E to \in Status, frozen \in BOOLEAN :
       /\ CanTransition(status[s], to)
       /\ frozen => to = "Unstarted"
       /\ status' = [status EXCEPT ![s] = to]
       /\ icebox' = [icebox EXCEPT ![s] = frozen]
  /\ UNCHANGED archived

Archive(s) ==
  /\ ~archived[s]
  /\ CanArchive(status[s])
  /\ archived' = [archived EXCEPT ![s] = TRUE]
  /\ UNCHANGED <<status, icebox>>

Restore(s) ==
  /\ archived[s]
  /\ archived' = [archived EXCEPT ![s] = FALSE]
  /\ UNCHANGED <<status, icebox>>

\* An iteration takes the stories that are moved into it out of the Icebox,
\* all of them at once.
Schedule ==
  /\ \E moved \in SUBSET {s \in Stories : ~archived[s]} :
       icebox' = [s \in Stories |-> icebox[s] /\ s \notin moved]
  /\ UNCHANGED <<status, archived>>

Next ==
  \/ \E s \in Stories : Work(s) \/ Archive(s) \/ Restore(s)
  \/ Schedule

Spec == Init /\ [][Next]_workflowVars
=============================================================================
