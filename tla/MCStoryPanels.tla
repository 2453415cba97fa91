---------------------------- MODULE MCStoryPanels ----------------------------
(* Small instances of StoryPanels. *)
EXTENDS StoryPanels

CONSTANTS s1, r1

MCNew ==
  {[type |-> "feature", estimated |-> estimated, status |-> "Unstarted", icebox |-> icebox,
    iteration |-> 0, archivedAt |-> 0, completed |-> FALSE] : estimated, icebox \in BOOLEAN}

MCEdits ==
  {[NoEdit EXCEPT !.status = status] : status \in Status}
    \cup {[NoEdit EXCEPT !.icebox = icebox] : icebox \in BOOLEAN}
=============================================================================
