------------------------------ MODULE StoryPanels ------------------------------
(***************************************************************************)
(* The four panels of the project page over StoryLifecycle: which stories  *)
(* the server lists in a panel (the queries of usePanelStoriesQuery over   *)
(* buildListFilters), which the page puts there itself                     *)
(* (storyMatchesPanel), and what a drag to another panel does              *)
(* (planStoryMoveToPanel and movePanelMutation): PATCHes along a path of   *)
(* the status, the iteration, the Icebox, one request after the other,     *)
(* with a rollback of the page alone.  The order within a panel is in      *)
(* StoryOrder.                                                             *)
(***************************************************************************)
EXTENDS StoryLifecycle

CONSTANTS
  Dragged,  \* the story that is dragged about
  NoStory   \* the page lists no story

ASSUME PanelsAssumption == Dragged \in Stories /\ NoStory \notin Guard

VARIABLES
  current,   \* the current iteration the page knows, 0 for none
  shown,     \* the page's copy of the story
  move,      \* movePanelMutation
  disturbed, \* history: somebody else changed the story or the calendar since the page was loaded
  torn       \* history: a move failed after one of its requests was carried out

clientVars == <<current, shown, move, disturbed, torn>>

panelVars == <<vars, clientVars>>

Panels == {"Done", "Current", "Backlog", "Icebox"}

Copy(row) == SeenOf(row)

\* "status", "iteration", "icebox": before a request of that kind; "arrived": after
\* the last one.
Move ==
  {Idle} \cup [at : {"arrived"}, to : Panels]
    \cup [at : {"status", "iteration", "icebox"}, to : Panels,
          path : Seq(Status), target : Guard, latest : Guard, before : Guard, wrote : BOOLEAN]

PanelsInit ==
  /\ Init
  /\ current = 0 /\ shown = NoStory /\ move = Idle
  /\ disturbed = FALSE /\ torn = FALSE

-----------------------------------------------------------------------------
(* The panels.                                                             *)

\* Fault: the query of the Backlog leaves out stories without an iteration.
ListedFault(row, cur) ==
  {p \in Panels :
     /\ row.archivedAt = 0
     /\ \/ p = "Done" /\ row.status = "Accepted" /\ row.iteration < today
        \/ /\ p = "Current" /\ ~row.icebox
           /\ IF cur = 0 THEN row.status \in InProgress ELSE row.iteration = cur
        \/ /\ p = "Backlog" /\ ~row.icebox /\ row.status \in NotInProgress
           /\ row.iteration > today
        \/ p = "Icebox" /\ row.icebox}

\* The panels a query of the server lists a story in, for a page that knows the
\* current iteration cur.  Accepted stories of the current iteration come by a
\* query of their own.
Listed(row, cur) ==
  {p \in Panels :
     /\ row.archivedAt = 0
     /\ \/ p = "Done" /\ row.status = "Accepted" /\ row.iteration < today
        \/ /\ p = "Current" /\ ~row.icebox
           /\ IF cur = 0 THEN row.status \in InProgress ELSE row.iteration = cur
        \/ /\ p = "Backlog" /\ ~row.icebox /\ row.status \in NotInProgress
           /\ row.iteration = 0 \/ row.iteration > today
        \/ p = "Icebox" /\ row.icebox}

\* Fault: a story of the current iteration stays in the Backlog as well.
MatchesFault(row, cur) ==
  {p \in Panels :
     \/ p = "Done" /\ row.status = "Accepted" /\ (cur = 0 \/ row.iteration # cur)
     \/ /\ p = "Current" /\ ~row.icebox
        /\ IF cur = 0 THEN row.status \in InProgress ELSE row.iteration = cur
     \/ p = "Backlog" /\ ~row.icebox /\ row.status \in NotInProgress
     \/ p = "Icebox" /\ row.icebox}

\* The panels the page moves a story to when it learns of a change.
Matches(row, cur) ==
  {p \in Panels :
     \/ p = "Done" /\ row.status = "Accepted" /\ (cur = 0 \/ row.iteration # cur)
     \/ /\ p = "Current" /\ ~row.icebox
        /\ IF cur = 0 THEN row.status \in InProgress ELSE row.iteration = cur
     \/ /\ p = "Backlog" /\ ~row.icebox /\ row.status \in NotInProgress
        /\ cur = 0 \/ row.iteration # cur
     \/ p = "Icebox" /\ row.icebox}

Quiet == move.at \in {"idle", "arrived"}

CurrentId == IF CurrentIteration = Absent THEN 0 ELSE CurrentIteration

\* The page is loaded with the calendar and the lists.
LoadPage ==
  LET row == story[Dragged] IN
  /\ Quiet
  /\ current' = CurrentId
  /\ shown' = IF Listed(row, CurrentId) # {} THEN Copy(row) ELSE NoStory
  /\ move' = Idle /\ disturbed' = FALSE /\ torn' = FALSE
  /\ UNCHANGED vars

-----------------------------------------------------------------------------
(* A drag.                                                                 *)

\* findStatusPath: breadth first, and no status is farther than two steps from
\* the one a plan leads to.
StatusPath(from, to) ==
  IF from = to THEN <<>>
  ELSE IF to \in Transitions[from] THEN <<to>>
  ELSE LET via == CHOOSE v \in Transitions[from] : to \in Transitions[v] IN <<via, to>>

PlanAccepted(copy, panel) ==
  /\ panel # "Done" /\ copy.status # "Accepted"
  /\ panel = "Current" => current # 0

TargetOf(copy, panel) ==
  IF panel = "Current" THEN [status |-> copy.status, icebox |-> FALSE, iteration |-> current]
  ELSE [status |-> "Unstarted", icebox |-> panel = "Icebox", iteration |-> 0]

\* Fault: the Icebox is left to the server.
StageFault(path, latest, target) ==
  IF path # <<>> THEN "status"
  ELSE IF target.iteration # latest.iteration THEN "iteration"
  ELSE "arrived"

\* What is left to ask for.
Stage(path, latest, target) ==
  IF path # <<>> THEN "status"
  ELSE IF target.iteration # latest.iteration THEN "iteration"
  ELSE IF target.icebox # latest.icebox THEN "icebox"
  ELSE "arrived"

\* onMutate shows the story where it is to be; a move with nothing to ask for
\* has succeeded.
MoveStoryToPanel(panel) ==
  LET target == TargetOf(shown, panel)
      path == StatusPath(shown.status, target.status)
      stage == Stage(path, shown, target)
  IN
  /\ Quiet /\ shown # NoStory
  /\ Matches(shown, current) \notin {{}, {panel}}
  /\ PlanAccepted(shown, panel)
  /\ move' = IF stage = "arrived" THEN [at |-> "arrived", to |-> panel]
             ELSE [at |-> stage, to |-> panel, path |-> path, target |-> target,
                   latest |-> shown, before |-> shown, wrote |-> FALSE]
  /\ shown' = IF stage = "arrived" THEN shown ELSE target
  /\ UNCHANGED <<vars, current, disturbed, torn>>

\* onSuccess shows the answer of the last request.
Proceeds(path, latest, stage) ==
  /\ move' = IF stage = "arrived" THEN [at |-> "arrived", to |-> move.to]
             ELSE [move EXCEPT !.at = stage, !.path = path, !.latest = latest, !.wrote = TRUE]
  /\ shown' = IF stage = "arrived" THEN latest ELSE shown
  /\ UNCHANGED torn

\* onError restores the lists of before; the server keeps what it has.
Fails(wrote) ==
  /\ move' = Idle
  /\ torn' = (torn \/ wrote)
  /\ shown' = move.before

\* A request is refused, or does not arrive, or is carried out and its answer lost.
Refused == Fails(move.wrote) /\ UNCHANGED story

Lost(row) == Fails(TRUE) /\ story' = [story EXCEPT ![Dragged] = row]

NoEdit == [type |-> Absent, estimated |-> Absent, status |-> Absent, icebox |-> Absent]

\* PATCH, which StoryLifecycle has step by step; nothing comes after the Icebox flag.
PatchStory(e, path) ==
  LET row == story[Dragged]
      updated == Updated(row, ColumnsOf(row, e))
  IN
  \/ /\ row.archivedAt = 0 /\ UpdateAccepted(row, e)
     /\ \/ /\ story' = [story EXCEPT ![Dragged] = updated]
           /\ Proceeds(path, Copy(updated),
                       IF move.at = "icebox" THEN "arrived"
                       ELSE Stage(path, Copy(updated), move.target))
        \/ Lost(updated)
  \/ Refused

PatchStatus ==
  /\ move.at = "status"
  /\ PatchStory([NoEdit EXCEPT !.status = Head(move.path)], Tail(move.path))
  /\ UNCHANGED <<today, iterations, trail, request, cron, current, disturbed>>

\* POST or DELETE of the iteration; the page completes its copy itself.
ChangeIteration ==
  LET row == story[Dragged]
      i == move.target.iteration
      assigned == [row EXCEPT !.iteration = i, !.icebox = @ /\ i = 0]
      latest == [move.latest EXCEPT !.iteration = i]
  IN
  /\ move.at = "iteration"
  /\ \/ /\ row.archivedAt = 0 /\ i \in iterations \cup {0}
        /\ \/ /\ story' = [story EXCEPT ![Dragged] = assigned]
              /\ Proceeds(<<>>, latest, Stage(<<>>, latest, move.target))
           \/ Lost(assigned)
     \/ Refused
  /\ UNCHANGED <<today, iterations, trail, request, cron, current, disturbed>>

PatchIcebox ==
  /\ move.at = "icebox"
  /\ PatchStory([NoEdit EXCEPT !.icebox = move.target.icebox], <<>>)
  /\ UNCHANGED <<today, iterations, trail, request, cron, current, disturbed>>

-----------------------------------------------------------------------------

\* Other members, the cron and the calendar.
Others ==
  /\ Next
  /\ disturbed' = (disturbed \/ story'[Dragged] # story[Dragged]
                     \/ iterations' # iterations \/ today' # today)
  /\ UNCHANGED <<current, shown, move, torn>>

PanelsNext ==
  \/ LoadPage
  \/ \E panel \in Panels : MoveStoryToPanel(panel)
  \/ PatchStatus \/ ChangeIteration \/ PatchIcebox
  \/ Others

PanelsSpec == PanelsInit /\ [][PanelsNext]_panelVars

-----------------------------------------------------------------------------

\* No story is in two panels, whatever requests and the cron do to it: the queries
\* of the Done and the Icebox panel only keep apart what the rules of the Icebox
\* keep apart.
ListedOnce(row) == \A p, q \in Listed(row, CurrentId) : p = q

\* A story that no panel lists is work outside of the sprint: left over from a
\* past one, planned for a later one, or in progress in none.
HiddenIsOffSprint(row) ==
  row.archivedAt = 0 /\ Listed(row, CurrentId) = {} =>
    \/ row.iteration \notin {0, today}
    \/ row.iteration = 0 /\ row.status \in InProgress /\ CurrentId # 0

\* The four queries divide the stories of the sprint and the unplanned ones among them
\* (use-panel-stories-query.ts:116).
PanelsPartition == \A s \in Stories : ListedOnce(story[s]) /\ HiddenIsOffSprint(story[s])

\* Of a story of the sprint or of none, the page thinks as the server does, so
\* that it stays where it is when the lists are loaded again.
PageAgrees ==
  \A s \in Stories :
    story[s].archivedAt = 0 /\ story[s].iteration \in {0, today} =>
      Matches(story[s], CurrentId) = Listed(story[s], CurrentId)

\* A drag that succeeds puts the story where it was dropped, though each of its requests
\* may move it somewhere else, and between drags the page shows what is stored; unless
\* somebody else changed the story or the calendar, or a drag failed half way: the
\* page's lists are then those of before the drag, until they are loaded again
\* (use-story-mutations.ts:161).
MovesArrive ==
  Quiet /\ ~disturbed /\ ~torn =>
    /\ shown # NoStory => shown = Copy(story[Dragged])
    /\ move.at = "arrived" => Listed(story[Dragged], current) = {move.to}
=============================================================================
