--------------------------- MODULE BulkStatusChange ---------------------------
(***************************************************************************)
(* PATCH stories/bulk-status over the stories of StoryLifecycle:           *)
(* bulkUpdateStoryStatus checks all stories, then updates them one by one, *)
(* each with an updateStory of its own.                                    *)
(***************************************************************************)
EXTENDS StoryLifecycle, FiniteSets

CONSTANT
  BulkTo  \* statuses the clients change stories to in bulk

ASSUME BulkAssumption == BulkTo \subseteq Status

VARIABLE
  bulk  \* the bulk change, which sends its updates from one of the requests

bulkVars == <<vars, bulk>>

\* Non-empty lists of storyIds, without the duplicates.
Lists ==
  {list \in UNION {[1..n -> Stories] : n \in 1..Cardinality(Stories)} :
     \A m, n \in DOMAIN list : list[m] = list[n] => m = n}

StatusEdit(to) ==
  [type |-> Absent, estimated |-> Absent, status |-> to, icebox |-> Absent]

BulkInit == Init /\ bulk = Idle

\* `left` are the stories still to check or to update, `changed` those updated,
\* `touched` (history) those somebody else has changed meanwhile; `broke`
\* (history) says that a call failed.
StartBulk(r, list, to) ==
  /\ bulk = Idle
  /\ request[r] = Idle
  /\ bulk' = [at |-> "check", by |-> r, to |-> to, all |-> list, left |-> list,
              changed |-> {}, touched |-> {}, ok |-> TRUE, broke |-> FALSE]
  /\ UNCHANGED vars

Fail == bulk' = [bulk EXCEPT !.at = "done", !.ok = FALSE]

\* Fault: only the first story is checked.
CheckStoryFault ==
  /\ bulk.at = "check"
  /\ IF bulk.left # bulk.all
     THEN bulk' = [bulk EXCEPT !.at = "update", !.left = bulk.all]
     ELSE IF StatusAccepted(story[Head(bulk.left)], StatusEdit(bulk.to))
     THEN bulk' = [bulk EXCEPT !.left = Tail(@)]
     ELSE Fail
  /\ UNCHANGED vars

\* checkStoryStatusChange for the next story.
CheckStory ==
  /\ bulk.at = "check"
  /\ IF bulk.left = <<>>
     THEN bulk' = [bulk EXCEPT !.at = "update", !.left = bulk.all]
     ELSE IF StatusAccepted(story[Head(bulk.left)], StatusEdit(bulk.to))
     THEN bulk' = [bulk EXCEPT !.left = Tail(@)]
     ELSE Fail
  /\ UNCHANGED vars

\* updateStory for the next story, which validates it again.
UpdateNextStory ==
  /\ bulk.at = "update"
  /\ bulk.left # <<>>
  /\ IF UpdateAccepted(story[Head(bulk.left)], StatusEdit(bulk.to))
     THEN /\ UpdateStory(bulk.by, Head(bulk.left), StatusEdit(bulk.to))
          /\ bulk' = [bulk EXCEPT !.at = "wait"]
     ELSE /\ Fail
          /\ UNCHANGED vars

Changed == {s \in Stories : story'[s] # story[s]}

\* The steps of that update.
UpdateStep ==
  /\ bulk.at = "wait"
  /\ ReadRow(bulk.by) \/ WriteStory(bulk.by)
  /\ bulk' = [bulk EXCEPT !.changed = @ \cup Changed]

\* Its answer: the first error ends the bulk change.
StoryUpdated ==
  LET answer == request[bulk.by] IN
  /\ bulk.at = "wait"
  /\ answer.at = "done"
  /\ EndRequest(bulk.by)
  /\ IF answer.ok
     THEN bulk' = [bulk EXCEPT !.at = "update", !.left = Tail(@)]
     ELSE Fail

\* A call fails and its error ends the bulk change: a read, the UPDATE, which
\* may have been committed all the same, or what updateStory does after it
\* (recordMany, the notices).
CallFails ==
  /\ bulk.at \in {"check", "update", "wait"}
  /\ bulk.left # <<>>
  /\ IF bulk.at = "wait" THEN EndRequest(bulk.by) ELSE UNCHANGED vars
  /\ bulk' = [bulk EXCEPT !.at = "done", !.ok = FALSE, !.broke = TRUE]

EndBulk ==
  /\ \/ bulk.at = "done"
     \/ bulk.at = "update" /\ bulk.left = <<>>
  /\ bulk' = Idle
  /\ UNCHANGED vars

BulkStep ==
  \/ \E r \in Requests, list \in Lists, to \in BulkTo : StartBulk(r, list, to)
  \/ CheckStory
  \/ UpdateNextStory
  \/ UpdateStep
  \/ StoryUpdated
  \/ CallFails
  \/ EndBulk

Beside(A) ==
  A /\ bulk' = IF bulk = Idle THEN bulk ELSE [bulk EXCEPT !.touched = @ \cup Changed]

\* Everything else, the other requests included.
OtherStep ==
  Beside(\/ \E r \in Requests : (bulk # Idle => bulk.by # r) /\ RequestStep(r)
         \/ \E s \in Stories, i \in AssignTo : AssignStory(s, i)
         \/ CronStep
         \/ NextWindow)

BulkNext == BulkStep \/ OtherStep

BulkSpec == BulkInit /\ [][BulkNext]_bulkVars

-----------------------------------------------------------------------------

\* "does not partially apply a bulk status change when a later story is
\* invalid": the check comes before the first update.  So a bulk change that is
\* answered with an error after it has changed stories either met a call that
\* failed, or stopped at a story that is archived, which the check does not look
\* at, or that somebody else changed since the bulk change began.  It has not
\* changed the story it stopped at, unless a call failed once that was written,
\* and never one further down the list.
BulkStopsForAReason ==
  bulk # Idle /\ ~bulk.ok =>
    LET failed == Head(bulk.left) IN
    /\ bulk.changed # {} =>
         bulk.broke \/ story[failed].archivedAt # 0 \/ failed \in bulk.touched
    /\ failed \in bulk.changed => bulk.broke
    /\ \A n \in 2..Len(bulk.left) : bulk.left[n] \notin bulk.changed
=============================================================================
