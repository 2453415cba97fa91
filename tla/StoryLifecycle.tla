---------------------------- MODULE StoryLifecycle ----------------------------
(***************************************************************************)
(* Stories under concurrent requests and the hourly cron: updateStory over *)
(* D1StoryRepository.update, setStoryArchived over the archive batch, the  *)
(* assignment of a story to an iteration, and ensureCurrentIteration with  *)
(* backfillIncompleteStoriesIntoCurrentIteration.  A step is a database    *)
(* call, with the reads before it that its WHERE clause makes good for.    *)
(*                                                                         *)
(* Iterations tile the calendar, so iteration i stands for the i-th sprint *)
(* window and `today` for the window the date is in: start_date <= today < *)
(* end_date is i = today, end_date <= today is i < today.  0 stands for a  *)
(* NULL iteration_id and a NULL archived_at.                               *)
(***************************************************************************)
EXTENDS Naturals, Sequences

CONSTANTS
  Stories,      \* stories of the project
  Requests,     \* requests in flight at once
  Absent,       \* a field a PATCH does not carry, a column an UPDATE does not set
  NewStories,   \* rows createStory may have left
  Edits,        \* PATCH bodies the clients send
  AssignTo,     \* iterations the clients assign stories to by hand, 0 to unassign
  MaxDay,       \* bound on the calendar
  MaxTrail      \* bound on the times a story is archived or restored

VARIABLES
  today,      \* the sprint window the date is in
  iterations, \* rows of iterations
  story,      \* rows of stories
  trail,      \* archived/unarchived entries of story_timeline_entries, oldest first
  request,    \* the requests in flight
  cron        \* ensureIterationsForAllProjects, for this project

vars == <<today, iterations, story, trail, request, cron>>

Status == {"Unstarted", "Started", "Finished", "Delivered", "Accepted", "Rejected"}

Types == {"feature", "bug", "chore", "release"}

Row ==
  [type : Types, estimated : BOOLEAN, status : Status, icebox : BOOLEAN,
   iteration : 0..MaxDay, archivedAt : 0..MaxTrail, completed : BOOLEAN]

Maybe(S) == S \cup {Absent}

Edit ==
  [type : Maybe(Types), estimated : Maybe(BOOLEAN), status : Maybe(Status),
   icebox : Maybe(BOOLEAN)]

\* The columns an UPDATE sets.
Columns ==
  [type : Maybe(Types), estimated : Maybe(BOOLEAN), status : Maybe(Status),
   icebox : Maybe(BOOLEAN), iteration : Maybe(0..MaxDay), completed : Maybe(BOOLEAN)]

ASSUME BoundsAssumption ==
  /\ MaxDay \in Nat \ {0} /\ MaxTrail \in Nat
  /\ AssignTo \subseteq 0..MaxDay

ASSUME EditsAssumption ==
  /\ Absent \notin Types /\ Absent \notin BOOLEAN /\ Absent \notin Status /\ Absent \notin Nat
  /\ Edits \subseteq Edit

\* createStory only makes Unstarted stories (INITIAL_STORY_STATUS).
ASSUME NewStoriesAssumption ==
  NewStories \subseteq
    {row \in Row : row.status = "Unstarted" /\ row.iteration = 0
                   /\ row.archivedAt = 0 /\ ~row.completed}

Idle == [at |-> "idle"]

\* What the UPDATE of a story is guarded by, besides archived_at IS NULL.
Guard == [status : Status, icebox : BOOLEAN, iteration : 0..MaxDay]

\* Where a request can be.  "row": updateStory before the repository reads the
\* row again; "write": before its UPDATE; "archive": setStoryArchived before its
\* batch; "done": answered, successfully or not.
Request ==
  {Idle}
    \cup [at : {"row"}, story : Stories, edit : Edit, expected : Maybe(Status)]
    \cup [at : {"write"}, story : Stories, seen : Guard, set : Columns]
    \cup [at : {"archive"}, story : Stories, archived : BOOLEAN, status : Status,
          archivedAt : 0..MaxTrail]
    \cup [at : {"done"}, story : Stories, ok : BOOLEAN]

Cron ==
  {Idle}
    \cup [at : {"ensure", "backfill"}, day : 1..MaxDay]
    \cup [at : {"reassign"}, from : 1..MaxDay, to : 1..MaxDay]

Init ==
  /\ today = 1
  /\ iterations = {}
  /\ story \in [Stories -> NewStories]
  /\ trail = [s \in Stories |-> <<>>]
  /\ request = [r \in Requests |-> Idle]
  /\ cron = Idle

-----------------------------------------------------------------------------
(* The rules of story.ts.                                                  *)

Workflow ==
  INSTANCE StoryWorkflow WITH
    status <- [s \in Stories |-> story[s].status],
    icebox <- [s \in Stories |-> story[s].icebox],
    archived <- [s \in Stories |-> story[s].archivedAt # 0]

Transitions ==
  [Unstarted |-> {"Started"},
   Started   |-> {"Unstarted", "Finished"},
   Finished  |-> {"Started", "Delivered"},
   Delivered |-> {"Finished", "Accepted", "Rejected"},
   Accepted  |-> {"Unstarted", "Started"},
   Rejected  |-> {"Started"}]

CanTransitionStoryStatus(from, to) == to = from \/ to \in Transitions[from]

CanArchiveStory(status) == status \in {"Unstarted", "Rejected"}

RequiresEstimate(to, estimated, type) ==
  type = "feature" /\ to = "Started" /\ ~estimated

IceboxRefused(requested, row, next) ==
  requested = TRUE /\ (next # "Unstarted" \/ row.iteration # 0)

ResolveStoryIsIcebox(requested, row, next) ==
  IF requested # Absent THEN requested
  ELSE IF row.icebox /\ next # "Unstarted" THEN FALSE
  ELSE Absent

InProgress == {"Started", "Finished", "Delivered"}

NotInProgress == {"Unstarted", "Rejected"}

Or(given, current) == IF given = Absent THEN current ELSE given

Answer(r, s, ok) ==
  request' = [request EXCEPT ![r] = [at |-> "done", story |-> s, ok |-> ok]]

-----------------------------------------------------------------------------
(* PATCH stories/:number.                                                  *)

\* checkStoryStatusChange, on the row as it was when the request arrived.
StatusAccepted(row, e) ==
  e.status # Absent =>
    /\ CanTransitionStoryStatus(row.status, e.status)
    /\ ~RequiresEstimate(e.status, Or(e.estimated, row.estimated), row.type)

UpdateAccepted(row, e) ==
  /\ StatusAccepted(row, e)
  /\ ~IceboxRefused(e.icebox, row, Or(e.status, row.status))

\* Fault: the status the change was validated from is not passed on.
ExpectedStatusFault(row, e) == Absent

ExpectedStatus(row, e) == IF e.status = Absent THEN Absent ELSE row.status

\* updateStory up to repository.update.  A refused update writes nothing.
UpdateStory(r, s, e) ==
  LET row == story[s] IN
  /\ request[r] = Idle
  /\ UpdateAccepted(row, e)
  /\ request' = [request EXCEPT ![r] =
       [at |-> "row", story |-> s,
        edit |-> [e EXCEPT !.icebox =
                    ResolveStoryIsIcebox(@, row, Or(e.status, row.status))],
        expected |-> ExpectedStatus(row, e)]]
  /\ UNCHANGED <<today, iterations, story, trail, cron>>

CurrentIteration == IF today \in iterations THEN today ELSE Absent

\* The iteration_id an update sets: work that starts joins the current
\* iteration, and work that is put back leaves an iteration that is not.
IterationColumn(row, e, next, icebox) ==
  IF row.iteration = 0 /\ ~icebox /\ next \in InProgress THEN CurrentIteration
  ELSE IF /\ e.status # Absent /\ next \in NotInProgress
          /\ row.iteration \notin {0, today} THEN 0
  ELSE Absent

CompletedColumn(row, e) ==
  IF e.status = Absent \/ (e.status = "Accepted") = (row.status = "Accepted") THEN Absent
  ELSE e.status = "Accepted"

ColumnsOf(row, e) ==
  LET next == Or(e.status, row.status)
      icebox == ResolveStoryIsIcebox(e.icebox, row, next)
  IN [type |-> e.type, estimated |-> e.estimated, status |-> e.status, icebox |-> icebox,
      iteration |-> IterationColumn(row, e, next, Or(icebox, row.icebox)),
      completed |-> CompletedColumn(row, e)]

SeenOf(row) == [status |-> row.status, icebox |-> row.icebox, iteration |-> row.iteration]

\* The repository reads the row again, and refuses when it is archived, when
\* its status is not the one that was validated, or when the Icebox rule no
\* longer allows the edit.  The iteration is looked up right after the row.
ReadRow(r) ==
  LET s == request[r].story
      e == request[r].edit
      expected == request[r].expected
      row == story[s]
  IN
  /\ request[r].at = "row"
  /\ IF \/ row.archivedAt # 0
        \/ expected \notin {Absent, row.status}
        \/ IceboxRefused(e.icebox, row, Or(e.status, row.status))
     THEN Answer(r, s, FALSE)
     ELSE request' = [request EXCEPT ![r] =
            [at |-> "write", story |-> s, seen |-> SeenOf(row), set |-> ColumnsOf(row, e)]]
  /\ UNCHANGED <<today, iterations, story, trail, cron>>

\* Fault: the guard leaves out the iteration.
StillAsSeenFault(row, seen) ==
  row.archivedAt = 0 /\ row.status = seen.status /\ row.icebox = seen.icebox

\* The WHERE clause of the UPDATE.
StillAsSeen(row, seen) == row.archivedAt = 0 /\ SeenOf(row) = seen

Updated(row, set) ==
  [type |-> Or(set.type, row.type), estimated |-> Or(set.estimated, row.estimated),
   status |-> Or(set.status, row.status), icebox |-> Or(set.icebox, row.icebox),
   iteration |-> Or(set.iteration, row.iteration), archivedAt |-> row.archivedAt,
   completed |-> Or(set.completed, row.completed)]

WriteStory(r) ==
  LET s == request[r].story IN
  /\ request[r].at = "write"
  /\ IF StillAsSeen(story[s], request[r].seen)
     THEN /\ story' = [story EXCEPT ![s] = Updated(@, request[r].set)]
          /\ Answer(r, s, TRUE)
     ELSE /\ UNCHANGED story
          /\ Answer(r, s, FALSE)
  /\ UNCHANGED <<today, iterations, trail, cron>>

-----------------------------------------------------------------------------
(* POST stories/:number/archive and /unarchive.                            *)

\* setStoryArchived up to its batch.  A story that already is as asked is
\* answered as it is.
SetStoryArchived(r, s, archived) ==
  LET row == story[s] IN
  /\ request[r] = Idle
  /\ (row.archivedAt # 0) # archived
  /\ archived => CanArchiveStory(row.status)
  /\ Len(trail[s]) < MaxTrail
  /\ request' = [request EXCEPT ![r] =
       [at |-> "archive", story |-> s, archived |-> archived, status |-> row.status,
        archivedAt |-> row.archivedAt]]
  /\ UNCHANGED <<today, iterations, story, trail, cron>>

\* WHERE status = ? AND archived_at IS ?.
ArchiveApplies(r) ==
  LET row == story[request[r].story] IN
  row.status = request[r].status /\ row.archivedAt = request[r].archivedAt

\* A time nobody has archived the story at before.
ArchiveTime(s) == Len(trail[s]) + 1

IterationOnRestore(row) == IF row.iteration < today THEN 0 ELSE row.iteration

\* Fault: the entry is written whatever the UPDATE changed.
TrailAfterFault(r) == Append(trail[request[r].story], request[r].archived)

\* INSERT ... WHERE changes() = 1.
TrailAfter(r) ==
  LET s == request[r].story IN
  IF ArchiveApplies(r) THEN Append(trail[s], request[r].archived) ELSE trail[s]

\* setArchived: the UPDATE and the timeline entry in one batch.
SetArchived(r) ==
  LET s == request[r].story IN
  /\ request[r].at = "archive"
  /\ Len(trail[s]) < MaxTrail
  /\ story' = IF ~ArchiveApplies(r) THEN story
              ELSE IF request[r].archived
              THEN [story EXCEPT ![s].archivedAt = ArchiveTime(s)]
              ELSE [story EXCEPT ![s].archivedAt = 0, ![s].iteration = IterationOnRestore(story[s])]
  /\ trail' = [trail EXCEPT ![s] = TrailAfter(r)]
  /\ Answer(r, s, ArchiveApplies(r))
  /\ UNCHANGED <<today, iterations, cron>>

-----------------------------------------------------------------------------
(* POST iterations/:id/stories and its DELETE.                             *)

\* updateStoryIteration.  The reads before its UPDATE can only refuse what the
\* UPDATE refuses as well: iterations are not deleted here and the UPDATE is
\* guarded by archived_at IS NULL, so the whole request is one step.
AssignStory(s, i) ==
  /\ i \in iterations \cup {0}
  /\ story[s].archivedAt = 0
  /\ story' = [story EXCEPT ![s].iteration = i, ![s].icebox = @ /\ i = 0]
  /\ UNCHANGED <<today, iterations, trail, request, cron>>

-----------------------------------------------------------------------------
(* The hourly cron.                                                        *)

\* The date is read once for the whole run.
StartCron ==
  /\ cron = Idle
  /\ cron' = [at |-> "ensure", day |-> today]
  /\ UNCHANGED <<today, iterations, story, trail, request>>

Latest == {i \in iterations : \A j \in iterations : j <= i}

\* ensureCurrentIteration, one row at a time: the first iteration is the
\* window of the day, and after that each follows the latest one.
EnsureCurrentIteration ==
  /\ cron.at = "ensure"
  /\ \/ /\ iterations = {}
        /\ iterations' = {cron.day}
        /\ cron' = [cron EXCEPT !.at = "backfill"]
     \/ \E latest \in Latest :
          /\ latest < cron.day
          /\ iterations' = iterations \cup {latest + 1}
          /\ UNCHANGED cron
     \/ \E latest \in Latest :
          /\ latest >= cron.day
          /\ cron' = [cron EXCEPT !.at = "backfill"]
          /\ UNCHANGED iterations
  /\ UNCHANGED <<today, story, trail, request>>

\* Fault: the iteration before the previous one is taken.
PreviousIterationFault(day) ==
  {i \in iterations : i + 1 < day /\ \A j \in iterations : j + 1 < day => j <= i}

\* The latest iteration that has ended, if any.
PreviousIteration(day) ==
  {i \in iterations : i < day /\ \A j \in iterations : j < day => j <= i}

\* backfillIncompleteStoriesIntoCurrentIteration up to its UPDATE.
ListIterations ==
  /\ cron.at = "backfill"
  /\ IF cron.day \in iterations /\ PreviousIteration(cron.day) # {}
     THEN \E i \in PreviousIteration(cron.day) :
            cron' = [at |-> "reassign", from |-> i, to |-> cron.day]
     ELSE cron' = Idle
  /\ UNCHANGED <<today, iterations, story, trail, request>>

CarriesOver(row, from) ==
  row.iteration = from /\ row.archivedAt = 0 /\ row.status # "Accepted"

\* reassignStoriesAcrossIterations: one UPDATE for all stories.
ReassignStories ==
  /\ cron.at = "reassign"
  /\ story' = [s \in Stories |->
       IF CarriesOver(story[s], cron.from)
       THEN [story[s] EXCEPT !.iteration = cron.to, !.icebox = FALSE]
       ELSE story[s]]
  /\ cron' = Idle
  /\ UNCHANGED <<today, iterations, trail, request>>

\* A call of the run fails, or the run is killed.
CronFails ==
  /\ cron # Idle
  /\ cron' = Idle
  /\ UNCHANGED <<today, iterations, story, trail, request>>

-----------------------------------------------------------------------------
(* The environment.                                                        *)

\* The answer is delivered or lost, or the request dies half way.
EndRequest(r) ==
  /\ request[r] # Idle
  /\ request' = [request EXCEPT ![r] = Idle]
  /\ UNCHANGED <<today, iterations, story, trail, cron>>

NextWindow ==
  /\ today < MaxDay
  /\ today' = today + 1
  /\ UNCHANGED <<iterations, story, trail, request, cron>>

RequestStep(r) ==
  \/ \E s \in Stories, e \in Edits : UpdateStory(r, s, e)
  \/ ReadRow(r)
  \/ WriteStory(r)
  \/ \E s \in Stories, archived \in BOOLEAN : SetStoryArchived(r, s, archived)
  \/ SetArchived(r)
  \/ EndRequest(r)

CronStep ==
  \/ StartCron
  \/ EnsureCurrentIteration
  \/ ListIterations
  \/ ReassignStories
  \/ CronFails

Next ==
  \/ \E r \in Requests : RequestStep(r)
  \/ \E s \in Stories, i \in AssignTo : AssignStory(s, i)
  \/ CronStep
  \/ NextWindow

Spec == Init /\ [][Next]_vars

\* The cron is started every hour, and none of its calls fails every time.
CronFairness ==
  /\ WF_vars(StartCron)
  /\ SF_vars(EnsureCurrentIteration)
  /\ SF_vars(ListIterations)
  /\ SF_vars(ReassignStories)

FairSpec == Spec /\ CronFairness

-----------------------------------------------------------------------------
(* Properties.                                                             *)

\* Rows keep their types, an iteration_id refers to an iteration, and requests
\* and the cron are at one of their steps.
TypeOK ==
  /\ today \in 1..MaxDay
  /\ iterations \subseteq 1..MaxDay
  /\ story \in [Stories -> Row]
  /\ \A s \in Stories : story[s].iteration \in iterations \cup {0}
  /\ trail \in [Stories -> Seq(BOOLEAN)]
  /\ request \in [Requests -> Request]
  /\ cron \in Cron

\* story.ts: "isIcebox=true requires status=Unstarted and iterationId=null",
\* however updates, assignments and the cron overlap.
IceboxInvariant ==
  \A s \in Stories : story[s].icebox =>
    story[s].status = "Unstarted" /\ story[s].iteration = 0

\* completed_at is set exactly while the story is Accepted, which velocity,
\* burndown and a calendar rebuild rely on.
CompletedWhileAccepted ==
  \A s \in Stories : story[s].completed <=> story[s].status = "Accepted"

\* Archived stories are read-only: no request that was accepted before the
\* story was archived, no assignment and no cron run changes it while it is.
ArchivedAreReadOnly ==
  [][\A s \in Stories :
       story[s].archivedAt # 0 /\ story'[s].archivedAt # 0 => story'[s] = story[s]]_vars

\* The timeline tells when the story was archived and restored: entries
\* alternate, and the last one agrees with the row; a request that lost a race
\* leaves none.
ArchiveTrailIsTrue ==
  \A s \in Stories :
    /\ \A n \in 1..Len(trail[s]) : trail[s][n] <=> n % 2 = 1
    /\ story[s].archivedAt # 0 <=> Len(trail[s]) % 2 = 1

\* The tracker keeps the workflow of story.ts.
ImplementsWorkflow == Workflow!Spec

\* Work left in the iteration before the current one does not stay there: the
\* cron carries it over, unless it is accepted, archived or reassigned first or
\* the window passes.
CarriedOver ==
  \A s \in Stories, i \in 1..(MaxDay - 1) :
    i + 1 = today /\ CarriesOver(story[s], i)
      ~> i + 1 # today \/ ~CarriesOver(story[s], i)
=============================================================================
