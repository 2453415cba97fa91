------------------------------ MODULE Iterations ------------------------------
(***************************************************************************)
(* The iterations of a project under their two writers: the hourly cron    *)
(* (ensureCurrentIteration, then                                           *)
(* backfillIncompleteStoriesIntoCurrentIteration) and a PATCH of the       *)
(* project's settings that changes the calendar (rebuildIterations).  Each *)
(* is a list of database calls of its own, and the calls of several jobs   *)
(* interleave.                                                             *)
(*                                                                         *)
(* A date is an integer, the number of days since some Sunday.  The cron   *)
(* takes the date in Tokyo, a rebuild and completed_at the one in UTC,     *)
(* which is a day behind until nine in the morning.                        *)
(***************************************************************************)
EXTENDS Integers, Sequences, FiniteSets, FiniteSetsExt

CONSTANTS
  Stories,    \* stories of the project
  Patches,   \* PATCHes of the settings in flight at once
  Cron,       \* the cron
  Null,       \* NULL, or a field a PATCH does not carry
  Week,       \* days of a week: 7
  Durations,  \* SPRINT_DURATION_OPTIONS
  StartDays,  \* ITERATION_START_DAYS
  Changes,    \* calendar fields of the PATCHes the clients send
  FirstDay,   \* the date on which the project is created
  LastDay,    \* bound on the calendar
  Earliest,   \* bound on the windows there are when the calendar is changed
  Overlap     \* cron runs and rebuilds may overlap

VARIABLES
  today,      \* the date in Tokyo
  utc,        \* the date in UTC
  settings,   \* the project's calendar
  iterations, \* rows of iterations, by id
  story,      \* rows of stories
  job,        \* the cron's run and the PATCHes in flight
  touched     \* history: stories a client changed since a rebuild read them

iterationsVars == <<today, utc, settings, iterations, story, job, touched>>

Jobs == Patches \cup {Cron}

Date == FirstDay..LastDay

Calendar == [duration : Durations, startDay : StartDays]

Change == [duration : Durations \cup {Null}, startDay : StartDays \cup {Null}]

Id == Nat \ {0}

\* "Started" stands for the statuses of work in progress.
Status == {"Unstarted", "Started", "Accepted"}

Row == [status : Status, completed : Date \cup {Null}, iteration : Id \cup {Null}]

ASSUME CalendarAssumption ==
  /\ Week \in Nat \ {0}
  /\ Durations \subseteq {Week * n : n \in 1..4}
  /\ StartDays \subseteq 0..(Week - 1)
  /\ Changes \subseteq Change
  /\ FirstDay \in Nat /\ LastDay \in Nat /\ FirstDay <= LastDay /\ Earliest \in Int
  /\ Cron \notin Patches
  /\ Overlap \in BOOLEAN
  /\ IsFiniteSet(Stories) /\ IsFiniteSet(Patches)
  /\ Null \notin Int

NoJob == [at |-> "idle"]

IterationsInit ==
  /\ today = FirstDay
  /\ utc = FirstDay
  /\ settings \in Calendar
  /\ iterations = <<>>
  /\ story = [s \in Stories |-> [status |-> "Unstarted", completed |-> Null, iteration |-> Null]]
  /\ job = [j \in Jobs |-> NoJob]
  /\ touched = {}

-----------------------------------------------------------------------------
(* The calendar.                                                           *)

Contains(window, date) == window.start <= date /\ date < window.end

\* iterationWindowContaining: it starts on the last start day up to the date.
WindowContaining(cal, date) ==
  LET start == date - ((date - cal.startDay) % Week)
  IN [start |-> start, end |-> start + cal.duration]

\* The windows from a date on, until they reach another.
Windows(from, until, duration) ==
  [n \in 1..((until - from + duration - 1) \div duration) |->
     [start |-> from + (n - 1) * duration, end |-> from + n * duration]]

\* Fault: the windows start with the one of the day.
RangesForRebuildFault(cal, date, anchors) ==
  LET current == WindowContaining(cal, date)
  IN Windows(current.start, current.end + cal.duration, cal.duration)

\* buildIterationRangesForRebuild: from the window of the earliest anchor to
\* one window after the current one, and to the window of the latest anchor.
RangesForRebuild(cal, date, anchors) ==
  LET from == Min({WindowContaining(cal, a).start : a \in anchors \cup {date}})
      next == WindowContaining(cal, date).end + cal.duration
      last == WindowContaining(cal, Max(anchors \cup {date})).end
  IN Windows(from, Max({next, last}), cal.duration)

First(S) == {i \in S : \A k \in S : iterations[i].start <= iterations[k].start}

Last(S) == {i \in S : \A k \in S : iterations[k].start <= iterations[i].start}

\* resolveIterationForDate over the rows there are: the iteration of the date,
\* else the last one that starts before it, else the first; Null without rows.
ResolveIterationForDate(date) ==
  LET rows == DOMAIN iterations
      started == {i \in rows : iterations[i].start <= date}
      exact == {i \in started : date < iterations[i].end}
  IN CHOOSE i \in rows \cup {Null} :
       IF rows = {} THEN i = Null
       ELSE i \in IF exact # {} THEN First(exact)
                  ELSE IF started # {} THEN Last(started)
                  ELSE First(rows)

-----------------------------------------------------------------------------
(* Jobs.                                                                   *)

\* The job reads or writes iterations: an answered PATCH counts until its
\* answer is delivered.
Active(j) == job[j].at \notin {"idle", "settings"}

\* No other job is at work, or jobs may overlap.
MayStart(j) == Overlap \/ \A k \in Jobs \ {j} : ~Active(k)

Goto(j, state) == job' = [job EXCEPT ![j] = state]

\* The ids a job in flight has read and has not used yet.
IdsHeld(j) ==
  CASE job[j].at = "stories" -> DOMAIN job[j].old
    [] job[j].at = "assign" -> {job[j].target[s] : s \in Stories}
    [] job[j].at = "reassign" -> {job[j].from, job[j].to}
    [] OTHER -> {}

\* An id no row has and no job remembers: as good as a fresh ulid.
FreshId ==
  LET taken == DOMAIN iterations \cup UNION {IdsHeld(j) : j \in Jobs}
  IN CHOOSE i \in 1..(Cardinality(taken) + 1) :
       i \notin taken /\ \A k \in 1..(i - 1) : k \in taken

\* Fault: a story keeps the id of a deleted iteration.
UnassignedFault(ids) == story

\* The stories as ON DELETE SET NULL leaves them.
Unassigned(ids) ==
  [s \in Stories |-> IF story[s].iteration \in ids THEN [story[s] EXCEPT !.iteration = Null]
                     ELSE story[s]]

-----------------------------------------------------------------------------
(* D1IterationRepository.create, for the cron and for a rebuild: the first *)
(* window of the job's `todo` that has no row yet.                         *)

\* Fault: only a window of the same start counts as overlapping.
OverlapsFault(window, other) == other.start = window.start

Overlaps(window, other) == other.start < window.end /\ other.end > window.start

\* What a job does when its last window has a row.
AfterCreate(j) ==
  IF j = Cron THEN [at |-> "backfill", today |-> job[j].today]
  ELSE [at |-> "list", anchor |-> job[j].anchor]

\* ITERATION_DATE_OVERLAP_ERROR ends the job.
CheckOverlap(j) ==
  /\ job[j].at = "create"
  /\ IF job[j].todo = <<>> THEN Goto(j, AfterCreate(j))
     ELSE IF \E i \in DOMAIN iterations : Overlaps(Head(job[j].todo), iterations[i])
     THEN Goto(j, NoJob)
     ELSE Goto(j, [job[j] EXCEPT !.at = "number"])
  /\ UNCHANGED <<today, utc, settings, iterations, story, touched>>

NextNumber == Max({iterations[i].number : i \in DOMAIN iterations} \cup {0}) + 1

ReadMaxNumber(j) ==
  /\ job[j].at = "number"
  /\ Goto(j, [job[j] EXCEPT !.at = "insert", !.number = NextNumber])
  /\ UNCHANGED <<today, utc, settings, iterations, story, touched>>

\* idx_iterations_project_date and idx_iterations_project_number; an INSERT that
\* breaks one of them throws and ends the job.
InsertIteration(j) ==
  LET window == Head(job[j].todo)
      row == [number |-> job[j].number, start |-> window.start, end |-> window.end]
  IN
  /\ job[j].at = "insert"
  /\ IF \E i \in DOMAIN iterations :
          iterations[i].start = row.start \/ iterations[i].number = row.number
     THEN /\ Goto(j, NoJob)
          /\ UNCHANGED iterations
     ELSE /\ iterations' = [i \in DOMAIN iterations \cup {FreshId} |->
                              IF i \in DOMAIN iterations THEN iterations[i] ELSE row]
          /\ Goto(j, [job[j] EXCEPT !.at = "create", !.number = 0, !.todo = Tail(@)])
  /\ UNCHANGED <<today, utc, settings, story, touched>>

-----------------------------------------------------------------------------
(* The hourly cron.                                                        *)

\* The date and the settings are read once for the whole run.
StartCron ==
  /\ job[Cron] = NoJob
  /\ MayStart(Cron)
  /\ Goto(Cron, [at |-> "latest", today |-> today, settings |-> settings])
  /\ UNCHANGED <<today, utc, settings, iterations, story, touched>>

Creating(windows) ==
  [at |-> "create", today |-> job[Cron].today, todo |-> windows, number |-> 0]

InitialWindow == <<WindowContaining(job[Cron].settings, job[Cron].today)>>

\* Fault: a window is still the current one on the day it ends.
IsCurrentFault(window, date) == window.start <= date /\ date <= window.end

IsCurrent(window, date) == Contains(window, date)

\* findLatest orders by end_date alone.
Latest == {i \in DOMAIN iterations : \A k \in DOMAIN iterations : iterations[k].end <= iterations[i].end}

FindLatest ==
  LET date == job[Cron].today IN
  /\ job[Cron].at = "latest"
  /\ \/ /\ DOMAIN iterations = {}
        /\ Goto(Cron, Creating(InitialWindow))
     \/ \E i \in Latest :
          Goto(Cron,
            IF IsCurrent(iterations[i], date) THEN Creating(<<>>)
            ELSE IF iterations[i].start > date THEN [job[Cron] EXCEPT !.at = "unassign"]
            ELSE Creating(Windows(iterations[i].end, date + 1, job[Cron].settings.duration)))
  /\ UNCHANGED <<today, utc, settings, iterations, story, touched>>

Future == {i \in DOMAIN iterations : iterations[i].start > job[Cron].today}

\* deleteFuture: first the stories, then the rows.
UnassignFuture ==
  /\ job[Cron].at = "unassign"
  /\ story' = Unassigned(Future)
  /\ Goto(Cron, [job[Cron] EXCEPT !.at = "delete future"])
  /\ UNCHANGED <<today, utc, settings, iterations, touched>>

DeleteFuture ==
  /\ job[Cron].at = "delete future"
  /\ iterations' = [i \in DOMAIN iterations \ Future |-> iterations[i]]
  /\ story' = Unassigned(Future)
  /\ Goto(Cron, Creating(InitialWindow))
  /\ UNCHANGED <<today, utc, settings, touched>>

\* The latest iteration that has ended by the cron's date.
Previous ==
  LET ended == {i \in DOMAIN iterations : iterations[i].end <= job[Cron].today}
  IN {i \in ended : \A k \in ended : iterations[k].end <= iterations[i].end}

\* backfillIncompleteStoriesIntoCurrentIteration up to its UPDATE.
ListIterations ==
  LET current == First({i \in DOMAIN iterations : Contains(iterations[i], job[Cron].today)}) IN
  /\ job[Cron].at = "backfill"
  /\ IF current = {} \/ Previous = {} THEN Goto(Cron, NoJob)
     ELSE \E from \in Previous, to \in current :
            Goto(Cron, [at |-> "reassign", from |-> from, to |-> to])
  /\ UNCHANGED <<today, utc, settings, iterations, story, touched>>

\* One UPDATE; a foreign key that is gone fails it.
ReassignStories ==
  /\ job[Cron].at = "reassign"
  /\ story' = IF job[Cron].to \notin DOMAIN iterations THEN story
              ELSE [s \in Stories |->
                      IF story[s].iteration = job[Cron].from /\ story[s].status # "Accepted"
                      THEN [story[s] EXCEPT !.iteration = job[Cron].to] ELSE story[s]]
  /\ Goto(Cron, NoJob)
  /\ UNCHANGED <<today, utc, settings, iterations, touched>>

-----------------------------------------------------------------------------
(* PATCH projects/:projectId/settings.                                     *)

Changed(cal, change) ==
  [duration |-> IF change.duration = Null THEN cal.duration ELSE change.duration,
   startDay |-> IF change.startDay = Null THEN cal.startDay ELSE change.startDay]

\* The project is read to tell later whether the calendar changes.
LoadProject(r, change) ==
  /\ job[r] = NoJob
  /\ \A i \in DOMAIN iterations : iterations[i].start >= Earliest
  /\ Goto(r, [at |-> "settings", before |-> settings, change |-> change])
  /\ UNCHANGED <<today, utc, settings, iterations, story, touched>>

CalendarChanged(before, change) == Changed(before, change) # before

UpdateSettings(r) ==
  LET before == job[r].before
      change == job[r].change
  IN
  /\ job[r].at = "settings"
  /\ settings' = Changed(settings, change)
  /\ IF CalendarChanged(before, change)
     THEN /\ MayStart(r)
          /\ Goto(r, [at |-> "read", today |-> utc, settings |-> settings'])
     ELSE Goto(r, [at |-> "ok", anchor |-> [s \in Stories |-> Null]])
  /\ UNCHANGED <<today, utc, iterations, story, touched>>

RebuildListsIterations(r) ==
  /\ job[r].at = "read"
  /\ Goto(r, [at |-> "stories", today |-> job[r].today, settings |-> job[r].settings,
              old |-> [i \in DOMAIN iterations |-> iterations[i].start]])
  /\ UNCHANGED <<today, utc, settings, iterations, story, touched>>

\* Where a rebuild wants to see a story: in the iteration of the day it was
\* completed, or where its iteration started.
Anchor(row, old) ==
  IF row.status = "Accepted" THEN row.completed
  ELSE IF row.iteration \in DOMAIN old THEN old[row.iteration]
  ELSE Null

\* Both story queries; the rest up to deleteAll is computed from what was read.
RebuildListsStories(r) ==
  LET old == job[r].old
      completed == {story[s].completed : s \in {s \in Stories : story[s].status = "Accepted"}}
  IN
  /\ job[r].at = "stories"
  /\ Goto(r, [at |-> "delete", number |-> 0,
              anchor |-> [s \in Stories |-> Anchor(story[s], old)],
              todo |-> RangesForRebuild(job[r].settings, job[r].today,
                                        completed \cup {old[i] : i \in DOMAIN old})])
  /\ touched' = {}
  /\ UNCHANGED <<today, utc, settings, iterations, story>>

DeleteAll(r) ==
  /\ job[r].at = "delete"
  /\ iterations' = [i \in {} |-> {}]
  /\ story' = Unassigned(DOMAIN iterations)
  /\ Goto(r, [job[r] EXCEPT !.at = "create"])
  /\ UNCHANGED <<today, utc, settings, touched>>

RebuildResolves(r) ==
  /\ job[r].at = "list"
  /\ Goto(r, [at |-> "assign", anchor |-> job[r].anchor, todo |-> Stories,
              target |-> [s \in Stories |->
                IF job[r].anchor[s] = Null THEN Null
                ELSE ResolveIterationForDate(job[r].anchor[s])]])
  /\ UNCHANGED <<today, utc, settings, iterations, story, touched>>

\* assignStoryForRebuild, whatever has become of the story meanwhile.
AssignStoryForRebuild(r, s) ==
  LET target == job[r].target[s] IN
  /\ job[r].at = "assign"
  /\ s \in job[r].todo
  /\ IF target \notin DOMAIN iterations \cup {Null}
     THEN Goto(r, NoJob) /\ UNCHANGED story
     ELSE /\ story' = IF target = Null THEN story ELSE [story EXCEPT ![s].iteration = target]
          /\ Goto(r, [job[r] EXCEPT !.todo = @ \ {s}])
  /\ UNCHANGED <<today, utc, settings, iterations, touched>>

Rebuilt(r) ==
  /\ job[r].at = "assign"
  /\ job[r].todo = {}
  /\ Goto(r, [at |-> "ok", anchor |-> job[r].anchor])
  /\ UNCHANGED <<today, utc, settings, iterations, story, touched>>

-----------------------------------------------------------------------------
(* The environment.                                                        *)

\* The answer is delivered or lost, or the job dies half way.
EndJob(j) ==
  /\ job[j] # NoJob
  /\ Goto(j, NoJob)
  /\ UNCHANGED <<today, utc, settings, iterations, story, touched>>

\* The rows update's query for the current iteration prefers the latest.
CurrentIteration ==
  Last({i \in DOMAIN iterations : Contains(iterations[i], today)})

\* A change of status, in one step: work that starts joins the current
\* iteration, work that is put back leaves one that is not current.
ChangeStatus(s, status) ==
  LET row == story[s] IN
  /\ row.status # status
  /\ ~(row.status = "Unstarted" /\ status = "Accepted")
  /\ \E i \in IF row.iteration = Null /\ status = "Started" /\ CurrentIteration # {}
              THEN CurrentIteration
              ELSE IF /\ status = "Unstarted" /\ row.iteration # Null
                      /\ ~Contains(iterations[row.iteration], today)
              THEN {Null}
              ELSE {row.iteration} :
       story' = [story EXCEPT ![s] =
         [status |-> status, completed |-> IF status = "Accepted" THEN utc ELSE Null,
          iteration |-> i]]
  /\ touched' = touched \cup {s}
  /\ UNCHANGED <<today, utc, settings, iterations, job>>

AssignStory(s, i) ==
  /\ i \in DOMAIN iterations \cup {Null}
  /\ story[s].iteration # i
  /\ story' = [story EXCEPT ![s].iteration = i]
  /\ touched' = touched \cup {s}
  /\ UNCHANGED <<today, utc, settings, iterations, job>>

\* Midnight in Tokyo, and nine hours later in UTC.
NextDay ==
  /\ today < LastDay
  /\ utc = today
  /\ today' = today + 1
  /\ UNCHANGED <<utc, settings, iterations, story, job, touched>>

NextUtcDay ==
  /\ utc < today
  /\ utc' = today
  /\ UNCHANGED <<today, settings, iterations, story, job, touched>>

Create(j) == CheckOverlap(j) \/ ReadMaxNumber(j) \/ InsertIteration(j)

CronStep ==
  \/ StartCron
  \/ FindLatest
  \/ UnassignFuture
  \/ DeleteFuture
  \/ ListIterations
  \/ ReassignStories

PatchStep(r) ==
  \/ \E change \in Changes : LoadProject(r, change)
  \/ UpdateSettings(r)
  \/ RebuildListsIterations(r)
  \/ RebuildListsStories(r)
  \/ DeleteAll(r)
  \/ RebuildResolves(r)
  \/ \E s \in Stories : AssignStoryForRebuild(r, s)
  \/ Rebuilt(r)

Client ==
  \/ \E s \in Stories, status \in Status : ChangeStatus(s, status)
  \/ \E s \in Stories : \E i \in DOMAIN iterations \cup {Null} : AssignStory(s, i)

IterationsNext ==
  \/ CronStep
  \/ \E r \in Patches : PatchStep(r)
  \/ \E j \in Jobs : Create(j) \/ EndJob(j)
  \/ Client
  \/ NextDay
  \/ NextUtcDay

IterationsSpec == IterationsInit /\ [][IterationsNext]_iterationsVars

\* The cron is started every hour, and none of its calls fails every time.
CronFairness ==
  /\ WF_iterationsVars(StartCron) /\ WF_iterationsVars(EndJob(Cron))
  /\ SF_iterationsVars(FindLatest)
  /\ SF_iterationsVars(UnassignFuture)
  /\ SF_iterationsVars(DeleteFuture)
  /\ SF_iterationsVars(CheckOverlap(Cron))
  /\ SF_iterationsVars(ReadMaxNumber(Cron))
  /\ SF_iterationsVars(InsertIteration(Cron))

FairSpec == IterationsSpec /\ CronFairness

-----------------------------------------------------------------------------
(* Properties.                                                             *)

JobType(j) ==
  \/ job[j] = NoJob
  \/ j = Cron /\ job[j].at \in {"latest", "unassign", "delete future", "create", "number",
                                "insert", "backfill", "reassign"}
  \/ j # Cron /\ job[j].at \in {"settings", "read", "stories", "delete", "create", "number",
                                "insert", "list", "assign", "ok"}

\* Rows keep their types, an iteration_id refers to a row, and each job is at
\* one of its calls.
IterationsTypeOK ==
  /\ today \in Date /\ utc \in {today - 1, today}
  /\ settings \in Calendar
  /\ DOMAIN iterations \subseteq Id
  /\ \A i \in DOMAIN iterations :
       iterations[i] \in [number : Nat \ {0}, start : Int, end : Int]
  /\ story \in [Stories -> Row]
  /\ \A s \in Stories : story[s].iteration \in DOMAIN iterations \cup {Null}
  /\ \A j \in Jobs : JobType(j)
  /\ touched \subseteq Stories

\* Iteration n + 1 starts when iteration n ends, whatever jobs died half way
\* and however the calendar was changed, unless two jobs worked at the same time.
WindowsTile ==
  ~Overlap =>
    /\ {iterations[i].number : i \in DOMAIN iterations} = 1..Cardinality(DOMAIN iterations)
    /\ \A i, k \in DOMAIN iterations :
         iterations[k].number = iterations[i].number + 1 => iterations[k].start = iterations[i].end

Placed(row, date) ==
  row.iteration # Null /\ Contains(iterations[row.iteration], date)

\* A rebuild that is answered with success has put every accepted story into
\* the iteration of its completion, and every other one into the iteration that
\* covers the start of its old one, unless it was changed meanwhile.
RebuildKeepsPlaces ==
  \A r \in Patches : job[r].at = "ok" /\ ~Overlap =>
    \A s \in Stories \ touched : job[r].anchor[s] # Null => Placed(story[s], job[r].anchor[s])

\* "Ensure a DB iteration record exists that contains `today`": however cron
\* runs and rebuilds overlap, fail and die, there is again and again a current
\* iteration, unless rebuilds never cease.
TodayIsCovered ==
  []<>(\/ \E i \in DOMAIN iterations : Contains(iterations[i], today)
       \/ \E r \in Patches : job[r] # NoJob)
==============================================================================
