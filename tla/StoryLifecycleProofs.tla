------------------------- MODULE StoryLifecycleProofs -------------------------
(***************************************************************************)
(* Machine-checked proofs about StoryLifecycle and about BulkStatusChange  *)
(* and StoryPanels, which run beside it, for any number of stories,        *)
(* requests, sprint windows and archive requests, and for any PATCH bodies.*)
(***************************************************************************)
EXTENDS BulkStatusChange, StoryPanels, SequenceTheorems, TLAPS

(***************************************************************************)
(* The inductive invariant.                                                *)
(***************************************************************************)

\* An UPDATE that finds the row as seen keeps the rules of story.ts.
WriteOK(seen, set) ==
  LET status == Or(set.status, seen.status)
      iteration == Or(set.iteration, seen.iteration)
  IN
  /\ CanTransitionStoryStatus(seen.status, status)
  /\ Or(set.icebox, seen.icebox) => status = "Unstarted" /\ iteration = 0
  /\ IF set.completed = Absent
     THEN status = "Accepted" <=> seen.status = "Accepted"
     ELSE set.completed <=> status = "Accepted"
  /\ set.iteration \in iterations \cup {0, Absent}

\* What a request in flight may rely on.
RequestOK(q) ==
  /\ q.at = "row" /\ q.edit.status # Absent =>
       q.expected # Absent /\ CanTransitionStoryStatus(q.expected, q.edit.status)
  /\ q.at = "write" => WriteOK(q.seen, q.set)
  /\ q.at = "archive" =>
       (q.archived <=> q.archivedAt = 0) /\ (q.archived => CanArchiveStory(q.status))

RequestInv == \A r \in Requests : RequestOK(request[r])

\* The cron moves stories into an iteration that exists.
CronInv == cron.at = "reassign" => cron.to \in iterations

IInv ==
  /\ TypeOK
  /\ IceboxInvariant
  /\ CompletedWhileAccepted
  /\ ArchiveTrailIsTrue
  /\ RequestInv
  /\ CronInv

-----------------------------------------------------------------------------
(***************************************************************************)
(* The data of a request, by the step it is at.                            *)
(***************************************************************************)

LEMMA RequestData ==
  ASSUME NEW q \in Request
  PROVE  /\ q.at = "row" => q.story \in Stories /\ q.edit \in Edit /\ q.expected \in Maybe(Status)
         /\ q.at = "write" => q.story \in Stories /\ q.seen \in Guard /\ q.set \in Columns
         /\ q.at = "archive" => /\ q.story \in Stories /\ q.archived \in BOOLEAN
                                /\ q.status \in Status /\ q.archivedAt \in 0..MaxTrail
BY DEF Request, Idle

LEMMA CronData ==
  ASSUME NEW c \in Cron
  PROVE  /\ c.at \in {"ensure", "backfill"} =>
              c = [at |-> c.at, day |-> c.day] /\ c.day \in 1..MaxDay
         /\ c.at = "reassign" => c.from \in 1..MaxDay /\ c.to \in 1..MaxDay
BY DEF Cron, Idle

LEMMA ResolvedIcebox ==
  ASSUME NEW requested \in Maybe(BOOLEAN), NEW row, NEW next
  PROVE  ResolveStoryIsIcebox(requested, row, next) \in Maybe(BOOLEAN)
BY DEF ResolveStoryIsIcebox, Maybe

LEMMA AbsentIsNoValue ==
  /\ Absent \notin Types /\ Absent \notin BOOLEAN /\ Absent \notin Status /\ Absent \notin Nat
  /\ Edits \subseteq Edit
BY EditsAssumption

LEMMA ColumnsTyped ==
  ASSUME NEW row \in Row, NEW e \in Edit, today \in 1..MaxDay
  PROVE  ColumnsOf(row, e) \in Columns
<1>. DEFINE next == Or(e.status, row.status)
            icebox == ResolveStoryIsIcebox(e.icebox, row, next)
<1>1. icebox \in Maybe(BOOLEAN)
  BY ResolvedIcebox DEF Edit
<1>2. ASSUME NEW frozen
      PROVE  IterationColumn(row, e, next, frozen) \in Maybe(0..MaxDay)
  BY BoundsAssumption DEF IterationColumn, CurrentIteration, Maybe
<1>3. CompletedColumn(row, e) \in Maybe(BOOLEAN)
  BY DEF CompletedColumn, Maybe
<1>4. /\ e.type \in Maybe(Types) /\ e.estimated \in Maybe(BOOLEAN)
      /\ e.status \in Maybe(Status)
  BY DEF Edit
<1>. QED
  BY <1>1, <1>2, <1>3, <1>4 DEF ColumnsOf, Columns

\* What ReadRow passes on keeps the rules, if the row it read did.
LEMMA ColumnsKeepTheRules ==
  ASSUME NEW row \in Row, NEW e \in Edit,
         row.icebox => row.status = "Unstarted" /\ row.iteration = 0,
         ~IceboxRefused(e.icebox, row, Or(e.status, row.status)),
         e.status # Absent => CanTransitionStoryStatus(row.status, e.status)
  PROVE  WriteOK(SeenOf(row), ColumnsOf(row, e))
<1>. DEFINE next == Or(e.status, row.status)
            icebox == ResolveStoryIsIcebox(e.icebox, row, next)
            set == ColumnsOf(row, e)
            iteration == IterationColumn(row, e, next, Or(icebox, row.icebox))
            seen == SeenOf(row)
<1>1. /\ set.status = e.status /\ set.icebox = icebox /\ set.iteration = iteration
      /\ set.completed = CompletedColumn(row, e)
  BY DEF ColumnsOf
<1>2. seen.status = row.status /\ seen.icebox = row.icebox /\ seen.iteration = row.iteration
  BY DEF SeenOf
<1>3. CanTransitionStoryStatus(row.status, next)
  BY DEF Or, CanTransitionStoryStatus
<1>4. ASSUME Or(icebox, row.icebox)
      PROVE  next = "Unstarted" /\ Or(iteration, row.iteration) = 0
  <2>1. next = "Unstarted" /\ row.iteration = 0
    <3>1. CASE e.icebox = TRUE
      BY <3>1 DEF IceboxRefused
    <3>2. CASE e.icebox = FALSE
      BY <1>4, <3>2, AbsentIsNoValue DEF ResolveStoryIsIcebox, Or
    <3>3. CASE e.icebox = Absent
      BY <1>4, <3>3, AbsentIsNoValue DEF ResolveStoryIsIcebox, Or
    <3>. QED
      BY <3>1, <3>2, <3>3 DEF Edit, Maybe
  <2>2. iteration = Absent
    BY <1>4, <2>1 DEF IterationColumn, InProgress
  <2>. QED
    BY <2>1, <2>2 DEF Or
<1>5. IF CompletedColumn(row, e) = Absent
      THEN next = "Accepted" <=> row.status = "Accepted"
      ELSE CompletedColumn(row, e) <=> next = "Accepted"
  BY AbsentIsNoValue DEF CompletedColumn, Or
<1>6. iteration \in iterations \cup {0, Absent}
  BY DEF IterationColumn, CurrentIteration
<1>. QED
  BY <1>1, <1>2, <1>3, <1>4, <1>5, <1>6 DEF WriteOK

-----------------------------------------------------------------------------
(***************************************************************************)
(* Every step keeps the invariant.                                         *)
(***************************************************************************)

LEMMA InitKeeps == Init => IInv
<1>. SUFFICES ASSUME Init PROVE IInv
  OBVIOUS
<1>1. \A s \in Stories :
        /\ story[s] \in Row /\ story[s].status = "Unstarted" /\ story[s].iteration = 0
        /\ story[s].archivedAt = 0 /\ ~story[s].completed
  BY NewStoriesAssumption DEF Init
<1>2. TypeOK
  <2>1. story \in [Stories -> Row]
    BY NewStoriesAssumption DEF Init
  <2>2. trail \in [Stories -> Seq(BOOLEAN)]
    BY DEF Init
  <2>3. request \in [Requests -> Request] /\ cron \in Cron
    BY DEF Init, Request, Cron
  <2>. QED
    BY <1>1, <2>1, <2>2, <2>3, BoundsAssumption DEF Init, TypeOK
<1>3. IceboxInvariant /\ CompletedWhileAccepted
  BY <1>1 DEF IceboxInvariant, CompletedWhileAccepted
<1>4. ArchiveTrailIsTrue
  <2>1. \A s \in Stories : Len(trail[s]) = 0
    BY DEF Init
  <2>2. ASSUME NEW s \in Stories, NEW n \in 1..Len(trail[s])
        PROVE  FALSE
    BY <2>1
  <2>3. 0 % 2 = 0
    OBVIOUS
  <2>4. \A s \in Stories : Len(trail[s]) % 2 = 0
    BY <2>1, <2>3, Zenon
  <2>5. 0 # 1
    OBVIOUS
  <2>6. \A s \in Stories : ~(Len(trail[s]) % 2 = 1)
    BY <2>4, <2>5, Zenon
  <2>. QED
    BY <1>1, <2>2, <2>6 DEF ArchiveTrailIsTrue
<1>5. RequestInv /\ CronInv
  BY DEF Init, RequestInv, RequestOK, CronInv, Idle
<1>. QED
  BY <1>2, <1>3, <1>4, <1>5 DEF IInv

\* A request that moves on to a step it is entitled to.
LEMMA RequestMoves ==
  ASSUME IInv, NEW r \in Requests, NEW q \in Request, RequestOK(q),
         request' = [request EXCEPT ![r] = q],
         UNCHANGED <<today, iterations, story, trail, cron>>
  PROVE  IInv'
<1>1. TypeOK'
  BY DEF IInv, TypeOK
<1>2. (IceboxInvariant /\ CompletedWhileAccepted /\ ArchiveTrailIsTrue /\ CronInv)'
  BY DEF IInv, IceboxInvariant, CompletedWhileAccepted, ArchiveTrailIsTrue, CronInv
<1>3. RequestInv'
  BY DEF IInv, TypeOK, RequestInv, RequestOK, WriteOK
<1>. QED
  BY <1>1, <1>2, <1>3 DEF IInv

LEMMA Answered ==
  ASSUME NEW s \in Stories, NEW ok \in BOOLEAN
  PROVE  /\ [at |-> "done", story |-> s, ok |-> ok] \in Request
         /\ RequestOK([at |-> "done", story |-> s, ok |-> ok])
BY DEF Request, RequestOK

LEMMA UpdateStoryKeeps ==
  ASSUME IInv, NEW r \in Requests, NEW s \in Stories, NEW e \in Edit, UpdateStory(r, s, e)
  PROVE  IInv'
<1>. DEFINE row == story[s]
            edit == [e EXCEPT !.icebox =
                       ResolveStoryIsIcebox(@, row, Or(e.status, row.status))]
            q == [at |-> "row", story |-> s, edit |-> edit, expected |-> ExpectedStatus(row, e)]
<1>1. row \in Row
  BY DEF IInv, TypeOK
<1>2. edit \in Edit /\ edit.status = e.status
  <2>1. ResolveStoryIsIcebox(e.icebox, row, Or(e.status, row.status)) \in Maybe(BOOLEAN)
    BY <1>1, ResolvedIcebox DEF Edit
  <2>. QED
    BY <1>1, <2>1 DEF Edit
<1>3. ExpectedStatus(row, e) \in Maybe(Status)
  BY <1>1 DEF ExpectedStatus, Maybe, Row
<1>4. q \in Request
  BY <1>2, <1>3 DEF Request
<1>5. RequestOK(q)
  <2>1. e.status # Absent =>
          row.status # Absent /\ CanTransitionStoryStatus(row.status, e.status)
    BY <1>1, AbsentIsNoValue DEF UpdateStory, UpdateAccepted, StatusAccepted, Row
  <2>. QED
    BY <1>2, <2>1 DEF RequestOK, ExpectedStatus
<1>. QED
  BY <1>4, <1>5, RequestMoves DEF UpdateStory

LEMMA ReadRowKeeps ==
  ASSUME IInv, NEW r \in Requests, ReadRow(r)
  PROVE  IInv'
<1>. DEFINE s == request[r].story
            e == request[r].edit
            expected == request[r].expected
            row == story[s]
            q == [at |-> "write", story |-> s, seen |-> SeenOf(row), set |-> ColumnsOf(row, e)]
            done == [at |-> "done", story |-> s, ok |-> FALSE]
<1>1. /\ request[r] \in Request /\ request[r].at = "row" /\ RequestOK(request[r])
      /\ today \in 1..MaxDay
  BY DEF IInv, TypeOK, RequestInv, ReadRow
<1>2. s \in Stories /\ e \in Edit /\ row \in Row
  BY <1>1, RequestData DEF IInv, TypeOK
<1>3. CASE request' = [request EXCEPT ![r] = done]
  BY <1>2, <1>3, Answered, RequestMoves DEF ReadRow
<1>4. CASE /\ expected \in {Absent, row.status}
           /\ ~IceboxRefused(e.icebox, row, Or(e.status, row.status))
           /\ request' = [request EXCEPT ![r] = q]
  <2>1. SeenOf(row) \in Guard
    BY <1>2 DEF SeenOf, Guard, Row
  <2>2. ColumnsOf(row, e) \in Columns
    BY <1>1, <1>2, ColumnsTyped
  <2>3. q \in Request
    BY <1>2, <2>1, <2>2 DEF Request
  <2>4. row.icebox => row.status = "Unstarted" /\ row.iteration = 0
    BY <1>2 DEF IInv, IceboxInvariant
  <2>5. e.status # Absent => CanTransitionStoryStatus(row.status, e.status)
    BY <1>1, <1>4 DEF RequestOK
  <2>6. WriteOK(SeenOf(row), ColumnsOf(row, e))
    BY <1>2, <1>4, <2>4, <2>5, ColumnsKeepTheRules
  <2>7. RequestOK(q)
    BY <2>6 DEF RequestOK
  <2>. QED
    BY <1>4, <2>3, <2>7, RequestMoves DEF ReadRow
<1>. QED
  BY <1>3, <1>4 DEF ReadRow, Answer

\* A row whose columns are set keeps the rules, and every other row does.
LEMMA UpdatedKeeps ==
  ASSUME IInv, NEW s \in Stories, NEW set \in Columns, story[s].archivedAt = 0,
         WriteOK(SeenOf(story[s]), set),
         story' = [story EXCEPT ![s] = Updated(story[s], set)],
         request' \in [Requests -> Request],
         \A r \in Requests : RequestOK(request'[r]),
         UNCHANGED <<today, iterations, trail, cron>>
  PROVE  IInv'
<1>. DEFINE row == story[s]
            seen == SeenOf(row)
            new == Updated(row, set)
<1>1. row \in Row
  BY DEF IInv, TypeOK
<1>2. row.status = seen.status /\ row.icebox = seen.icebox /\ row.iteration = seen.iteration
  BY DEF SeenOf
<1>3. /\ new.status = Or(set.status, seen.status)
      /\ new.icebox = Or(set.icebox, seen.icebox)
      /\ new.iteration = Or(set.iteration, seen.iteration)
      /\ new.completed = Or(set.completed, row.completed)
      /\ new.archivedAt = row.archivedAt
  BY <1>2 DEF Updated
<1>4. new \in Row
  BY <1>1 DEF Updated, Row, Columns, Maybe, Or
<1>5. new.iteration \in iterations \cup {0}
  BY <1>2, <1>3 DEF WriteOK, Or, IInv, TypeOK
<1>6. \A t \in Stories : story'[t] = IF t = s THEN new ELSE story[t]
  BY DEF IInv, TypeOK
<1>7. TypeOK'
  <2>1. story' \in [Stories -> Row]
    BY <1>4 DEF IInv, TypeOK
  <2>2. \A t \in Stories : story'[t].iteration \in iterations' \cup {0}
    BY <1>5, <1>6 DEF IInv, TypeOK
  <2>. QED
    BY <2>1, <2>2 DEF IInv, TypeOK
<1>8. IceboxInvariant'
  BY <1>3, <1>6 DEF WriteOK, IInv, IceboxInvariant
<1>9. CompletedWhileAccepted'
  <2>1. new.completed <=> new.status = "Accepted"
    <3>1. CASE set.completed = Absent
      BY <1>2, <1>3, <3>1 DEF WriteOK, Or, IInv, CompletedWhileAccepted
    <3>2. CASE set.completed # Absent
      BY <1>3, <3>2 DEF WriteOK, Or
    <3>. QED
      BY <3>1, <3>2
  <2>. QED
    BY <1>6, <2>1 DEF IInv, CompletedWhileAccepted
<1>10. ArchiveTrailIsTrue'
  <2>1. \A t \in Stories : story'[t].archivedAt = story[t].archivedAt
    BY <1>3, <1>6
  <2>. QED
    BY <2>1 DEF IInv, ArchiveTrailIsTrue
<1>11. RequestInv' /\ CronInv'
  BY DEF IInv, RequestInv, RequestOK, WriteOK, CronInv
<1>. QED
  BY <1>7, <1>8, <1>9, <1>10, <1>11 DEF IInv

LEMMA WriteStoryKeeps ==
  ASSUME IInv, NEW r \in Requests, WriteStory(r)
  PROVE  IInv'
<1>. DEFINE s == request[r].story
            seen == request[r].seen
            set == request[r].set
<1>1. /\ request[r] \in Request /\ request[r].at = "write" /\ RequestOK(request[r])
  BY DEF IInv, TypeOK, RequestInv, WriteStory
<1>2. s \in Stories /\ seen \in Guard /\ set \in Columns /\ WriteOK(seen, set)
  BY <1>1, RequestData DEF IInv, TypeOK, RequestOK
<1>3. CASE UNCHANGED story /\ Answer(r, s, FALSE)
  BY <1>2, <1>3, Answered, RequestMoves DEF WriteStory, Answer
<1>4. CASE /\ StillAsSeen(story[s], seen)
           /\ story' = [story EXCEPT ![s] = Updated(story[s], set)]
           /\ Answer(r, s, TRUE)
  <2>1. story[s].archivedAt = 0 /\ WriteOK(SeenOf(story[s]), set)
    BY <1>2, <1>4 DEF StillAsSeen
  <2>2. request' \in [Requests -> Request] /\ \A o \in Requests : RequestOK(request'[o])
    BY <1>2, <1>4, Answered DEF Answer, IInv, TypeOK, RequestInv
  <2>. QED
    BY <1>2, <1>4, <2>1, <2>2, UpdatedKeeps DEF WriteStory
<1>. QED
  BY <1>3, <1>4 DEF WriteStory, IInv, TypeOK

LEMMA SetStoryArchivedKeeps ==
  ASSUME IInv, NEW r \in Requests, NEW s \in Stories, NEW archived \in BOOLEAN,
         SetStoryArchived(r, s, archived)
  PROVE  IInv'
<1>. DEFINE row == story[s]
            q == [at |-> "archive", story |-> s, archived |-> archived, status |-> row.status,
                  archivedAt |-> row.archivedAt]
<1>1. row \in Row
  BY DEF IInv, TypeOK
<1>2. q \in Request
  BY <1>1 DEF Request, Row
<1>3. RequestOK(q)
  BY DEF RequestOK, SetStoryArchived
<1>. QED
  BY <1>2, <1>3, RequestMoves DEF SetStoryArchived

\* Archiving or restoring a story appends to its trail the entry that differs
\* from the last one.
LEMMA TrailStaysTrue ==
  ASSUME NEW trail0 \in Seq(BOOLEAN), NEW archived \in BOOLEAN,
         \A n \in 1..Len(trail0) : trail0[n] <=> n % 2 = 1,
         ~archived <=> Len(trail0) % 2 = 1
  PROVE  LET new == Append(trail0, archived) IN
         /\ \A n \in 1..Len(new) : new[n] <=> n % 2 = 1
         /\ archived <=> Len(new) % 2 = 1
<1>. DEFINE new == Append(trail0, archived)
            len == Len(trail0)
<1>1. len \in Nat /\ Len(new) = len + 1
  OBVIOUS
<1>2. (len + 1) % 2 = 1 <=> ~(len % 2 = 1)
  BY <1>1
<1>3. archived <=> (len + 1) % 2 = 1
  BY <1>2
<1>4. ASSUME NEW n \in 1..len
      PROVE  new[n] <=> n % 2 = 1
  <2>1. new[n] = trail0[n]
    BY <1>1
  <2>. QED
    BY <2>1
<1>5. new[len + 1] = archived
  BY <1>1
<1>6. \A n \in 1..Len(new) : n \in 1..len \/ n = len + 1
  BY <1>1
<1>. QED
  BY <1>1, <1>3, <1>4, <1>5, <1>6

LEMMA SetArchivedKeeps ==
  ASSUME IInv, NEW r \in Requests, SetArchived(r)
  PROVE  IInv'
<1>. DEFINE q == request[r]
            s == request[r].story
            row == story[s]
<1>1. q \in Request /\ q.at = "archive" /\ RequestOK(q)
  BY DEF IInv, TypeOK, RequestInv, SetArchived
<1>2. /\ s \in Stories /\ q.archived \in BOOLEAN /\ q.status \in Status
      /\ q.archivedAt \in 0..MaxTrail /\ row \in Row /\ trail[s] \in Seq(BOOLEAN)
  BY <1>1, RequestData DEF IInv, TypeOK
<1>3. CASE ~ArchiveApplies(r)
  <2>1. UNCHANGED <<today, iterations, story, cron>> /\ Answer(r, s, FALSE)
    <3>1. ArchiveApplies(r) = FALSE
      BY <1>3 DEF ArchiveApplies
    <3>. QED
      BY <3>1 DEF SetArchived
  <2>2. UNCHANGED trail
    BY <1>2, <1>3 DEF SetArchived, TrailAfter, IInv, TypeOK
  <2>. QED
    BY <1>2, <2>1, <2>2, Answered, RequestMoves DEF Answer
<1>4. CASE ArchiveApplies(r)
  <2>. DEFINE new == IF q.archived THEN [row EXCEPT !.archivedAt = ArchiveTime(s)]
                     ELSE [row EXCEPT !.archivedAt = 0, !.iteration = IterationOnRestore(row)]
  <2>1. ArchiveTime(s) \in 1..MaxTrail
    BY <1>2, BoundsAssumption DEF ArchiveTime, SetArchived
  <2>2. /\ IterationOnRestore(row) \in iterations \cup {0}
        /\ row.iteration = 0 => IterationOnRestore(row) = 0
    BY <1>2 DEF IterationOnRestore, IInv, TypeOK
  <2>3. /\ new.status = row.status /\ new.icebox = row.icebox
        /\ new.completed = row.completed
        /\ new.archivedAt # 0 <=> q.archived
        /\ new.iteration \in iterations \cup {0}
        /\ row.iteration = 0 => new.iteration = 0
    <3>1. row.iteration \in iterations \cup {0}
      BY <1>2 DEF IInv, TypeOK
    <3>2. CASE q.archived
      BY <1>2, <2>1, <3>1, <3>2 DEF Row
    <3>3. CASE ~q.archived
      BY <1>2, <2>2, <3>3 DEF Row
    <3>. QED
      BY <1>2, <3>2, <3>3
  <2>4. new \in Row
    <3>0. iterations \cup {0} \subseteq 0..MaxDay
      BY BoundsAssumption DEF IInv, TypeOK
    <3>1. IterationOnRestore(row) \in 0..MaxDay
      BY <2>2, <3>0
    <3>2. 0 \in 0..MaxTrail /\ ArchiveTime(s) \in 0..MaxTrail
      BY <2>1, BoundsAssumption
    <3>3. CASE q.archived
      BY <1>2, <3>2, <3>3 DEF Row
    <3>4. CASE ~q.archived
      BY <1>2, <3>1, <3>2, <3>4 DEF Row
    <3>. QED
      BY <1>2, <3>3, <3>4
  <2>5. story' = [story EXCEPT ![s] = new]
    BY <1>2, <1>4 DEF SetArchived, IInv, TypeOK
  <2>. HIDE DEF new
  <2>6. /\ trail' = [trail EXCEPT ![s] = Append(trail[s], q.archived)]
        /\ Answer(r, s, TRUE)
        /\ UNCHANGED <<today, iterations, cron>>
    BY <1>2, <1>4 DEF SetArchived, TrailAfter
  <2>7. \A t \in Stories :
          /\ story'[t] = IF t = s THEN new ELSE story[t]
          /\ trail'[t] = IF t = s THEN Append(trail[s], q.archived) ELSE trail[t]
    BY <2>5, <2>6 DEF IInv, TypeOK
  <2>8. TypeOK'
    <3>1. story' \in [Stories -> Row]
      BY <2>4, <2>5 DEF IInv, TypeOK
    <3>2. trail' \in [Stories -> Seq(BOOLEAN)]
      <4>1. Append(trail[s], q.archived) \in Seq(BOOLEAN)
        BY <1>2
      <4>. QED
        BY <2>6, <4>1 DEF IInv, TypeOK
    <3>3. request' \in [Requests -> Request]
      BY <1>2, <2>6, Answered DEF Answer, IInv, TypeOK
    <3>4. \A t \in Stories : story'[t].iteration \in iterations' \cup {0}
      BY <2>3, <2>6, <2>7 DEF IInv, TypeOK
    <3>. QED
      BY <2>6, <3>1, <3>2, <3>3, <3>4 DEF IInv, TypeOK
  <2>9. IceboxInvariant' /\ CompletedWhileAccepted'
    BY <1>2, <2>3, <2>7 DEF IInv, IceboxInvariant, CompletedWhileAccepted
  <2>10. ArchiveTrailIsTrue'
    <3>1. ~q.archived <=> Len(trail[s]) % 2 = 1
      BY <1>1, <1>2, <1>4 DEF ArchiveApplies, RequestOK, IInv, ArchiveTrailIsTrue
    <3>2. \A n \in 1..Len(trail[s]) : trail[s][n] <=> n % 2 = 1
      BY <1>2 DEF IInv, ArchiveTrailIsTrue
    <3>. DEFINE entries == Append(trail[s], q.archived)
    <3>3. /\ \A n \in 1..Len(entries) : entries[n] <=> n % 2 = 1
          /\ q.archived <=> Len(entries) % 2 = 1
      BY <1>2, <3>1, <3>2, TrailStaysTrue
    <3>4. \A t \in Stories :
            /\ trail'[t] = IF t = s THEN entries ELSE trail[t]
            /\ story'[t].archivedAt # 0 <=>
                 IF t = s THEN q.archived ELSE story[t].archivedAt # 0
      BY <2>3, <2>7
    <3>. HIDE DEF entries
    <3>. QED
      BY <3>3, <3>4 DEF IInv, ArchiveTrailIsTrue
  <2>11. RequestInv' /\ CronInv'
    BY <1>2, <2>6, Answered
    DEF Answer, IInv, TypeOK, RequestInv, RequestOK, WriteOK, CronInv
  <2>. QED
    BY <2>8, <2>9, <2>10, <2>11 DEF IInv
<1>. QED
  BY <1>3, <1>4

LEMMA EndRequestKeeps ==
  ASSUME IInv, NEW r \in Requests, EndRequest(r)
  PROVE  IInv'
<1>1. Idle \in Request /\ RequestOK(Idle)
  BY DEF Request, RequestOK, Idle
<1>. QED
  BY <1>1, RequestMoves DEF EndRequest

\* A story that joins or leaves an iteration, and leaves the Icebox when it
\* joins one.
LEMMA StoriesMove ==
  ASSUME IInv, story' \in [Stories -> Row],
         \A s \in Stories :
           /\ story'[s].status = story[s].status
           /\ story'[s].completed = story[s].completed
           /\ story'[s].archivedAt = story[s].archivedAt
           /\ story'[s].iteration \in iterations \cup {0}
           /\ story'[s].icebox => story[s].icebox /\ story'[s].iteration \in {0, story[s].iteration},
         cron' \in Cron, CronInv',
         UNCHANGED <<today, iterations, trail, request>>
  PROVE  IInv'
<1>1. TypeOK'
  BY DEF IInv, TypeOK
<1>2. IceboxInvariant'
  BY DEF IInv, IceboxInvariant
<1>3. CompletedWhileAccepted' /\ ArchiveTrailIsTrue'
  BY DEF IInv, CompletedWhileAccepted, ArchiveTrailIsTrue
<1>4. RequestInv'
  BY DEF IInv, RequestInv, RequestOK, WriteOK
<1>. QED
  BY <1>1, <1>2, <1>3, <1>4 DEF IInv

LEMMA AssignStoryKeeps ==
  ASSUME IInv, NEW s \in Stories, NEW i, AssignStory(s, i)
  PROVE  IInv'
<1>. DEFINE row == story[s]
            new == [row EXCEPT !.iteration = i, !.icebox = row.icebox /\ i = 0]
<1>1. row \in Row /\ i \in iterations \cup {0} /\ i \in 0..MaxDay
  BY BoundsAssumption DEF IInv, TypeOK, AssignStory
<1>2. story' = [story EXCEPT ![s] = new]
  BY DEF AssignStory, IInv, TypeOK
<1>3. /\ new \in Row /\ new.status = row.status /\ new.completed = row.completed
      /\ new.archivedAt = row.archivedAt /\ new.iteration = i
      /\ new.icebox => row.icebox /\ i = 0
  BY <1>1 DEF Row
<1>. HIDE DEF new
<1>4. \A t \in Stories : story'[t] = IF t = s THEN new ELSE story[t]
  BY <1>2 DEF IInv, TypeOK
<1>5. story' \in [Stories -> Row]
  BY <1>2, <1>3 DEF IInv, TypeOK
<1>6. cron' \in Cron /\ CronInv' /\ UNCHANGED <<today, iterations, trail, request>>
  BY DEF AssignStory, IInv, TypeOK, CronInv
<1>7. \A t \in Stories :
        /\ story'[t].status = story[t].status
        /\ story'[t].completed = story[t].completed
        /\ story'[t].archivedAt = story[t].archivedAt
        /\ story'[t].iteration \in iterations \cup {0}
        /\ story'[t].icebox => story[t].icebox /\ story'[t].iteration \in {0, story[t].iteration}
  BY <1>1, <1>3, <1>4 DEF IInv, TypeOK
<1>. QED
  BY <1>5, <1>6, <1>7, StoriesMove

LEMMA ReassignStoriesKeeps ==
  ASSUME IInv, ReassignStories
  PROVE  IInv'
<1>. DEFINE Moved(s) == [story[s] EXCEPT !.iteration = cron.to, !.icebox = FALSE]
<1>1. cron.to \in iterations /\ cron.to \in 0..MaxDay
  <2>1. cron.to \in iterations
    BY DEF IInv, CronInv, ReassignStories
  <2>2. iterations \subseteq 0..MaxDay
    BY BoundsAssumption DEF IInv, TypeOK
  <2>. QED
    BY <2>1, <2>2
<1>2. ASSUME NEW s \in Stories
      PROVE  /\ Moved(s) \in Row /\ Moved(s).status = story[s].status
             /\ Moved(s).completed = story[s].completed
             /\ Moved(s).archivedAt = story[s].archivedAt
             /\ Moved(s).iteration = cron.to /\ ~Moved(s).icebox
  <2>1. story[s] \in Row
    BY DEF IInv, TypeOK
  <2>. QED
    BY <1>1, <2>1 DEF Row
<1>3. story' = [s \in Stories |->
                  IF CarriesOver(story[s], cron.from) THEN Moved(s) ELSE story[s]]
  BY DEF ReassignStories
<1>. HIDE DEF Moved
<1>4. story' \in [Stories -> Row]
  BY <1>2, <1>3 DEF IInv, TypeOK
<1>5. cron' \in Cron /\ CronInv' /\ UNCHANGED <<today, iterations, trail, request>>
  BY DEF ReassignStories, CronInv, Cron, Idle
<1>6. ASSUME NEW s \in Stories
      PROVE  /\ story'[s].status = story[s].status
             /\ story'[s].completed = story[s].completed
             /\ story'[s].archivedAt = story[s].archivedAt
             /\ story'[s].iteration \in iterations \cup {0}
             /\ story'[s].icebox =>
                  story[s].icebox /\ story'[s].iteration \in {0, story[s].iteration}
  <2>1. CASE CarriesOver(story[s], cron.from)
    BY <1>1, <1>2, <1>3, <2>1
  <2>2. CASE ~CarriesOver(story[s], cron.from)
    BY <1>3, <2>2 DEF IInv, TypeOK
  <2>. QED
    BY <2>1, <2>2
<1>. QED
  BY <1>4, <1>5, <1>6, StoriesMove

\* The other steps of the cron.
LEMMA CronMoves ==
  ASSUME IInv, cron' \in Cron, CronInv',
         iterations \subseteq iterations', iterations' \subseteq 1..MaxDay,
         UNCHANGED <<today, story, trail, request>>
  PROVE  IInv'
<1>1. TypeOK'
  BY DEF IInv, TypeOK
<1>2. (IceboxInvariant /\ CompletedWhileAccepted /\ ArchiveTrailIsTrue)'
  BY DEF IInv, IceboxInvariant, CompletedWhileAccepted, ArchiveTrailIsTrue
<1>3. RequestInv'
  BY DEF IInv, RequestInv, RequestOK, WriteOK
<1>. QED
  BY <1>1, <1>2, <1>3 DEF IInv

LEMMA CronStepKeeps ==
  ASSUME IInv, CronStep
  PROVE  IInv'
<1>1. cron \in Cron /\ iterations \subseteq 1..MaxDay /\ today \in 1..MaxDay
  BY DEF IInv, TypeOK
<1>2. CASE StartCron
  <2>1. cron' \in Cron /\ CronInv'
    BY <1>1, <1>2 DEF StartCron, Cron, CronInv
  <2>. QED
    BY <1>1, <1>2, <2>1, CronMoves DEF StartCron
<1>3. CASE EnsureCurrentIteration
  <2>1. cron = [at |-> "ensure", day |-> cron.day] /\ cron.day \in 1..MaxDay
    BY <1>1, <1>3, CronData DEF EnsureCurrentIteration
  <2>2. [cron EXCEPT !.at = "backfill"] = [at |-> "backfill", day |-> cron.day]
    BY <2>1
  <2>3. cron' \in {cron, [at |-> "backfill", day |-> cron.day]}
    BY <1>3, <2>2 DEF EnsureCurrentIteration
  <2>4. cron' \in Cron /\ CronInv'
    BY <1>1, <2>1, <2>3 DEF Cron, CronInv
  <2>5. iterations \subseteq iterations' /\ iterations' \subseteq 1..MaxDay
    BY <1>1, <1>3, <2>1, BoundsAssumption DEF EnsureCurrentIteration, Latest
  <2>. QED
    BY <1>3, <2>4, <2>5, CronMoves DEF EnsureCurrentIteration
<1>4. CASE ListIterations
  <2>1. cron.day \in 1..MaxDay
    BY <1>1, <1>4, CronData DEF ListIterations
  <2>2. cron' \in Cron /\ CronInv'
    <3>1. CASE cron' = Idle
      BY <3>1 DEF Cron, CronInv, Idle
    <3>2. CASE /\ cron.day \in iterations
               /\ \E i \in PreviousIteration(cron.day) :
                    cron' = [at |-> "reassign", from |-> i, to |-> cron.day]
      <4>1. PICK i \in PreviousIteration(cron.day) :
              cron' = [at |-> "reassign", from |-> i, to |-> cron.day]
        BY <3>2
      <4>2. i \in 1..MaxDay /\ cron.day \in iterations'
        BY <1>1, <1>4, <3>2 DEF PreviousIteration, ListIterations
      <4>. QED
        BY <2>1, <4>1, <4>2 DEF Cron, CronInv
    <3>. QED
      BY <1>4, <3>1, <3>2 DEF ListIterations
  <2>. QED
    BY <1>1, <1>4, <2>2, CronMoves DEF ListIterations
<1>5. CASE ReassignStories
  BY <1>5, ReassignStoriesKeeps
<1>6. CASE CronFails
  <2>1. cron' \in Cron /\ CronInv'
    BY <1>6 DEF CronFails, Cron, CronInv, Idle
  <2>. QED
    BY <1>1, <1>6, <2>1, CronMoves DEF CronFails
<1>. QED
  BY <1>2, <1>3, <1>4, <1>5, <1>6 DEF CronStep

LEMMA NextWindowKeeps ==
  ASSUME IInv, NextWindow
  PROVE  IInv'
<1>1. TypeOK'
  BY BoundsAssumption DEF IInv, TypeOK, NextWindow
<1>2. (IceboxInvariant /\ CompletedWhileAccepted /\ ArchiveTrailIsTrue)'
  BY DEF NextWindow, IInv, IceboxInvariant, CompletedWhileAccepted, ArchiveTrailIsTrue
<1>3. (RequestInv /\ CronInv)'
  BY DEF NextWindow, IInv, RequestInv, RequestOK, WriteOK, CronInv
<1>. QED
  BY <1>1, <1>2, <1>3 DEF IInv

LEMMA StepKeeps == IInv /\ [Next]_vars => IInv'
<1>. SUFFICES ASSUME IInv, [Next]_vars
              PROVE  IInv'
  OBVIOUS
<1>1. CASE UNCHANGED vars
  BY <1>1 DEF vars, IInv, TypeOK, IceboxInvariant, CompletedWhileAccepted,
              ArchiveTrailIsTrue, RequestInv, RequestOK, WriteOK, CronInv
<1>2. ASSUME NEW r \in Requests, RequestStep(r)
      PROVE  IInv'
  BY <1>2, UpdateStoryKeeps, ReadRowKeeps, WriteStoryKeeps, SetStoryArchivedKeeps,
     SetArchivedKeeps, EndRequestKeeps, AbsentIsNoValue DEF RequestStep
<1>. QED
  BY <1>1, <1>2, AssignStoryKeeps, CronStepKeeps, NextWindowKeeps DEF Next

-----------------------------------------------------------------------------
(***************************************************************************)
(* What holds in every behaviour.                                          *)
(***************************************************************************)

\* IInv is an invariant: everything below follows from it.
THEOREM Invariance == Spec => []IInv
BY InitKeeps, StepKeeps, PTL DEF Spec

\* Type correctness: rows of stories refer to iterations that exist, and every
\* request and the cron are at one of their steps with data of its kind.
THEOREM TypeCorrect == Spec => []TypeOK
BY Invariance, PTL DEF IInv

\* The Icebox rule of story.ts survives any overlap of updates, assignments,
\* archive requests and cron runs.
THEOREM IceboxHoldsUnstartedWork == Spec => []IceboxInvariant
BY Invariance, PTL DEF IInv

\* completed_at is set exactly while a story is Accepted.
THEOREM CompletionIsKept == Spec => []CompletedWhileAccepted
BY Invariance, PTL DEF IInv

\* The archive entries of a timeline alternate and agree with the row.
THEOREM ArchiveTrailIsKept == Spec => []ArchiveTrailIsTrue
BY Invariance, PTL DEF IInv

-----------------------------------------------------------------------------

\* A step changes an archived story only to restore it.
LEMMA ArchivedStay ==
  ASSUME IInv, [Next]_vars, NEW s \in Stories,
         story[s].archivedAt # 0, story'[s].archivedAt # 0
  PROVE  story'[s] = story[s]
<1>1. CASE UNCHANGED story
  BY <1>1
<1>2. ASSUME NEW r \in Requests, WriteStory(r)
      PROVE  story'[s] = story[s]
  BY <1>2 DEF WriteStory, StillAsSeen, IInv, TypeOK
<1>3. ASSUME NEW r \in Requests, SetArchived(r)
      PROVE  story'[s] = story[s]
  <2>. DEFINE q == request[r]
  <2>1. /\ q \in Request /\ q.at = "archive" /\ q.story \in Stories
        /\ q.archived <=> q.archivedAt = 0
    BY <1>3, RequestData DEF IInv, TypeOK, RequestInv, RequestOK, SetArchived
  <2>2. CASE ~ArchiveApplies(r) \/ q.story # s
    BY <1>3, <2>2 DEF SetArchived, IInv, TypeOK
  <2>3. CASE ArchiveApplies(r) /\ q.story = s
    <3>1. ~q.archived
      BY <2>1, <2>3 DEF ArchiveApplies
    <3>2. story'[s].archivedAt = 0
      <4>1. story[s] \in Row
        BY DEF IInv, TypeOK
      <4>. QED
        BY <1>3, <2>3, <3>1, <4>1 DEF SetArchived, IInv, TypeOK, Row
    <3>. QED
      BY <3>2
  <2>. QED
    BY <2>2, <2>3
<1>4. ASSUME NEW t \in Stories, NEW i \in AssignTo, AssignStory(t, i)
      PROVE  story'[s] = story[s]
  BY <1>4 DEF AssignStory, IInv, TypeOK
<1>5. ASSUME ReassignStories
      PROVE  story'[s] = story[s]
  BY <1>5 DEF ReassignStories, CarriesOver
<1>. QED
  BY <1>1, <1>2, <1>3, <1>4, <1>5
  DEF Next, RequestStep, CronStep, vars, UpdateStory, ReadRow, SetStoryArchived, EndRequest,
      StartCron, EnsureCurrentIteration, ListIterations, CronFails, NextWindow

\* Archived stories are read-only, also for requests that were accepted before
\* they were archived, for assignments and for the cron.
THEOREM ArchivesAreFrozen == Spec => ArchivedAreReadOnly
<1>1. IInv /\ [Next]_vars =>
        [\A s \in Stories :
           story[s].archivedAt # 0 /\ story'[s].archivedAt # 0 => story'[s] = story[s]]_vars
  BY ArchivedStay
<1>. QED
  BY <1>1, Invariance, PTL DEF Spec, ArchivedAreReadOnly

-----------------------------------------------------------------------------
(***************************************************************************)
(* The refinement of StoryWorkflow.                                        *)
(***************************************************************************)

LEMMA InitRefines == Init => Workflow!Init
<1>. SUFFICES ASSUME Init PROVE Workflow!Init
  OBVIOUS
<1>1. \A s \in Stories :
        story[s] \in Row /\ story[s].status = "Unstarted" /\ story[s].archivedAt = 0
  BY NewStoriesAssumption DEF Init
<1>. QED
  BY <1>1 DEF Workflow!Init, Row

\* An update that is written is a step along the transition table.
LEMMA UpdatedRefines ==
  ASSUME IInv, NEW s \in Stories, NEW set \in Columns, story[s].archivedAt = 0,
         WriteOK(SeenOf(story[s]), set),
         story' = [story EXCEPT ![s] = Updated(story[s], set)]
  PROVE  Workflow!Work(s)
<1>. DEFINE row == story[s]
            new == Updated(row, set)
<1>1. row \in Row
  BY DEF IInv, TypeOK
<1>2. /\ new.status = Or(set.status, row.status)
      /\ new.icebox = Or(set.icebox, row.icebox)
      /\ new.archivedAt = row.archivedAt
  BY DEF Updated
<1>3. new.status \in Status /\ new.icebox \in BOOLEAN
  BY <1>1 DEF Updated, Row, Columns, Maybe, Or
<1>4. CanTransitionStoryStatus(row.status, new.status) /\ (new.icebox => new.status = "Unstarted")
  BY <1>2 DEF WriteOK, SeenOf
<1>. HIDE DEF new
<1>5. \A t \in Stories : story'[t] = IF t = s THEN new ELSE story[t]
  BY DEF IInv, TypeOK, new
<1>6. /\ [t \in Stories |-> story'[t].status] =
           [[t \in Stories |-> story[t].status] EXCEPT ![s] = new.status]
      /\ [t \in Stories |-> story'[t].icebox] =
           [[t \in Stories |-> story[t].icebox] EXCEPT ![s] = new.icebox]
      /\ [t \in Stories |-> story'[t].archivedAt # 0] =
           [t \in Stories |-> story[t].archivedAt # 0]
  <2>1. \A t \in Stories :
          /\ story'[t].status = IF t = s THEN new.status ELSE story[t].status
          /\ story'[t].icebox = IF t = s THEN new.icebox ELSE story[t].icebox
          /\ story'[t].archivedAt = story[t].archivedAt
    BY <1>2, <1>5
  <2>. QED
    BY <2>1
<1>7. Workflow!CanTransition(row.status, new.status)
  BY <1>4 DEF Workflow!CanTransition, Workflow!Transitions,
              CanTransitionStoryStatus, Transitions
<1>8. new.status \in Workflow!Status
  BY <1>3 DEF Status, Workflow!Status
<1>. QED
  BY <1>1, <1>3, <1>4, <1>6, <1>7, <1>8 DEF Workflow!Work

LEMMA WriteStoryRefines ==
  ASSUME IInv, NEW r \in Requests, NEW s \in Stories, s = request[r].story,
         WriteStory(r), story' # story
  PROVE  Workflow!Work(s)
<1>. DEFINE seen == request[r].seen
            set == request[r].set
<1>1. /\ request[r] \in Request /\ request[r].at = "write" /\ RequestOK(request[r])
  BY DEF IInv, TypeOK, RequestInv, WriteStory
<1>2. set \in Columns /\ WriteOK(seen, set)
  BY <1>1, RequestData DEF RequestOK
<1>3. StillAsSeen(story[s], seen) /\ story' = [story EXCEPT ![s] = Updated(story[s], set)]
  BY DEF WriteStory, IInv, TypeOK
<1>. QED
  BY <1>2, <1>3, UpdatedRefines DEF StillAsSeen

\* The batch of an archive request archives or restores, whatever was read.
LEMMA SetArchivedRefines ==
  ASSUME IInv, NEW r \in Requests, NEW s \in Stories, s = request[r].story,
         SetArchived(r), story' # story
  PROVE  Workflow!Archive(s) \/ Workflow!Restore(s)
<1>. DEFINE q == request[r]
            row == story[s]
<1>1. q \in Request /\ q.at = "archive" /\ RequestOK(q) /\ ArchiveApplies(r)
  BY DEF IInv, TypeOK, RequestInv, SetArchived
<1>2. s \in Stories /\ row \in Row /\ q.archived \in BOOLEAN
  BY <1>1, RequestData DEF IInv, TypeOK
<1>3. row.status = q.status /\ row.archivedAt = q.archivedAt
  BY <1>1 DEF ArchiveApplies
<1>4. /\ \A t \in Stories :
           /\ story'[t].status = story[t].status
           /\ story'[t].icebox = story[t].icebox
           /\ t # s => story'[t].archivedAt = story[t].archivedAt
      /\ story'[s].archivedAt # 0 <=> q.archived
  <2>1. ArchiveTime(s) # 0
    <3>1. Len(trail[s]) \in Nat
      BY <1>2 DEF IInv, TypeOK
    <3>. QED
      BY <3>1 DEF ArchiveTime
  <2>2. CASE q.archived
    <3>1. story' = [story EXCEPT ![s] = [row EXCEPT !.archivedAt = ArchiveTime(s)]]
      BY <1>1, <1>2, <2>2 DEF SetArchived, IInv, TypeOK
    <3>. QED
      BY <1>2, <2>1, <2>2, <3>1 DEF IInv, TypeOK, Row
  <2>3. CASE ~q.archived
    <3>. DEFINE new == [row EXCEPT !.archivedAt = 0, !.iteration = IterationOnRestore(row)]
    <3>1. story' = [story EXCEPT ![s] = new]
      BY <1>1, <1>2, <2>3 DEF SetArchived, IInv, TypeOK
    <3>2. new.status = row.status /\ new.icebox = row.icebox /\ new.archivedAt = 0
      BY <1>2 DEF Row
    <3>. HIDE DEF new
    <3>. QED
      BY <1>2, <2>3, <3>1, <3>2 DEF IInv, TypeOK
  <2>. QED
    BY <1>2, <2>2, <2>3
<1>5. /\ [t \in Stories |-> story'[t].status] = [t \in Stories |-> story[t].status]
      /\ [t \in Stories |-> story'[t].icebox] = [t \in Stories |-> story[t].icebox]
  BY <1>4
<1>6. CASE q.archived
  <2>1. row.archivedAt = 0 /\ CanArchiveStory(row.status)
    BY <1>1, <1>3, <1>6 DEF RequestOK
  <2>2. [t \in Stories |-> story'[t].archivedAt # 0] =
          [[t \in Stories |-> story[t].archivedAt # 0] EXCEPT ![s] = TRUE]
    BY <1>2, <1>4, <1>6
  <2>. QED
    BY <1>2, <1>5, <2>1, <2>2
    DEF Workflow!Archive, Workflow!CanArchive, CanArchiveStory
<1>7. CASE ~q.archived
  <2>1. row.archivedAt # 0
    BY <1>1, <1>3, <1>7 DEF RequestOK
  <2>2. [t \in Stories |-> story'[t].archivedAt # 0] =
          [[t \in Stories |-> story[t].archivedAt # 0] EXCEPT ![s] = FALSE]
    BY <1>2, <1>4, <1>7
  <2>. QED
    BY <1>2, <1>5, <2>1, <2>2 DEF Workflow!Restore
<1>. QED
  BY <1>2, <1>6, <1>7

\* Stories that move into an iteration are scheduled, all in one step.
LEMMA MoveRefines ==
  ASSUME NEW moved \in SUBSET {s \in Stories : story[s].archivedAt = 0},
         \A s \in Stories :
           /\ story'[s].status = story[s].status
           /\ story'[s].archivedAt = story[s].archivedAt
           /\ story'[s].icebox = (story[s].icebox /\ s \notin moved)
  PROVE  Workflow!Schedule
<1>1. /\ [s \in Stories |-> story'[s].status] = [s \in Stories |-> story[s].status]
      /\ [s \in Stories |-> story'[s].archivedAt # 0] =
           [s \in Stories |-> story[s].archivedAt # 0]
  OBVIOUS
<1>2. [s \in Stories |-> story'[s].icebox] =
        [s \in Stories |-> [t \in Stories |-> story[t].icebox][s] /\ s \notin moved]
  OBVIOUS
<1>3. moved \in SUBSET {s \in Stories : ~[t \in Stories |-> story[t].archivedAt # 0][s]}
  OBVIOUS
<1>. QED
  BY <1>1, <1>2, <1>3 DEF Workflow!Schedule

LEMMA AssignStoryRefines ==
  ASSUME IInv, NEW s \in Stories, NEW i, AssignStory(s, i)
  PROVE  Workflow!Schedule
<1>. DEFINE row == story[s]
            moved == IF i = 0 THEN {} ELSE {s}
            new == [row EXCEPT !.iteration = i, !.icebox = row.icebox /\ i = 0]
<1>1. row \in Row /\ row.archivedAt = 0
  BY DEF IInv, TypeOK, AssignStory
<1>2. story' = [story EXCEPT ![s] = new]
  BY DEF AssignStory, IInv, TypeOK
<1>3. /\ new.status = row.status /\ new.archivedAt = row.archivedAt
      /\ new.icebox = (row.icebox /\ i = 0)
  BY <1>1 DEF Row
<1>. HIDE DEF new
<1>4. \A t \in Stories : story'[t] = IF t = s THEN new ELSE story[t]
  BY <1>2 DEF IInv, TypeOK
<1>5. moved \in SUBSET {t \in Stories : story[t].archivedAt = 0}
  BY <1>1
<1>6. \A t \in Stories : story[t].icebox \in BOOLEAN
  BY DEF IInv, TypeOK, Row
<1>7. \A t \in Stories :
        /\ story'[t].status = story[t].status
        /\ story'[t].archivedAt = story[t].archivedAt
        /\ story'[t].icebox = (story[t].icebox /\ t \notin moved)
  BY <1>3, <1>4, <1>6
<1>. QED
  BY <1>5, <1>7, MoveRefines

LEMMA ReassignStoriesRefines ==
  ASSUME IInv, ReassignStories
  PROVE  Workflow!Schedule
<1>. DEFINE moved == {s \in Stories : CarriesOver(story[s], cron.from)}
            Moved(s) == [story[s] EXCEPT !.iteration = cron.to, !.icebox = FALSE]
<1>1. moved \in SUBSET {s \in Stories : story[s].archivedAt = 0}
  BY DEF CarriesOver
<1>2. ASSUME NEW s \in Stories
      PROVE  /\ story[s].icebox \in BOOLEAN
             /\ Moved(s).status = story[s].status /\ Moved(s).archivedAt = story[s].archivedAt
             /\ Moved(s).icebox = FALSE
  <2>1. story[s] \in Row
    BY DEF IInv, TypeOK
  <2>. QED
    BY <2>1 DEF Row
<1>3. story' = [s \in Stories |->
                  IF CarriesOver(story[s], cron.from) THEN Moved(s) ELSE story[s]]
  BY DEF ReassignStories
<1>. HIDE DEF Moved
<1>4. ASSUME NEW s \in Stories
      PROVE  /\ story'[s].status = story[s].status
             /\ story'[s].archivedAt = story[s].archivedAt
             /\ story'[s].icebox = (story[s].icebox /\ s \notin moved)
  BY <1>2, <1>3
<1>. QED
  BY <1>1, <1>4, MoveRefines

LEMMA StepRefines == IInv /\ [Next]_vars => [Workflow!Next]_(Workflow!workflowVars)
<1>. SUFFICES ASSUME IInv, [Next]_vars, ~(UNCHANGED Workflow!workflowVars)
              PROVE  Workflow!Next
  OBVIOUS
<1>1. story' # story
  BY DEF Workflow!workflowVars
<1>2. ASSUME NEW r \in Requests, RequestStep(r)
      PROVE  Workflow!Next
  <2>1. request[r] \in Request
    BY DEF IInv, TypeOK
  <2>2. CASE WriteStory(r)
    <3>1. request[r].story \in Stories
      BY <2>1, <2>2, RequestData DEF WriteStory
    <3>2. PICK s \in Stories : s = request[r].story
      BY <3>1
    <3>. QED
      BY <1>1, <2>2, <3>2, WriteStoryRefines DEF Workflow!Next
  <2>3. CASE SetArchived(r)
    <3>1. request[r].story \in Stories
      BY <2>1, <2>3, RequestData DEF SetArchived
    <3>2. PICK s \in Stories : s = request[r].story
      BY <3>1
    <3>. QED
      BY <1>1, <2>3, <3>2, SetArchivedRefines DEF Workflow!Next
  <2>. QED
    BY <1>1, <1>2, <2>2, <2>3
    DEF RequestStep, UpdateStory, ReadRow, SetStoryArchived, EndRequest
<1>3. ASSUME CronStep
      PROVE  Workflow!Next
  BY <1>1, <1>3, ReassignStoriesRefines
  DEF CronStep, StartCron, EnsureCurrentIteration, ListIterations, CronFails, Workflow!Next
<1>4. ASSUME NEW s \in Stories, NEW i \in AssignTo, AssignStory(s, i)
      PROVE  Workflow!Next
  BY <1>4, AssignStoryRefines DEF Workflow!Next
<1>. QED
  BY <1>1, <1>2, <1>3, <1>4 DEF Next, vars, NextWindow

\* However requests and the cron overlap, a story only does what StoryWorkflow
\* allows: it follows the transition table, one step at a time.
THEOREM Refinement == Spec => ImplementsWorkflow
BY InitRefines, StepRefines, Invariance, PTL DEF Spec, ImplementsWorkflow, Workflow!Spec

-----------------------------------------------------------------------------
(***************************************************************************)
(* StoryPanels: the page beside the requests.                              *)
(***************************************************************************)

\* The plan leads into the panel it is for.
TargetOK(panel, target) ==
  \/ /\ panel = "Current" /\ current # 0
     /\ target.status # "Accepted" /\ ~target.icebox /\ target.iteration = current
  \/ /\ panel \in {"Backlog", "Icebox"}
     /\ target.status = "Unstarted" /\ target.iteration = 0
     /\ target.icebox = (panel = "Icebox")

\* What is left of the path ends where the plan does.
PathOK(path, from, to) == IF path = <<>> THEN from = to ELSE path[Len(path)] = to

\* What a drag knows of the story while nobody else changes it; the Icebox flag
\* of its copy may be old once only the flag is left to ask for.
Knows ==
  LET row == story[Dragged] IN
  /\ row.archivedAt = 0
  /\ TargetOK(move.to, move.target)
  /\ PathOK(move.path, move.latest.status, move.target.status)
  /\ move.latest.status = row.status /\ move.latest.iteration = row.iteration
  /\ IF move.at = "icebox" THEN move.latest.iteration = move.target.iteration
                           ELSE move.latest.icebox = row.icebox
  /\ ~move.wrote => move.before = Copy(row)

PageTypeOK ==
  /\ current \in 0..MaxDay /\ shown \in Guard \cup {NoStory} /\ move \in Move
  /\ disturbed \in BOOLEAN /\ torn \in BOOLEAN
  /\ ~Quiet => (move.at = "status" <=> move.path # <<>>)

PageShows ==
  /\ Quiet /\ shown # NoStory => shown = Copy(story[Dragged]) /\ story[Dragged].archivedAt = 0
  /\ move.at = "arrived" => Listed(story[Dragged], current) = {move.to}
  /\ ~Quiet => Knows

\* The page knows the iteration, and the story as long as no drag failed half way.
PageInv == ~disturbed => current = CurrentId /\ (~torn => PageShows)

PanelsIInv == IInv /\ PageTypeOK /\ PageInv

\* The steps of a drag that is under way.
MoveStep == PatchStatus \/ ChangeIteration \/ PatchIcebox

LEMMA MoveData ==
  ASSUME move \in Move
  PROVE  /\ ~Quiet => /\ move.at \in {"status", "iteration", "icebox"} /\ move.to \in Panels
                      /\ move.path \in Seq(Status) /\ move.target \in Guard
                      /\ move.latest \in Guard /\ move.before \in Guard
                      /\ move.wrote \in BOOLEAN
         /\ move.at = "arrived" => move.to \in Panels
BY DEF Move, Quiet, Idle

LEMMA CopyTyped ==
  ASSUME NEW row \in Row
  PROVE  Copy(row) \in Guard /\ Copy(row).status = row.status
         /\ Copy(row).icebox = row.icebox /\ Copy(row).iteration = row.iteration
BY DEF Copy, SeenOf, Guard, Row

\* Two copies with the same fields are the same.
LEMMA SameCopy ==
  ASSUME NEW a \in Guard, NEW b \in Guard,
         a.status = b.status, a.icebox = b.icebox, a.iteration = b.iteration
  PROVE  a = b
BY DEF Guard

LEMMA CurrentIdTyped ==
  ASSUME today \in 1..MaxDay
  PROVE  /\ CurrentId \in 0..MaxDay /\ CurrentId \in {0, today}
         /\ CurrentId # 0 <=> today \in iterations
BY AbsentIsNoValue, BoundsAssumption DEF CurrentId, CurrentIteration

\* A path ends where it should; the breadth-first search never needs a third step.
LEMMA PathsArrive ==
  ASSUME NEW from \in Status, NEW to \in Status, from = to \/ to = "Unstarted"
  PROVE  /\ StatusPath(from, to) \in Seq(Status)
         /\ PathOK(StatusPath(from, to), from, to)
         /\ StatusPath(from, to) = <<>> => from = to
<1>1. CASE from = to
  BY <1>1 DEF StatusPath, PathOK
<1>2. CASE from # to /\ to \in Transitions[from]
  BY <1>2 DEF StatusPath, PathOK
<1>3. CASE from # to /\ to \notin Transitions[from]
  <2>. DEFINE via == CHOOSE v \in Transitions[from] : to \in Transitions[v]
  <2>1. to = "Unstarted"
    BY <1>3
  <2>2. from \in {"Finished", "Delivered", "Rejected"}
    BY <1>3, <2>1 DEF Status, Transitions
  <2>3. \E v \in Transitions[from] : to \in Transitions[v]
    <3>1. /\ "Started" \in Transitions["Finished"] /\ "Accepted" \in Transitions["Delivered"]
          /\ "Started" \in Transitions["Rejected"]
          /\ "Unstarted" \in Transitions["Started"] /\ "Unstarted" \in Transitions["Accepted"]
      BY DEF Transitions
    <3>. QED
      BY <2>1, <2>2, <3>1
  <2>4. via \in Transitions[from]
    BY <2>3
  <2>5. Transitions[from] \subseteq Status
    BY DEF Transitions, Status
  <2>6. StatusPath(from, to) = <<via, to>>
    BY <1>3 DEF StatusPath
  <2>. HIDE DEF via
  <2>. QED
    BY <2>4, <2>5, <2>6 DEF PathOK
<1>. QED
  BY <1>1, <1>2, <1>3

\* A story that is as the plan wants it is in the panel of the plan and no other.
LEMMA TargetsAreListed ==
  ASSUME NEW row \in Row, row.archivedAt = 0, NEW panel, TargetOK(panel, row),
         today \in 1..MaxDay, current \in {0, today}
  PROVE  Listed(row, current) = {panel}
<1>1. row.iteration \in Nat /\ today \in Nat /\ current \in Nat /\ row.icebox \in BOOLEAN
  BY BoundsAssumption DEF Row
<1>2. CASE panel = "Current" /\ TargetOK("Current", row)
  <2>1. ASSUME NEW p \in Panels
        PROVE  p \in Listed(row, current) <=> p = panel
    BY <1>1, <1>2 DEF TargetOK, Listed, Panels, NotInProgress
  <2>. QED
    BY <1>2, <2>1 DEF Listed, Panels
<1>3. CASE panel = "Backlog" /\ TargetOK("Backlog", row)
  <2>1. ASSUME NEW p \in Panels
        PROVE  p \in Listed(row, current) <=> p = panel
    BY <1>1, <1>3 DEF TargetOK, Listed, Panels, NotInProgress, InProgress
  <2>. QED
    BY <1>3, <2>1 DEF Listed, Panels
<1>4. CASE panel = "Icebox" /\ TargetOK("Icebox", row)
  <2>1. ASSUME NEW p \in Panels
        PROVE  p \in Listed(row, current) <=> p = panel
    BY <1>1, <1>4 DEF TargetOK, Listed, Panels
  <2>. QED
    BY <1>4, <2>1 DEF Listed, Panels
<1>. QED
  BY <1>2, <1>3, <1>4 DEF TargetOK

-----------------------------------------------------------------------------
(***************************************************************************)
(* A request of a drag keeps the rules of the stories.                     *)
(***************************************************************************)

LEMMA SameStoriesKeep ==
  ASSUME IInv, UNCHANGED vars
  PROVE  IInv'
BY StepKeeps

\* A PATCH that is accepted is an update like any other.
LEMMA PatchAccepted ==
  ASSUME IInv, NEW e \in Edit,
         story[Dragged].archivedAt = 0, UpdateAccepted(story[Dragged], e)
  PROVE  /\ ColumnsOf(story[Dragged], e) \in Columns
         /\ WriteOK(SeenOf(story[Dragged]), ColumnsOf(story[Dragged], e))
         /\ Updated(story[Dragged], ColumnsOf(story[Dragged], e)) \in Row
<1>. DEFINE row == story[Dragged]
            set == ColumnsOf(row, e)
<1>1. row \in Row /\ today \in 1..MaxDay
  BY PanelsAssumption DEF IInv, TypeOK
<1>2. set \in Columns
  BY <1>1, ColumnsTyped
<1>3. row.icebox => row.status = "Unstarted" /\ row.iteration = 0
  BY PanelsAssumption DEF IInv, IceboxInvariant
<1>4. WriteOK(SeenOf(row), set)
  BY <1>1, <1>3, ColumnsKeepTheRules DEF UpdateAccepted, StatusAccepted
<1>5. Updated(row, set) \in Row
  BY <1>1, <1>2 DEF Updated, Row, Columns, Maybe, Or
<1>. QED
  BY <1>2, <1>4, <1>5

\* The bodies of the PATCHes of a drag.
LEMMA PatchBodies ==
  ASSUME IInv, PageTypeOK
  PROVE  /\ PatchStatus => [NoEdit EXCEPT !.status = Head(move.path)] \in Edit
         /\ PatchIcebox => [NoEdit EXCEPT !.icebox = move.target.icebox] \in Edit
<1>1. NoEdit \in Edit
  BY DEF NoEdit, Edit, Maybe
<1>2. ASSUME PatchStatus
      PROVE  Head(move.path) \in Status
  BY <1>2, MoveData DEF PatchStatus, PageTypeOK, Quiet
<1>3. ASSUME PatchIcebox
      PROVE  move.target.icebox \in BOOLEAN
  BY <1>3, MoveData DEF PatchIcebox, PageTypeOK, Quiet, Guard
<1>. QED
  BY <1>1, <1>2, <1>3 DEF Edit, Maybe

\* What a request of a drag does to the stories: nothing, an update, or an
\* assignment.
LEMMA MoveStepWrites ==
  ASSUME IInv, PageTypeOK, MoveStep
  PROVE  /\ UNCHANGED <<today, iterations, trail, request, cron, current, disturbed>>
         /\ \/ UNCHANGED story
            \/ \E e \in Edit :
                 /\ story[Dragged].archivedAt = 0 /\ UpdateAccepted(story[Dragged], e)
                 /\ story' = [story EXCEPT ![Dragged] =
                                Updated(story[Dragged], ColumnsOf(story[Dragged], e))]
            \/ AssignStory(Dragged, move.target.iteration)
<1>1. UNCHANGED <<today, iterations, trail, request, cron, current, disturbed>>
  BY DEF MoveStep, PatchStatus, ChangeIteration, PatchIcebox
<1>2. ASSUME NEW e \in Edit, NEW path, PatchStory(e, path)
      PROVE  \/ UNCHANGED story
             \/ /\ story[Dragged].archivedAt = 0 /\ UpdateAccepted(story[Dragged], e)
                /\ story' = [story EXCEPT ![Dragged] =
                               Updated(story[Dragged], ColumnsOf(story[Dragged], e))]
  BY <1>2 DEF PatchStory, Refused, Lost
<1>3. CASE PatchStatus
  BY <1>1, <1>2, <1>3, PatchBodies DEF PatchStatus
<1>4. CASE PatchIcebox
  BY <1>1, <1>2, <1>4, PatchBodies DEF PatchIcebox
<1>5. CASE ChangeIteration
  <2>. DEFINE row == story[Dragged]
              i == move.target.iteration
              assigned == [row EXCEPT !.iteration = i, !.icebox = row.icebox /\ i = 0]
  <2>1. CASE UNCHANGED story
    BY <1>1, <2>1
  <2>2. CASE /\ row.archivedAt = 0 /\ i \in iterations \cup {0}
             /\ story' = [story EXCEPT ![Dragged] = assigned]
    <3>1. AssignStory(Dragged, i)
      BY <1>1, <2>2, PanelsAssumption DEF AssignStory, IInv, TypeOK
    <3>. QED
      BY <1>1, <3>1
  <2>. QED
    BY <1>5, <2>1, <2>2 DEF ChangeIteration, Refused, Lost
<1>. QED
  BY <1>3, <1>4, <1>5 DEF MoveStep

LEMMA MoveStepKeeps ==
  ASSUME IInv, PageTypeOK, MoveStep
  PROVE  IInv'
<1>1. UNCHANGED <<today, iterations, trail, request, cron>>
  BY MoveStepWrites
<1>2. CASE UNCHANGED story
  BY <1>1, <1>2, SameStoriesKeep DEF vars
<1>3. ASSUME NEW e \in Edit,
             story[Dragged].archivedAt = 0, UpdateAccepted(story[Dragged], e),
             story' = [story EXCEPT ![Dragged] =
                         Updated(story[Dragged], ColumnsOf(story[Dragged], e))]
      PROVE  IInv'
  <2>1. /\ ColumnsOf(story[Dragged], e) \in Columns
        /\ WriteOK(SeenOf(story[Dragged]), ColumnsOf(story[Dragged], e))
    BY <1>3, PatchAccepted
  <2>2. request' \in [Requests -> Request] /\ \A r \in Requests : RequestOK(request'[r])
    <3>1. \A r \in Requests : RequestOK(request[r])
      BY DEF IInv, RequestInv
    <3>. QED
      BY <1>1, <3>1 DEF IInv, TypeOK
  <2>. QED
    BY <1>1, <1>3, <2>1, <2>2, UpdatedKeeps, PanelsAssumption
<1>4. CASE AssignStory(Dragged, move.target.iteration)
  BY <1>4, AssignStoryKeeps, PanelsAssumption
<1>. QED
  BY <1>2, <1>3, <1>4, MoveStepWrites

-----------------------------------------------------------------------------
(***************************************************************************)
(* The page stays typed.                                                   *)
(***************************************************************************)

LEMMA MoveTyped ==
  ASSUME NEW at \in {"status", "iteration", "icebox"}, NEW to \in Panels,
         NEW path \in Seq(Status), NEW target \in Guard, NEW latest \in Guard,
         NEW before \in Guard, NEW wrote \in BOOLEAN
  PROVE  [at |-> at, to |-> to, path |-> path, target |-> target, latest |-> latest,
          before |-> before, wrote |-> wrote] \in Move
BY DEF Move

LEMMA ArrivedTyped ==
  ASSUME NEW to \in Panels
  PROVE  [at |-> "arrived", to |-> to] \in Move /\ Idle \in Move
BY DEF Move

LEMMA StagesAre ==
  ASSUME NEW path, NEW latest, NEW target
  PROVE  /\ Stage(path, latest, target) \in {"status", "iteration", "icebox", "arrived"}
         /\ Stage(path, latest, target) = "status" <=> path # <<>>
         /\ Stage(path, latest, target) \in {"icebox", "arrived"} =>
              latest.iteration = target.iteration
         /\ Stage(path, latest, target) = "arrived" => latest.icebox = target.icebox
BY DEF Stage

\* The fields of a move that goes on to its next request.
LEMMA NextMove ==
  ASSUME move \in Move, ~Quiet, NEW path \in Seq(Status), NEW latest \in Guard,
         NEW stage \in {"status", "iteration", "icebox"},
         move' = [move EXCEPT !.at = stage, !.path = path, !.latest = latest, !.wrote = TRUE]
  PROVE  /\ move' \in Move /\ move'.at = stage /\ move'.path = path
         /\ move'.latest = latest /\ move'.wrote = TRUE
         /\ move'.to = move.to /\ move'.target = move.target /\ move'.before = move.before
<1>1. move \in [at : {"status", "iteration", "icebox"}, to : Panels, path : Seq(Status),
                target : Guard, latest : Guard, before : Guard, wrote : BOOLEAN]
  BY DEF Move, Quiet, Idle
<1>2. move' \in [at : {"status", "iteration", "icebox"}, to : Panels, path : Seq(Status),
             target : Guard, latest : Guard, before : Guard, wrote : BOOLEAN]
  BY <1>1
<1>3. move' \in Move
  BY <1>2 DEF Move
<1>4. /\ move'.at = stage /\ move'.path = path /\ move'.latest = latest /\ move'.wrote = TRUE
      /\ move'.to = move.to /\ move'.target = move.target /\ move'.before = move.before
  BY <1>1
<1>. QED
  BY <1>3, <1>4

LEMMA ProceedsTyped ==
  ASSUME PageTypeOK, ~Quiet, NEW path \in Seq(Status), NEW latest \in Guard,
         NEW stage \in {"status", "iteration", "icebox", "arrived"},
         stage = "status" <=> path # <<>>,
         Proceeds(path, latest, stage), UNCHANGED <<current, disturbed>>
  PROVE  PageTypeOK'
<1>1. /\ move \in Move /\ move.to \in Panels /\ move.target \in Guard /\ move.before \in Guard
  BY MoveData DEF PageTypeOK
<1>2. torn' \in BOOLEAN /\ shown' \in Guard \cup {NoStory}
  BY DEF Proceeds, PageTypeOK
<1>3. CASE stage = "arrived"
  <2>1. move' \in Move /\ move'.at = "arrived"
    BY <1>1, <1>3, ArrivedTyped DEF Proceeds
  <2>. QED
    BY <1>2, <2>1 DEF PageTypeOK, Quiet
<1>4. CASE stage # "arrived"
  <2>1. move' = [move EXCEPT !.at = stage, !.path = path, !.latest = latest, !.wrote = TRUE]
    BY <1>4 DEF Proceeds
  <2>2. move' \in Move /\ move'.at = stage /\ move'.path = path
    <3>1. stage \in {"status", "iteration", "icebox"}
      BY <1>4
    <3>. QED
      BY <1>1, <2>1, <3>1, NextMove
  <2>3. move'.at = "status" <=> move'.path # <<>>
    BY <2>2
  <2>. QED
    BY <1>2, <2>2, <2>3 DEF PageTypeOK
<1>. QED
  BY <1>3, <1>4

LEMMA FailsTyped ==
  ASSUME PageTypeOK, ~Quiet, NEW wrote \in BOOLEAN, Fails(wrote), UNCHANGED <<current, disturbed>>
  PROVE  PageTypeOK'
<1>1. move' \in Move /\ move'.at = "idle"
  BY ArrivedTyped DEF Fails, Move, Idle
<1>2. torn' \in BOOLEAN /\ shown' \in Guard
  BY MoveData DEF Fails, PageTypeOK
<1>. QED
  BY <1>1, <1>2 DEF PageTypeOK, Quiet

\* How a PATCH of a drag ends.
LEMMA PatchTyped ==
  ASSUME IInv, PageTypeOK, ~Quiet, NEW e \in Edit, NEW path \in Seq(Status),
         PatchStory(e, path), UNCHANGED <<current, disturbed>>,
         move.at = "icebox" => path = <<>>
  PROVE  PageTypeOK'
<1>. DEFINE row == story[Dragged]
            updated == Updated(row, ColumnsOf(row, e))
            stage == IF move.at = "icebox" THEN "arrived"
                     ELSE Stage(path, Copy(updated), move.target)
<1>1. CASE Refused
  <2>1. move.wrote \in BOOLEAN
    BY MoveData DEF PageTypeOK
  <2>. QED
    BY <1>1, <2>1, FailsTyped DEF Refused
<1>2. CASE Lost(updated)
  BY <1>2, FailsTyped DEF Lost
<1>3. CASE /\ row.archivedAt = 0 /\ UpdateAccepted(row, e)
           /\ Proceeds(path, Copy(updated), stage)
  <2>1. updated \in Row
    BY <1>3, PatchAccepted
  <2>2. Copy(updated) \in Guard
    BY <2>1, CopyTyped
  <2>3. /\ stage \in {"status", "iteration", "icebox", "arrived"}
        /\ stage = "status" <=> path # <<>>
    BY StagesAre
  <2>. HIDE DEF stage, updated
  <2>. QED
    BY <1>3, <2>2, <2>3, ProceedsTyped
<1>. QED
  BY <1>1, <1>2, <1>3 DEF PatchStory

LEMMA MoveStepTyped ==
  ASSUME IInv, PageTypeOK, MoveStep
  PROVE  PageTypeOK'
<1>1. ~Quiet /\ UNCHANGED <<current, disturbed>>
  BY DEF MoveStep, PatchStatus, ChangeIteration, PatchIcebox, Quiet
<1>2. /\ move.path \in Seq(Status) /\ move.target \in Guard /\ move.latest \in Guard
      /\ move.wrote \in BOOLEAN
  BY <1>1, MoveData DEF PageTypeOK
<1>3. CASE PatchStatus
  <2>1. Tail(move.path) \in Seq(Status)
    BY <1>1, <1>2, <1>3 DEF PatchStatus, PageTypeOK
  <2>. QED
    BY <1>1, <1>3, <2>1, PatchTyped, PatchBodies DEF PatchStatus
<1>4. CASE PatchIcebox
  <2>1. [NoEdit EXCEPT !.icebox = move.target.icebox] \in Edit /\ <<>> \in Seq(Status)
    BY <1>4, PatchBodies
  <2>2. PatchStory([NoEdit EXCEPT !.icebox = move.target.icebox], <<>>)
    BY <1>4 DEF PatchIcebox
  <2>. QED
    BY <1>1, <2>1, <2>2, PatchTyped
<1>5. CASE ChangeIteration
  <2>. DEFINE i == move.target.iteration
              latest == [move.latest EXCEPT !.iteration = i]
  <2>1. latest \in Guard
    BY <1>2 DEF Guard
  <2>2. CASE Fails(move.wrote) \/ Fails(TRUE)
    BY <1>1, <1>2, <2>2, FailsTyped
  <2>3. CASE Proceeds(<<>>, latest, Stage(<<>>, latest, move.target))
    <3>. DEFINE none == <<>>
                stage == Stage(none, latest, move.target)
    <3>1. none \in Seq(Status)
      OBVIOUS
    <3>. HIDE DEF none
    <3>2. /\ stage \in {"status", "iteration", "icebox", "arrived"}
          /\ stage = "status" <=> none # <<>>
      BY StagesAre
    <3>3. Proceeds(none, latest, stage)
      BY <2>3 DEF none
    <3>. HIDE DEF stage, latest
    <3>. QED
      BY <1>1, <2>1, <3>1, <3>2, <3>3, ProceedsTyped
  <2>. QED
    BY <1>5, <2>2, <2>3 DEF ChangeIteration, Refused, Lost
<1>. QED
  BY <1>3, <1>4, <1>5 DEF MoveStep

\* The plan of a drag.
LEMMA TargetTyped ==
  ASSUME NEW copy \in Guard, NEW panel \in Panels, PlanAccepted(copy, panel),
         current \in 0..MaxDay
  PROVE  /\ TargetOf(copy, panel) \in Guard
         /\ TargetOK(panel, TargetOf(copy, panel))
         /\ TargetOf(copy, panel).status \in {copy.status, "Unstarted"}
<1>1. CASE panel = "Current"
  <2>. DEFINE target == [status |-> copy.status, icebox |-> FALSE, iteration |-> current]
  <2>1. TargetOf(copy, panel) = target
    BY <1>1 DEF TargetOf
  <2>2. target \in Guard
    BY DEF Guard
  <2>3. current # 0 /\ copy.status # "Accepted"
    BY <1>1 DEF PlanAccepted
  <2>4. TargetOK("Current", target)
    BY <2>3 DEF TargetOK
  <2>5. target.status = copy.status
    OBVIOUS
  <2>. HIDE DEF target
  <2>. QED
    BY <1>1, <2>1, <2>2, <2>4, <2>5
<1>2. CASE panel \in {"Backlog", "Icebox"}
  <2>. DEFINE target == [status |-> "Unstarted", icebox |-> panel = "Icebox", iteration |-> 0]
  <2>1. TargetOf(copy, panel) = target
    BY <1>2 DEF TargetOf
  <2>2. target \in Guard
    BY BoundsAssumption DEF Guard, Status
  <2>. QED
    BY <1>2, <2>1, <2>2 DEF TargetOK
<1>. QED
  BY <1>1, <1>2 DEF PlanAccepted, Panels

LEMMA MoveStoryTyped ==
  ASSUME PageTypeOK, NEW panel \in Panels, MoveStoryToPanel(panel)
  PROVE  PageTypeOK'
<1>. DEFINE target == TargetOf(shown, panel)
            path == StatusPath(shown.status, target.status)
            stage == Stage(path, shown, target)
<1>1. shown \in Guard /\ PlanAccepted(shown, panel) /\ current \in 0..MaxDay
  BY DEF PageTypeOK, MoveStoryToPanel
<1>2. target \in Guard /\ target.status \in {shown.status, "Unstarted"}
  BY <1>1, TargetTyped
<1>3. shown.status \in Status /\ target.status \in Status
  BY <1>1, <1>2 DEF Guard
<1>4. path \in Seq(Status)
  BY <1>2, <1>3, PathsArrive
<1>5. /\ stage \in {"status", "iteration", "icebox", "arrived"}
      /\ stage = "status" <=> path # <<>>
  BY StagesAre
<1>6. /\ move' = IF stage = "arrived" THEN [at |-> "arrived", to |-> panel]
                 ELSE [at |-> stage, to |-> panel, path |-> path, target |-> target,
                       latest |-> shown, before |-> shown, wrote |-> FALSE]
      /\ shown' = IF stage = "arrived" THEN shown ELSE target
      /\ UNCHANGED <<current, disturbed, torn>>
  BY DEF MoveStoryToPanel
<1>. HIDE DEF stage, path, target
<1>7. move' \in Move
  BY <1>1, <1>2, <1>4, <1>5, <1>6, MoveTyped, ArrivedTyped
<1>8. ~Quiet' => (move'.at = "status" <=> move'.path # <<>>)
  BY <1>5, <1>6 DEF Quiet
<1>. QED
  BY <1>1, <1>2, <1>6, <1>7, <1>8 DEF PageTypeOK

-----------------------------------------------------------------------------
(***************************************************************************)
(* The page stays true, until somebody else interferes or a drag fails     *)
(* half way.                                                               *)
(***************************************************************************)

\* The request of a drag is carried out and answered: the page knows what it left.
LEMMA ProceedsShows ==
  ASSUME PageTypeOK, ~Quiet, Knows, today \in 1..MaxDay, current \in {0, today},
         NEW path \in Seq(Status), NEW latest \in Guard, NEW row \in Row,
         NEW stage \in {"status", "iteration", "icebox", "arrived"},
         Proceeds(path, latest, stage), UNCHANGED <<today, current>>,
         story'[Dragged] = row, row.archivedAt = 0,
         latest.status = row.status, latest.iteration = row.iteration,
         PathOK(path, latest.status, move.target.status),
         stage = "icebox" => latest.iteration = move.target.iteration,
         stage \in {"status", "iteration"} => latest.icebox = row.icebox,
         stage = "arrived" => /\ path = <<>> /\ latest.iteration = move.target.iteration
                              /\ latest.icebox = row.icebox
                              /\ latest.icebox = move.target.icebox
  PROVE  PageShows'
<1>1. /\ move \in Move /\ move.to \in Panels /\ move.target \in Guard
      /\ TargetOK(move.to, move.target)
  BY MoveData DEF PageTypeOK, Knows
<1>2. CASE stage = "arrived"
  <2>1. move' = [at |-> "arrived", to |-> move.to] /\ shown' = latest
    BY <1>2 DEF Proceeds
  <2>2. latest = Copy(row)
    BY <1>2, CopyTyped, SameCopy
  <2>3. TargetOK(move.to, row)
    BY <1>1, <1>2 DEF PathOK, TargetOK
  <2>4. Listed(row, current) = {move.to}
    BY <2>3, TargetsAreListed
  <2>5. Listed(row, current)' = Listed(row, current)
    BY DEF Listed
  <2>. QED
    BY <1>1, <2>1, <2>2, <2>4, <2>5 DEF PageShows, Quiet, Listed
<1>3. CASE stage # "arrived"
  <2>1. move' = [move EXCEPT !.at = stage, !.path = path, !.latest = latest, !.wrote = TRUE]
    BY <1>3 DEF Proceeds
  <2>2. stage \in {"status", "iteration", "icebox"}
    BY <1>3
  <2>3. /\ move'.at = stage /\ move'.path = path /\ move'.latest = latest /\ move'.wrote = TRUE
        /\ move'.to = move.to /\ move'.target = move.target
    BY <1>1, <2>1, <2>2, NextMove
  <2>4. Knows'
    BY <1>1, <2>2, <2>3 DEF Knows, TargetOK, PathOK
  <2>5. ~Quiet' /\ move'.at # "arrived"
    BY <2>2, <2>3 DEF Quiet
  <2>. QED
    BY <2>4, <2>5 DEF PageShows
<1>. QED
  BY <1>2, <1>3

\* The request is refused: the story is as before the drag, unless an earlier
\* request of it was carried out.
LEMMA RefusedShows ==
  ASSUME PageTypeOK, ~Quiet, Knows, Refused, ~torn'
  PROVE  PageShows'
<1>1. ~move.wrote /\ move' = Idle /\ shown' = move.before /\ UNCHANGED story
  BY MoveData DEF Refused, Fails, PageTypeOK
<1>2. move.before = Copy(story[Dragged]) /\ story[Dragged].archivedAt = 0
  BY <1>1 DEF Knows
<1>. QED
  BY <1>1, <1>2 DEF PageShows, Quiet, Idle, Copy, SeenOf

LEMMA PathsAdvance ==
  ASSUME NEW path \in Seq(Status), path # <<>>, NEW from, NEW to, PathOK(path, from, to)
  PROVE  /\ Head(path) \in Status /\ Tail(path) \in Seq(Status)
         /\ PathOK(Tail(path), Head(path), to)
<1>. DEFINE rest == Tail(path)
<1>1. /\ Len(path) \in Nat \ {0} /\ path[Len(path)] = to /\ Head(path) = path[1]
      /\ Head(path) \in Status
  BY DEF PathOK
<1>2. /\ rest \in Seq(Status) /\ Len(rest) = Len(path) - 1
      /\ \A n \in 1..Len(rest) : rest[n] = path[n + 1]
  BY HeadTailProperties
<1>. HIDE DEF rest
<1>3. CASE Len(path) = 1
  <2>1. rest = <<>>
    BY <1>1, <1>2, <1>3
  <2>. QED
    BY <1>1, <1>2, <1>3, <2>1 DEF PathOK, rest
<1>4. CASE Len(path) # 1
  <2>1. Len(rest) \in 1..Len(rest) /\ rest # <<>>
    BY <1>1, <1>2, <1>4
  <2>2. rest[Len(rest)] = to
    BY <1>1, <1>2, <2>1
  <2>3. PathOK(rest, Head(path), to)
    BY <2>1, <2>2 DEF PathOK
  <2>. QED
    BY <1>1, <1>2, <2>3 DEF rest
<1>. QED
  BY <1>3, <1>4

LEMMA PatchStatusShows ==
  ASSUME IInv, PageTypeOK, Knows, current \in {0, today}, PatchStatus, ~torn'
  PROVE  PageShows'
<1>. DEFINE row == story[Dragged]
            e == [NoEdit EXCEPT !.status = Head(move.path)]
            path == Tail(move.path)
            updated == Updated(row, ColumnsOf(row, e))
            stage == Stage(path, Copy(updated), move.target)
<1>1. ~Quiet /\ move.at = "status" /\ today \in 1..MaxDay
  BY DEF PatchStatus, Quiet, IInv, TypeOK
<1>2. move.path \in Seq(Status) /\ move.path # <<>>
  BY <1>1, MoveData DEF PageTypeOK
<1>3. /\ Head(move.path) \in Status /\ path \in Seq(Status)
      /\ PathOK(path, Head(move.path), move.target.status)
  BY <1>2, PathsAdvance DEF Knows
<1>4. e \in Edit /\ e.status = Head(move.path)
  BY PatchBodies DEF NoEdit
<1>5. PatchStory(e, path) /\ UNCHANGED <<today, current>>
  BY DEF PatchStatus
<1>6. CASE Refused
  BY <1>1, <1>6, RefusedShows
<1>7. CASE Lost(updated)
  BY <1>7 DEF Lost, Fails
<1>8. CASE /\ row.archivedAt = 0 /\ UpdateAccepted(row, e)
           /\ story' = [story EXCEPT ![Dragged] = updated]
           /\ Proceeds(path, Copy(updated), stage)
  <2>1. updated \in Row
    BY <1>4, <1>8, PatchAccepted
  <2>2. updated.status = Head(move.path) /\ updated.archivedAt = 0
    BY <1>3, <1>4, <1>8, AbsentIsNoValue DEF Updated, ColumnsOf, Or
  <2>3. story'[Dragged] = updated
    BY <1>8, PanelsAssumption DEF IInv, TypeOK
  <2>4. /\ Copy(updated) \in Guard /\ Copy(updated).status = updated.status
        /\ Copy(updated).icebox = updated.icebox /\ Copy(updated).iteration = updated.iteration
    BY <2>1, CopyTyped
  <2>. DEFINE latest == Copy(updated)
  <2>5. /\ stage \in {"status", "iteration", "icebox", "arrived"}
        /\ stage = "status" <=> path # <<>>
        /\ stage \in {"icebox", "arrived"} => latest.iteration = move.target.iteration
        /\ stage = "arrived" => latest.icebox = move.target.icebox
    BY StagesAre
  <2>6. Proceeds(path, latest, stage)
    BY <1>8
  <2>. HIDE DEF stage, updated, latest, path
  <2>. QED
    BY <1>1, <1>3, <1>5, <2>1, <2>2, <2>3, <2>4, <2>5, <2>6, ProceedsShows DEF latest
<1>. QED
  BY <1>1, <1>5, <1>6, <1>7, <1>8 DEF PatchStory

LEMMA PatchIceboxShows ==
  ASSUME IInv, PageTypeOK, Knows, current \in {0, today}, PatchIcebox, ~torn'
  PROVE  PageShows'
<1>. DEFINE row == story[Dragged]
            e == [NoEdit EXCEPT !.icebox = move.target.icebox]
            updated == Updated(row, ColumnsOf(row, e))
<1>1. ~Quiet /\ move.at = "icebox" /\ today \in 1..MaxDay /\ row \in Row
  BY PanelsAssumption DEF PatchIcebox, Quiet, IInv, TypeOK
<1>2. move.path = <<>> /\ move.target.icebox \in BOOLEAN
  BY <1>1, MoveData DEF PageTypeOK, Guard
<1>3. /\ row.archivedAt = 0 /\ row.status = move.target.status
      /\ row.iteration = move.target.iteration /\ TargetOK(move.to, move.target)
  BY <1>1, <1>2 DEF Knows, PathOK
<1>4. e \in Edit /\ e.icebox = move.target.icebox /\ e.status = Absent
  BY PatchBodies DEF NoEdit
<1>5. PatchStory(e, <<>>) /\ UNCHANGED <<today, current>>
  BY DEF PatchIcebox
<1>6. CASE Refused
  BY <1>1, <1>6, RefusedShows
<1>7. CASE Lost(updated)
  BY <1>7 DEF Lost, Fails
<1>8. CASE /\ row.archivedAt = 0 /\ UpdateAccepted(row, e)
           /\ story' = [story EXCEPT ![Dragged] = updated]
           /\ Proceeds(<<>>, Copy(updated), "arrived")
  <2>1. updated \in Row
    BY <1>4, <1>8, PatchAccepted
  <2>2. story'[Dragged] = updated
    BY <1>8, PanelsAssumption DEF IInv, TypeOK
  <2>3. updated.status = row.status /\ updated.archivedAt = 0
    BY <1>4, <1>8 DEF Updated, ColumnsOf, Or
  <2>4. updated.icebox = move.target.icebox
    BY <1>2, <1>4, AbsentIsNoValue DEF Updated, ColumnsOf, Or, ResolveStoryIsIcebox
  <2>5. updated.iteration = row.iteration
    <3>1. row.iteration = 0 => row.status = "Unstarted"
      BY <1>1, <1>3 DEF TargetOK
    <3>2. ColumnsOf(row, e).iteration = Absent
      BY <1>4, <3>1 DEF ColumnsOf, IterationColumn, Or, InProgress
    <3>. QED
      BY <3>2 DEF Updated, Or
  <2>6. /\ Copy(updated) \in Guard /\ Copy(updated).status = updated.status
        /\ Copy(updated).icebox = updated.icebox /\ Copy(updated).iteration = updated.iteration
    BY <2>1, CopyTyped
  <2>. DEFINE latest == Copy(updated)
              none == <<>>
  <2>7. none \in Seq(Status) /\ PathOK(none, updated.status, move.target.status)
    BY <1>3, <2>3 DEF PathOK
  <2>8. Proceeds(none, latest, "arrived") /\ none = <<>>
    BY <1>8
  <2>. HIDE DEF updated, latest, none
  <2>. QED
    BY <1>1, <1>3, <1>5, <2>1, <2>2, <2>3, <2>4, <2>5, <2>6, <2>7, <2>8, ProceedsShows
    DEF latest
<1>. QED
  BY <1>1, <1>5, <1>6, <1>7, <1>8 DEF PatchStory

LEMMA ChangeIterationShows ==
  ASSUME IInv, PageTypeOK, Knows, current \in {0, today}, ChangeIteration, ~torn'
  PROVE  PageShows'
<1>. DEFINE row == story[Dragged]
            i == move.target.iteration
            assigned == [row EXCEPT !.iteration = i, !.icebox = row.icebox /\ i = 0]
            latest == [move.latest EXCEPT !.iteration = i]
            none == <<>>
            stage == Stage(none, latest, move.target)
<1>1. ~Quiet /\ move.at = "iteration" /\ today \in 1..MaxDay /\ row \in Row
  BY PanelsAssumption DEF ChangeIteration, Quiet, IInv, TypeOK
<1>2. /\ move.path = <<>> /\ move.latest \in Guard /\ move.target \in Guard
  BY <1>1, MoveData DEF PageTypeOK
<1>3. /\ row.archivedAt = 0 /\ move.latest.status = row.status
      /\ row.status = move.target.status
      /\ move.latest.icebox = row.icebox /\ TargetOK(move.to, move.target)
  BY <1>1, <1>2 DEF Knows, PathOK
<1>4. UNCHANGED <<today, current>>
  BY DEF ChangeIteration
<1>5. CASE Refused
  BY <1>1, <1>5, RefusedShows
<1>6. CASE Lost(assigned)
  BY <1>6 DEF Lost, Fails
<1>7. CASE /\ i \in iterations \cup {0}
           /\ story' = [story EXCEPT ![Dragged] = assigned]
           /\ Proceeds(none, latest, stage)
  <2>1. i \in 0..MaxDay
    BY <1>2 DEF Guard
  <2>2. /\ latest \in Guard /\ latest.status = row.status /\ latest.icebox = row.icebox
        /\ latest.iteration = i
    BY <1>2, <1>3, <2>1 DEF Guard
  <2>3. /\ assigned \in Row /\ assigned.status = row.status /\ assigned.archivedAt = 0
        /\ assigned.iteration = i /\ assigned.icebox = (row.icebox /\ i = 0)
    BY <1>1, <1>3, <2>1 DEF Row
  <2>4. story'[Dragged] = assigned
    BY <1>7, PanelsAssumption DEF IInv, TypeOK
  <2>5. /\ stage \in {"status", "iteration", "icebox", "arrived"}
        /\ stage # "status" /\ stage # "iteration"
        /\ stage = "arrived" => latest.icebox = move.target.icebox
    BY <2>2 DEF Stage
  <2>6. stage = "arrived" => assigned.icebox = move.target.icebox
    <3>1. i # 0 => move.target.icebox = FALSE
      BY <1>2, <1>3 DEF TargetOK, Guard
    <3>2. i = 0 => assigned.icebox = row.icebox
      BY <1>1, <2>3 DEF Row
    <3>. QED
      BY <2>2, <2>3, <2>5, <3>1, <3>2
  <2>7. none \in Seq(Status) /\ PathOK(none, latest.status, move.target.status)
    BY <1>3, <2>2 DEF PathOK
  <2>8. none = <<>> /\ Proceeds(none, latest, stage)
    BY <1>7
  <2>. HIDE DEF assigned, latest, none, stage
  <2>. QED
    BY <1>1, <1>4, <2>2, <2>3, <2>4, <2>5, <2>6, <2>7, <2>8, ProceedsShows
<1>. QED
  BY <1>5, <1>6, <1>7 DEF ChangeIteration

LEMMA MoveStepShows ==
  ASSUME IInv, PageTypeOK, PageInv, MoveStep
  PROVE  PageInv'
<1>1. UNCHANGED <<today, iterations, current, disturbed>>
  BY MoveStepWrites
<1>2. CurrentId' = CurrentId
  BY <1>1 DEF CurrentId, CurrentIteration
<1>3. ASSUME ~disturbed, ~torn'
      PROVE  PageShows'
  <2>1. ~torn
    BY <1>3 DEF MoveStep, PatchStatus, ChangeIteration, PatchIcebox, PatchStory, Proceeds,
                Refused, Lost, Fails
  <2>2. ~Quiet
    BY DEF MoveStep, PatchStatus, ChangeIteration, PatchIcebox, Quiet
  <2>3. Knows /\ current \in {0, today}
    BY <1>3, <2>1, <2>2, CurrentIdTyped DEF PageInv, PageShows, IInv, TypeOK
  <2>. QED
    BY <1>3, <2>3, PatchStatusShows, ChangeIterationShows, PatchIceboxShows DEF MoveStep
<1>. QED
  BY <1>1, <1>2, <1>3 DEF PageInv

\* A drag starts from what is stored; when there is nothing to ask for, the story
\* is in the panel already.
LEMMA MoveStoryShows ==
  ASSUME IInv, PageTypeOK, PageInv, NEW panel \in Panels, MoveStoryToPanel(panel)
  PROVE  PageInv'
<1>. DEFINE row == story[Dragged]
            target == TargetOf(shown, panel)
            path == StatusPath(shown.status, target.status)
            stage == Stage(path, shown, target)
<1>1. /\ shown \in Guard /\ PlanAccepted(shown, panel) /\ current \in 0..MaxDay /\ Quiet
      /\ shown # NoStory
  BY DEF PageTypeOK, MoveStoryToPanel
<1>2. /\ target \in Guard /\ TargetOK(panel, target)
      /\ target.status \in {shown.status, "Unstarted"}
  BY <1>1, TargetTyped
<1>3. shown.status \in Status /\ target.status \in Status
  BY <1>1, <1>2 DEF Guard
<1>4. /\ PathOK(path, shown.status, target.status)
      /\ path = <<>> => shown.status = target.status
  BY <1>2, <1>3, PathsArrive
<1>5. /\ stage \in {"status", "iteration", "icebox", "arrived"}
      /\ stage = "status" <=> path # <<>>
      /\ stage \in {"icebox", "arrived"} => shown.iteration = target.iteration
      /\ stage = "arrived" => shown.icebox = target.icebox
  BY StagesAre
<1>6. /\ move' = IF stage = "arrived" THEN [at |-> "arrived", to |-> panel]
                 ELSE [at |-> stage, to |-> panel, path |-> path, target |-> target,
                       latest |-> shown, before |-> shown, wrote |-> FALSE]
      /\ shown' = IF stage = "arrived" THEN shown ELSE target
      /\ UNCHANGED <<today, iterations, story, current, disturbed, torn>>
  BY DEF MoveStoryToPanel, vars
<1>7. row \in Row /\ today \in 1..MaxDay
  BY PanelsAssumption DEF IInv, TypeOK
<1>8. CurrentId' = CurrentId
  BY <1>6 DEF CurrentId, CurrentIteration
<1>. HIDE DEF stage, path, target
<1>9. ASSUME ~disturbed, ~torn
      PROVE  PageShows'
  <2>1. shown = Copy(row) /\ row.archivedAt = 0 /\ current \in {0, today}
    BY <1>1, <1>7, <1>9, CurrentIdTyped DEF PageInv, PageShows
  <2>2. shown.status = row.status /\ shown.icebox = row.icebox /\ shown.iteration = row.iteration
    BY <1>7, <2>1, CopyTyped
  <2>3. CASE stage = "arrived"
    <3>1. TargetOK(panel, row)
      BY <1>2, <1>4, <1>5, <2>2, <2>3 DEF TargetOK
    <3>2. Listed(row, current) = {panel}
      BY <1>7, <2>1, <3>1, TargetsAreListed
    <3>3. Listed(row, current)' = Listed(row, current)
      BY <1>6 DEF Listed
    <3>4. move' = [at |-> "arrived", to |-> panel] /\ shown' = shown
      BY <1>6, <2>3
    <3>5. Copy(row)' = Copy(row)
      BY <1>6
    <3>. QED
      BY <1>6, <2>1, <3>2, <3>3, <3>4, <3>5 DEF PageShows, Quiet
  <2>4. CASE stage # "arrived"
    <3>1. /\ move' = [at |-> stage, to |-> panel, path |-> path, target |-> target,
                      latest |-> shown, before |-> shown, wrote |-> FALSE]
          /\ stage \in {"status", "iteration", "icebox"}
      BY <1>5, <1>6, <2>4
    <3>2. /\ move'.at = stage /\ move'.to = panel /\ move'.path = path /\ move'.target = target
          /\ move'.latest = shown /\ move'.before = shown
      BY <3>1
    <3>. DEFINE plan == move'.target
    <3>3. /\ TargetOK(panel, plan) /\ UNCHANGED current
          /\ PathOK(move'.path, shown.status, plan.status)
      BY <1>2, <1>4, <1>6, <3>2
    <3>. HIDE DEF plan
    <3>4. TargetOK(move.to, move.target)'
      BY <3>2, <3>3 DEF TargetOK, plan
    <3>5. PathOK(move.path, move.latest.status, move.target.status)'
      BY <3>2, <3>3 DEF PathOK, plan
    <3>6. /\ story' = story
          /\ move'.latest.status = row.status /\ move'.latest.iteration = row.iteration
          /\ move'.latest.icebox = row.icebox /\ move'.before = Copy(row)
          /\ move'.at = "icebox" => move'.latest.iteration = move'.target.iteration
      BY <1>5, <1>6, <2>1, <2>2, <3>2
    <3>7. Knows'
      BY <2>1, <3>4, <3>5, <3>6 DEF Knows, Copy, SeenOf
    <3>8. ~Quiet' /\ move'.at # "arrived"
      BY <3>1, <3>2 DEF Quiet
    <3>. QED
      BY <3>7, <3>8 DEF PageShows
  <2>. QED
    BY <2>3, <2>4
<1>. QED
  BY <1>6, <1>8, <1>9 DEF PageInv

LEMMA LoadPageShows ==
  ASSUME IInv, PageTypeOK, LoadPage
  PROVE  PageTypeOK' /\ PageInv'
<1>. DEFINE row == story[Dragged]
<1>1. row \in Row /\ today \in 1..MaxDay
  BY PanelsAssumption DEF IInv, TypeOK
<1>2. /\ current' = CurrentId /\ shown' \in {Copy(row), NoStory}
      /\ shown' # NoStory => shown' = Copy(row) /\ Listed(row, CurrentId) # {}
      /\ move' = Idle /\ disturbed' = FALSE /\ torn' = FALSE /\ UNCHANGED vars
  <2>1. Copy(row) # NoStory
    BY <1>1, CopyTyped, PanelsAssumption
  <2>. QED
    BY <2>1 DEF LoadPage
<1>3. Listed(row, CurrentId) # {} => row.archivedAt = 0
  BY DEF Listed
<1>4. CurrentId' = CurrentId /\ CurrentId \in 0..MaxDay
  BY <1>1, <1>2, CurrentIdTyped DEF CurrentId, CurrentIteration, vars
<1>5. move'.at = "idle" /\ Quiet' /\ move' \in Move
  BY <1>2, ArrivedTyped DEF Quiet, Idle, Move
<1>6. PageTypeOK'
  BY <1>1, <1>2, <1>4, <1>5, CopyTyped DEF PageTypeOK
<1>7. Copy(row)' = Copy(row) /\ row' = row
  BY <1>2 DEF vars
<1>8. PageShows'
  BY <1>2, <1>3, <1>5, <1>7 DEF PageShows
<1>. QED
  BY <1>2, <1>4, <1>6, <1>8 DEF PageInv

\* Others, as long as they leave the story and the calendar alone.
LEMMA OthersShow ==
  ASSUME IInv, PageTypeOK, PageInv,
         UNCHANGED <<current, shown, move, torn>>,
         disturbed' \in BOOLEAN, disturbed => disturbed',
         ~disturbed' => /\ story'[Dragged] = story[Dragged]
                        /\ iterations' = iterations /\ today' = today
  PROVE  PageTypeOK' /\ PageInv'
<1>1. PageTypeOK'
  BY DEF PageTypeOK, Quiet
<1>2. CASE disturbed'
  BY <1>1, <1>2 DEF PageInv
<1>3. CASE ~disturbed'
  <2>1. /\ story'[Dragged] = story[Dragged] /\ iterations' = iterations /\ today' = today
        /\ ~disturbed
    BY <1>3
  <2>2. CurrentId' = CurrentId
    BY <2>1 DEF CurrentId, CurrentIteration
  <2>3. Listed(story[Dragged], current)' = Listed(story[Dragged], current)
    BY <2>1 DEF Listed
  <2>4. Knows => Knows'
    BY <2>1 DEF Knows, TargetOK, Copy, SeenOf
  <2>5. PageShows => PageShows'
    BY <2>1, <2>3, <2>4 DEF PageShows, Quiet, Copy, SeenOf
  <2>. QED
    BY <1>1, <2>1, <2>2, <2>5 DEF PageInv
<1>. QED
  BY <1>2, <1>3

LEMMA PanelsInitKeeps == PanelsInit => PanelsIInv
<1>. SUFFICES ASSUME PanelsInit PROVE PanelsIInv
  OBVIOUS
<1>1. IInv /\ iterations = {} /\ today = 1
  BY InitKeeps DEF PanelsInit, Init
<1>2. CurrentId = 0
  BY <1>1 DEF CurrentId, CurrentIteration
<1>3. current = 0 /\ shown = NoStory /\ move = Idle /\ disturbed = FALSE /\ torn = FALSE
  BY DEF PanelsInit
<1>4. move.at = "idle" /\ move \in Move
  BY <1>3 DEF Idle, Move
<1>5. PageTypeOK
  <2>1. Quiet /\ current \in 0..MaxDay
    BY <1>3, <1>4, BoundsAssumption DEF Quiet
  <2>. QED
    BY <1>3, <1>4, <2>1 DEF PageTypeOK
<1>6. PageInv
  BY <1>2, <1>3, <1>4 DEF PageInv, PageShows, Quiet
<1>. QED
  BY <1>1, <1>5, <1>6 DEF PanelsIInv

LEMMA PanelsStepKeeps == PanelsIInv /\ [PanelsNext]_panelVars => PanelsIInv'
<1>. SUFFICES ASSUME PanelsIInv, [PanelsNext]_panelVars
              PROVE  PanelsIInv'
  OBVIOUS
<1>. USE DEF PanelsIInv
<1>1. CASE UNCHANGED panelVars
  <2>1. IInv' /\ UNCHANGED <<story, iterations, today, current, shown, move, torn, disturbed>>
    BY <1>1, SameStoriesKeep DEF panelVars, clientVars, vars
  <2>. QED
    BY <2>1, OthersShow DEF PageTypeOK
<1>2. CASE LoadPage
  BY <1>2, LoadPageShows, SameStoriesKeep DEF LoadPage
<1>3. ASSUME NEW panel \in Panels, MoveStoryToPanel(panel)
      PROVE  PanelsIInv'
  <2>1. IInv'
    BY <1>3, SameStoriesKeep DEF MoveStoryToPanel, vars
  <2>. QED
    BY <1>3, <2>1, MoveStoryTyped, MoveStoryShows
<1>4. CASE MoveStep
  BY <1>4, MoveStepKeeps, MoveStepTyped, MoveStepShows
<1>5. CASE Others
  <2>1. IInv'
    BY <1>5, StepKeeps DEF Others
  <2>. QED
    BY <1>5, <2>1, OthersShow DEF Others, PageTypeOK
<1>. QED
  BY <1>1, <1>2, <1>3, <1>4, <1>5 DEF PanelsNext, MoveStep

-----------------------------------------------------------------------------
(***************************************************************************)
(* What holds in every behaviour of the page.                              *)
(***************************************************************************)

\* PanelsIInv is an invariant: drags keep the rules of the stories, and a page
\* nobody has interfered with knows what is stored.
THEOREM PanelsInvariance == PanelsSpec => []PanelsIInv
BY PanelsInitKeeps, PanelsStepKeeps, PTL DEF PanelsSpec

LEMMA Partition ==
  ASSUME IInv, NEW s \in Stories
  PROVE  ListedOnce(story[s]) /\ HiddenIsOffSprint(story[s])
<1>. DEFINE row == story[s]
<1>1. /\ row \in Row /\ row.iteration \in Nat /\ today \in Nat \ {0} /\ row.status \in Status
      /\ row.icebox => row.status = "Unstarted" /\ row.iteration = 0
  BY BoundsAssumption DEF IInv, TypeOK, IceboxInvariant, Row
<1>2. CurrentId \in {0, today}
  BY CurrentIdTyped DEF IInv, TypeOK
<1>. HIDE DEF row
<1>3. ASSUME NEW p \in Listed(row, CurrentId), NEW q \in Listed(row, CurrentId)
      PROVE  p = q
  BY <1>1, <1>2 DEF Listed, Panels, InProgress, NotInProgress
<1>4. HiddenIsOffSprint(row)
  <2>1. SUFFICES ASSUME row.archivedAt = 0, row.iteration \in {0, today},
                        ~(row.iteration = 0 /\ row.status \in InProgress /\ CurrentId # 0)
                 PROVE  Listed(row, CurrentId) # {}
    BY DEF HiddenIsOffSprint
  <2>2. CASE row.icebox
    BY <2>1, <2>2 DEF Listed, Panels
  <2>3. CASE ~row.icebox /\ row.iteration = 0
    <3>1. CASE row.status = "Accepted"
      BY <1>1, <2>1, <2>3, <3>1 DEF Listed, Panels
    <3>2. CASE row.status \in NotInProgress
      BY <2>1, <2>3, <3>2 DEF Listed, Panels
    <3>3. CASE row.status \in InProgress
      BY <1>2, <2>1, <2>3, <3>3 DEF Listed, Panels
    <3>. QED
      BY <1>1, <3>1, <3>2, <3>3 DEF Status, InProgress, NotInProgress
  <2>4. CASE ~row.icebox /\ row.iteration = today
    <3>1. today \in iterations
      BY <1>1, <2>4 DEF IInv, TypeOK, row
    <3>2. CurrentId = today
      BY <1>1, <1>2, <3>1, CurrentIdTyped DEF IInv, TypeOK
    <3>. QED
      BY <1>1, <2>1, <2>4, <3>2 DEF Listed, Panels
  <2>. QED
    BY <2>1, <2>2, <2>3, <2>4
<1>. QED
  BY <1>3, <1>4 DEF ListedOnce, row

\* No story is in two panels, and one that is in none is outside of the sprint,
\* whatever requests, drags and the cron do: the Icebox rule keeps the Done and
\* the Icebox panel apart.
THEOREM PanelsDivideStories == PanelsSpec => []PanelsPartition
<1>1. PanelsIInv => PanelsPartition
  BY Partition DEF PanelsIInv, PanelsPartition
<1>. QED
  BY <1>1, PanelsInvariance, PTL

LEMMA Agreement ==
  ASSUME IInv, NEW s \in Stories, story[s].archivedAt = 0, story[s].iteration \in {0, today}
  PROVE  Matches(story[s], CurrentId) = Listed(story[s], CurrentId)
<1>. DEFINE row == story[s]
<1>1. /\ row \in Row /\ row.iteration \in Nat /\ today \in Nat \ {0}
      /\ row.icebox => row.status = "Unstarted" /\ row.iteration = 0
      /\ row.iteration = today => today \in iterations
  BY BoundsAssumption DEF IInv, TypeOK, IceboxInvariant, Row
<1>2. CurrentId \in {0, today} /\ (CurrentId # 0 <=> today \in iterations)
  BY CurrentIdTyped DEF IInv, TypeOK
<1>3. row.archivedAt = 0 /\ row.iteration \in {0, today}
  OBVIOUS
<1>. HIDE DEF row
<1>4. ASSUME NEW p \in Panels
      PROVE  p \in Matches(row, CurrentId) <=> p \in Listed(row, CurrentId)
  <2>1. CASE p = "Done"
    BY <1>1, <1>2, <1>3, <2>1 DEF Matches, Listed
  <2>2. CASE p = "Current"
    BY <1>1, <1>2, <1>3, <2>2 DEF Matches, Listed
  <2>3. CASE p = "Backlog"
    BY <1>1, <1>2, <1>3, <2>3 DEF Matches, Listed
  <2>4. CASE p = "Icebox"
    BY <1>1, <1>2, <1>3, <2>4 DEF Matches, Listed
  <2>. QED
    BY <2>1, <2>2, <2>3, <2>4 DEF Panels
<1>5. Matches(row, CurrentId) \subseteq Panels /\ Listed(row, CurrentId) \subseteq Panels
  BY DEF Matches, Listed
<1>. QED
  BY <1>4, <1>5 DEF row

\* Of a story of the sprint or of none, the page's own rules and the queries of
\* the server name the same panel.
THEOREM PageAgreesWithServer == PanelsSpec => []PageAgrees
<1>1. PanelsIInv => PageAgrees
  BY Agreement DEF PanelsIInv, PageAgrees
<1>. QED
  BY <1>1, PanelsInvariance, PTL

\* A drag that succeeds puts the story where it was dropped, though each of its
\* requests may move it elsewhere.
THEOREM DragsArrive == PanelsSpec => []MovesArrive
<1>1. PanelsIInv => MovesArrive
  BY DEF PanelsIInv, PageInv, PageShows, MovesArrive
<1>. QED
  BY <1>1, PanelsInvariance, PTL

-----------------------------------------------------------------------------
(***************************************************************************)
(* The page keeps what the requests keep.                                  *)
(***************************************************************************)

LEMMA MoveStepRefines ==
  ASSUME IInv, PageTypeOK, MoveStep, story' # story
  PROVE  Workflow!Next
<1>1. CASE AssignStory(Dragged, move.target.iteration)
  BY <1>1, AssignStoryRefines, PanelsAssumption DEF Workflow!Next
<1>2. ASSUME NEW e \in Edit,
             story[Dragged].archivedAt = 0, UpdateAccepted(story[Dragged], e),
             story' = [story EXCEPT ![Dragged] =
                         Updated(story[Dragged], ColumnsOf(story[Dragged], e))]
      PROVE  Workflow!Next
  <2>1. /\ ColumnsOf(story[Dragged], e) \in Columns
        /\ WriteOK(SeenOf(story[Dragged]), ColumnsOf(story[Dragged], e))
    BY <1>2, PatchAccepted
  <2>2. Workflow!Work(Dragged)
    BY <1>2, <2>1, UpdatedRefines, PanelsAssumption
  <2>. QED
    BY <2>2, PanelsAssumption DEF Workflow!Next
<1>. QED
  BY <1>1, <1>2, MoveStepWrites

LEMMA PanelsStepRefines ==
  PanelsIInv /\ [PanelsNext]_panelVars => [Workflow!Next]_(Workflow!workflowVars)
<1>. SUFFICES ASSUME PanelsIInv, [PanelsNext]_panelVars, ~(UNCHANGED Workflow!workflowVars)
              PROVE  Workflow!Next
  OBVIOUS
<1>1. story' # story /\ IInv /\ PageTypeOK
  BY DEF Workflow!workflowVars, PanelsIInv
<1>2. CASE MoveStep
  BY <1>1, <1>2, MoveStepRefines
<1>3. CASE Others
  BY <1>1, <1>3, StepRefines DEF Others
<1>. QED
  BY <1>1, <1>2, <1>3
  DEF PanelsNext, MoveStep, panelVars, LoadPage, MoveStoryToPanel, vars

\* A drag, too, moves a story along the transition table only, one status after
\* the other, and takes it out of the Icebox before it starts.
THEOREM DragsFollowTheWorkflow == PanelsSpec => ImplementsWorkflow
<1>1. PanelsInit => Workflow!Init
  BY InitRefines DEF PanelsInit
<1>. QED
  BY <1>1, PanelsStepRefines, PanelsInvariance, PTL
  DEF PanelsSpec, ImplementsWorkflow, Workflow!Spec

\* The rules of the stories hold beside the page.
THEOREM DragsKeepTheRules ==
  PanelsSpec => [](IceboxInvariant /\ CompletedWhileAccepted /\ ArchiveTrailIsTrue)
<1>1. PanelsIInv => IceboxInvariant /\ CompletedWhileAccepted /\ ArchiveTrailIsTrue
  BY DEF PanelsIInv, IInv
<1>. QED
  BY <1>1, PanelsInvariance, PTL

\* Archived stories are read-only for drags, too.
THEOREM DragsLeaveArchivesFrozen == PanelsSpec => ArchivedAreReadOnly
<1>1. PanelsIInv /\ [PanelsNext]_panelVars =>
        [\A s \in Stories :
           story[s].archivedAt # 0 /\ story'[s].archivedAt # 0 => story'[s] = story[s]]_vars
  <2>. SUFFICES ASSUME PanelsIInv, [PanelsNext]_panelVars, NEW s \in Stories,
                       story[s].archivedAt # 0, story'[s].archivedAt # 0
                PROVE  story'[s] = story[s]
    OBVIOUS
  <2>. USE DEF PanelsIInv
  <2>1. CASE MoveStep
    <3>1. CASE AssignStory(Dragged, move.target.iteration)
      BY <3>1 DEF AssignStory, IInv, TypeOK
    <3>2. CASE UNCHANGED story
      BY <3>2
    <3>3. CASE \E row : story[Dragged].archivedAt = 0 /\ story' = [story EXCEPT ![Dragged] = row]
      BY <3>3 DEF IInv, TypeOK
    <3>. QED
      BY <2>1, <3>1, <3>2, <3>3, MoveStepWrites
  <2>2. CASE Others
    BY <2>2, ArchivedStay DEF Others
  <2>. QED
    BY <2>1, <2>2 DEF PanelsNext, MoveStep, panelVars, LoadPage, MoveStoryToPanel, vars
<1>. QED
  BY <1>1, PanelsInvariance, PTL DEF PanelsSpec, ArchivedAreReadOnly

-----------------------------------------------------------------------------
(***************************************************************************)
(* BulkStatusChange: a bulk change beside the requests.                    *)
(***************************************************************************)

Distinct(list) == \A m, n \in 1..Len(list) : list[m] = list[n] => m = n

Bulk ==
  [at : {"check", "update", "wait", "done"}, by : Requests, to : BulkTo,
   all : Seq(Stories), left : Seq(Stories), changed : SUBSET Stories,
   touched : SUBSET Stories, ok : BOOLEAN, broke : BOOLEAN]

\* A story that has passed the check still would, unless somebody changed it.
Agreed(s) == s \in bulk.touched \/ StatusAccepted(story[s], StatusEdit(bulk.to))

\* A story that is still to be updated.
Pending(s) == Agreed(s) /\ s \notin bulk.changed

\* What a bulk change may stop at once it has changed stories.
Explained(s) == story[s].archivedAt # 0 \/ s \in bulk.touched

\* The stories checked so far are those before the ones left.
Checking ==
  /\ bulk.changed = {}
  /\ Len(bulk.left) <= Len(bulk.all)
  /\ \A n \in 1..Len(bulk.left) : bulk.left[n] = bulk.all[n + Len(bulk.all) - Len(bulk.left)]
  /\ \A n \in 1..(Len(bulk.all) - Len(bulk.left)) : Agreed(bulk.all[n])

\* The update that is on its way is refused only for a reason, and its story
\* is changed once it has been answered with success.
SentOK(q, s) ==
  /\ q.at \in {"row", "write", "done"} /\ q.story = s
  /\ q.at = "row" =>
       /\ q.edit.icebox # TRUE
       /\ s \in bulk.touched \/ q.expected \in {Absent, story[s].status}
  /\ q.at = "write" => s \in bulk.touched \/ StillAsSeen(story[s], q.seen)
  /\ q.at = "done" => q.ok \/ Explained(s)
  /\ s \in bulk.changed => q.at = "done" /\ q.ok

\* No story after the one a bulk change is at has been changed.
Ahead == \A n \in 2..Len(bulk.left) : bulk.left[n] \notin bulk.changed

\* Without a failing call, it stops for a reason at a story it has not changed.
Stopped ==
  bulk.changed # {} =>
    Explained(Head(bulk.left)) /\ Head(bulk.left) \notin bulk.changed

BulkRuns ==
  /\ Distinct(bulk.all) /\ Distinct(bulk.left)
  /\ ~bulk.ok <=> bulk.at = "done"
  /\ bulk.at = "check" => Checking
  /\ bulk.at = "update" => \A n \in 1..Len(bulk.left) : Pending(bulk.left[n])
  /\ bulk.at = "wait" =>
       /\ bulk.left # <<>> /\ SentOK(request[bulk.by], Head(bulk.left))
       /\ \A n \in 2..Len(bulk.left) : Pending(bulk.left[n])
  /\ bulk.at = "done" =>
       bulk.left # <<>> /\ Ahead /\ (bulk.broke \/ Stopped)

BulkInv == bulk = Idle \/ (bulk \in Bulk /\ BulkRuns)

BulkIInv == IInv /\ BulkInv

\* A list that is not empty, its first element and the rest.
LEMMA ListParts ==
  ASSUME NEW list \in Seq(Stories), list # <<>>
  PROVE  /\ Head(list) \in Stories /\ Head(list) = list[1] /\ Len(list) \in Nat \ {0}
         /\ Tail(list) \in Seq(Stories) /\ Len(Tail(list)) = Len(list) - 1
         /\ \A n \in 1..Len(Tail(list)) : Tail(list)[n] = list[n + 1]
         /\ Distinct(list) => Distinct(Tail(list))
         /\ Distinct(list) => \A n \in 2..Len(list) : list[n] # Head(list)
<1>1. /\ Head(list) \in Stories /\ Head(list) = list[1] /\ Len(list) \in Nat \ {0}
  OBVIOUS
<1>. DEFINE rest == Tail(list)
<1>2. /\ rest \in Seq(Stories) /\ Len(rest) = Len(list) - 1
      /\ \A n \in 1..Len(rest) : rest[n] = list[n + 1]
  BY HeadTailProperties
<1>. HIDE DEF rest
<1>3. ASSUME Distinct(list)
      PROVE  Distinct(rest)
  <2>1. ASSUME NEW m \in 1..Len(rest), NEW n \in 1..Len(rest), rest[m] = rest[n]
        PROVE  m = n
    <3>1. /\ m + 1 \in 1..Len(list) /\ n + 1 \in 1..Len(list)
          /\ list[m + 1] = list[n + 1] /\ m \in Nat /\ n \in Nat
      BY <1>1, <1>2, <2>1
    <3>2. m + 1 = n + 1
      BY <1>3, <3>1 DEF Distinct
    <3>. QED
      BY <3>1, <3>2
  <2>. QED
    BY <2>1 DEF Distinct
<1>4. ASSUME Distinct(list), NEW n \in 2..Len(list)
      PROVE  list[n] # Head(list)
  <2>1. 1 \in 1..Len(list) /\ n \in 1..Len(list) /\ n # 1
    BY <1>1
  <2>. QED
    BY <1>1, <1>4, <2>1 DEF Distinct
<1>. QED
  BY <1>1, <1>2, <1>3, <1>4 DEF rest

LEMMA ListsAreLists ==
  ASSUME NEW list \in Lists
  PROVE  list \in Seq(Stories) /\ Distinct(list)
<1>1. PICK n \in 1..Cardinality(Stories) : list \in [1..n -> Stories]
  BY DEF Lists
<1>2. \A k, m \in DOMAIN list : list[k] = list[m] => k = m
  BY DEF Lists
<1>3. n \in Nat
  OBVIOUS
<1>4. list \in Seq(Stories) /\ Len(list) = n /\ DOMAIN list = 1..n
  BY <1>1, <1>3
<1>. QED
  BY <1>2, <1>4 DEF Distinct

\* The fields of a bulk change that goes on.
LEMMA BulkData ==
  ASSUME bulk \in Bulk
  PROVE  /\ bulk.at \in {"check", "update", "wait", "done"} /\ bulk.by \in Requests
         /\ bulk.to \in BulkTo /\ bulk.all \in Seq(Stories) /\ bulk.left \in Seq(Stories)
         /\ bulk.changed \in SUBSET Stories /\ bulk.touched \in SUBSET Stories
         /\ bulk.ok \in BOOLEAN /\ bulk.broke \in BOOLEAN /\ bulk # Idle
         /\ StatusEdit(bulk.to) \in Edit
<1>1. bulk.to \in Status
  BY BulkAssumption DEF Bulk
<1>2. StatusEdit(bulk.to) \in Edit
  BY <1>1 DEF StatusEdit, Edit, Maybe
<1>3. bulk.at # Idle.at
  BY DEF Bulk, Idle
<1>. QED
  BY <1>2, <1>3 DEF Bulk

LEMMA BulkIdle == ASSUME BulkInv PROVE bulk.at # "idle" => bulk \in Bulk /\ BulkRuns
BY DEF BulkInv, Idle

-----------------------------------------------------------------------------
(***************************************************************************)
(* The steps of a bulk change.                                             *)
(***************************************************************************)

LEMMA StartBulkKeeps ==
  ASSUME NEW r \in Requests, NEW list \in Lists, NEW to \in BulkTo, StartBulk(r, list, to)
  PROVE  BulkInv'
<1>. DEFINE new == [at |-> "check", by |-> r, to |-> to, all |-> list, left |-> list,
                    changed |-> {}, touched |-> {}, ok |-> TRUE, broke |-> FALSE]
<1>1. list \in Seq(Stories) /\ Distinct(list) /\ Len(list) \in Nat
  BY ListsAreLists
<1>2. bulk' = new /\ new \in Bulk
  BY <1>1 DEF StartBulk, Bulk
<1>3. /\ bulk'.at = "check" /\ bulk'.all = list /\ bulk'.left = list /\ bulk'.changed = {}
      /\ bulk'.ok = TRUE
  BY <1>2
<1>4. Checking'
  <2>1. Len(list) - Len(list) = 0 /\ \A n \in 1..Len(list) : n + Len(list) - Len(list) = n
    BY <1>1
  <2>2. \A n \in 1..(Len(list) - Len(list)) : FALSE
    BY <1>1
  <2>. QED
    BY <1>1, <1>3, <2>1, <2>2 DEF Checking
<1>5. BulkRuns'
  BY <1>1, <1>3, <1>4 DEF BulkRuns
<1>. QED
  BY <1>2, <1>5 DEF BulkInv

\* The check writes nothing, so that it may fail; once it is over, every story
\* has agreed.
LEMMA CheckStoryKeeps ==
  ASSUME BulkInv, CheckStory
  PROVE  BulkInv'
<1>1. bulk \in Bulk /\ BulkRuns /\ bulk.at = "check" /\ Checking /\ bulk.ok
  BY BulkIdle DEF CheckStory, BulkRuns
<1>2. /\ bulk.all \in Seq(Stories) /\ bulk.left \in Seq(Stories)
      /\ Len(bulk.all) \in Nat /\ Len(bulk.left) \in Nat
      /\ Distinct(bulk.all) /\ Distinct(bulk.left)
  BY <1>1, BulkData DEF BulkRuns
<1>3. story' = story
  BY DEF CheckStory, vars
<1>4. CASE bulk.left = <<>>
  <2>1. bulk' = [bulk EXCEPT !.at = "update", !.left = bulk.all]
    BY <1>4 DEF CheckStory
  <2>2. /\ bulk' \in Bulk /\ bulk'.at = "update" /\ bulk'.left = bulk.all
        /\ UNCHANGED <<bulk.all, bulk.changed, bulk.touched, bulk.to, bulk.ok>>
    BY <1>1, <1>2, <2>1 DEF Bulk
  <2>3. \A n \in 1..Len(bulk.all) : Agreed(bulk.all[n])
    BY <1>1, <1>2, <1>4 DEF Checking
  <2>4. \A n \in 1..Len(bulk'.left) : Pending(bulk.left[n])'
    BY <1>1, <1>3, <2>2, <2>3 DEF Agreed, Pending, Checking
  <2>5. BulkRuns'
    BY <1>1, <1>2, <2>2, <2>4 DEF BulkRuns
  <2>. QED
    BY <2>2, <2>5 DEF BulkInv
<1>5. CASE /\ bulk.left # <<>> /\ StatusAccepted(story[Head(bulk.left)], StatusEdit(bulk.to))
           /\ bulk' = [bulk EXCEPT !.left = Tail(bulk.left)]
  <2>. DEFINE k == Len(bulk.all) - Len(bulk.left)
  <2>1. /\ Head(bulk.left) = bulk.left[1] /\ Len(bulk.left) \in Nat \ {0}
        /\ Tail(bulk.left) \in Seq(Stories) /\ Len(Tail(bulk.left)) = Len(bulk.left) - 1
        /\ \A n \in 1..Len(Tail(bulk.left)) : Tail(bulk.left)[n] = bulk.left[n + 1]
        /\ Distinct(Tail(bulk.left))
    BY <1>2, <1>5, ListParts
  <2>2. /\ bulk' \in Bulk /\ bulk'.at = "check" /\ bulk'.left = Tail(bulk.left)
        /\ UNCHANGED <<bulk.all, bulk.changed, bulk.touched, bulk.to, bulk.ok>>
    BY <1>1, <1>5, <2>1 DEF Bulk
  <2>3. k \in Nat /\ Len(bulk'.left) = Len(bulk.left) - 1 /\ Len(bulk'.left) <= Len(bulk'.all)
    BY <1>1, <1>2, <2>1, <2>2 DEF Checking
  <2>4. bulk.left[1] = bulk.all[k + 1]
    <3>1. 1 + Len(bulk.all) - Len(bulk.left) = k + 1 /\ 1 \in 1..Len(bulk.left)
      BY <1>2, <2>1
    <3>. QED
      BY <1>1, <3>1 DEF Checking
  <2>5. \A n \in 1..(k + 1) : Agreed(bulk.all[n])
    <3>1. Agreed(bulk.all[k + 1])
      BY <1>5, <2>1, <2>4 DEF Agreed
    <3>2. \A n \in 1..k : Agreed(bulk.all[n])
      BY <1>1 DEF Checking
    <3>. HIDE DEF k
    <3>. QED
      BY <2>3, <3>1, <3>2
  <2>6. ASSUME NEW n \in 1..Len(bulk'.left)
        PROVE  bulk'.left[n] = bulk'.all[n + Len(bulk'.all) - Len(bulk'.left)]
    <3>1. n + 1 \in 1..Len(bulk.left) /\ n \in Nat
      BY <2>1, <2>3
    <3>2. bulk.left[n + 1] = bulk.all[n + 1 + Len(bulk.all) - Len(bulk.left)]
      BY <1>1, <3>1 DEF Checking
    <3>3. n + 1 + Len(bulk.all) - Len(bulk.left) = n + Len(bulk'.all) - Len(bulk'.left)
      <4>1. Len(bulk'.all) = Len(bulk.all)
        BY <2>2
      <4>2. ASSUME NEW a \in Nat, NEW l \in Nat, NEW i \in Nat
            PROVE  i + 1 + a - l = i + a - (l - 1)
        OBVIOUS
      <4>3. n + 1 + Len(bulk.all) - Len(bulk.left) = n + Len(bulk.all) - (Len(bulk.left) - 1)
        BY <1>2, <3>1, <4>2
      <4>. QED
        BY <2>3, <4>1, <4>3, Zenon
    <3>. QED
      BY <2>1, <2>2, <3>2, <3>3
  <2>7. \A n \in 1..(Len(bulk'.all) - Len(bulk'.left)) : Agreed(bulk.all[n])'
    <3>1. Len(bulk'.all) - Len(bulk'.left) = k + 1
      <4>1. Len(bulk'.all) = Len(bulk.all)
        BY <2>2
      <4>. QED
        BY <1>2, <2>3, <4>1
    <3>. QED
      BY <1>3, <2>2, <2>5, <3>1 DEF Agreed
  <2>8. Checking'
    BY <1>1, <2>2, <2>3, <2>6, <2>7 DEF Checking
  <2>9. BulkRuns'
    BY <1>1, <1>2, <2>1, <2>2, <2>8 DEF BulkRuns
  <2>. QED
    BY <2>2, <2>9 DEF BulkInv
<1>6. CASE bulk.left # <<>> /\ Fail
  <2>1. /\ bulk' \in Bulk /\ bulk'.at = "done" /\ bulk'.ok = FALSE
        /\ UNCHANGED <<bulk.all, bulk.left, bulk.changed>>
    BY <1>1, <1>6 DEF Fail, Bulk
  <2>2. bulk'.changed = {}
    BY <1>1, <2>1 DEF Checking
  <2>3. BulkRuns'
    BY <1>2, <1>6, <2>1, <2>2 DEF BulkRuns, Ahead, Stopped
  <2>. QED
    BY <2>1, <2>3 DEF BulkInv
<1>. QED
  BY <1>4, <1>5, <1>6 DEF CheckStory

\* A bulk change that stops at a story it has a reason to stop at.
LEMMA FailKeeps ==
  ASSUME bulk \in Bulk, BulkRuns, Fail, story' = story,
         bulk.left # <<>>, Explained(Head(bulk.left)), Ahead,
         Head(bulk.left) \notin bulk.changed
  PROVE  BulkInv'
<1>1. /\ bulk' \in Bulk /\ bulk'.at = "done" /\ bulk'.ok = FALSE
      /\ UNCHANGED <<bulk.all, bulk.left, bulk.changed, bulk.touched>>
  BY DEF Fail, Bulk
<1>2. Explained(Head(bulk.left))'
  BY <1>1 DEF Explained
<1>3. BulkRuns'
  BY <1>1, <1>2 DEF BulkRuns, Ahead, Stopped
<1>. QED
  BY <1>1, <1>3 DEF BulkInv

\* A call that fails: what is still to be updated has not been changed.
LEMMA CallFailsKeeps ==
  ASSUME BulkInv, CallFails
  PROVE  BulkInv'
<1>1. bulk \in Bulk /\ BulkRuns /\ bulk.at \in {"check", "update", "wait"} /\ bulk.left # <<>>
  BY BulkIdle DEF CallFails
<1>2. /\ bulk' \in Bulk /\ bulk'.at = "done" /\ bulk'.ok = FALSE /\ bulk'.broke = TRUE
      /\ UNCHANGED <<bulk.all, bulk.left, bulk.changed>>
  BY <1>1 DEF CallFails, Bulk
<1>3. bulk.left \in Seq(Stories) /\ \A n \in 2..Len(bulk.left) : n \in 1..Len(bulk.left)
  BY <1>1, BulkData
<1>4. Ahead
  BY <1>1, <1>3 DEF BulkRuns, Checking, Pending, Ahead
<1>5. BulkRuns'
  BY <1>1, <1>2, <1>4 DEF BulkRuns, Ahead
<1>. QED
  BY <1>2, <1>5 DEF BulkInv

\* The update of the next story starts, unless that story was changed since it
\* was checked.
LEMMA UpdateNextStoryKeeps ==
  ASSUME BulkIInv, UpdateNextStory
  PROVE  BulkInv'
<1>. DEFINE s == Head(bulk.left)
            e == StatusEdit(bulk.to)
            row == story[s]
<1>1. bulk \in Bulk /\ BulkRuns /\ bulk.at = "update" /\ bulk.left # <<>>
  BY BulkIdle DEF UpdateNextStory, BulkIInv
<1>2. /\ s \in Stories /\ s = bulk.left[1] /\ Len(bulk.left) \in Nat \ {0} /\ e \in Edit
      /\ bulk.by \in Requests
  BY <1>1, BulkData, ListParts
<1>3. Agreed(s) /\ s \notin bulk.changed
  BY <1>1, <1>2 DEF BulkRuns, Pending
<1>4. /\ e.status = bulk.to /\ e.icebox = Absent
      /\ ~IceboxRefused(e.icebox, row, Or(e.status, row.status))
  BY AbsentIsNoValue DEF StatusEdit, IceboxRefused
<1>5. CASE ~UpdateAccepted(row, e)
  <2>1. Explained(s)
    BY <1>3, <1>4, <1>5 DEF UpdateAccepted, Agreed, Explained
  <2>2. Fail /\ story' = story
    BY <1>5 DEF UpdateNextStory, vars
  <2>3. Ahead
    <3>1. \A n \in 2..Len(bulk.left) : n \in 1..Len(bulk.left)
      BY <1>2
    <3>. QED
      BY <1>1, <3>1 DEF BulkRuns, Pending, Ahead
  <2>. QED
    BY <1>1, <1>3, <2>1, <2>2, <2>3, FailKeeps
<1>6. CASE UpdateAccepted(row, e)
  <2>1. /\ UpdateStory(bulk.by, s, e) /\ bulk' = [bulk EXCEPT !.at = "wait"]
    BY <1>6 DEF UpdateNextStory
  <2>2. /\ bulk' \in Bulk /\ bulk'.at = "wait"
        /\ UNCHANGED <<bulk.by, bulk.to, bulk.all, bulk.left, bulk.changed, bulk.touched,
                       bulk.ok>>
    BY <1>1, <2>1 DEF Bulk
  <2>. DEFINE edit == [e EXCEPT !.icebox =
                         ResolveStoryIsIcebox(e.icebox, row, Or(e.status, row.status))]
              q == [at |-> "row", story |-> s, edit |-> edit, expected |-> ExpectedStatus(row, e)]
  <2>3. request'[bulk.by] = q /\ story' = story
    BY <1>2, <2>1 DEF UpdateStory, BulkIInv, IInv, TypeOK
  <2>4. edit.icebox # TRUE
    BY <1>2, <1>4, AbsentIsNoValue DEF Edit, ResolveStoryIsIcebox
  <2>5. ExpectedStatus(row, e) \in {Absent, row.status}
    BY DEF ExpectedStatus
  <2>6. q.at = "row" /\ q.story = s /\ q.edit = edit /\ q.expected = ExpectedStatus(row, e)
    OBVIOUS
  <2>. HIDE DEF q, edit
  <2>7. SentOK(request[bulk.by], Head(bulk.left))'
    BY <1>3, <2>2, <2>3, <2>4, <2>5, <2>6 DEF SentOK
  <2>8. \A n \in 2..Len(bulk'.left) : Pending(bulk.left[n])'
    <3>1. \A n \in 1..Len(bulk.left) : Pending(bulk.left[n])
      BY <1>1 DEF BulkRuns
    <3>2. \A n \in 2..Len(bulk.left) : n \in 1..Len(bulk.left)
      BY <1>2
    <3>. QED
      BY <2>2, <2>3, <3>1, <3>2 DEF Agreed, Pending
  <2>9. BulkRuns'
    BY <1>1, <2>2, <2>7, <2>8 DEF BulkRuns
  <2>. QED
    BY <2>2, <2>9 DEF BulkInv
<1>. QED
  BY <1>5, <1>6

\* The update under way is refused only if its story is archived or was changed,
\* and writes no other story.
LEMMA UpdateStepKeeps ==
  ASSUME BulkIInv, UpdateStep
  PROVE  BulkInv'
<1>. DEFINE s == Head(bulk.left)
            r == bulk.by
            q == request[r]
            row == story[s]
<1>1. /\ bulk \in Bulk /\ BulkRuns /\ bulk.at = "wait" /\ bulk.left # <<>> /\ SentOK(q, s)
      /\ \A n \in 2..Len(bulk.left) : Pending(bulk.left[n])
  BY BulkIdle DEF UpdateStep, BulkIInv, BulkRuns
<1>2. /\ s \in Stories /\ r \in Requests /\ bulk.left \in Seq(Stories)
      /\ Len(bulk.left) \in Nat \ {0} /\ q \in Request
  BY <1>1, BulkData, ListParts DEF BulkIInv, IInv, TypeOK
<1>3. \A n \in 2..Len(bulk.left) : bulk.left[n] # s /\ bulk.left[n] \in Stories
  <2>1. \A n \in 2..Len(bulk.left) : bulk.left[n] # s
    BY <1>1, <1>2, ListParts DEF BulkRuns
  <2>2. \A n \in 2..Len(bulk.left) : n \in 1..Len(bulk.left)
    BY <1>2
  <2>. QED
    BY <1>2, <2>1, <2>2
<1>4. bulk' = [bulk EXCEPT !.changed = bulk.changed \cup Changed] /\ (ReadRow(r) \/ WriteStory(r))
  BY DEF UpdateStep
<1>5. /\ bulk' \in Bulk /\ bulk'.at = "wait"
      /\ UNCHANGED <<bulk.by, bulk.to, bulk.all, bulk.left, bulk.touched, bulk.ok>>
  BY <1>1, <1>4 DEF Bulk, Changed
<1>6. q.story = s /\ s \notin bulk.changed
  <2>1. q.at # "done"
    BY <1>4 DEF ReadRow, WriteStory
  <2>. QED
    BY <1>1, <2>1 DEF SentOK
<1>7. SentOK(request[bulk.by], Head(bulk.left))'
  <2>1. CASE ReadRow(r) /\ Answer(r, s, FALSE)
    <3>1. Explained(s)
      <4>1. q.at = "row"
        BY <2>1 DEF ReadRow
      <4>2. q.edit.icebox # TRUE /\ (s \in bulk.touched \/ q.expected \in {Absent, row.status})
        BY <1>1, <4>1 DEF SentOK
      <4>3. ~IceboxRefused(q.edit.icebox, row, Or(q.edit.status, row.status))
        BY <4>2 DEF IceboxRefused
      <4>4. \/ row.archivedAt # 0 \/ q.expected \notin {Absent, row.status}
        <5>1. ASSUME row.archivedAt = 0, q.expected \in {Absent, row.status}
              PROVE  FALSE
          <6>1. request' = [request EXCEPT ![r] =
                  [at |-> "write", story |-> s, seen |-> SeenOf(row),
                   set |-> ColumnsOf(row, q.edit)]]
            BY <1>6, <2>1, <4>3, <5>1 DEF ReadRow
          <6>2. request'[r].at = "write"
            BY <1>2, <6>1 DEF BulkIInv, IInv, TypeOK
          <6>3. request'[r].at = "done"
            BY <1>2, <2>1 DEF Answer, BulkIInv, IInv, TypeOK
          <6>. QED
            BY <6>2, <6>3
        <5>. QED
          BY <5>1
      <4>. QED
        BY <4>2, <4>4 DEF Explained
    <3>2. request'[r] = [at |-> "done", story |-> s, ok |-> FALSE] /\ story' = story
      BY <1>2, <2>1 DEF Answer, ReadRow, BulkIInv, IInv, TypeOK
    <3>3. /\ request'[r].at = "done" /\ request'[r].story = s
      BY <3>2
    <3>4. Explained(s)'
      BY <1>5, <3>1, <3>2 DEF Explained
    <3>5. s \notin bulk'.changed
      BY <1>4, <1>5, <1>6, <3>2 DEF Changed, Bulk
    <3>. QED
      BY <1>5, <3>3, <3>4, <3>5 DEF SentOK, Explained
  <2>2. CASE ReadRow(r) /\ ~Answer(r, s, FALSE)
    <3>1. /\ row.archivedAt = 0 /\ story' = story
          /\ request' = [request EXCEPT ![r] =
               [at |-> "write", story |-> s, seen |-> SeenOf(row), set |-> ColumnsOf(row, q.edit)]]
      BY <1>6, <2>2 DEF ReadRow
    <3>2. request'[r] = [at |-> "write", story |-> s, seen |-> SeenOf(row),
                         set |-> ColumnsOf(row, q.edit)]
      BY <1>2, <3>1 DEF BulkIInv, IInv, TypeOK
    <3>3. request'[r].at = "write" /\ request'[r].story = s /\ request'[r].seen = SeenOf(row)
      BY <3>2
    <3>4. StillAsSeen(row, request'[r].seen)
      BY <3>1, <3>3 DEF StillAsSeen
    <3>5. s \notin bulk'.changed
      BY <1>1, <1>4, <1>6, <3>1 DEF Changed, Bulk
    <3>. QED
      BY <1>5, <3>1, <3>3, <3>4, <3>5 DEF SentOK
  <2>3. CASE WriteStory(r)
    <3>1. q.at = "write" /\ (s \in bulk.touched \/ StillAsSeen(row, q.seen))
      BY <1>1, <2>3 DEF SentOK, WriteStory
    <3>2. PICK ok \in BOOLEAN : /\ Answer(r, s, ok) /\ ok = StillAsSeen(row, q.seen)
      BY <1>6, <2>3 DEF WriteStory, StillAsSeen
    <3>3. request'[r] = [at |-> "done", story |-> s, ok |-> ok]
      BY <1>2, <3>2 DEF Answer, BulkIInv, IInv, TypeOK
    <3>4. request'[r].at = "done" /\ request'[r].story = s /\ request'[r].ok = ok
      BY <3>3
    <3>5. ok \/ s \in bulk'.touched
      BY <1>5, <3>1, <3>2
    <3>6. s \in bulk'.changed => ok
      <4>1. ~ok => story' = story
        BY <1>6, <2>3, <3>2 DEF WriteStory
      <4>. QED
        BY <1>1, <1>4, <1>6, <4>1 DEF Changed, Bulk
    <3>. QED
      BY <1>5, <3>4, <3>5, <3>6 DEF SentOK, Explained
  <2>. QED
    BY <1>4, <2>1, <2>2, <2>3
<1>8. \A n \in 2..Len(bulk'.left) : Pending(bulk.left[n])'
  <2>1. \A t \in Stories : t # s => story'[t] = story[t]
    BY <1>2, <1>4, <1>6 DEF ReadRow, WriteStory, BulkIInv, IInv, TypeOK
  <2>2. ASSUME NEW n \in 2..Len(bulk.left)
        PROVE  Pending(bulk.left[n])'
    <3>1. Pending(bulk.left[n]) /\ story'[bulk.left[n]] = story[bulk.left[n]]
      BY <1>1, <1>3, <2>1
    <3>2. bulk.left[n] \notin bulk'.changed
      BY <1>1, <1>4, <3>1 DEF Changed, Bulk, Pending
    <3>. QED
      BY <1>5, <3>1, <3>2 DEF Agreed, Pending
  <2>. QED
    BY <1>5, <2>2
<1>9. BulkRuns'
  BY <1>1, <1>5, <1>7, <1>8 DEF BulkRuns
<1>. QED
  BY <1>5, <1>9 DEF BulkInv

LEMMA StoryUpdatedKeeps ==
  ASSUME BulkIInv, StoryUpdated
  PROVE  BulkInv'
<1>. DEFINE answer == request[bulk.by]
<1>1. /\ bulk \in Bulk /\ BulkRuns /\ bulk.at = "wait" /\ bulk.left # <<>>
      /\ SentOK(answer, Head(bulk.left))
      /\ \A n \in 2..Len(bulk.left) : Pending(bulk.left[n])
  BY BulkIdle DEF StoryUpdated, BulkIInv, BulkRuns
<1>2. story' = story /\ answer.at = "done"
  BY DEF StoryUpdated, EndRequest
<1>3. CASE ~answer.ok
  BY <1>1, <1>2, <1>3, FailKeeps DEF StoryUpdated, SentOK, Pending, Ahead
<1>4. CASE answer.ok
  <2>1. bulk' = [bulk EXCEPT !.at = "update", !.left = Tail(bulk.left)]
    BY <1>4 DEF StoryUpdated
  <2>2. /\ bulk.left \in Seq(Stories) /\ Len(bulk.left) \in Nat \ {0}
        /\ Tail(bulk.left) \in Seq(Stories) /\ Len(Tail(bulk.left)) = Len(bulk.left) - 1
        /\ \A n \in 1..Len(Tail(bulk.left)) : Tail(bulk.left)[n] = bulk.left[n + 1]
        /\ Distinct(Tail(bulk.left))
    BY <1>1, BulkData, ListParts DEF BulkRuns
  <2>3. /\ bulk' \in Bulk /\ bulk'.at = "update" /\ bulk'.left = Tail(bulk.left)
        /\ UNCHANGED <<bulk.all, bulk.to, bulk.changed, bulk.touched, bulk.ok>>
    BY <1>1, <2>1, <2>2 DEF Bulk
  <2>4. ASSUME NEW n \in 1..Len(Tail(bulk.left))
        PROVE  Pending(bulk.left[n])'
    <3>1. n + 1 \in 2..Len(bulk.left)
      BY <2>2
    <3>2. Pending(bulk.left[n + 1]) /\ bulk'.left[n] = bulk.left[n + 1]
      BY <1>1, <2>2, <2>3, <3>1
    <3>. QED
      BY <1>2, <2>3, <3>2 DEF Agreed, Pending
  <2>5. BulkRuns'
    BY <1>1, <2>2, <2>3, <2>4 DEF BulkRuns
  <2>. QED
    BY <2>3, <2>5 DEF BulkInv
<1>. QED
  BY <1>3, <1>4

\* Steps of others: what they change is touched.
LEMMA BesideKeeps ==
  ASSUME BulkIInv, story' \in [Stories -> Row],
         bulk' = IF bulk = Idle THEN bulk ELSE [bulk EXCEPT !.touched = @ \cup Changed],
         bulk # Idle => request'[bulk.by] = request[bulk.by]
  PROVE  BulkInv'
<1>1. CASE bulk = Idle
  BY <1>1 DEF BulkInv
<1>2. CASE bulk # Idle
  <2>1. bulk \in Bulk /\ BulkRuns
    BY <1>2 DEF BulkIInv, BulkInv
  <2>2. /\ bulk.all \in Seq(Stories) /\ bulk.left \in Seq(Stories)
        /\ Len(bulk.all) \in Nat /\ Len(bulk.left) \in Nat
    BY <2>1, BulkData
  <2>3. /\ bulk' \in Bulk /\ bulk'.touched = bulk.touched \cup Changed
        /\ UNCHANGED <<bulk.at, bulk.by, bulk.to, bulk.all, bulk.left, bulk.changed, bulk.ok,
                       bulk.broke>>
    BY <1>2, <2>1 DEF Bulk, Changed
  <2>4. ASSUME NEW t \in Stories
        PROVE  /\ Agreed(t) => Agreed(t)'
               /\ Explained(t) => Explained(t)'
               /\ t \in bulk'.touched \/ (t \notin bulk.touched /\ story'[t] = story[t])
    BY <2>3 DEF Agreed, Explained, Changed
  <2>5. Checking => Checking'
    <3>1. ASSUME NEW n \in 1..(Len(bulk.all) - Len(bulk.left))
          PROVE  bulk.all[n] \in Stories
      <4>1. ASSUME NEW a \in Nat, NEW l \in Nat, NEW i \in 1..(a - l)
            PROVE  i \in 1..a
        OBVIOUS
      <4>2. n \in 1..Len(bulk.all)
        BY <2>2, <4>1
      <4>. QED
        BY <2>2, <4>2
    <3>2. ASSUME Checking
          PROVE  \A n \in 1..(Len(bulk'.all) - Len(bulk'.left)) : Agreed(bulk.all[n])'
      <4>1. \A n \in 1..(Len(bulk.all) - Len(bulk.left)) : Agreed(bulk.all[n])
        BY <3>2 DEF Checking
      <4>2. \A n \in 1..(Len(bulk.all) - Len(bulk.left)) : bulk.all[n] \in Stories
        BY <3>1
      <4>3. \A n \in 1..(Len(bulk.all) - Len(bulk.left)) : Agreed(bulk.all[n])'
        BY <2>3, <2>4, <4>1, <4>2 DEF Agreed
      <4>. QED
        BY <2>3, <4>3
    <3>. QED
      BY <2>3, <3>2 DEF Checking
  <2>6. ASSUME NEW n \in 1..Len(bulk.left), Pending(bulk.left[n])
        PROVE  Pending(bulk.left[n])'
    <3>1. PICK t \in Stories : t = bulk.left[n]
      BY <2>2
    <3>2. Agreed(t)' /\ t \notin bulk'.changed
      BY <2>3, <2>4, <2>6, <3>1 DEF Pending
    <3>. QED
      BY <2>3, <3>1, <3>2 DEF Agreed, Pending
  <2>7. ASSUME bulk.left # <<>>
        PROVE  /\ Explained(Head(bulk.left)) => Explained(Head(bulk.left))'
               /\ bulk.at = "wait" /\ SentOK(request[bulk.by], Head(bulk.left))
                    => SentOK(request[bulk.by], Head(bulk.left))'
    <3>1. Head(bulk.left) \in Stories
      BY <2>2, <2>7, ListParts
    <3>2. Explained(Head(bulk.left)) => Explained(Head(bulk.left))'
      BY <2>3, <2>4, <3>1 DEF Explained
    <3>3. request'[bulk'.by] = request[bulk.by]
      BY <1>2, <2>3
    <3>. QED
      BY <2>3, <2>4, <3>1, <3>2, <3>3 DEF SentOK
  <2>8. \A n \in 2..Len(bulk.left) : n \in 1..Len(bulk.left)
    BY <2>2
  <2>9. BulkRuns'
    BY <2>1, <2>3, <2>5, <2>6, <2>7, <2>8 DEF BulkRuns, Ahead, Stopped
  <2>. QED
    BY <2>3, <2>9 DEF BulkInv
<1>. QED
  BY <1>1, <1>2

-----------------------------------------------------------------------------
(***************************************************************************)
(* What holds in every behaviour of a bulk change.                         *)
(***************************************************************************)

\* A bulk change asks for nothing that a request may not ask for.
LEMMA BulkIsWork ==
  ASSUME BulkIInv, [BulkNext]_bulkVars
  PROVE  \/ [Next]_vars
         \/ \E r \in Requests, s \in Stories, e \in Edit : UpdateStory(r, s, e)
<1>1. ASSUME UpdateNextStory
      PROVE  \/ UNCHANGED vars
             \/ \E r \in Requests, s \in Stories, e \in Edit : UpdateStory(r, s, e)
  <2>1. bulk \in Bulk /\ bulk.left # <<>>
    BY <1>1, BulkIdle DEF UpdateNextStory, BulkIInv
  <2>2. bulk.by \in Requests /\ Head(bulk.left) \in Stories /\ StatusEdit(bulk.to) \in Edit
    BY <2>1, BulkData, ListParts
  <2>. QED
    BY <1>1, <2>2 DEF UpdateNextStory
<1>2. ASSUME UpdateStep \/ StoryUpdated \/ CallFails
      PROVE  Next \/ UNCHANGED vars
  <2>1. bulk \in Bulk
    BY <1>2, BulkIdle DEF UpdateStep, StoryUpdated, CallFails, BulkIInv
  <2>2. bulk.by \in Requests
    BY <2>1, BulkData
  <2>. QED
    BY <1>2, <2>2 DEF UpdateStep, StoryUpdated, CallFails, Next, RequestStep
<1>3. OtherStep => Next
  BY DEF OtherStep, Beside, Next
<1>4. UNCHANGED bulkVars \/ CheckStory \/ EndBulk => UNCHANGED vars
  BY DEF bulkVars, CheckStory, EndBulk
<1>5. ASSUME NEW r \in Requests, NEW list \in Lists, NEW to \in BulkTo, StartBulk(r, list, to)
      PROVE  UNCHANGED vars
  BY <1>5 DEF StartBulk
<1>. QED
  BY <1>1, <1>2, <1>3, <1>4, <1>5 DEF BulkNext, BulkStep

LEMMA BulkStoriesKeep ==
  ASSUME BulkIInv, [BulkNext]_bulkVars
  PROVE  IInv'
BY BulkIsWork, StepKeeps, UpdateStoryKeeps DEF BulkIInv

LEMMA OtherStepKeeps ==
  ASSUME BulkIInv, OtherStep
  PROVE  BulkInv'
<1>1. story' \in [Stories -> Row]
  BY BulkStoriesKeep DEF BulkNext, IInv, TypeOK
<1>2. bulk' = IF bulk = Idle THEN bulk ELSE [bulk EXCEPT !.touched = @ \cup Changed]
  BY DEF OtherStep, Beside
<1>3. ASSUME bulk # Idle
      PROVE  request'[bulk.by] = request[bulk.by]
  <2>1. ASSUME NEW r \in Requests, bulk.by # r, RequestStep(r)
        PROVE  request'[bulk.by] = request[bulk.by]
    <3>1. PICK q : request' = [request EXCEPT ![r] = q]
      BY <2>1 DEF RequestStep, UpdateStory, ReadRow, WriteStory, SetStoryArchived, SetArchived,
                  EndRequest, Answer
    <3>2. bulk.by \in Requests
      BY <1>3, BulkData DEF BulkIInv, BulkInv
    <3>. QED
      BY <2>1, <3>1, <3>2 DEF BulkIInv, IInv, TypeOK
  <2>2. (\E s \in Stories, i \in AssignTo : AssignStory(s, i)) => UNCHANGED request
    BY DEF AssignStory
  <2>3. CronStep \/ NextWindow => UNCHANGED request
    BY DEF CronStep, StartCron, EnsureCurrentIteration, ListIterations, ReassignStories,
           CronFails, NextWindow
  <2>. QED
    BY <1>3, <2>1, <2>2, <2>3 DEF OtherStep, Beside
<1>. QED
  BY <1>1, <1>2, <1>3, BesideKeeps

LEMMA BulkInitKeeps == BulkInit => BulkIInv
BY InitKeeps DEF BulkInit, BulkIInv, BulkInv

LEMMA BulkStepKeeps == BulkIInv /\ [BulkNext]_bulkVars => BulkIInv'
<1>. SUFFICES ASSUME BulkIInv, [BulkNext]_bulkVars
              PROVE  BulkInv'
  BY BulkStoriesKeep DEF BulkIInv
<1>1. CASE UNCHANGED bulkVars
  BY <1>1 DEF bulkVars, vars, BulkIInv, BulkInv, BulkRuns, Checking, SentOK, Agreed, Explained,
               Pending, Ahead, Stopped
<1>2. CASE EndBulk
  BY <1>2 DEF EndBulk, BulkInv
<1>3. CASE \E r \in Requests, list \in Lists, to \in BulkTo : StartBulk(r, list, to)
  BY <1>3, StartBulkKeeps
<1>. QED
  BY <1>1, <1>2, <1>3, CheckStoryKeeps, UpdateNextStoryKeeps, UpdateStepKeeps,
     StoryUpdatedKeeps, CallFailsKeeps, OtherStepKeeps DEF BulkNext, BulkStep, BulkIInv

\* BulkIInv is an invariant.
THEOREM BulkInvariance == BulkSpec => []BulkIInv
BY BulkInitKeeps, BulkStepKeeps, PTL DEF BulkSpec

\* A bulk change that fails after it has changed stories met a failing call, or
\* stopped at a story that is archived or that somebody else changed; what comes
\* after that story is as it was, for lists of any length.
THEOREM BulkStopsOnlyForAReason == BulkSpec => []BulkStopsForAReason
<1>1. BulkIInv => BulkStopsForAReason
  BY DEF BulkIInv, BulkInv, BulkRuns, Ahead, Stopped, Explained, Bulk, BulkStopsForAReason
<1>. QED
  BY <1>1, BulkInvariance, PTL

\* The rules of the stories hold beside a bulk change.
THEOREM BulkKeepsTheRules ==
  BulkSpec => [](IceboxInvariant /\ CompletedWhileAccepted /\ ArchiveTrailIsTrue)
<1>1. BulkIInv => IceboxInvariant /\ CompletedWhileAccepted /\ ArchiveTrailIsTrue
  BY DEF BulkIInv, IInv
<1>. QED
  BY <1>1, BulkInvariance, PTL

LEMMA BulkStepRefines ==
  BulkIInv /\ [BulkNext]_bulkVars => [Workflow!Next]_(Workflow!workflowVars)
<1>. SUFFICES ASSUME BulkIInv, [BulkNext]_bulkVars
              PROVE  [Workflow!Next]_(Workflow!workflowVars)
  OBVIOUS
<1>1. CASE [Next]_vars
  BY <1>1, StepRefines DEF BulkIInv
<1>2. CASE \E r \in Requests, s \in Stories, e \in Edit : UpdateStory(r, s, e)
  <2>1. story' = story
    BY <1>2 DEF UpdateStory
  <2>. QED
    BY <2>1 DEF Workflow!workflowVars
<1>. QED
  BY <1>1, <1>2, BulkIsWork

\* The updates of a bulk change follow the transition table like any other.
THEOREM BulkFollowsTheWorkflow == BulkSpec => ImplementsWorkflow
<1>1. BulkInit => Workflow!Init
  BY InitRefines DEF BulkInit
<1>. QED
  BY <1>1, BulkStepRefines, BulkInvariance, PTL
  DEF BulkSpec, ImplementsWorkflow, Workflow!Spec

\* Archived stories are read-only for a bulk change, too.
THEOREM BulkLeavesArchivesFrozen == BulkSpec => ArchivedAreReadOnly
<1>1. BulkIInv /\ [BulkNext]_bulkVars =>
        [\A s \in Stories :
           story[s].archivedAt # 0 /\ story'[s].archivedAt # 0 => story'[s] = story[s]]_vars
  <2>. SUFFICES ASSUME BulkIInv, [BulkNext]_bulkVars, NEW s \in Stories,
                       story[s].archivedAt # 0, story'[s].archivedAt # 0
                PROVE  story'[s] = story[s]
    OBVIOUS
  <2>. QED
    BY BulkIsWork, ArchivedStay DEF BulkIInv, UpdateStory
<1>. QED
  BY <1>1, BulkInvariance, PTL DEF BulkSpec, ArchivedAreReadOnly

=============================================================================
