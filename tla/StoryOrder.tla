------------------------------ MODULE StoryOrder ------------------------------
(***************************************************************************)
(* Creation, deletion and order of stories: createStoryForPanel over       *)
(* createStory, deleteStory and reorderStories over D1StoryRepository.     *)
(* Each makes several statements that no transaction holds together; a     *)
(* step is one of them, with the checks before it.  A story's id is a ULID *)
(* made at its insert, so ids ascend with time; `position` orders a panel, *)
(* and the id orders stories with equal positions.  Of the panels only the *)
(* Icebox has an order of its own to the code.                             *)
(***************************************************************************)
EXTENDS Naturals, FiniteSets

CONSTANTS
  MaxStories,   \* bound on the stories ever inserted
  MaxPosition,  \* bound on the positions
  Requests,     \* requests in flight at once
  Absent        \* no row

Ids == 1..MaxStories

Row ==
  [number : 1..MaxStories, position : 1..MaxPosition, icebox : BOOLEAN, archived : BOOLEAN]

ASSUME OrderAssumption ==
  /\ MaxStories \in Nat /\ MaxPosition \in Nat \ {0}
  /\ Absent \notin [number : Nat, position : Nat, icebox : BOOLEAN, archived : BOOLEAN]

VARIABLES
  row,       \* rows of stories
  inserted,  \* stories inserted so far
  request,   \* the requests in flight
  tangled    \* history: something happened that the order is not safe from

orderVars == <<row, inserted, request, tangled>>

Idle == [at |-> "idle"]

Panels == {"backlog", "icebox", "current"}

\* "shift", "insert", "record", "assign": a creation before it makes room,
\* inserts the row, records the activity, assigns the current iteration;
\* "find", "remove", "close": a deletion before it reads the position, before
\* its DELETE and before it closes the gap, `undo` when it is the rollback of a
\* creation; "move": a reorder before its batch; "done": a creation for the
\* current panel has been answered.
Request ==
  {Idle}
    \cup [at : {"shift", "insert"}, panel : Panels, number : 1..MaxStories]
    \cup [at : {"record"}, panel : Panels, id : Ids]
    \cup [at : {"assign"}, id : Ids]
    \cup [at : {"find"}, id : Ids, undo : BOOLEAN]
    \cup [at : {"remove", "close"}, id : Ids, position : 1..MaxPosition, undo : BOOLEAN]
    \cup [at : {"move"}, listed : SUBSET Ids,
          slots : UNION {[S -> 1..MaxPosition] : S \in SUBSET Ids}]
    \cup [at : {"done"}, id : Ids, ok : BOOLEAN]

Init ==
  /\ row = [i \in Ids |-> Absent]
  /\ inserted = 0
  /\ request = [r \in Requests |-> Idle]
  /\ tangled = FALSE

-----------------------------------------------------------------------------

Stories == {i \in Ids : row[i] # Absent}

InPanel(icebox) == {i \in Stories : row[i].icebox = icebox}

Creating(r) == request[r].at \in {"shift", "insert"}

Renumbering(r) == request[r].at \in {"remove", "close", "move"}

\* history: a request that reads positions while another one writes some.
MeetsCreation(r) == \E q \in Requests \ {r} : Creating(q)
MeetsRenumbering(r) == \E q \in Requests \ {r} : Renumbering(q)

\* history: a story that changes panel lands on a taken position, or between
\* the statements of a request that counts on the panel.
LandsBadly(i) ==
  \/ \E j \in InPanel(~row[i].icebox) : row[j].position = row[i].position
  \/ \E q \in Requests : Creating(q) \/ request[q].at = "move"

Tangle(b) == tangled' = (tangled \/ b)

Proceed(r, q) == request' = [request EXCEPT ![r] = q]

-----------------------------------------------------------------------------
(* POST stories.                                                           *)

\* coalesce(max(story_number), 0) + 1
NextNumber(n) ==
  /\ \A i \in Stories : row[i].number < n
  /\ n = 1 \/ \E i \in Stories : row[i].number = n - 1

ReadMaxNumber(r, panel) ==
  /\ request[r] = Idle
  /\ inserted < MaxStories
  /\ \E n \in 1..MaxStories :
       /\ NextNumber(n)
       /\ Proceed(r, [at |-> "shift", panel |-> panel, number |-> n])
  /\ Tangle(MeetsRenumbering(r))
  /\ UNCHANGED <<row, inserted>>

\* Fault: archived stories stay where they are.
MakesRoomFault(i, panel) == ~row[i].archived /\ (panel = "icebox" => row[i].icebox)

\* The Icebox moves down alone, everything moves down for another story.
MakesRoom(i, panel) == panel = "icebox" => row[i].icebox

ShiftPositions(r) ==
  LET moved == {i \in Stories : MakesRoom(i, request[r].panel)} IN
  /\ request[r].at = "shift"
  /\ \A i \in moved : row[i].position < MaxPosition
  /\ row' = [i \in Ids |-> IF i \in moved THEN [row[i] EXCEPT !.position = @ + 1] ELSE row[i]]
  /\ Proceed(r, [request[r] EXCEPT !.at = "insert"])
  /\ UNCHANGED <<inserted, tangled>>

\* Fault: no unique index on the number.
NumberIsFreeFault(n) == TRUE

NumberIsFree(n) == \A i \in Stories : row[i].number # n

\* The insert throws when another story got the number first.
InsertStory(r) ==
  LET q == request[r] IN
  /\ q.at = "insert"
  /\ NumberIsFree(q.number)
  /\ inserted < MaxStories
  /\ inserted' = inserted + 1
  /\ row' = [row EXCEPT ![inserted + 1] =
       [number |-> q.number, position |-> 1, icebox |-> q.panel = "icebox", archived |-> FALSE]]
  /\ Proceed(r, [at |-> "record", panel |-> q.panel, id |-> inserted + 1])
  /\ UNCHANGED tangled

\* The activity; its failure is an error that leaves the story (RequestFails).
RecordCreated(r) ==
  /\ request[r].at = "record"
  /\ Proceed(r, IF request[r].panel = "current"
                THEN [at |-> "assign", id |-> request[r].id] ELSE Idle)
  /\ UNCHANGED <<row, inserted, tangled>>

AssignStory(r) ==
  LET i == request[r].id IN
  /\ request[r].at = "assign"
  /\ i \in Stories /\ ~row[i].archived
  /\ row' = [row EXCEPT ![i].icebox = FALSE]
  /\ Proceed(r, [at |-> "done", id |-> i, ok |-> TRUE])
  /\ Tangle(row[i].icebox /\ LandsBadly(i))
  /\ UNCHANGED inserted

\* Fault: the story stays where a failed assignment left it.
AssignStoryFailsFault(r) ==
  /\ request[r].at = "assign"
  /\ Proceed(r, [at |-> "done", id |-> request[r].id, ok |-> FALSE])
  /\ UNCHANGED <<row, inserted, tangled>>

\* The iteration or the story is gone, the story is archived, or D1 fails.
AssignStoryFails(r) ==
  /\ request[r].at = "assign"
  /\ Proceed(r, [at |-> "find", id |-> request[r].id, undo |-> TRUE])
  /\ UNCHANGED <<row, inserted, tangled>>

-----------------------------------------------------------------------------
(* DELETE stories/:number, and the rollback of a creation.                 *)

DeleteStory(r, i) ==
  /\ request[r] = Idle
  /\ i \in Stories /\ ~row[i].archived
  /\ Proceed(r, [at |-> "find", id |-> i, undo |-> FALSE])
  /\ UNCHANGED <<row, inserted, tangled>>

FindPosition(r) ==
  LET q == request[r] IN
  /\ q.at = "find"
  /\ q.id \in Stories
  /\ Proceed(r, [at |-> "remove", id |-> q.id, position |-> row[q.id].position, undo |-> q.undo])
  /\ Tangle(MeetsCreation(r) \/ MeetsRenumbering(r))
  /\ UNCHANGED <<row, inserted>>

RemoveRow(r) ==
  LET i == request[r].id IN
  /\ request[r].at = "remove"
  /\ row' = [row EXCEPT ![i] = Absent]
  /\ Proceed(r, [request[r] EXCEPT !.at = "close"])
  /\ Tangle(i \in Stories /\ \E j \in Stories \ {i} : row[j].position = row[i].position)
  /\ UNCHANGED inserted

MovesUp(i, position) == row[i].position > position

CloseGap(r) ==
  LET q == request[r] IN
  /\ q.at = "close"
  /\ row' = [i \in Ids |->
       IF i \in Stories /\ MovesUp(i, q.position) THEN [row[i] EXCEPT !.position = @ - 1]
       ELSE row[i]]
  /\ Proceed(r, IF q.undo THEN [at |-> "done", id |-> q.id, ok |-> FALSE] ELSE Idle)
  /\ UNCHANGED <<inserted, tangled>>

-----------------------------------------------------------------------------
(* PUT stories/reorder.                                                    *)

\* The positions of the listed stories, sorted and handed out in the order
\* the client lists them: the same positions, in some other order.
Permuted(slots, S) ==
  \A p \in 1..MaxPosition :
    Cardinality({i \in S : slots[i] = p}) = Cardinality({i \in S : row[i].position = p})

\* Archived stories are not among the stories that are read.
ReadOrder(r, S) ==
  /\ request[r] = Idle
  /\ S \subseteq Stories /\ \A i \in S : ~row[i].archived
  /\ \E slots \in [S -> {row[i].position : i \in S}] :
       LET moved == {i \in S : slots[i] # row[i].position} IN
       /\ Permuted(slots, S)
       /\ moved # {}
       /\ Proceed(r, [at |-> "move", listed |-> S, slots |-> [i \in moved |-> slots[i]]])
  /\ Tangle(\/ MeetsCreation(r) \/ MeetsRenumbering(r)
            \/ \E i, j \in S : row[i].icebox # row[j].icebox)
  /\ UNCHANGED <<row, inserted>>

\* Every statement of the batch asks that no listed story is archived; the
\* history of a moved story that is gone fails the batch (a foreign key).
MoveStories(r) ==
  LET q == request[r] IN
  /\ q.at = "move"
  /\ \A i \in q.listed \cap Stories : ~row[i].archived
  /\ DOMAIN q.slots \subseteq Stories
  /\ row' = [i \in Ids |-> IF i \in DOMAIN q.slots
                           THEN [row[i] EXCEPT !.position = q.slots[i]] ELSE row[i]]
  /\ Proceed(r, Idle)
  /\ UNCHANGED <<inserted, tangled>>

-----------------------------------------------------------------------------
(* The rest of the system.                                                 *)

\* StoryLifecycle moves stories in and out of the Icebox: by a status, an
\* assignment, the cron or the browser's PATCH.  The position goes with them.
ChangePanel(i) ==
  /\ i \in Stories /\ ~row[i].archived
  /\ row' = [row EXCEPT ![i].icebox = ~@]
  /\ Tangle(LandsBadly(i))
  /\ UNCHANGED <<inserted, request>>

\* history: a story that moves to the top does so between the statements of a
\* request that knows positions of before, or of a creation that has made room
\* there.
TopIsTaken ==
  \E q \in Requests :
    Renumbering(q) \/ (request[q].at = "insert" /\ request[q].panel # "icebox")

\* The PATCH of the CLI or of an API key that takes a story out of the Icebox
\* (moveToTopOnLeavingIcebox): one batch moves all the others down, those of
\* the Icebox and archived ones included, and puts this one at the top.
MoveToTop(i) ==
  /\ i \in Stories /\ ~row[i].archived /\ row[i].icebox
  /\ \A j \in Stories \ {i} : row[j].position < MaxPosition
  /\ row' = [j \in Ids |->
       IF j = i THEN [row[j] EXCEPT !.icebox = FALSE, !.position = 1]
       ELSE IF j \in Stories THEN [row[j] EXCEPT !.position = @ + 1]
       ELSE row[j]]
  /\ Tangle(TopIsTaken)
  /\ UNCHANGED <<inserted, request>>

SetArchived(i) ==
  /\ i \in Stories
  /\ row' = [row EXCEPT ![i].archived = ~@]
  /\ UNCHANGED <<inserted, request, tangled>>

\* The worker dies, a statement fails, or a guard is not met.
RequestFails(r) ==
  /\ request[r] # Idle
  /\ Proceed(r, Idle)
  /\ UNCHANGED <<row, inserted, tangled>>

RequestStep(r) ==
  \/ \E panel \in Panels : ReadMaxNumber(r, panel)
  \/ ShiftPositions(r) \/ InsertStory(r) \/ RecordCreated(r)
  \/ AssignStory(r) \/ AssignStoryFails(r)
  \/ \E i \in Ids : DeleteStory(r, i)
  \/ FindPosition(r) \/ RemoveRow(r) \/ CloseGap(r)
  \/ \E S \in SUBSET Ids : ReadOrder(r, S)
  \/ MoveStories(r)
  \/ RequestFails(r)

OrderNext ==
  \/ \E r \in Requests : RequestStep(r)
  \/ \E i \in Ids : ChangePanel(i) \/ MoveToTop(i) \/ SetArchived(i)

OrderSpec == Init /\ [][OrderNext]_orderVars

-----------------------------------------------------------------------------

\* Rows keep their types, and each request is at one of its statements.
TypeOK ==
  /\ row \in [Ids -> Row \cup {Absent}]
  /\ inserted \in 0..MaxStories
  /\ request \in [Requests -> Request]
  /\ tangled \in BOOLEAN

\* No two stories of a panel share a position, so that its order does not hang
\* on ids: however many creations overlap or die half way, since the one that
\* is late loses its number (d1-story-repository.ts:762), and whatever is moved
\* to the top.  What breaks it is `tangled`: a deletion or a reorder that
\* overlaps another request, a move between panels onto a taken position or to
\* a top that a creation has made room at, a reorder across panels; and, with
\* nothing else in flight, the deletion of a story that shares its position
\* with one of the other panel, which closes a gap that panel does not have.
PanelOrderIsStrict ==
  ~tangled =>
    \A icebox \in BOOLEAN : \A i, j \in InPanel(icebox) :
      row[i].position = row[j].position => i = j

Before(rows, i, j) ==
  \/ rows[i].position < rows[j].position
  \/ rows[i].position = rows[j].position /\ i < j

\* Nothing but a reorder changes the order of two stories that stay in a
\* panel: a creation, a move to the top, a deletion and their halves that
\* crashed do not, and what is archived keeps its place for the day it is
\* restored (d1-story-repository.ts:785, 1108, 1203).  Excepted is what
\* `tangled` names above, the deletion of a story with a shared position among
\* it: the gap it closes may swap two stories of the other panel.
OnlyReordersReorder ==
  [][\/ tangled'
     \/ \E r \in Requests : request[r].at = "move" /\ request'[r] = Idle
     \/ \A i, j \in Stories :
          /\ row'[i] # Absent /\ row'[j] # Absent
          /\ row[i].icebox = row[j].icebox
          /\ row'[i].icebox = row[i].icebox /\ row'[j].icebox = row[j].icebox
          => (Before(row, i, j) <=> Before(row', i, j))]_orderVars

\* A client that is told the story could not be put in the current iteration
\* finds no story (usecases/create-story-for-panel.ts:111).
RefusedCreationsLeaveNothing ==
  \A r \in Requests :
    request[r].at = "done" /\ ~request[r].ok => row[request[r].id] = Absent
=============================================================================
