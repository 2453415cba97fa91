----------------------------- MODULE StoryComments -----------------------------
(***************************************************************************)
(* The comments of one story, the notices they send, and the deletion of   *)
(* the story (createStoryComment, updateStoryComment, deleteStoryComment,  *)
(* deleteStory), call by call over D1.  The foreign key of the timeline    *)
(* sets story_id to NULL when the story goes, that of notifications        *)
(* cascades.                                                               *)
(***************************************************************************)

CONSTANTS
  Users,      \* members of the project
  Comments,   \* comment ids, one per call of the route
  Bodies,     \* texts of a comment
  Deletions,  \* activity ids, one per call of deleteStory
  Requests,   \* requests in flight at once
  NoRow       \* a comment without a row

ASSUME CommentsAssumption == NoRow \notin [by : Users, body : Bodies]

VARIABLES
  story,     \* "active", "archived" or "gone"
  owners,    \* the story's owners
  comment,   \* comment rows of story_timeline_entries
  notices,   \* notifications of comments: <<comment, recipient>>
  entries,   \* "deleted" entries of story_timeline_entries
  farewells, \* notifications of the deletion: <<activity, recipient>>
  request,   \* the requests in flight
  used,      \* ids that were given out
  said,      \* history: comments that were inserted
  late,      \* history: comments inserted after the sweep of a deletion in flight
  due        \* history: whom each deletion has to tell

vars == <<story, owners, comment, notices, entries, farewells, request, used, said, late, due>>

commentVars == <<comment, notices, said, late>>

deletionVars == <<entries, farewells, due>>

Idle == [at |-> "idle"]

\* "create", "insert": before repository.create looks at the story, before its batch.
\* "edit", "erase": before the guarded statement.  "clear": the calls of
\* Promise.all that have not ended, and whether one failed; "notify", "remove":
\* deleteStory before its notices, before the row goes.
Request ==
  {Idle}
    \cup [at : {"create", "insert"}, id : Comments, by : Users, body : Bodies, to : SUBSET Users]
    \cup [at : {"edit"}, id : Comments, body : Bodies]
    \cup [at : {"erase"}, id : Comments]
    \cup [at : {"clear", "notify", "remove"}, id : Deletions, by : Users, to : SUBSET Users,
          pending : SUBSET {"record", "sweep"}, failed : BOOLEAN]

Init ==
  /\ story = "active"
  /\ owners \in SUBSET Users
  /\ comment = [c \in Comments |-> NoRow]
  /\ notices = {} /\ entries = {} /\ farewells = {}
  /\ request = [r \in Requests |-> Idle]
  /\ used = {} /\ said = {} /\ late = {}
  /\ due = [d \in Deletions |-> {}]

Proceed(r, q) == request' = [request EXCEPT ![r] = q]

Advance(r, at) == Proceed(r, [request[r] EXCEPT !.at = at])

InDeletion(q) == q.at \in {"clear", "notify", "remove"}

\* Deletions in flight whose sweep is over.
SweptOver == \E r \in Requests : InDeletion(request[r]) /\ "sweep" \notin request[r].pending

-----------------------------------------------------------------------------
(* Comments.                                                               *)

\* The route has read the story with its owners and the members.  The owners
\* and the members the text mentions are told, but not the author.
CreateStoryComment(r, c, u, b, mentioned) ==
  /\ request[r] = Idle
  /\ c \notin used /\ used' = used \cup {c}
  /\ story # "gone"
  /\ Proceed(r, [at |-> "create", id |-> c, by |-> u, body |-> b,
                 to |-> (owners \cup mentioned) \ {u}])
  /\ UNCHANGED <<story, owners, commentVars, deletionVars>>

ReadStory(r) ==
  /\ request[r].at = "create"
  /\ IF story = "active" THEN Advance(r, "insert") ELSE Proceed(r, Idle)
  /\ UNCHANGED <<story, owners, used, commentVars, deletionVars>>

\* One batch: the comment, if the story is still active, and its notifications,
\* if the comment is there.
InsertComment(r) ==
  LET q == request[r] IN
  /\ q.at = "insert"
  /\ IF story = "active"
     THEN /\ comment' = [comment EXCEPT ![q.id] = [by |-> q.by, body |-> q.body]]
          /\ notices' = notices \cup ({q.id} \X q.to)
          /\ said' = said \cup {q.id}
          /\ late' = IF SweptOver THEN late \cup {q.id} ELSE late
     ELSE UNCHANGED commentVars
  /\ Proceed(r, Idle)
  /\ UNCHANGED <<story, owners, used, deletionVars>>

\* Lookups join the story, so a comment without one is not found.
Found(c) == comment[c] # NoRow /\ story # "gone"

UpdateStoryComment(r, c, u, b) ==
  /\ request[r] = Idle
  /\ Found(c) /\ comment[c].by = u
  /\ Proceed(r, [at |-> "edit", id |-> c, body |-> b])
  /\ UNCHANGED <<story, owners, used, commentVars, deletionVars>>

\* Fault: archived stories are looked for by the checks alone.
EditCommentFault(r) ==
  LET q == request[r] IN
  /\ q.at = "edit"
  /\ IF Found(q.id) THEN comment' = [comment EXCEPT ![q.id].body = q.body]
     ELSE UNCHANGED comment
  /\ Proceed(r, Idle)
  /\ UNCHANGED <<story, owners, used, notices, said, late, deletionVars>>

EditComment(r) ==
  LET q == request[r] IN
  /\ q.at = "edit"
  /\ IF comment[q.id] # NoRow /\ story = "active"
     THEN comment' = [comment EXCEPT ![q.id].body = q.body]
     ELSE UNCHANGED comment
  /\ Proceed(r, Idle)
  /\ UNCHANGED <<story, owners, used, notices, said, late, deletionVars>>

DeleteStoryComment(r, c, u) ==
  /\ request[r] = Idle
  /\ Found(c) /\ comment[c].by = u
  /\ Proceed(r, [at |-> "erase", id |-> c])
  /\ UNCHANGED <<story, owners, used, commentVars, deletionVars>>

\* The notifications stay.
EraseComment(r) ==
  LET c == request[r].id IN
  /\ request[r].at = "erase"
  /\ comment' = IF story = "active" THEN [comment EXCEPT ![c] = NoRow] ELSE comment
  /\ Proceed(r, Idle)
  /\ UNCHANGED <<story, owners, used, notices, said, late, deletionVars>>

-----------------------------------------------------------------------------
(* The deletion of the story.                                              *)

DeleteStory(r, d, u) ==
  /\ request[r] = Idle
  /\ d \notin used /\ used' = used \cup {d}
  /\ story = "active"
  /\ Proceed(r, [at |-> "clear", id |-> d, by |-> u, to |-> owners \ {u},
                 pending |-> {"record", "sweep"}, failed |-> FALSE])
  /\ due' = [due EXCEPT ![d] = owners \ {u}]
  /\ UNCHANGED <<story, owners, commentVars, entries, farewells>>

Settle(r, call, failed) ==
  Proceed(r, [request[r] EXCEPT !.pending = @ \ {call}, !.failed = @ \/ failed])

\* The entry names the story, which must still be there (foreign key).
RecordDeleted(r) ==
  /\ request[r].at = "clear" /\ "record" \in request[r].pending
  /\ story # "gone"
  /\ entries' = entries \cup {request[r].id}
  /\ Settle(r, "record", FALSE)
  /\ UNCHANGED <<story, owners, used, commentVars, farewells, due>>

\* The rows named by their story id: nothing once the story is gone.
DeleteAllForStory(r) ==
  /\ request[r].at = "clear" /\ "sweep" \in request[r].pending
  /\ comment' = IF story = "gone" THEN comment ELSE [c \in Comments |-> NoRow]
  /\ Settle(r, "sweep", FALSE)
  /\ UNCHANGED <<story, owners, used, notices, said, late, deletionVars>>

CallFails(r) ==
  /\ request[r].at = "clear"
  /\ \E call \in request[r].pending : Settle(r, call, TRUE)
  /\ UNCHANGED <<story, owners, used, commentVars, deletionVars>>

\* Fault: only the result of the first call is looked at.
ClearedFault(r) ==
  LET q == request[r] IN
  /\ q.at = "clear" /\ q.pending = {}
  /\ IF q.id \in entries THEN Advance(r, "notify") ELSE Proceed(r, Idle)
  /\ UNCHANGED <<story, owners, used, commentVars, deletionVars>>

\* Promise.all has both results; either error ends the deletion.
Cleared(r) ==
  LET q == request[r] IN
  /\ q.at = "clear" /\ q.pending = {}
  /\ IF q.failed THEN Proceed(r, Idle) ELSE Advance(r, "notify")
  /\ UNCHANGED <<story, owners, used, commentVars, deletionVars>>

\* Fault: a failure to notify does not end the deletion.
NotifyOwnersFault(r) ==
  LET q == request[r] IN
  /\ q.at = "notify"
  /\ \/ farewells' = farewells \cup ({q.id} \X q.to)
     \/ UNCHANGED farewells
  /\ Advance(r, "remove")
  /\ UNCHANGED <<story, owners, used, commentVars, entries, due>>

\* These notifications name no story.
NotifyOwners(r) ==
  LET q == request[r] IN
  /\ q.at = "notify"
  /\ farewells' = farewells \cup ({q.id} \X q.to)
  /\ Advance(r, "remove")
  /\ UNCHANGED <<story, owners, used, commentVars, entries, due>>

\* D1StoryRepository.delete, which asks nothing of the story but to be there.
RemoveStory(r) ==
  /\ request[r].at = "remove"
  /\ story' = "gone"
  /\ notices' = {}
  /\ Proceed(r, Idle)
  /\ UNCHANGED <<owners, comment, said, late, used, deletionVars>>

-----------------------------------------------------------------------------
(* The rest of the system.                                                 *)

SetArchived ==
  /\ story # "gone"
  /\ story' = IF story = "active" THEN "archived" ELSE "active"
  /\ UNCHANGED <<owners, request, used, commentVars, deletionVars>>

\* An update of the story replaces its owners.
ReplaceOwners ==
  /\ story = "active"
  /\ owners' \in SUBSET Users
  /\ UNCHANGED <<story, request, used, commentVars, deletionVars>>

\* The worker dies, or the call fails and the error is returned.
RequestFails(r) ==
  /\ request[r] # Idle
  /\ Proceed(r, Idle)
  /\ UNCHANGED <<story, owners, used, commentVars, deletionVars>>

CommentStep(r) ==
  \/ \E c \in Comments, u \in Users, b \in Bodies, to \in SUBSET Users :
       CreateStoryComment(r, c, u, b, to)
  \/ \E c \in Comments, u \in Users :
       \/ DeleteStoryComment(r, c, u)
       \/ \E b \in Bodies : UpdateStoryComment(r, c, u, b)
  \/ ReadStory(r) \/ InsertComment(r) \/ EditComment(r) \/ EraseComment(r)

DeletionStep(r) ==
  \/ \E d \in Deletions, u \in Users : DeleteStory(r, d, u)
  \/ RecordDeleted(r) \/ DeleteAllForStory(r) \/ CallFails(r) \/ Cleared(r)
  \/ NotifyOwners(r) \/ RemoveStory(r)

Next ==
  \/ \E r \in Requests : CommentStep(r) \/ DeletionStep(r) \/ RequestFails(r)
  \/ SetArchived \/ ReplaceOwners

Spec == Init /\ [][Next]_vars

-----------------------------------------------------------------------------

\* Rows have an author and a text, notices have a recipient, and a request is
\* at one of its calls.
TypeOK ==
  /\ story \in {"active", "archived", "gone"}
  /\ owners \subseteq Users
  /\ comment \in [Comments -> [by : Users, body : Bodies] \cup {NoRow}]
  /\ notices \subseteq Comments \X Users
  /\ entries \subseteq Deletions /\ farewells \subseteq Deletions \X Users
  /\ request \in [Requests -> Request]
  /\ used \subseteq Comments \cup Deletions
  /\ said \subseteq Comments /\ late \subseteq Comments
  /\ due \in [Deletions -> SUBSET Users]

\* No comment remains of a story that was deleted (delete-story.ts:74 and
\* docs/story-delete-and-timeline-entries.md), but for one inserted after the
\* sweep and before the row went: the sweep and the row are two calls.
NoCommentOutlivesItsStory ==
  story = "gone" => \A c \in Comments : comment[c] # NoRow => c \in late

\* The comments of an archived story are read-only: a request that looked at the
\* story before it was archived changes none of them afterwards
\* (d1-story-comment-repository.ts:182, 301, 338).  Only a deletion that began
\* before does.
ArchivedCommentsAreKept ==
  [][story = "archived" /\ comment' # comment =>
       \E r \in Requests : request[r].at = "clear"]_vars

\* Nobody is told of a comment that was refused because its story was archived
\* or deleted after the check (d1-story-comment-repository.ts:199).
NoticesAreOfComments == \A n \in notices : n[1] \in said

\* A story that is gone leaves a "deleted" entry, and with it a notice for
\* everybody who owned the story when that deletion began but its actor, whatever
\* calls failed and however two deletions crossed (delete-story.ts:60, 85).
DeletionsAreTold ==
  story = "gone" => \E d \in entries : {d} \X due[d] \subseteq farewells
=============================================================================
