------------------------------ MODULE StoryParts ------------------------------
(***************************************************************************)
(* What hangs on the rows of stories and goes with them: blockers          *)
(* (addStoryBlocker, removeStoryBlocker) and attachments                   *)
(* (uploadStoryAttachment, deleteStoryAttachment), whose contents are      *)
(* objects in R2.  A step is one call to D1 or R2.  The foreign keys of    *)
(* both tables cascade when a story is deleted; R2 has none.               *)
(***************************************************************************)

CONSTANTS
  Stories,   \* ids of the stories of a project
  Files,     \* uploads, each with an object key of its own
  Requests,  \* requests in flight at once
  NoStory    \* the story of a file without a row

ASSUME PartsAssumption == NoStory \notin Stories

VARIABLES
  story,     \* "active", "archived" or "gone", by id
  blockers,  \* rows of story_blockers: <<blocking, blocked>>
  owner,     \* rows of story_attachments: the story of each file
  objects,   \* files whose object is in R2
  request,   \* the requests in flight
  used,      \* files an upload has begun for
  crossed,   \* history: a blocker was added under another addition's check
  removed,   \* history: files whose object a deletion or an undo took
  orphaned   \* history: files whose upload died, whose undo failed, whose story was deleted

vars == <<story, blockers, owner, objects, request, used, crossed, removed, orphaned>>

blockerVars == <<blockers, crossed>>

fileVars == <<owner, objects, used, removed, orphaned>>

Idle == [at |-> "idle"]

\* "list", "insert", "unlink": a blocker before the pairs are read, before it is
\* inserted, before it is removed.  "put", "create", "undo": an upload before
\* the object, before the row, before the object is deleted again.
\* "object", "row": a deletion before the object is deleted, before the row is.
Request ==
  {Idle}
    \cup [at : {"list", "insert", "unlink"}, blocking : Stories, blocked : Stories]
    \cup [at : {"put", "create", "undo", "object", "row"}, file : Files, of : Stories]

Init ==
  /\ story = [s \in Stories |-> "active"]
  /\ blockers = {}
  /\ owner = [f \in Files |-> NoStory]
  /\ objects = {}
  /\ request = [r \in Requests |-> Idle]
  /\ used = {}
  /\ crossed = FALSE
  /\ removed = {} /\ orphaned = {}

Proceed(r, q) == request' = [request EXCEPT ![r] = q]

Advance(r, at) == Proceed(r, [request[r] EXCEPT !.at = at])

-----------------------------------------------------------------------------
(* Blockers.                                                               *)

\* Fault: only the opposite blocker is looked for.
LeadsBackFault(pairs, blocking, blocked) == <<blocked, blocking>> \in pairs

\* The walk from the blocked story reaches the blocking one: no set of stories
\* that the pairs do not lead out of has the first and not the second.
LeadsBack(pairs, blocking, blocked) ==
  \A S \in SUBSET Stories :
    blocked \in S /\ (\A p \in pairs : p[1] \in S => p[2] \in S) => blocking \in S

AddStoryBlocker(r, blocking, blocked) ==
  /\ request[r] = Idle
  /\ blocking # blocked
  /\ story[blocking] = "active" /\ story[blocked] = "active"
  /\ Proceed(r, [at |-> "list", blocking |-> blocking, blocked |-> blocked])
  /\ UNCHANGED <<story, blockerVars, fileVars>>

ListBlockerPairs(r) ==
  LET q == request[r] IN
  /\ q.at = "list"
  /\ Proceed(r, IF LeadsBack(blockers, q.blocking, q.blocked) THEN Idle
                ELSE [q EXCEPT !.at = "insert"])
  /\ UNCHANGED <<story, blockerVars, fileVars>>

\* ON CONFLICT DO NOTHING; the foreign keys ask for both stories.
AddBlocker(r) ==
  LET q == request[r] IN
  /\ q.at = "insert"
  /\ story[q.blocking] # "gone" /\ story[q.blocked] # "gone"
  /\ blockers' = blockers \cup {<<q.blocking, q.blocked>>}
  /\ Proceed(r, Idle)
  /\ crossed' = (crossed \/ \E other \in Requests \ {r} : request[other].at = "insert")
  /\ UNCHANGED <<story, fileVars>>

RemoveStoryBlocker(r, blocking, blocked) ==
  /\ request[r] = Idle
  /\ blocking # blocked
  /\ story[blocking] # "archived" /\ story[blocked] # "archived"
  /\ Proceed(r, [at |-> "unlink", blocking |-> blocking, blocked |-> blocked])
  /\ UNCHANGED <<story, blockerVars, fileVars>>

RemoveBlocker(r) ==
  /\ request[r].at = "unlink"
  /\ blockers' = blockers \ {<<request[r].blocking, request[r].blocked>>}
  /\ Proceed(r, Idle)
  /\ UNCHANGED <<story, crossed, fileVars>>

-----------------------------------------------------------------------------
(* Attachments.                                                            *)

\* The route asks for a story that is not archived; the insert only asks that
\* there is a story.
UploadStoryAttachment(r, f, s) ==
  /\ request[r] = Idle
  /\ f \notin used /\ used' = used \cup {f}
  /\ story[s] = "active"
  /\ Proceed(r, [at |-> "put", file |-> f, of |-> s])
  /\ UNCHANGED <<story, blockerVars, owner, objects, removed, orphaned>>

PutObject(r) ==
  /\ request[r].at = "put"
  /\ objects' = objects \cup {request[r].file}
  /\ Advance(r, "create")
  /\ UNCHANGED <<story, blockerVars, owner, used, removed, orphaned>>

\* Fault: the error of the store is swallowed.
PutFailsFault(r) ==
  /\ request[r].at = "put"
  /\ Advance(r, "create")
  /\ UNCHANGED <<story, blockerVars, fileVars>>

PutFails(r) ==
  /\ request[r].at = "put"
  /\ Proceed(r, Idle)
  /\ UNCHANGED <<story, blockerVars, fileVars>>

CreateAttachment(r) ==
  LET q == request[r] IN
  /\ q.at = "create"
  /\ story[q.of] # "gone"
  /\ owner' = [owner EXCEPT ![q.file] = q.of]
  /\ Proceed(r, Idle)
  /\ UNCHANGED <<story, blockerVars, objects, used, removed, orphaned>>

\* Fault: only an error of the database undoes the upload, a missing story not.
CreateFailsFault(r) ==
  /\ request[r].at = "create"
  /\ IF story[request[r].of] = "gone" THEN Proceed(r, Idle) ELSE Advance(r, "undo")
  /\ UNCHANGED <<story, blockerVars, fileVars>>

\* The story is gone, or the database fails.
CreateFails(r) ==
  /\ request[r].at = "create"
  /\ Advance(r, "undo")
  /\ UNCHANGED <<story, blockerVars, fileVars>>

\* The row is inserted and the answer lost: the upload takes it for a failure.
CreateUnanswered(r) ==
  LET q == request[r] IN
  /\ q.at = "create"
  /\ story[q.of] # "gone"
  /\ owner' = [owner EXCEPT ![q.file] = q.of]
  /\ Advance(r, "undo")
  /\ UNCHANGED <<story, blockerVars, objects, used, removed, orphaned>>

\* A failure to delete is ignored.
UndoUpload(r) ==
  LET f == request[r].file IN
  /\ request[r].at = "undo"
  /\ \/ objects' = objects \ {f} /\ removed' = removed \cup {f} /\ UNCHANGED orphaned
     \/ orphaned' = orphaned \cup {f} /\ UNCHANGED <<objects, removed>>
  /\ Proceed(r, Idle)
  /\ UNCHANGED <<story, blockerVars, owner, used>>

DeleteStoryAttachment(r, f) ==
  /\ request[r] = Idle
  /\ owner[f] # NoStory /\ story[owner[f]] = "active"
  /\ Proceed(r, [at |-> "object", file |-> f, of |-> owner[f]])
  /\ UNCHANGED <<story, blockerVars, fileVars>>

DeleteObject(r) ==
  /\ request[r].at = "object"
  /\ objects' = objects \ {request[r].file}
  /\ removed' = removed \cup {request[r].file}
  /\ Advance(r, "row")
  /\ UNCHANGED <<story, blockerVars, owner, used, orphaned>>

DeleteAttachment(r) ==
  /\ request[r].at = "row"
  /\ owner' = [owner EXCEPT ![request[r].file] = NoStory]
  /\ Proceed(r, Idle)
  /\ UNCHANGED <<story, blockerVars, objects, used, removed, orphaned>>

-----------------------------------------------------------------------------
(* The rest of the system.                                                 *)

SetArchived(s) ==
  /\ story[s] # "gone"
  /\ story' = [story EXCEPT ![s] = IF @ = "active" THEN "archived" ELSE "active"]
  /\ UNCHANGED <<blockerVars, fileVars, request>>

WithoutStory(s) == {p \in blockers : p[1] # s /\ p[2] # s}

\* The DELETE of deleteStory, which a story archived since its check does not
\* stop, and its cascades.  Nothing deletes the objects.
DeleteStory(s) ==
  /\ story[s] # "gone"
  /\ story' = [story EXCEPT ![s] = "gone"]
  /\ blockers' = WithoutStory(s)
  /\ owner' = [f \in Files |-> IF owner[f] = s THEN NoStory ELSE owner[f]]
  /\ orphaned' = orphaned \cup {f \in Files : owner[f] = s}
  /\ UNCHANGED <<request, objects, used, crossed, removed>>

\* The worker dies, a call fails or a guard is not met.
RequestFails(r) ==
  LET q == request[r] IN
  /\ q # Idle
  /\ orphaned' = IF q.at \in {"create", "undo"} THEN orphaned \cup {q.file} ELSE orphaned
  /\ Proceed(r, Idle)
  /\ UNCHANGED <<story, blockerVars, owner, objects, used, removed>>

RequestStep(r) ==
  \/ \E a, b \in Stories : AddStoryBlocker(r, a, b) \/ RemoveStoryBlocker(r, a, b)
  \/ ListBlockerPairs(r) \/ AddBlocker(r) \/ RemoveBlocker(r)
  \/ \E f \in Files, s \in Stories : UploadStoryAttachment(r, f, s)
  \/ PutObject(r) \/ PutFails(r)
  \/ CreateAttachment(r) \/ CreateFails(r) \/ CreateUnanswered(r) \/ UndoUpload(r)
  \/ \E f \in Files : DeleteStoryAttachment(r, f)
  \/ DeleteObject(r) \/ DeleteAttachment(r)
  \/ RequestFails(r)

Next ==
  \/ \E r \in Requests : RequestStep(r)
  \/ \E s \in Stories : SetArchived(s) \/ DeleteStory(s)

Spec == Init /\ [][Next]_vars

-----------------------------------------------------------------------------

\* Rows of blockers and attachments belong to stories there are (ON DELETE CASCADE),
\* and a request is at one of its calls.
TypeOK ==
  /\ story \in [Stories -> {"active", "archived", "gone"}]
  /\ blockers \subseteq {s \in Stories : story[s] # "gone"} \X {s \in Stories : story[s] # "gone"}
  /\ owner \in [Files -> Stories \cup {NoStory}]
  /\ objects \subseteq used /\ used \subseteq Files
  /\ request \in [Requests -> Request]
  /\ crossed \in BOOLEAN
  /\ removed \subseteq Files /\ orphaned \subseteq Files

\* No story of S has only blocked stories outside of S.
Closed(S) == \A a \in S : \E b \in S : <<a, b>> \in blockers

\* No story blocks itself through others (add-story-blocker.ts:81), as long as
\* no blocker was inserted between another addition's check and its insert;
\* deletions, removals and additions that died do no harm.
NoCycles == ~crossed => \A S \in SUBSET Stories : Closed(S) => S = {}

\* An attachment that is listed can be downloaded, unless somebody began to
\* delete it, or its upload was undone because the answer to its insert was lost
\* (upload-story-attachment.ts:52, 75, delete-story-attachment.ts:52).
ListedFilesAreStored ==
  \A f \in Files : owner[f] # NoStory => f \in objects \cup removed

Uploading(f) ==
  \E r \in Requests : request[r].at \in {"create", "undo"} /\ request[r].file = f

\* R2 keeps an object no row names only when its upload died or could not be
\* undone, or when its story was deleted, whatever a deletion of the story does
\* between the statements of an upload (upload-story-attachment.ts:70).
StrayObjectsAreExplained ==
  \A f \in objects : owner[f] # NoStory \/ Uploading(f) \/ f \in orphaned
=============================================================================
