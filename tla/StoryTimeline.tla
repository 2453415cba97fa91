----------------------------- MODULE StoryTimeline -----------------------------
(***************************************************************************)
(* PATCH of a story (updateStory): a snapshot, the guarded batch of        *)
(* D1StoryRepository.update, a second read, and what is told of the        *)
(* difference: entries of the timeline, notices to the owners, and notices *)
(* to those whom the description mentions.  Nothing but the batch is a     *)
(* transaction.  The story may still be under creation: its row is there,  *)
(* its owners are not.  StoryLifecycle has the rules of the status itself. *)
(***************************************************************************)

CONSTANTS
  Users,    \* users who may be members
  Patches,  \* PATCH requests, each with the ulids it draws
  Requests, \* requests in flight at once
  Statuses, \* values of the status
  Texts,    \* values of the description
  Mentions, \* the users a description mentions
  Wishes,   \* lists of owners a PATCH may ask for
  Keep      \* the wish of a PATCH without ownerIds

ASSUME TimelineAssumption ==
  /\ Mentions \in [Texts -> SUBSET Users]
  /\ Wishes \subseteq SUBSET Users
  /\ \A W \in SUBSET Users : Keep # W

\* Two fields stand for six: the status, which the update guards as it guards the
\* Icebox flag and the iteration, and the description, which it does not.
Fields == {"status", "description"}

VARIABLES
  row,      \* the story's fields
  owners,   \* rows of story_owners
  inserting, \* owners its creation has checked and not inserted yet
  archived, \* the story is read-only
  members,  \* rows of project_members
  gone,     \* users whose account was deleted
  told,     \* "field_changed" entries of the timeline
  alerts,   \* story_activity notifications: <<patch, recipient>>
  mentioned, \* mention notifications: the patch, the text of the dedupe key, the recipient
  request,  \* the requests in flight
  used,     \* patches that were sent
  made,     \* history: what each patch changed
  mixed,    \* history: fields others changed between the two reads of a patch
  writer,   \* history: the patch that wrote the description, {} for none
  reached   \* history: by patch that sent its mentions, the other members it knew of

vars == <<row, owners, inserting, archived, members, gone, told, alerts, mentioned, request, used,
          made, mixed, writer, reached>>

storyVars == <<row, owners, inserting, archived, members, gone>>

newsVars == <<told, alerts, mentioned>>

historyVars == <<made, mixed, writer, reached>>

Row == [status : Statuses, description : Texts]

Change ==
  [patch : Patches, field : {"status"}, old : Statuses, new : Statuses]
    \cup [patch : Patches, field : {"description"}, old : Texts, new : Texts]

Idle == [at |-> "idle"]

\* The patch: "read" and "write", before the repository's read and its batch;
\* "reread", "record", "notify", "members", "mention" before the calls after it.
\* set: the fields it asks to change; seen: the status the batch expects.
\* Owners who have left the project stay owners; a story under creation has none.
Init ==
  /\ row \in Row
  /\ members \in SUBSET Users /\ gone = {}
  /\ inserting \in SUBSET members
  /\ owners \in IF inserting = {} THEN SUBSET Users ELSE {{}}
  /\ archived = FALSE
  /\ told = {} /\ alerts = {} /\ mentioned = {}
  /\ request = [r \in Requests |-> Idle]
  /\ used = {} /\ made = {}
  /\ mixed = [p \in Patches |-> {}]
  /\ writer = {}
  /\ reached = [p \in Patches |-> {}]

Proceed(r, q) == request' = [request EXCEPT ![r] = q]

Advance(r, at) == Proceed(r, [request[r] EXCEPT !.at = at])

\* New values for some of the fields.
Edits == {[f \in F |-> x[f]] : x \in Row, F \in SUBSET Fields}

Edited(old, set) == [f \in Fields |-> IF f \in DOMAIN set THEN set[f] ELSE old[f]]

Differing(p, before, after) ==
  {[patch |-> p, field |-> f, old |-> before[f], new |-> after[f]] :
     f \in {g \in Fields : before[g] # after[g]}}

-----------------------------------------------------------------------------
(* The update.                                                             *)

UpdateStory(r, p, u, set, wish) ==
  /\ request[r] = Idle
  /\ p \notin used /\ used' = used \cup {p}
  /\ DOMAIN set # {} \/ wish # Keep
  /\ Proceed(r, [at |-> "read", patch |-> p, by |-> u, set |-> set, wish |-> wish,
                 before |-> row])
  /\ UNCHANGED <<storyVars, newsVars, historyVars>>

\* The repository's own read: refused when the story is archived, has another
\* status than the snapshot while the PATCH asks for one, or is to get an owner
\* who is no member.
ReadRow(r) ==
  LET q == request[r] IN
  /\ q.at = "read"
  /\ IF /\ ~ archived
        /\ q.wish = Keep \/ q.wish \subseteq owners \cup members
        /\ "status" \in DOMAIN q.set => row["status"] = q.before["status"]
     THEN Proceed(r, [at |-> "write", patch |-> q.patch, by |-> q.by, set |-> q.set,
                      wish |-> q.wish, before |-> q.before, seen |-> row["status"]])
     ELSE Proceed(r, Idle)
  /\ UNCHANGED <<storyVars, newsVars, used, historyVars>>

StoryUnchanged(q) == ~ archived /\ row["status"] = q.seen

\* Fault: the statement adds whoever was asked for.
OwnersAfterFault(q) ==
  IF q.wish = Keep \/ ~ StoryUnchanged(q) THEN owners ELSE q.wish

\* The statements that remove and add owners, each under the guard that every
\* wanted owner is an owner or a member at that statement.
OwnersAfter(q) ==
  IF q.wish = Keep \/ ~ StoryUnchanged(q) THEN owners
  ELSE LET kept == IF q.wish \subseteq owners \cup members THEN owners \cap q.wish ELSE owners
       IN  IF q.wish \subseteq kept \cup members THEN kept \cup (q.wish \cap members) ELSE kept

\* Fault: the update does not ask whether the owners were replaced.
UpdatesRowFault(q) == StoryUnchanged(q)

\* The last statement: the row changes only if the owners before it did.
UpdatesRow(q) ==
  /\ StoryUnchanged(q)
  /\ q.wish = Keep \/ q.wish \subseteq OwnersAfter(q)

InWindow(r) == request[r].at \in {"read", "write", "reread"}

WriteStory(r) ==
  LET q == request[r]
      after == IF UpdatesRow(q) THEN Edited(row, q.set) ELSE row
      changed == Differing(q.patch, row, after)
  IN
  /\ q.at = "write"
  /\ row' = after
  /\ owners' = OwnersAfter(q)
  /\ IF UpdatesRow(q) THEN Advance(r, "reread") ELSE Proceed(r, Idle)
  /\ made' = made \cup changed
  /\ mixed' = [p \in Patches |->
                 IF \E o \in Requests \ {r} : InWindow(o) /\ request[o].patch = p
                 THEN mixed[p] \cup {c.field : c \in changed} ELSE mixed[p]]
  /\ writer' = IF UpdatesRow(q) /\ "description" \in DOMAIN q.set THEN {q.patch} ELSE writer
  /\ UNCHANGED <<inserting, archived, members, gone, newsVars, used, reached>>

\* Fault: every field that was asked for gets an entry, changed or not.
ReReadFault(r) ==
  LET q == request[r] IN
  /\ q.at = "reread"
  /\ Proceed(r, [at |-> "record", patch |-> q.patch, by |-> q.by, set |-> q.set,
                 text |-> row["description"], owners |-> owners \ {q.by},
                 news |-> {[patch |-> q.patch, field |-> f, old |-> q.before[f], new |-> row[f]] :
                             f \in DOMAIN q.set}])
  /\ UNCHANGED <<storyVars, newsVars, used, historyVars>>

\* findByIdWithRelations after the batch; buildStoryActivities compares it with
\* the snapshot of the beginning.
ReRead(r) ==
  LET q == request[r] IN
  /\ q.at = "reread"
  /\ Proceed(r, [at |-> "record", patch |-> q.patch, by |-> q.by, set |-> q.set,
                 text |-> row["description"], owners |-> owners \ {q.by},
                 news |-> Differing(q.patch, q.before, row)])
  /\ UNCHANGED <<storyVars, newsVars, used, historyVars>>

-----------------------------------------------------------------------------
(* What is told of it.                                                     *)

RecordActivities(r) ==
  /\ request[r].at = "record"
  /\ told' = told \cup request[r].news
  /\ Advance(r, "notify")
  /\ UNCHANGED <<storyVars, alerts, mentioned, used, historyVars>>

MentionsOrEnds(r) ==
  LET q == request[r] IN
  IF "description" \in DOMAIN q.set THEN Advance(r, "members") ELSE Proceed(r, Idle)

\* Nobody is told when there are no activities.
NotifyOwners(r) ==
  LET q == request[r] IN
  /\ q.at = "notify"
  /\ alerts' = IF q.news = {} THEN alerts
               ELSE alerts \cup ({q.patch} \X q.owners)
  /\ MentionsOrEnds(r)
  /\ UNCHANGED <<storyVars, told, mentioned, used, historyVars>>

ListMembers(r) ==
  LET q == request[r] IN
  /\ q.at = "members"
  /\ Proceed(r, [at |-> "mention", patch |-> q.patch, text |-> q.text,
                 listed |-> members \ {q.by}])
  /\ UNCHANGED <<storyVars, newsVars, used, historyVars>>

\* Fault: the dedupe key has the story and not the text.
IsSentFault(text, u) == \E n \in mentioned : n.to = u

\* A row with this dedupe key: the hash of the text, and the recipient.
IsSent(text, u) == \E n \in mentioned : n.text = text /\ n.to = u

\* ON CONFLICT DO NOTHING.
SendMentions(r) ==
  LET q == request[r] IN
  /\ q.at = "mention"
  /\ mentioned' = mentioned \cup
       {[patch |-> q.patch, text |-> q.text, to |-> u] :
          u \in {v \in Mentions[q.text] \cap q.listed : ~ IsSent(q.text, v)}}
  /\ reached' = [reached EXCEPT ![q.patch] = q.listed]
  /\ Proceed(r, Idle)
  /\ UNCHANGED <<storyVars, told, alerts, used, made, mixed, writer>>

-----------------------------------------------------------------------------
(* The rest of the system.                                                 *)

\* The last statement of a creation, without a guard: it inserts the owners that
\* were checked before the row was.  A row that is there already fails it.
InsertOwners ==
  /\ inserting # {} /\ inserting \cap owners = {}
  /\ owners' = owners \cup inserting
  /\ inserting' = {}
  /\ UNCHANGED <<row, archived, members, gone, newsVars, request, used, historyVars>>

\* It fails, or the worker died before it: the story stays as it is.
InsertOwnersFails ==
  /\ inserting # {}
  /\ inserting' = {}
  /\ UNCHANGED <<row, owners, archived, members, gone, newsVars, request, used, historyVars>>

\* The one way to leave a project.  No table refers to the user by a foreign key:
\* requests that know of the user go on.
DeleteAccount(u) ==
  /\ u \in members
  /\ members' = members \ {u} /\ gone' = gone \cup {u}
  /\ owners' = owners \ {u}
  /\ alerts' = {n \in alerts : n[2] # u}
  /\ mentioned' = {n \in mentioned : n.to # u}
  /\ UNCHANGED <<row, inserting, archived, told, request, used, historyVars>>

MemberJoins(u) ==
  /\ u \notin members \cup gone
  /\ members' = members \cup {u}
  /\ UNCHANGED <<row, owners, inserting, archived, gone, newsVars, request, used, historyVars>>

SetArchived ==
  /\ archived' = ~ archived
  /\ UNCHANGED <<row, owners, inserting, members, gone, newsVars, request, used, historyVars>>

\* The worker dies, or a call fails and its error is returned.
RequestFails(r) ==
  /\ request[r] # Idle
  /\ Proceed(r, Idle)
  /\ UNCHANGED <<storyVars, newsVars, used, historyVars>>

RequestStep(r) ==
  \/ \E p \in Patches, u \in members, set \in Edits, wish \in Wishes \cup {Keep} :
       UpdateStory(r, p, u, set, wish)
  \/ ReadRow(r) \/ WriteStory(r) \/ ReRead(r)
  \/ RecordActivities(r) \/ NotifyOwners(r) \/ ListMembers(r) \/ SendMentions(r)
  \/ RequestFails(r)

Next ==
  \/ \E r \in Requests : RequestStep(r)
  \/ \E u \in Users : DeleteAccount(u) \/ MemberJoins(u)
  \/ InsertOwners \/ InsertOwnersFails
  \/ SetArchived

Spec == Init /\ [][Next]_vars

-----------------------------------------------------------------------------

\* An entry says what its author did.  Of a field nobody else changed between the
\* two reads of a PATCH (update-story.ts:212 and d1-story-repository.ts:1168) it
\* is the change of that PATCH, and once entries are recorded none is missing;
\* of the others it may name a change of somebody else, or hide its own; but an entry
\* of the status always starts from the status its PATCH replaced, because the read and
\* the batch expect the snapshot's (d1-story-repository.ts:951, 1086).
EntriesAreTrue ==
  /\ \A e \in told : e.field \in mixed[e.patch] \/ e \in made
  /\ \A r \in Requests : request[r].at \in {"notify", "members", "mention"} =>
       \A m \in made : m.patch = request[r].patch => m.field \in mixed[m.patch] \/ m \in told
  /\ \A e \in told, m \in made :
       e.patch = m.patch /\ e.field = "status" /\ m.field = "status" => e.old = m.old

\* Fields and owners of an update change together or not at all, nothing that was
\* not asked for changes, and nothing of an archived story, though the owners are
\* replaced by statements of their own and members leave after they were checked
\* (d1-story-repository.ts:1094).  The creation's own insert is the exception.
EditsApplyWhole ==
  [][row' # row \/ owners' # owners =>
       \/ \E u \in gone' \ gone : row' = row /\ owners' = owners \ {u}
       \/ inserting' # inserting /\ row' = row /\ owners' = owners \cup inserting
       \/ \E r \in Requests :
            LET q == request[r] IN
            /\ q.at = "write" /\ ~ archived
            /\ row' = Edited(row, q.set)
            /\ owners' = IF q.wish = Keep THEN owners ELSE q.wish]_vars

\* No PATCH makes anybody an owner who is not a member when its batch runs, though
\* no foreign key says so and owners who have left are kept: an update that was
\* checked before an account went does not bring its user back
\* (d1-story-repository.ts:678, 928, d1-user-repository.ts:130).  Only a creation
\* may, and nobody but those it has checked (d1-story-repository.ts:757, 844).
OnlyMembersBecomeOwners ==
  [][owners' \ owners \subseteq IF inserting' = inserting THEN members ELSE inserting]_vars

\* Once the PATCH that wrote the description has answered well, each member it
\* mentions but its author has one notice of it, also if another PATCH was read
\* back, or sent the same text before, or died before its mentions, until the
\* member's account goes (update-story.ts:408).
MentionsArriveOnce ==
  /\ \A p \in writer :
       (Mentions[row["description"]] \cap reached[p]) \ gone
         \subseteq {n.to : n \in {x \in mentioned : x.text = row["description"]}}
  /\ \A n, x \in mentioned : n.text = x.text /\ n.to = x.to => n = x
=============================================================================
