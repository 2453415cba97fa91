# A verification project for tatsumaki

tatsumaki is an agile project tracker: one Cloudflare Worker (`apps/web`) over
a D1 (SQLite) database, an R2 bucket, one Durable Object class and an hourly
cron, with a React client, a Rust CLI (`apps/cli`) and a thin Electron shell
(`apps/desktop`).  This directory holds TLA+ modules for the parts of it whose
correctness depends on the order in which requests, the cron and the storage
services interleave, the TLC configurations that check them, and TLAPS proofs.

Paths below are relative to the repository root; `web/` abbreviates
`apps/web/src/`.

## 1. The system

### What makes it hard

There is no lock and no interactive transaction in the server.  A D1 statement
is atomic, `db.batch([...])` runs several statements as one transaction without
seeing results in between, and everything else is a sequence of `await`s: a
request reads rows, decides in TypeScript, and writes guarded by whatever it put
in the `WHERE` clause.  Between two awaits of one request any other request, the
cron or another isolate may run, and a request may die at any await (an
exception, a closed connection, an evicted isolate).  R2 and D1 share no
transaction.  Durable Objects are the one place with an input gate, and it opens
at every await that is not storage.

### Components

| Component | State | Operations | Hard behaviour | Module |
| --- | --- | --- | --- | --- |
| Artifact publishing (`web/application/usecases/artifacts`, `d1-artifact-repository.ts`) | upload sessions, recorded paths, artifacts, versions, files; R2 blobs | create session (idempotent), upload a file, finalize | one batch of five guarded statements, each with its own clock reading; lost answers; expiry races | `ArtifactPublish` |
| Artifact cleanup (`cleanup-artifacts.ts`) | none of its own | hourly: reclaim abandoned sessions; delete objects of deleted projects | reads in two queries, deletes later; crash between steps; bounded work per run | `ArtifactCleanup`, `ArtifactRemnants` |
| Artifact queries, edits, content tokens | title, archive flag | list, read, rename, archive, sign a content URL | none: single statements | - |
| CLI publishing (`apps/cli/crates/tm/src/application/artifact_flow.rs`) | the command's session and counters | publish with retries and recovery by error code | retry after an unknown outcome; late calls | `PublishClient` |
| CLI download (`artifact_flow.rs`, `artifact/download.rs`) | a staging directory, the output directory | verify, stage, move into place | check then rename; failures between two renames; two processes in one directory | - |
| Stories (`update-story.ts`, `d1-story-repository.ts`, `d1-story-archive-repository.ts`) | status, type, estimate, Icebox flag, iteration, archive time | PATCH, archive, assign, bulk update | reads before guarded writes; the same decision taken twice on two snapshots | `StoryLifecycle`, `BulkStatusChange` |
| Creation, deletion, order (`create-story-for-panel.ts`, `d1-story-repository.ts`) | rows, their number and position per panel | create, delete, reorder | renumbering as separate statements, from positions read before | `StoryOrder` |
| Blockers, attachments (`add-story-blocker.ts`, `upload-story-attachment.ts`, `delete-story-attachment.ts`) | pairs; a row and an R2 object | add, remove, upload, delete | check then insert; two stores without a transaction | `StoryParts` |
| Iterations (`manage-iterations.ts`, `ensure-iterations.ts`) | iteration rows, stories' iteration, overrides | hourly ensure + carry-over, rebuild on calendar change, assign | cron racing a rebuild; gaps after missed runs | `Iterations` |
| Planning poker (`web/durable-objects/planning-poker-do.ts`) | one session per project, web sockets | create, vote, reveal, apply, reset, close | a stored value read before an await and written after it | `PlanningPoker` |
| Projects and membership (`d1-project-repository.ts`, `d1-user-repository.ts`, `routes/project-membership.ts`, `routes/invitation-links.ts`, `delete-account.ts`) | accounts, members, roles, invitations, links | create, invite, accept, change role, delete project, delete account | last-owner and plan-limit checks before separate writes | `Membership` |
| What an update tells (`update-story.ts`, `notify-story-*.ts`, `d1-notification-repository.ts`) | owners, timeline entries, notices, mentions | PATCH from its snapshot to its last notice | two snapshots around one batch; separate inserts after it | `StoryTimeline` |
| Comments (`create-`, `update-`, `delete-story-comment.ts`, `delete-story.ts`) | comment rows, notices, the entry of a deletion | write, edit, delete, delete the story | check then write; four calls of a deletion, two of them at once | `StoryComments` |
| Labels (`d1-project-label-repository.ts`, `bulk-add-story-labels.ts`) | label rows; a JSON list of names per story | create, rename, delete with a cascade; tag, tag in bulk | a reference by name; names and lists read before the batch that rewrites them | - |
| Burndown (`burndown-chart.ts`) | one snapshot per iteration and day | the cron's and a visit's upsert, the chart | date, sums and write are calls apart; midnight | - |
| Epics, saved filters, API keys, settings, velocity, notification centre | rows | edit, list | none two operations share | - |
| Authentication (Access JWT, API keys, OAuth consent) | keys, consent | verify, issue | outside the subject of this project | - |
| Web client: panels (`use-panel-stories-query.ts`, `story-multi-panel-screen.tsx`) | the page's copy of the four lists | drag to another panel: status path, iteration, Icebox | several requests for one gesture, rolled back on the page alone | `StoryPanels` |
| Web client: workflow buttons (same files, `use-story-mutations.ts`) | a queue per story, optimistic copies, lists | click, retry, fetch again | one rollback for all lists; answers that come late | - |
| Web client: the rest | React Query caches | forms, paging, filters, web socket | presentation | - |
| CLI story commands, desktop shell, contracts, scripts, CI | - | - | glue | - |

### How they interact

Requests of all clients (browser, CLI, MCP, API keys) reach the same use cases. The cron
(`web/presentation/scheduled`) runs `ensureIterationsForAllProjects` and the artifact
cleanup against the tables those requests are changing. Planning poker's `apply` calls
`updateStory`; changing a project's calendar calls `rebuildIterations`; cleanup reads
the upload sessions and the published files that `finalizeArtifactUpload` writes and
deletes from the bucket `uploadArtifactFile` writes to; the CLI repeats requests whose
first copy the server may still be working on.  The hourly job also writes the
burndown's snapshots, as every visit of the chart does.  The page's panels are queries
over the columns `updateStory`, the assignment and the carry-over write, and one drag is
several of their requests.  Stories know their labels by name alone.  Deleting a story
cascades to its blockers and attachment rows, deleting a project to its artifacts,
members and invitations: the rows go, the objects in R2 stay.

### What would make each one correct

* Publishing: versions are a gap-free log; a session publishes at most once,
  completely, on the version its author saw, whichever statement of its batch the expiry
  falls on; what a client was told stays true.
* The publishing client: however calls are repeated or delayed, one command makes
  at most one version of an artifact it updates, and its report is true.
* Cleanup: what is published is never deleted; what is abandoned, or was left by a
  deleted project, is always deleted, eventually, and nothing else.
* Stories: the Icebox invariant of `story.ts`; status only moves along the
  transition table; archived stories are read-only; `completedAt` says
  Accepted; a bulk change that fails after its check has a reason it can name.
* Order: positions of a panel are distinct; only a reorder changes an order; a
  creation that was refused leaves no row.
* Blockers form no cycle; a listed attachment has contents, and an object in R2
  without a row has an explanation.
* Iterations: windows tile the calendar and never overlap; unfinished work
  follows into the current one.
* What an update tells: entries say what their author did; each mention arrives once;
  no update makes an owner of somebody who has left.  No comment outlives its story, and
  its owners hear of the end.
* Panels: no story in two, none missing that is work of the sprint, and the page sorts
  as the server does; a drag ends where the page says.
* Planning poker: votes stay hidden until reveal; every vote that was answered
  counts; a session ends because somebody ended it; all screens agree.
* Membership: a project has an owner; limits hold; a single-use link admits one
  person; who belongs to a project has an account.

## 2. Plan

The order in which the modules were written, most important first; all are done.

1. `ArtifactHistory`, `ArtifactPublish` and its proofs: publishing, and the
   compare-and-append log it implements.
2. `ArtifactCleanup`, composed with `ArtifactPublish`, and its proofs.
3. `StoryWorkflow`, `StoryLifecycle` and its proofs; `BulkStatusChange`, composed
   with `StoryLifecycle`.
4. `Iterations`: cron and rebuild.  (Its proofs are the last of item 11.)
5. `PlanningPoker` and its proofs.
6. `Membership` and its proofs.
7. `PublishClient`, composed with `ArtifactPublish`; `ArtifactRemnants`, composed with
   `ArtifactCleanup`.
8. `StoryOrder`, `StoryParts` and their proofs.
9. `StoryComments`, `StoryTimeline` and their proofs.
10. `StoryPanels`, composed with `StoryLifecycle`.
11. The proofs of the composed modules: `ArtifactRemnants` and `PublishClient` in
    `ArtifactProofs`, `BulkStatusChange` and `StoryPanels` in `StoryLifecycleProofs`;
    then `Iterations` beside `Membership` in `ProjectProofs`.

What would come next: labels and the snapshots of the burndown; the queue of the
workflow buttons, the autosave of the detail form and the pages of a list in the client;
the download of the CLI; utilization overrides; `Iterations` composed with
`StoryLifecycle`.

## 3. Modules

```
ArtifactHistory <== implements == ArtifactPublish <-- ArtifactCleanup <-- ArtifactRemnants
                                        ^------------ PublishClient
StoryWorkflow   <== implements == StoryLifecycle  <-- BulkStatusChange
                                        ^------------ StoryPanels
Iterations   PlanningPoker   Membership   StoryOrder   StoryParts   StoryComments
StoryTimeline
```

An arrow `<--` is EXTENDS: the right module adds actors to the left one.  An operator
`XFault` above a definition `X` is a plausible mistake in it, which one of the
properties must notice.  Each module `M` that is run has an `MCM` with its constants,
and each that is proved an `MProofs`, except that `ArtifactProofs` is about the four
modules of artifacts together, `StoryLifecycleProofs` also about the two that extend
`StoryLifecycle`, and `ProjectProofs` about `Membership` and `Iterations` (which is why the
latter's `IterationsInit`, `IterationsNext`, `IterationsSpec` and `IterationsTypeOK` carry its name); `ArtifactPublish`, `ArtifactCleanup` and `StoryLifecycle` run inside the
modules that extend them.  In every module a use case is
one action per await, an idle request may start any of them, and a step `...Fails` or
`EndRequest` drops a request between two of its calls.

### ArtifactHistory

What publishing promises: a set of uploads declares what it wants to append
(artifact, base version, tree), and a declared upload may append its tree as
version `base + 1` when `base` is the last version.  Nothing else ever happens
to a log.

### ArtifactPublish

| Variable | Code |
| --- | --- |
| `session`, `uploaded` | `artifact_upload_sessions`, `artifact_upload_session_files` |
| `artifacts`, `latest` | rows of `artifacts` and their `latest_version` |
| `versions`, `files` | `artifact_versions`, `artifact_files` |
| `blobs` | objects in R2, named by artifact and sha256 |
| `request` | what a request in flight has read, and the await it stands at |
| `now` | `Date.now()`; `Second[now]` is what SQLite's `CURRENT_TIMESTAMP` shows |

A use case becomes one action per await: `CreateArtifactUpload` (its reads and
checks), `CreateUploadSession` (the INSERT ... ON CONFLICT DO NOTHING);
`UploadArtifactFile` (the session read), `PutBlob`, `RecordUploadedFile`;
`FinalizeArtifactUpload`, `ListUploadedPaths`, `PublishUploadSession`,
`CommitBatch` or `RollbackBatch`, `ClassifyPublishFailure`.  `EndRequest` delivers
or loses an answer and also kills a request anywhere.  The batch is translated
statement by statement: each sees the changes of the ones before it, has the guards it
really has, and compares `expires_at` with a `CURRENT_TIMESTAMP` of its own.  The
parameter `ran` says how many of the five still found the session in time, and
`BatchClock` how that comes about: all, none, or, when the clock reaches the second of
the expiry between two of them, those before it.  A statement whose guard fails changes
no row and is no error; a primary-key conflict rolls the whole batch back.
`ExpiresMeanwhile` is the third clock: a request that has read its session in time and
compares it with `Date.now()` later.

Abstractions.  The project and user of a session are fixed (they are a constant
conjunct of every predicate).  The idempotency key names the session.  0 stands
for the NULL base version.  A tree stands for digest, entrypoint and validated
manifest; digests of received bytes are taken to match or the request is
refused.  The several reads of `createArtifactUpload` are one step: sessions are
never deleted, versions never change and `latest_version` is checked again by the
batch, so a stale read there only leads to a session the batch refuses or to the
same refusal.  The deletion of the project is in `ArtifactRemnants`.

### ArtifactCleanup

`ArtifactPublish` plus the first stage of the hourly job: `StartCleanup` (list the
sessions expired longer than the grace period, first expired first, `BatchSize` of
them), `FindReferencedHashes`, `FindInFlightHashes`, `DeleteMany`,
`MarkSessionsExpired`; `DeleteManyFails` and `SkipSession` are the errors the job
logs and steps over, `EndCleanup` is both its end and its death at any point.
The hash queries, chunked in the code to fit SQL's parameter limit, are one read
per artifact here.

### ArtifactRemnants

`ArtifactCleanup` plus the deletion of the project and the job's second stage, the
sweep of objects whose project is gone.

| Variable | Code |
| --- | --- |
| `gone` | the row of `projects` has been deleted, and everything that hangs on it |
| `onWay` | a put to R2 that was under way when the rows went, and lands later |
| `inFront` | prefixes of other, living projects listed before this one's |
| `sweep` | `deleteDeletedProjectRemnants`: the call it stands at, pages and objects counted so far |

`DeleteProject` clears the publishing tables and every request in flight but the
puts, `PutOnWay` is such a put, `PrefixAppears` another project's first upload.
The sweep is `StartSweep`, `ListPrefixes` per page, `FindExistingProjectIds` or
`LookupFails`, `ListObjects` per page within the budget, `DeleteObjects` or
`DeleteObjectsFails`, `EndSweep`.

Abstractions.  One project's objects are modelled; of the others only their
prefixes count, because they use up pages of the listing.  `MaxInFront` keeps them
fewer than the pages of a run; section 5 says what happens otherwise.

### PublishClient

`ArtifactPublish` with one client in it: `ArtifactFlow::publish`.

| Variable | Code |
| --- | --- |
| `want` | `PublishRequest`: artifact, base version, tree |
| `cmd` | the command: its step, the key in use, the paths still to be sent, the request of the server that works for it, the attempts made; or how it ended |
| `late` | calls it gave up on, which may still reach the server |
| `mishaps` | history: keys whose batch failed on the server although it would have published, and keys found expired by a request that read them before another published them |

`Publish` starts the command and `CallServer` sends the step's call.
`SessionCreated`, `CreateAnswered`, `FileUploaded`, `UploadExpires`, `UploadRefused` and
`FinalizeAnswered` are the answers, each with the recovery its error code has:
an expired session is tried again once with a new key, an incomplete one is created
again once, a published one is finalized to learn its version, an unchanged tree or
a stale base is reported.  `TimeOut` (a timeout, a 429, a broken connection) leaves
the call alive and sends it again, `CallFails` is a 5xx.  `ServerRuns` is the server
of `ArtifactPublish`, with other clients' requests and the command's late calls;
`MarkExpired` is what the cleanup does to a session.

Abstractions.  Token refresh, and a local file that changes between hashing and
upload, are left out.

### StoryWorkflow

What the tracker promises of a story: `Work` moves it along the transition table
and into the Icebox only while it is Unstarted, `Archive` and `Restore` freeze
and thaw it, and `Schedule` takes any number of stories out of the Icebox at once.

### StoryLifecycle

| Variable | Code |
| --- | --- |
| `story` | rows of `stories`: type, whether estimated, status, Icebox, iteration, `archived_at`, whether `completed_at` is set |
| `trail` | the `archived` / `unarchived` entries of `story_timeline_entries` |
| `iterations`, `today` | rows of `iterations` and the sprint window the date is in; windows tile the calendar, so both are numbers |
| `request` | what `updateStory` or `setStoryArchived` has read and the call it stands at |
| `cron` | `ensureIterationsForAllProjects` for this project, with the date it read at its start |

`updateStory` is `UpdateStory` (validation on the use case's snapshot),
`ReadRow` (`D1StoryRepository.update` reads the row again, compares
`expectedStatus`, resolves the Icebox flag anew, decides iteration and
`completed_at`) and `WriteStory` (the UPDATE with its optimistic guard on
archived_at, status, Icebox flag and iteration).  `setStoryArchived` is
`SetStoryArchived` and `SetArchived`, one batch.  `assignStory` and
`unassignStory` are one step, `AssignStory`: whatever their reads refuse, the
guarded UPDATE refuses too.  The cron is `StartCron`, `EnsureCurrentIteration`
once per row it creates, `ListIterations`, `ReassignStories`; `CronFails` ends
it anywhere.

Abstractions.  Titles, descriptions, labels, owners and positions are left
out, with the statements that write them: they share the batch and the guard of
the UPDATE.  The estimate is present or not.  The activities and notifications
an update records after its UPDATE are left out.  The iteration lookup of
`update` is read with the row: the UPDATE refuses a row whose iteration, Icebox
flag or status is another one by then.  Iterations are only created here; their
deletion belongs to `Iterations`, the story's to `StoryOrder`.

### BulkStatusChange

`bulkUpdateStoryStatus` over `StoryLifecycle`: `CheckStory` for every story, then
`UpdateNextStory`, the `ReadRow` and `WriteStory` of that update, and
`StoryUpdated` or `Fail`.  `CallFails` is an exception anywhere: a read, the UPDATE,
which may have been committed all the same, or what `updateStory` does behind it
(`recordMany`, the notices), after which the loop throws with the story changed.

### Iterations

| Variable | Code |
| --- | --- |
| `iterations` | rows of `iterations` by id: number, start and end date |
| `settings` | `sprint_duration_days` and `iteration_start_day` of the project |
| `story` | rows of `stories`: status, the day of `completed_at`, `iteration_id` |
| `job` | the cron's run and each PATCH in flight, at the call it stands at, with what it has read |
| `today`, `utc` | the date in Tokyo, which the cron and updates use, and in UTC, which rebuilds and `completed_at` use |
| `touched` | auxiliary: the stories a client changed since a rebuild read them |

`D1IterationRepository.create` is three calls, shared by both writers:
`CheckOverlap`, `ReadMaxNumber`, `InsertIteration`, whose unique indexes end the
job.  The cron is `StartCron`, `FindLatest` (the four cases of
`ensureCurrentIteration`), `UnassignFuture` and `DeleteFuture`, the creations, then
`ListIterations` and `ReassignStories`.  A PATCH of the settings is
`LoadProject`, `UpdateSettings`, and when the calendar changed the rebuild:
`RebuildListsIterations`, `RebuildListsStories`, `DeleteAll`, the creations,
`RebuildResolves`, `AssignStoryForRebuild` per story, `Rebuilt`.  `EndJob` kills
either anywhere.

Abstractions.  A date is a number of days; the week's length is a constant.
"Started" stands for all work in progress, and an update or an assignment of a
story is one step here (`StoryLifecycle` has their interleavings).  The two
story queries of a rebuild are one read: a story accepted between them was
completed on a day the ranges cover anyway.  Ids are reused once no row and no
job remembers them, which is the same as a fresh one.  Utilization overrides are left
out, and so is `archived_at`: a rebuild moves archived stories like others, so the
rule that archived stories are read-only (`StoryLifecycle`) has this exception.

### PlanningPoker

| Variable | Code |
| --- | --- |
| `activeSession` | the storage key of that name in the Durable Object |
| `opened` | sessions opened so far, the source of their ids |
| `screen` | what each connected socket was sent last |
| `request` | requests waiting at an await that is not storage |
| `cast`, `shown`, `ended`, `overwritten` | history: the last vote each user was told is in, whose points somebody has seen, the sessions ended on purpose, the sessions hit by a write from an older copy |

The input gate makes everything between two foreign awaits one step, storage
included.  `StartSession` / `OpenSession` await the story in D1, `Vote` / `CastVote`
the body of the request, `Apply` / `UpdateStory` / `DropSession` the story's update;
`Reveal`, `Reset` and `Close` await nothing.  `GetSession`, `Connect` and
`Disconnect` are the readers; each broadcast hides the points of an open session.
`RequestFails` drops a request, `Restart` is an eviction: it loses the requests in
flight and the sockets, which are accepted without hibernation, and keeps the storage.

Abstractions.  The times of votes are left out.  Whether D1 finds a story and
accepts a PATCH is open; the PATCH itself is one of `StoryLifecycle`.

### Membership

| Variable | Code |
| --- | --- |
| `account` | rows of `users` |
| `projects`, `created` | rows of `projects`; ids handed out |
| `role` | rows of `project_members` |
| `invitation`, `sent` | rows of `project_invitations`, links among them; ids handed out |
| `request` | requests that have been checked and not yet written, with what the check saw |
| `admitted`, `excused`, `promoted`, `overlapped`, `outlived` | history: see the module |

A request checks who asks when it arrives - `AuthorizeProjectCreation`, `Invite`,
`RequestRevoke`, `Accept`, `RequestAcceptLink`, `ChangeRole`, `RequestDeleteProject`,
`RequestDeleteAccount`, together `Start` - and each statement or batch after that is
a step of its own, together `Continue`: `InsertProject`, `InsertOwner`,
`CreateInvitation`, `RevokeInvitation`, `UpsertMember`, `AcceptInvitation`,
`GetOrCreateCurrentUser`, `AcceptSingleUse`, `UpdateMemberRole`, `DeleteProject`,
`DeleteAccount`, `RequestFails`.  `AcceptSingleUse` is one batch whose three
statements each check the link against their own clock; the parameter `ran` says
how many of them found it unexpired.  `Expire` and `Onboard` are the environment.

Abstractions.  An invitation by e-mail is one by user that outlives the account.
A user without a plan limit is not modelled, nor are the tokens of links and the
rows of other tables an account deletion clears.

### StoryOrder

| Variable | Code |
| --- | --- |
| `row` | rows of `stories`: number, position, Icebox flag, archived |
| `inserted` | stories inserted so far; ids ascend like ULIDs |
| `request` | a creation, deletion or reorder between two statements |
| `tangled` | history: an overlap the order is not safe from has happened |

`createStoryForPanel` is `ReadMaxNumber`, `ShiftPositions`, `InsertStory`,
`RecordCreated`, and for the current panel `AssignStory` or `AssignStoryFails` with
its rollback; `deleteStory` is `DeleteStory` (the checks), `FindPosition`,
`RemoveRow`, `CloseGap`; `reorderStories` is `ReadOrder` and `MoveStories`, one
batch.  `ChangePanel` is a PATCH of the browser, an assignment or the cron, which move a
story between panels and keep its position; `MoveToTop` is a PATCH of the CLI or of an
API key that takes a story out of the Icebox (`moveToTopOnLeavingIcebox`), whose batch
moves every other story of the project down and puts this one at position 1;
`SetArchived` is archiving.  `RequestFails` drops a request anywhere.

What makes an order `tangled` is named in the module (`MeetsCreation`,
`MeetsRenumbering`, `LandsBadly`, `TopIsTaken`, and in `RemoveRow` and `ReadOrder`): a
request reads positions while another one is about to write some; a story changes to a
panel where its position is taken, or moves to a top that a creation has just made room
at; a reorder lists stories of two panels; and, with nothing else in flight, a story is
deleted whose position a story of the other panel has too.  In these cases the code makes
duplicate positions or swaps stories (section 5); everywhere else the properties are
claimed, and the theorems prove them.

### StoryParts

| Variable | Code |
| --- | --- |
| `story` | active, archived or gone |
| `blockers` | rows of `story_blockers` |
| `owner` | rows of `story_attachments`: the story of a file |
| `objects` | attachment objects in R2 |
| `request`, `used` | requests between two calls; files an upload has begun for |
| `crossed`, `removed`, `orphaned` | history: additions that crossed, files asked to be deleted, files with a reason to lie in R2 without a row |

Blockers: `AddStoryBlocker`, `ListBlockerPairs` (the cycle check, `LeadsBack`),
`AddBlocker`, `RemoveStoryBlocker`, `RemoveBlocker`.  Attachments:
`UploadStoryAttachment`, `PutObject` or `PutFails`, `CreateAttachment`, `CreateFails` or
`CreateUnanswered` (the row is inserted and the answer lost), `UndoUpload`; `DeleteStoryAttachment`, `DeleteObject`,
`DeleteAttachment`.  `SetArchived` and `DeleteStory` are the rest of the system;
the latter cascades to both tables and not to R2.

### StoryComments

| Variable | Code |
| --- | --- |
| `story`, `owners` | the story's row (active, archived, gone) and its `story_owners` |
| `comment`, `notices` | comment rows of `story_timeline_entries`; notifications of them |
| `entries`, `farewells` | the `deleted` entries of the timeline; the notices of a deletion |
| `request`, `used` | requests between two calls; ids given out |
| `said`, `late`, `due` | history: comments inserted, those inserted behind a sweep, whom a deletion has to tell |

A comment is `CreateStoryComment`, `ReadStory`, `InsertComment` (one batch with its
notices, guarded by the story's archive state); an edit `UpdateStoryComment`,
`EditComment`; its deletion `DeleteStoryComment`, `EraseComment`.  The story's deletion
is `DeleteStory`, then `RecordDeleted` and `DeleteAllForStory` in either order (a
`Promise.all`, of which `CallFails` fails one while the other still runs), `Cleared`,
`NotifyOwners`, `RemoveStory`.  `SetArchived`, `ReplaceOwners` and `RequestFails` are the
rest.  Whom a text mentions is any set of members.  The wording of notices and the
deletion of accounts are left out.

### StoryTimeline

| Variable | Code |
| --- | --- |
| `row`, `owners`, `archived` | the story's fields, `story_owners`, whether it is read-only |
| `inserting` | owners the story's creation has checked and not inserted yet |
| `members`, `gone` | `project_members`; users whose account was deleted |
| `told`, `alerts`, `mentioned` | `field_changed` entries; notices to owners; notices to whom the description mentions |
| `request`, `used` | PATCHes between two calls; PATCHes that were sent |
| `made`, `mixed`, `writer`, `reached` | history: see the module |

A PATCH is `UpdateStory` (the snapshot), `ReadRow`, `WriteStory` (the batch: the owners'
DELETE and INSERTs, each with guards of its own, and then the UPDATE, which asks whether
they took effect), `ReRead`, `RecordActivities`, `NotifyOwners`, `ListMembers`,
`SendMentions`.  `DeleteAccount`, `MemberJoins` and `SetArchived` come in between.  The
owners of the first state are any users: who has left the project stays an owner, as the
comments at `d1-story-repository.ts:678` and `:928` and the tests of the repository say,
and a PATCH may keep them.  `InsertOwners` is the last statement of `create`, which
inserts without a guard the owners it has checked before the row was there; a PATCH or
the deletion of an account may come in between, and `InsertOwnersFails` leaves the row
without them.  The status stands for
the fields the update is guarded by, the description for those it is not.

### StoryPanels

`StoryLifecycle` and one browser page.  `current` and `shown` are what the page has loaded,
`move` is `movePanelMutation`; `Listed` are the server's queries of the four panels,
`Matches` is `storyMatchesPanel` of the page.  `MoveStoryToPanel` plans a drag and
`PatchStatus`, `ChangeIteration` and `PatchIcebox` are its requests, each of which may be
refused or lose its answer; `Others` is every step of `StoryLifecycle`.  A request of the
page is one step: `StoryLifecycle` has what goes on inside.  The pages of a list, its
filters and the order within a panel are left out.

### MC modules

`MCPublishClient` and `MCArtifactRemnants` give the manifest and the clock's second
function; `MCStoryPanels` and `MCBulkStatusChange` the rows stories start from and the
PATCH bodies clients send; `MCIterations` a short week and the PATCHes of a calendar;
`MCMembership` the kinds of invitation and the plans; `MCStoryTimeline` who is mentioned
and the lists of owners PATCHes ask for.  `MCPublishClient`, `MCBulkStatusChange` and
`MCStoryTimeline` each hold two small instances: a variable `scene`, chosen at the
beginning, says which one a behaviour belongs to, and `InScene` is its bound.  Symmetry sets are used
where the run checks no liveness, by `MCPublishClient`, `MCMembership`, `MCPlanningPoker`, `MCStoryOrder`,
`MCStoryParts`, `MCStoryComments` and `MCStoryTimeline`.

## 4. Runs

| Run | Shows |
| --- | --- |
| `client` | a command that repeats calls, and whose calls arrive late, makes at most one version, or a second one in the two ways named, and reports the truth; beside another client, and with the expiry between any two statements of a batch, versions of the history are complete, answers of finalize are never contradicted, and the tables implement `ArtifactHistory` |
| `remnants` | the sweep deletes only objects of deleted projects, within its budget; abandoned sessions and deleted projects are reclaimed in the end |
| `story_bulk` | a bulk change that ends in an error after it has changed stories met a call that failed, or a story that is archived or that somebody else changed; archive requests that overlap leave a trail that alternates and agrees with the row; incomplete work of the previous iteration is carried over |
| `iterations` | cron runs and rebuilds that die anywhere, one at a time: iterations stay numbered and without gaps, a rebuild that succeeds puts every untouched story where it belongs |
| `iterations_overlap` | cron runs and a rebuild interleaved at every call: a current iteration always comes back |
| `poker` | votes count, stay hidden and sessions end on purpose, outside of writes from an older copy |
| `membership` | a link admits one person, plans are kept, projects keep owners, members have accounts, except in the overlaps and decisions the invariants name |
| `story_order` | outside of the cases named, positions of a panel stay distinct and only a reorder changes an order, moves to the top included; a refused creation leaves no row |
| `story_parts` | blockers form no cycle unless two additions cross; listed files have contents; objects without a row have a reason |
| `story_comments` | an archived story keeps its comments, a deleted one leaves none but those that came behind its sweep, and its owners are told |
| `story_timeline` | what the timeline says was done was done, outside of fields others changed in between; updates apply whole; mentions arrive once; no PATCH makes an owner of a non-member |
| `story_panels` | beside edits, archive requests, assignments and a failing cron: the Icebox rule and the refinement of `StoryWorkflow`; the four panels' queries are disjoint and miss nothing of the sprint, the page sorts as they do, and an undisturbed drag arrives |

### Bounds, and why they are enough

Two requests in flight give every interleaving of a read of one with a write of the
other, which is the form every race of this code has; where the third actor is the
cron or the cleanup job, it is an actor of its own beside them.

* `remnants`: 2 keys, 1 request, 2 pages of one prefix, object pages of 2 under a
  budget of 1 (so that the budget cuts a page, and a run leaves objects for the
  next one), one prefix in front (so that the project is on the second page), TTL 1,
  no grace.  No symmetry, as it checks liveness.
* `client`: 2 trees, one file, 2 requests, one retry per call, versions to 2.  Sessions
  live for two ticks and two ticks make a second, so that a session may be over for the
  database and not for the Worker, or the other way round; the clock runs to 4.  Scene
  "update": 3 keys, two of them the command's, which is what a command can use, and one
  another client's, which creates the artifact the command updates and competes with both;
  one kind of call late, the clock to 3.  Scene "create": the command's 2 keys, 2 artifact
  ids, two kinds of calls late, which is what it takes for a late finalize of the first key
  to be overtaken while the second one publishes.  In both the batch may be cut at each of
  its four places.
* `story_bulk`: scene "bulk": 2 stories, a bug and a feature that may lack its estimate,
  so that the first can be changed before the second is refused; a second request that
  edits, archives and assigns; no cron, whose carry-over touches a story as an assignment
  does.  Scene "story": one story, 2 requests, three entries in its trail (archived,
  restored, archived again) and 3 windows, so that "previous" and "older" differ.
* `iterations`: a week of 2 days, sprints of one and two weeks, both start days, 4
  days, 1 story, 1 PATCH at a time.  Two-week sprints are aligned to weeks, so they may
  start in the middle of an older one; four days let every kind of window begin and end.
* `iterations_overlap`: no stories (the property is about windows), one start day,
  two days, of which the first ends a window.  Here cron and rebuild overlap; gaps
  and overlapping windows do happen, which is why the invariants above are
  claimed for `Overlap = FALSE` only.  ADR-0005 expects one writer; the settings
  route is a second one.
* `poker`: 2 users, 2 stories, 1 point, 2 requests, 2 sessions: a second session is
  what a request that began in the first can destroy.
* `membership`: 2 users, one of whom may own one project and the other none, 2
  projects, 1 invitation (a link for a viewer, or an e-mail for an owner), 2
  requests.
* `story_order`: 3 stories, positions to 3, 2 requests: the third story is the one
  whose order with another a renumbering could disturb.
* `story_parts`: 3 stories (a cycle through one that neither addition names), 1
  file, 2 requests.
* `story_comments`: 2 users, 2 comments, 2 texts, 2 deletions, 2 requests: two
  deletions that cross each other, or one with a comment.
* `story_timeline`: 2 users, 2 PATCHes in flight at once, 3 statuses (so that a status can
  change twice and differ from both ends), 2 texts that mention everybody.  Scene "news": no
  owners at first, PATCHes that ask for one.  Scene "owners": any owners at first or under
  creation, any lists asked for, and nothing told of it.
* `story_panels`: one story, one request of another client beside the page, 2 sprint
  windows, one entry in the archive trail: "next window" and "past window" both exist.

`MaxTime`, `MaxVersion`, `MaxDay`, `MaxTrail`, `LastDay`, `Earliest`, `MaxSessions`,
`MaxStories`, `MaxPosition`, `MaxLate` and `MaxInFront` are bounds of the models, not of
the code.  Each appears only in the guard of the action that would exceed it (`Earliest`
in `LoadProject`, because every change of the start day may make a rebuild add an
iteration before the first one).

Deadlock is checked except in runs where the model really stops: the command of
`client` ends, and the others run out of ids, days or changes.

### Fairness

No fairness is assumed of clients, their requests or the calendar anywhere.

* `remnants`: the job is started by an hourly cron and every run ends - weak
  fairness of `StartSweep` and `EndCleanup`, strong fairness of `StartCleanup`,
  because stage 1 can only start while no sweep runs.  No call to D1 or R2 fails
  every time it is tried: strong fairness of the steps that make one, for the
  listing of prefixes page by page.
* `story_bulk`: in its scene "story", weak fairness of `StartCron`, the hourly trigger,
  and strong fairness of the three steps that call D1.
* `iterations_overlap`: weak fairness of `StartCron` and of `EndJob` for
  the cron (a run ends), strong fairness of its database calls.  None of PATCHes; the
  property excepts a project whose settings are being changed for ever.

## 5. Behaviour the exceptions stand for

Several properties hold with a named exception.  These are the behaviours of the code
behind the exceptions, and a few that no property covers.  Where an exception is a flag
- `overwritten`, `excused`, `overlapped`, `tangled`, `crossed`, `mixed`, `late`, `torn` -
it stands for the very race of the hazard: the property does not say that the race is
harmless, which it is not, but that nothing else does the same damage.

* `d1-artifact-repository.ts:427, 436`: each of the five statements of the publish batch
  compares `expires_at` with a clock reading of its own, and one whose guard fails is no
  error.  A batch that is running when the second of the expiry begins stops half way and
  is committed: with the artifact's row alone, with a version above `latest_version`,
  without or with its files, or with everything but the session's status.  The comment at
  line 423 ("an invalid or superseded session changes nothing") and ADR-0010:139 ("A
  session that no longer qualifies therefore changes nothing") say otherwise.  What does
  hold: the history up to `latest_version` is complete, and what lies above it stays
  outside for good.  (`VersionsComplete`, `ImplementsHistory`, `GapFreeHistory`)
* A version above `latest_version` keeps its number: each later update of that artifact
  violates the primary key, is rolled back, and is answered PUBLISH_CONFLICT, for ever.
* `artifact_flow.rs:155`, with `d1-artifact-repository.ts:416`: a command that creates an
  artifact makes a second one when it hears SESSION_EXPIRED although its first version is
  in the history.  That takes a batch that was cut before its last statement, or a
  finalize that reads the session, is overtaken by an earlier copy of itself and then
  finds the session past its expiry.  A command that updates an artifact never does, since
  the base of its second session is stale.  (`PublishesAtMostOnce`)
* The Worker compares milliseconds and the database seconds, so a batch that was cut
  before its last statement may also be answered PUBLISH_CONFLICT, with its version in the
  history; and a batch that fails for no reason of its session's is, although a late copy
  of the call may still publish.  The command reports a conflict in both cases.
  (`Misreported` in `ReportsAreTrue`)
* `cleanup-artifacts.ts:80`: the published hashes are read before the in-flight hashes.
  A session that is published between the two reads is in neither, so the job deletes a
  blob of a visible version; one that is opened after the second read loses blobs it was
  told it need not send.  ADR-0010:148 accepts the second race and describes only that
  one; reading in-flight hashes first would close the first.  (`MissingOnlyInRaces`)
* `cleanup-artifacts.ts:129`: every sweep starts from the first prefix and looks at
  a bounded number of pages, so a deleted project behind that many living ones is
  not reached.  (`RemnantsAreReclaimed`)
* `d1-story-repository.ts:987`: a story that is in progress gets the current
  iteration only if it has none, and the cron only carries over from the previous
  iteration.  An Accepted story that is reopened two windows later stays in its
  old iteration, which no panel query of the client returns.  A rebuild from long
  sprints to short ones (`manage-iterations.ts:328`) puts current work into such an
  iteration too.  (`CarriedOver` is about the previous iteration.)
* `update-story.ts:257`: the estimate rule is applied with the type the story has
  before the update, so one PATCH of type and status starts a feature without an
  estimate.
* `bulk-update-story-status.ts:83, 91`: the check that is to make a bulk change all or
  nothing does not look at `archived_at`, so that an archived story after an active one
  ends it half way; and so does any call that fails after the first UPDATE, the
  activities and notices of a story among them (`update-story.ts:357`), when that story
  itself is changed.  (`BulkStopsForAReason`)
* `projects.ts:625`: the settings are saved before the rebuild, and the rebuild depends
  on the saved settings being other ones: after a failed rebuild the same PATCH
  succeeds without one.
* `planning-poker-do.ts:308` and `:396`: a vote whose body arrives late, and an apply
  whose story update returns late, write over or drop whatever session is stored
  by then.  (`overwritten`)
* Membership: the last owner can be demoted by a role change or an accepted invitation
  of a lower role, and two owners who delete their accounts at once leave a project
  without one (`delete-account.ts:45`); two projects created at once exceed the plan
  (`authorize-project-creation.ts:37`).  (`excused`, `overlapped`)
* `d1-story-repository.ts:762, 1200, 1337`: overlapping creations, deletions and
  reorders of a panel make duplicate positions or undo one another.  A move between
  panels keeps the position, so that the panels share some: deleting a story whose
  position one of the other panel has too closes a gap that panel does not have, and may
  swap two of its stories.  (`tangled`)
* `d1-story-repository.ts:1043, 1102`, `routes/cli/v1/story-handlers.ts:95`: a PATCH of
  the CLI that takes a story out of the Icebox puts it at the top and renumbers all others,
  while `apps/cli/README.md:147` says that it moves "without changing its position".
  (`MoveToTop`)
* `d1-story-repository.ts:757, 844`: a creation inserts the owners it has checked without
  a guard, and no foreign key stops it: a member whose account is deleted in between
  becomes an owner, and stays one, as owners who leave the project do by intent (`:678`,
  `:928`).  (`OnlyMembersBecomeOwners` lets it add those it has checked, and nobody else.)
* `upload-story-attachment.ts:73`: an INSERT that was committed and lost its answer counts
  as failed, so the upload removes the object of a file that stays listed.
  (`ListedFilesAreStored` excepts it, as it does a file whose deletion was begun.)
* `d1-artifact-cleanup-repository.ts:40`: a run of the cleanup takes the 20 sessions that
  expired first.  Twenty that fail every time would keep all others from being reclaimed;
  the fairness of `remnants` says that none does.
* `manage-iterations.ts:346`: a rebuild that dies leaves stories without their iteration,
  and it is the next rebuild that succeeds, after another change of the calendar, which
  `WindowsTile` and `RebuildKeepsPlaces` are about.
* `add-story-blocker.ts:81`: two additions that cross close a cycle.  (`crossed`)
* `update-story.ts:349`: the activities of an update compare two reads around its
  batch.  A change of somebody else between them is recorded as this author's, beside the
  entry of its own; only the old value of a guarded field is always right.  (`mixed`)
* `d1-story-comment-repository.ts:166`: a comment inserted between the sweep of a
  deletion and the deletion of the row stays, without a story.  (`late`)
* `use-story-mutations.ts:161`: a drag that fails half way is rolled back on the page
  alone, until its lists are loaded again.  (`torn`)
* A story that is in progress in an iteration that is not the current one is in no panel.
  (`HiddenIsOffSprint`)
* `story_attachments` rows cascade with their story, objects in R2 do not, and no job
  sweeps them while the project lives.  (`orphaned`)

## 6. Proofs

Each theorem holds for every value of the constants that satisfies the named ASSUMEs
of its module, which TLC evaluates in the runs.  None of the invariants is inductive
as it stands; each proof module defines an inductive `IInv` that adds what requests
in flight may still rely on, proves it once, and concludes the properties from it.

`ArtifactProofs`, publishing: `TypeCorrect`, `HistoryIsGapFree`, `SessionsPublishOnce`,
`VersionsAreComplete`, `AnswersStayTrue`, `BlobsAreStored`, and `Refinement`
(`Spec => History!Spec`, where the log of an artifact is its versions up to
`latest_version`).  `BatchIsAPrefix` carries the argument: under `IInv` a batch that commits
has the effect of a prefix of its statements, or none at all, wherever the clock cut it,
although each statement is guarded separately and a skipped one is no error.  Files come
with their version; `latest_version` moves only when version and files are there; and the
session is published exactly when all five statements found it in time.  A step that moves
`latest_version` is the append of the log; all others stutter.

For that, what the earlier batches left has to be known.  `IInv` is the conjunction of
`TypeOK`, `VersionRows`, `GapFreeHistory` (versions are numbered 1 to
`latest_version`, and above it there is at most the next number), `PublishedOnce` (a
published session has its version in the history; a version whose session is not published
is of a session that is `Over`, so that nothing will ever finish it), `VersionsComplete`
(in the history every version has exactly its files, above it all or none), `UploadInv`
(recorded paths belong to the manifest) and `RequestInv` (what each request in flight may
still assume of the row it read).  `Evolves` states what no request ever undoes.
`AnswersStayTrue` follows from `Over`: after OK the version is in the history, after
SESSION_EXPIRED no statement writes anything for the session any more.  `BlobInv`, that
recorded files are stored, is proved on top of `IInv`, because the cleanup breaks it and
keeps the rest.

Stage 1 of the cleanup: `FilesGoMissingOnlyInRaces`, `NothingIsLeaked`, and
`PublishingHoldsUnderCleanup` (the publishing invariants survive the job).
`CleanupIInv` adds to `IInv`: `ListedInv`, that a session the job has listed is over and
can never publish; `LeakInv`, that every blob belongs to a published version, to a live
session or to a put that came late; `KeepInv`, that what the job found before it deletes
is still what it has to keep, outside of the two races; `StoredInv`, that recorded files
are stored or excused by one of them.

Stage 2: `SweepsTakeOnlyRemnants`.  What was looked up of a project stays true because
a deleted project does not come back; `SweepInv` says that a sweep which has reached the
objects does so of a deleted project and has room in its budget for what it is about to
delete, for which the stored objects must be finitely many.

The publishing command: `PublishesOnce`, `ReportsStayTrue`, `PublishingHoldsForTheCommand`
and `ClientRefinement`, for any server with any number of other clients' requests.
`Progress` states what a step of the server may do to a command: it publishes a session
only by a batch whose checks still hold, and creates one only from a request that carries
its key.  `CallsOK` says which calls in flight are the command's, `SessionsOK` that a
session under one of its keys has its base and its tree, `LateOK` that calls it gave up
on use no other key, and `CommandOK` what it may conclude: that it took
the second key because the first is `Spent` (over for the database as well, and published
only if a call was overtaken),
that it says "conflict" only when its session is `Lost` (over, or its number taken,
whatever is still under way), was never finalized, or failed on the server for no reason.  That two late calls of
different keys cannot both publish is this invariant and nothing the server does.  Its
exceptions are the ones of the properties: `CutAfterLatest`, a version in the history whose
session the expiry kept from being marked, and the two kinds of `mishaps`.  For a command
that updates an artifact `PublishesOnce` has no exception.

`StoryLifecycleProofs`: `TypeCorrect`, `IceboxHoldsUnstartedWork`,
`CompletionIsKept`, `ArchiveTrailIsKept`, `ArchivesAreFrozen` and `Refinement`
(`Spec => Workflow!Spec`), for any number of stories, requests, windows and PATCH
bodies.  An update decides on the row it read and writes
later.  `RequestInv` says of
an update waiting to be written that the row *as it was seen*, with the columns to be
set, keeps the rules (`WriteOK`); of an update waiting to read, that its edit is a
legal transition from the status it expects; of an archive request, that what it
saw allows what it asks.  `CronInv` says that the cron moves stories into an
iteration that exists.  The lemma `ColumnsKeepTheRules` shows that the columns an
update computes keep the rules for the row they are computed from, and the WHERE
clause of the UPDATE carries that over to the row there is when it is written;
`TrailStaysTrue` does the same for the archive batch, and `ArchivedStay` for the
refinement.

A bulk change, in the same module: `BulkStopsOnlyForAReason`, `BulkKeepsTheRules`,
`BulkFollowsTheWorkflow`, `BulkLeavesArchivesFrozen`, for lists of any length.  `BulkInv`
relates where the request is to the rows: the stories before the one it checks, then all
that are left, are `Agreed` (their status allows the change, unless somebody else touched
them), the update it waits for is refused only if `Explained`, and a list without
duplicates keeps its own updates from counting as somebody else's.

Drags: `PanelsDivideStories`, `PageAgreesWithServer`, `DragsArrive`,
`DragsFollowTheWorkflow`, `DragsKeepTheRules`, `DragsLeaveArchivesFrozen`.  That no story
is in two panels rests on `IceboxInvariant` of the server: the queries of Done and Icebox
are disjoint in no other way.  `PageInv` says that an undisturbed page knows the current
iteration and shows the row, and of a drag under way that its copy is the row (`Knows`),
its target is in the panel it was dropped on (`TargetOK`) and what is left of its path ends
there (`PathOK`).  By the lemma `PathsArrive` the transition table leads from every status
to the targets plans have in at most two changes.

`StoryOrderProofs`: `TypeCorrect`, `OrderIsStrict`, `RefusalsLeaveNothing` and the
action property `OrderIsKept`.  `IdInv` says that a request works on a story that was
inserted; `SafeInv` what it has made of the panel as long as nothing is tangled: a
creation's number is above all others and its room still free (`CreatingOK`), a
deletion's gap is empty (`DeletingOK`), a reorder's slots are a permutation of the
positions it read (`MovingOK`), and whoever renumbers does so alone.

`PlanningPokerProofs`: `TypeCorrect`, `VotesStayCounted`, `VotesStayBlind`,
`SessionsEnd`, `ScreensStayCurrent`.  `RequestInv` bounds the copies requests hold by
the sessions opened, and `FutureInv` says that nothing is recorded of a session that
has not been opened yet, so that opening one starts from a clean slate.

`ProjectProofs`, membership: `TypeCorrect`, `OwnersStay`, `PlanIsKept`, `LinksAdmitAtMostOne`,
`MembershipsHaveAccounts`.  `RequestInv` says what of a check is still true when its
statement runs, `InvitationInv` relates a link to whom it admitted, and `PlanInv`
keeps room in the plan for the creation under way.

`ProjectProofs`, iterations: `CalendarTyped` (however jobs overlap), and for jobs that do
not, `IterationsTile` and `RebuildsKeepPlaces`, for any stories, any PATCHes and any
calendar of up to four weeks a sprint.  Of `CalendarAssumption` they need that stories and
PATCHes are finitely many, which is what makes minima, maxima and a fresh id exist
(`LeastMember`, `MaxIsGreatest`, `FreshIdIsFresh`).  The invariant `CalendarIInv` holds at
every call of a job that may die there:

* `OneAtATime`: one job works, an answer that rebuilt nothing and a PATCH that has not
  written its settings aside;
* `RowsInOrder`: the numbers are 1 to n, and rows follow one another in that order;
* `CreatingOK`: what a job still has to create are adjoining windows, of which the first
  starts where the last row ends or overlaps a row and is refused; a number it has read is
  still the next one;
* `DeletingFutureOK`: `deleteFuture` runs only when there are rows to come, so what it
  leaves is a prefix of the rows whose last one covers the cron's day (`KeptRowsInOrder`),
  and the window the cron creates next is refused;
* `RebuildOK`: each anchor of a rebuild has a window (`RangesCover`), after its insertion a
  row, after `resolveIterationForDate` a target that covers it (`DatesResolve`), and at last
  its story.

`WindowsCover` and `RangesCover` are about `buildIterationRangesForRebuild` itself: for any
calendar and any anchors its windows adjoin and cover every anchor.

`StoryPartsProofs`: `TypeCorrect`, `BlockersAreAcyclic`, `ListedFilesStayStored`,
`StrayObjectsStayExplained`.  `CheckedInv` says that a blocker that passed its check
still closes no cycle, as long as no other was inserted since; `UploadOK` and
`DeletionOK` say where an upload and a deletion under way have left the object.

`StoryCommentsProofs`: `TypeCorrect`, `SweptComments`, `NoticesHaveComments`,
`DeletionsTell`, `ArchivedCommentsStay`.  Beside the type of every request its invariant
says what a deletion under way has already done: after its sweep no comment is left but
the late ones, its entry is recorded before it notifies, and it removes the row only
when everybody it has to tell was told - whichever of the two parallel calls ended first.

`StoryTimelineProofs`: `TypeCorrect`, `EntriesStayTrue`, `OwnersComeFromMembers`,
`MentionsStayOnce` and the action property `EditsStayWhole`.  The invariant follows a PATCH
from call to call: before its batch it has changed nothing, and what nobody else changed is
as it read it (`BeforeBatchOK`); after it, the row differs from that snapshot by its changes
only (`AfterBatchOK`), which are what it is about to record (`NewsOK`); and as long as its
mentions are to be sent it has reached nobody (`MentionsOK`).  A PATCH is sent once
(`PatchesAreFresh`), who left stays away (`NobodyReturns`), and `ChangesDiffer`: a change
from a value to itself would leave no difference for the second read to find.

Proved and in no run: the type invariants but `IterationsTypeOK`, `GapFreeHistory`,
`PublishedOnce`, `PublishedBlobsStored`, `MissingOnlyInRaces`, `NothingLeaks`,
`CompletedWhileAccepted`, `ArchivedAreReadOnly`, `ScreensAreCurrent`, `NoticesAreOfComments`.

Only model-checked: liveness (`CarriedOver`, `TodayIsCovered`, `AbandonedAreReclaimed`,
`RemnantsAreReclaimed`), because the prover has no rules here for fairness and ENABLED.

## 7. Not modelled, and why

Listed with a reason under `components` in `PROJECT.json`.  In short:

* The notification centre and the project history read, in pages, what `StoryComments`,
  `StoryTimeline` and `StoryLifecycle` write; marking as read is one statement.
* Epics, saved filters, API keys and settings are single statements on rows
  no two operations relate; velocity is arithmetic over a list, without
  state; avatars are one object under one key.
* Authentication, OAuth consent, rate limits and MCP are adapters in front of the use
  cases, outside the subject.
* Labels are referred to by name, in a list in each story's row: a rename rewrites the
  lists in its own batch, from names read before it.  The burndown writes one snapshot per
  iteration and day, which nothing else reads, and fills the days between.  Both are next
  in the plan; they decide nothing about a story's life.
* Of the web client: the workflow buttons with their queue of clicks, the autosave of
  the detail form, the planning-poker socket's reconnection, the pages and filters of
  lists, and all presentation.  Of the CLI: the download, which fills one directory of
  one user, and the story commands.  The desktop shell.  The models of the server treat
  what these send as arbitrary.
* Inside modelled components: utilization overrides, unlimited plans, tokens, the rows
  an account deletion clears in tables other than those of `Membership` and
  `StoryTimeline`.

Presentation, adapters and generated code make up most of the repository's lines, which
is why the map covers a small share of them: it covers the parts whose state several
actors share.
