--------------------------- MODULE ArtifactCleanup ---------------------------
(***************************************************************************)
(* The hourly cleanup of abandoned upload sessions (stage 1 of             *)
(* cleanupArtifacts) running against the requests of ArtifactPublish.      *)
(* Each query and each R2 call of the job is a step of its own, so any     *)
(* request may run between two of them; any call may fail and the job may  *)
(* be killed anywhere.                                                     *)
(***************************************************************************)
EXTENDS ArtifactPublish, FiniteSets

CONSTANTS
  Grace,      \* ARTIFACT_CLEANUP_GRACE_MS
  BatchSize   \* SESSION_BATCH_SIZE

ASSUME CleanupAssumption == Grace \in Nat /\ BatchSize \in Nat \ {0}

VARIABLES
  job,       \* the running cleanup
  overlap,   \* history: the step of the job a session was opened, its version got at
  latePuts   \* history: blobs stored for a session already due for cleanup

cleanupVars == <<vars, job, overlap, latePuts>>

IdleJob == [at |-> "idle"]

\* "next": between two sessions; "inFlight", "delete", "mark": before
\* findInFlightHashes, deleteMany and markSessionsExpired of session key.
\* keep holds the hashes the reads found so far.
Job ==
  {IdleJob}
    \cup [at : {"next"}, startedAt : 0..MaxTime, todo : SUBSET Keys]
    \cup [at : {"inFlight", "delete", "mark"}, startedAt : 0..MaxTime,
          todo : SUBSET Keys, key : Keys, keep : SUBSET Hashes]

\* blobSha256s of an abandoned session.
BlobHashes(k) == {Manifest[session[k].tree][p] : p \in ManifestPaths(k)}

\* Pending, and expired more than the grace period before t.
Abandoned(k, t) ==
  /\ Exists(k)
  /\ session[k].status = "pending"
  /\ t >= Grace
  /\ Second[session[k].expiresAt] < Second[t - Grace]

AbandonedSessions(t) == {k \in Keys : Abandoned(k, t)}

\* ORDER BY expires_at LIMIT n.
FirstToExpire(S, n) ==
  {T \in SUBSET S :
     /\ Cardinality(T) = IF Cardinality(S) < n THEN Cardinality(S) ELSE n
     /\ \A i \in T, j \in S \ T : session[i].expiresAt <= session[j].expiresAt}

\* findReferencedHashes: the manifest's hashes some version of the artifact has.
ReferencedHashes(k) ==
  {f.sha256 : f \in {g \in files : g.artifact = session[k].artifact}} \cap BlobHashes(k)

\* findInFlightHashes: hashes of the other pending sessions of the artifact
\* that expired at most the grace period before the job started.
InFlightSessions(k, t) ==
  {j \in Keys \ {k} :
     /\ Exists(j)
     /\ session[j].artifact = session[k].artifact
     /\ session[j].status = "pending"
     /\ Second[session[j].expiresAt] >= Second[t - Grace]}

InFlightHashes(k, t) == UNION {BlobHashes(j) : j \in InFlightSessions(k, t)}

Garbage == {Blob(session[job.key].artifact, h) : h \in BlobHashes(job.key) \ job.keep}

-----------------------------------------------------------------------------

JobAt(step) == job.at = step

BetweenSessions == [at |-> "next", startedAt |-> job.startedAt, todo |-> job.todo]

StartCleanup ==
  /\ JobAt("idle")
  /\ AbandonedSessions(now) # {}
  /\ \E listed \in FirstToExpire(AbandonedSessions(now), BatchSize) :
       job' = [at |-> "next", startedAt |-> now, todo |-> listed]
  /\ UNCHANGED <<vars, overlap, latePuts>>

\* The next listed session, and the first of its two reads.
FindReferencedHashes ==
  /\ JobAt("next")
  /\ \E k \in job.todo :
       /\ \A j \in job.todo : session[k].expiresAt <= session[j].expiresAt
       /\ job' = [at |-> "inFlight", startedAt |-> job.startedAt, todo |-> job.todo \ {k},
                  key |-> k, keep |-> ReferencedHashes(k)]
  /\ UNCHANGED <<vars, overlap, latePuts>>

\* Fault: a session with nothing to delete is skipped before it is marked.
FindInFlightHashesFault ==
  /\ JobAt("inFlight")
  /\ job' = LET keep == job.keep \cup InFlightHashes(job.key, job.startedAt) IN
             IF blobs \cap Garbage = {} THEN BetweenSessions
             ELSE [job EXCEPT !.at = "delete", !.keep = keep]
  /\ UNCHANGED <<vars, overlap, latePuts>>

FindInFlightHashes ==
  /\ JobAt("inFlight")
  /\ job' = [job EXCEPT !.at = "delete",
                        !.keep = @ \cup InFlightHashes(job.key, job.startedAt)]
  /\ UNCHANGED <<vars, overlap, latePuts>>

DeleteMany ==
  /\ JobAt("delete")
  /\ blobs' = blobs \ Garbage
  /\ job' = [job EXCEPT !.at = "mark"]
  /\ UNCHANGED <<now, session, uploaded, catalogVars, request, overlap, latePuts>>

\* deleteMany throws after some of the keys are gone: the session stays
\* pending for a later run.
DeleteManyFails ==
  /\ JobAt("delete")
  /\ \E gone \in SUBSET Garbage : blobs' = blobs \ gone
  /\ job' = BetweenSessions
  /\ UNCHANGED <<now, session, uploaded, catalogVars, request, overlap, latePuts>>

MarkSessionsExpired ==
  /\ JobAt("mark")
  /\ session' = IF session[job.key].status = "pending"
                THEN [session EXCEPT ![job.key].status = "expired"]
                ELSE session
  /\ job' = BetweenSessions
  /\ UNCHANGED <<now, uploaded, catalogVars, blobs, request, overlap, latePuts>>

\* A query fails: its session is left for a later run.
SkipSession ==
  /\ job.at \in {"inFlight", "delete", "mark"}
  /\ job' = BetweenSessions
  /\ UNCHANGED <<vars, overlap, latePuts>>

\* The list is done, or the job is killed.
EndCleanup ==
  /\ ~JobAt("idle")
  /\ job' = IdleJob
  /\ UNCHANGED <<vars, overlap, latePuts>>

-----------------------------------------------------------------------------

\* What the job is doing to artifact a: nothing, between its two reads, or
\* between its second read and its delete.
Stage == {"none", "inFlight", "delete"}

StageOn(a) ==
  IF job.at \in {"inFlight", "delete"} /\ session[job.key].artifact = a
  THEN job.at ELSE "none"

Opens(k) == ~Exists(k) /\ session'[k] # NoSession

\* A batch writes the rows of k's version, published or cut.
GetsVersion(k) == ~HasVersion(k) /\ HasVersion(k)'

PutsLate(r) ==
  /\ At(r, "store") /\ request'[r].at = "record"
  /\ LET k == request[r].key IN session[k].status = "expired" \/ Abandoned(k, now)

\* The history variables record, and never restrict, what the requests do.
Observe ==
  /\ overlap' = [k \in Keys |->
       [opened |-> IF Opens(k) THEN StageOn(session'[k].artifact) ELSE overlap[k].opened,
        published |-> IF GetsVersion(k) THEN StageOn(session[k].artifact)
                      ELSE overlap[k].published]]
  /\ latePuts' = latePuts \cup
       {BlobOf(request[r].key, request[r].path) : r \in {q \in Requests : PutsLate(q)}}

ServerStep == Next /\ Observe /\ UNCHANGED job

CleanupStep ==
  \/ StartCleanup
  \/ FindReferencedHashes
  \/ FindInFlightHashes
  \/ DeleteMany
  \/ DeleteManyFails
  \/ MarkSessionsExpired
  \/ SkipSession
  \/ EndCleanup

CleanupInit ==
  /\ Init
  /\ job = IdleJob
  /\ overlap = [k \in Keys |-> [opened |-> "none", published |-> "none"]]
  /\ latePuts = {}

CleanupNext == ServerStep \/ CleanupStep

CleanupSpec == CleanupInit /\ [][CleanupNext]_cleanupVars

-----------------------------------------------------------------------------
(* Properties.                                                             *)

\* Publishing keeps its types, and the job is at one of its calls with a key and
\* hashes there are.
CleanupTypeOK ==
  /\ TypeOK
  /\ job \in Job
  /\ overlap \in [Keys -> [opened : Stage, published : Stage]]
  /\ latePuts \subseteq Artifacts \X Hashes

Referenced(b) == \E f \in files : Blob(f.artifact, f.sha256) = b

Publisher(f) == versions[f.artifact][f.version].session

Stored(f) == Blob(f.artifact, f.sha256) \in blobs

\* A file of a version is missing from R2 only if its session was opened after
\* the job's second read and before its delete, or its batch ran between the
\* two reads.  Whatever else is interleaved, the job deletes no
\* blob that is published or still publishable, nor one of a version above
\* latest_version.
MissingOnlyInRaces ==
  \A f \in files :
    \/ Stored(f)
    \/ overlap[Publisher(f)].opened = "delete"
    \/ overlap[Publisher(f)].published = "inFlight"

\* Every stored blob is in a published version or in the manifest of a session
\* a later run will reclaim: nothing leaks.  The exception is a put whose
\* request outlived its session's expiry by more than the grace period.
NothingLeaks ==
  \A b \in blobs :
    \/ Referenced(b)
    \/ \E k \in Keys : /\ Exists(k) /\ session[k].status = "pending"
                       /\ \E h \in BlobHashes(k) : b = Blob(session[k].artifact, h)
    \/ b \in latePuts

\* Every session left pending past the grace period is eventually reclaimed,
\* however often the job fails on the way and whichever sessions it lists
\* first (under the fairness of ArtifactRemnants).
AbandonedAreReclaimed == \A k \in Keys : Abandoned(k, now) ~> ~Abandoned(k, now)
=============================================================================
