--------------------------- MODULE ArtifactPublish ---------------------------
(***************************************************************************)
(* The server side of publishing an artifact: createArtifactUpload,        *)
(* uploadArtifactFile and finalizeArtifactUpload, each a request that      *)
(* several awaits split into steps, over the D1 tables of                  *)
(* D1ArtifactRepository and the R2 bucket.  Requests are unconstrained: a  *)
(* client may send any of them at any time, repeat them and never hear an  *)
(* answer, and a request may die between two steps.                        *)
(*                                                                         *)
(* An upload session is named by its idempotency key (unique per project   *)
(* and user in the table); base 0 stands for a NULL base_version, latest 0 *)
(* for a NULL latest_version; a tree stands for the tree digest, the       *)
(* entrypoint and the validated manifest.                                  *)
(***************************************************************************)
EXTENDS Naturals

CONSTANTS
  Keys,         \* idempotency keys, one upload session each
  Artifacts,    \* ULIDs an artifact can get
  Trees,        \* manifests an upload can carry
  Paths,        \* file paths
  Hashes,       \* sha256 values of file contents
  Manifest,     \* Manifest[t]: the hash of each path of tree t
  Requests,     \* requests in flight at once
  NoSession,    \* no row in artifact_upload_sessions
  NoArtifact,   \* a request without artifactId
  TTL,          \* ARTIFACT_UPLOAD_SESSION_TTL_MS
  Second,       \* Second[t]: the whole second SQLite's datetime() maps t to
  MaxTime,      \* bound on the clock
  MaxVersion    \* bound on the versions of an artifact

ASSUME ClockAssumption ==
  /\ TTL \in Nat \ {0} /\ MaxTime \in Nat /\ MaxVersion \in Nat
  /\ Second \in [0..(MaxTime + TTL) -> Nat]
  /\ \A t, u \in 0..(MaxTime + TTL) : t <= u => Second[t] <= Second[u]

ASSUME ManifestAssumption ==
  /\ DOMAIN Manifest = Trees
  /\ \A t \in Trees : /\ DOMAIN Manifest[t] \subseteq Paths
                      /\ \A p \in DOMAIN Manifest[t] : Manifest[t][p] \in Hashes
  /\ NoArtifact \notin Artifacts

VARIABLES
  now,        \* the clock; Worker and D1 read the same one
  session,    \* artifact_upload_sessions
  uploaded,   \* artifact_upload_session_files: recorded paths of a session
  artifacts,  \* rows of artifacts
  latest,     \* artifacts.latest_version
  versions,   \* artifact_versions: versions[a] maps a number to its row
  files,      \* artifact_files
  blobs,      \* R2 objects, named artifact and sha256
  request     \* the requests in flight

catalogVars == <<artifacts, latest, versions, files>>
vars == <<now, session, uploaded, catalogVars, blobs, request>>

Session ==
  [artifact : Artifacts, base : 0..MaxVersion, tree : Trees,
   status : {"pending", "published", "expired"}, expiresAt : 0..(MaxTime + TTL)]

ASSUME NoSessionAssumption ==
  NoSession \notin Session /\ NoSession \notin [artifact : Artifacts, base : Nat, tree : Trees]

VersionRecord == [session : Keys, tree : Trees]

FileRow == [artifact : Artifacts, version : Nat, path : Paths, sha256 : Hashes]

Blob(a, h) == <<a, h>>

Code == {"OK", "UPLOAD_INCOMPLETE", "SESSION_EXPIRED", "PUBLISH_CONFLICT"}

Idle == [at |-> "idle"]

\* Where a request can be.  "insert": createArtifactUpload before its INSERT;
\* "store", "record": uploadArtifactFile before its R2 put and its INSERT;
\* "list", "publish", "batch", "classify": finalizeArtifactUpload before it
\* lists the uploaded paths, re-reads the session, runs the batch, re-reads
\* the session again; "done": finalizeArtifactUpload has decided its answer.
Request ==
  {Idle}
    \cup [at : {"insert"}, key : Keys, artifact : Artifacts \cup {NoArtifact},
          base : 0..MaxVersion, tree : Trees]
    \cup [at : {"store", "record"}, key : Keys, path : Paths]
    \cup [at : {"list", "publish", "batch", "classify"}, key : Keys]
    \cup [at : {"done"}, key : Keys, code : Code]

Init ==
  /\ now = 0
  /\ session = [k \in Keys |-> NoSession]
  /\ uploaded = [k \in Keys |-> {}]
  /\ artifacts = {}
  /\ latest = [a \in Artifacts |-> 0]
  /\ versions = [a \in Artifacts |-> <<>>]
  /\ files = {}
  /\ blobs = {}
  /\ request = [r \in Requests |-> Idle]

-----------------------------------------------------------------------------
(* Helpers.                                                                *)

Exists(k) == session[k] # NoSession

\* expiresAt <= Date.now(), in milliseconds, as the use cases compare it.
PastExpiry(k) == session[k].expiresAt <= now

\* isSessionExpired.
IsSessionExpired(k) == session[k].status = "expired" \/ PastExpiry(k)

ManifestPaths(k) == DOMAIN Manifest[session[k].tree]

\* deriveArtifactBlobKey of one path of the session's manifest.
BlobOf(k, p) == Blob(session[k].artifact, Manifest[session[k].tree][p])

At(r, step) == request[r].at = step

Goto(r, step) == request' = [request EXCEPT ![r].at = step]

Answer(r, c) ==
  request' = [request EXCEPT ![r] = [at |-> "done", key |-> request[r].key, code |-> c]]

-----------------------------------------------------------------------------
(* POST artifact-uploads.                                                  *)

\* createArtifactUpload up to its last check.  A key that already has a
\* session replays it or is refused, which writes nothing; so do a stale base
\* version and a tree equal to the latest one.
CreateArtifactUpload(r, k, a, base, tree) ==
  /\ At(r, "idle")
  /\ ~Exists(k)
  /\ \/ base = 0 /\ a = NoArtifact
     \/ /\ base > 0
        /\ a \in artifacts
        /\ latest[a] = base
        /\ versions[a][base].tree # tree
  /\ request' = [request EXCEPT ![r] = [at |-> "insert", key |-> k, artifact |-> a,
                                        base |-> base, tree |-> tree]]
  /\ UNCHANGED <<now, session, uploaded, catalogVars, blobs>>

\* The artifact id of the row: the client's, or a ULID nobody else has.
AssignedIds(asked) ==
  IF asked # NoArtifact THEN {asked}
  ELSE {a \in Artifacts \ artifacts : \A k \in Keys : Exists(k) => session[k].artifact # a}

ExpiresAt == now + TTL

SessionRow(r, a) ==
  [artifact |-> a, base |-> request[r].base, tree |-> request[r].tree,
   status |-> "pending", expiresAt |-> ExpiresAt]

\* Fault: ON CONFLICT DO UPDATE.
CreateUploadSessionFault(r) ==
  LET k == request[r].key IN
  /\ At(r, "insert")
  /\ \E a \in IF Exists(k) THEN {session[k].artifact} ELSE AssignedIds(request[r].artifact) :
       session' = [session EXCEPT ![k] = SessionRow(r, a)]
  /\ request' = [request EXCEPT ![r] = Idle]
  /\ UNCHANGED <<now, uploaded, catalogVars, blobs>>

\* createUploadSession: INSERT ... ON CONFLICT DO NOTHING.  When a concurrent
\* request took the key first its session is returned, or refused as another
\* request, and nothing is written.
CreateUploadSession(r) ==
  LET k == request[r].key IN
  /\ At(r, "insert")
  /\ \/ /\ ~Exists(k)
        /\ \E a \in AssignedIds(request[r].artifact) :
             session' = [session EXCEPT ![k] = SessionRow(r, a)]
     \/ /\ Exists(k)
        /\ UNCHANGED session
  /\ request' = [request EXCEPT ![r] = Idle]
  /\ UNCHANGED <<now, uploaded, catalogVars, blobs>>

-----------------------------------------------------------------------------
(* PUT artifact-uploads/:sessionId/files/*path.                            *)

\* uploadArtifactFile until it has the bytes: the session is read once, and
\* the size and digest of the body are verified against its manifest.
UploadArtifactFile(r, k, p) ==
  /\ At(r, "idle")
  /\ Exists(k)
  /\ session[k].status = "pending"
  /\ ~PastExpiry(k)
  /\ p \in ManifestPaths(k)
  /\ request' = [request EXCEPT ![r] = [at |-> "store", key |-> k, path |-> p]]
  /\ UNCHANGED <<now, session, uploaded, catalogVars, blobs>>

\* objectStore.put.  The session is not read again after the body arrived.
PutBlob(r) ==
  /\ At(r, "store")
  /\ blobs' = blobs \cup {BlobOf(request[r].key, request[r].path)}
  /\ Goto(r, "record")
  /\ UNCHANGED <<now, session, uploaded, catalogVars>>

RecordUploadedFile(r) ==
  LET k == request[r].key IN
  /\ At(r, "record")
  /\ uploaded' = [uploaded EXCEPT ![k] = @ \cup {request[r].path}]
  /\ request' = [request EXCEPT ![r] = Idle]
  /\ UNCHANGED <<now, session, catalogVars, blobs>>

-----------------------------------------------------------------------------
(* POST artifact-uploads/:sessionId/finalize.                              *)

FinalizeArtifactUpload(r, k) ==
  LET answer(c) == [at |-> "done", key |-> k, code |-> c]
      goto(step) == [at |-> step, key |-> k]
  IN
  /\ At(r, "idle")
  /\ Exists(k)
  /\ request' = [request EXCEPT ![r] =
       CASE session[k].status = "published" -> goto("publish")
         [] session[k].status = "pending" /\ ~PastExpiry(k) -> goto("list")
         [] OTHER -> answer("SESSION_EXPIRED")]
  /\ UNCHANGED <<now, session, uploaded, catalogVars, blobs>>

\* A pending session must have every path of its manifest recorded.
AllUploaded(k) == ManifestPaths(k) \subseteq uploaded[k]

ListUploadedPaths(r) ==
  /\ At(r, "list")
  /\ IF AllUploaded(request[r].key) THEN Goto(r, "publish")
                                    ELSE Answer(r, "UPLOAD_INCOMPLETE")
  /\ UNCHANGED <<now, session, uploaded, catalogVars, blobs>>

\* publishUploadSession before its batch: re-read the session.
PublishUploadSession(r) ==
  LET k == request[r].key IN
  /\ At(r, "publish")
  /\ \/ session[k].status = "published" /\ Answer(r, "OK")
     \/ session[k].status # "published" /\ IsSessionExpired(k)
          /\ Answer(r, "SESSION_EXPIRED")
     \/ session[k].status # "published" /\ ~IsSessionExpired(k) /\ Goto(r, "batch")
  /\ UNCHANGED <<now, session, uploaded, catalogVars, blobs>>

\* The clock passes expires_at after the row was read and before Date.now() is
\* compared with it: the answer is SESSION_EXPIRED, whatever happened to the
\* session since the read.
ExpiresMeanwhile(r) ==
  /\ \/ At(r, "list") \/ At(r, "batch")
     \/ At(r, "done") /\ request[r].code = "PUBLISH_CONFLICT"
  /\ PastExpiry(request[r].key)
  /\ Answer(r, "SESSION_EXPIRED")
  /\ UNCHANGED <<now, session, uploaded, catalogVars, blobs>>

(* The five statements of the batch, which D1 runs as one transaction.  Each   *)
(* compares expires_at with CURRENT_TIMESTAMP itself: `ran` is how many of     *)
(* them, from the first on, still found the session in time.                   *)

\* D1 compares whole seconds.
InTime(k, t) == Second[session[k].expiresAt] > Second[t]

\* Fault: the batch does not look at expires_at.
BatchClockFault(k, ran) == ran = 5 /\ UNCHANGED now

\* All statements find the session in time, or none; or the clock reaches the
\* second of its expiry between two of them.
BatchClock(k, ran) ==
  \/ ran = 5 /\ InTime(k, now) /\ UNCHANGED now
  \/ ran = 0 /\ ~InTime(k, now) /\ UNCHANGED now
  \/ ran \in 1..4 /\ InTime(k, now) /\ now < MaxTime /\ now' = now + 1 /\ ~InTime(k, now')

\* The predicate that guards the i-th statement.
Valid(k, i, ran) == session[k].status = "pending" /\ i <= ran

\* 1. INSERT INTO artifacts, for a session without a base version.
InsertsArtifact(k, ran) == Valid(k, 1, ran) /\ session[k].base = 0

ArtifactsAfter(k, ran) ==
  IF InsertsArtifact(k, ran) THEN artifacts \cup {session[k].artifact} ELSE artifacts

\* 2. INSERT INTO artifact_versions, if the base is still the latest version.
InsertsVersion(k, ran) ==
  /\ Valid(k, 2, ran)
  /\ session[k].artifact \in ArtifactsAfter(k, ran)
  /\ latest[session[k].artifact] = session[k].base

NewVersion(k) == session[k].base + 1

VersionRow(k) == [session |-> k, tree |-> session[k].tree]

WithVersion(rows, n, row) ==
  [v \in DOMAIN rows \cup {n} |-> IF v = n THEN row ELSE rows[v]]

VersionsAfter(k, ran) ==
  IF InsertsVersion(k, ran)
  THEN [versions EXCEPT ![session[k].artifact] =
          WithVersion(@, NewVersion(k), VersionRow(k))]
  ELSE versions

VersionExists(k, ran) ==
  LET rows == VersionsAfter(k, ran)[session[k].artifact] IN
  NewVersion(k) \in DOMAIN rows /\ rows[NewVersion(k)].session = k

\* 3. INSERT INTO artifact_files, one row per manifest entry.
FileRows(k) ==
  {[artifact |-> session[k].artifact, version |-> NewVersion(k), path |-> p,
    sha256 |-> Manifest[session[k].tree][p]] : p \in ManifestPaths(k)}

InsertsFiles(k, ran) == Valid(k, 3, ran) /\ VersionExists(k, ran)

\* Fault: content the artifact already has gets no row in the new version.
FilesAfterFault(k, ran) ==
  IF InsertsFiles(k, ran)
  THEN files \cup {g \in FileRows(k) :
         \A f \in files : f.artifact = g.artifact => f.sha256 # g.sha256}
  ELSE files

FilesAfter(k, ran) == IF InsertsFiles(k, ran) THEN files \cup FileRows(k) ELSE files

\* 4. UPDATE artifacts SET latest_version.
MovesLatest(k, ran) ==
  /\ Valid(k, 4, ran)
  /\ latest[session[k].artifact] = session[k].base
  /\ VersionExists(k, ran)

LatestAfter(k, ran) ==
  IF MovesLatest(k, ran)
  THEN [latest EXCEPT ![session[k].artifact] = NewVersion(k)]
  ELSE latest

\* Fault: the commit marker is guarded by the status alone.
PublishesFault(k, ran) == session[k].status = "pending"

\* 5. UPDATE artifact_upload_sessions SET status = 'published', the commit
\* marker: the artifact's latest version is one this session made.
Publishes(k, ran) ==
  LET a == session[k].artifact IN
  /\ Valid(k, 5, ran)
  /\ a \in ArtifactsAfter(k, ran)
  /\ \E v \in DOMAIN VersionsAfter(k, ran)[a] :
       /\ VersionsAfter(k, ran)[a][v].session = k
       /\ LatestAfter(k, ran)[a] = v

\* A primary key violation throws and rolls the whole batch back.
ViolatesPrimaryKey(k, ran) ==
  \/ InsertsArtifact(k, ran) /\ session[k].artifact \in artifacts
  \/ InsertsVersion(k, ran) /\ NewVersion(k) \in DOMAIN versions[session[k].artifact]
  \/ /\ InsertsFiles(k, ran)
     /\ \E f \in files, g \in FileRows(k) :
          f.artifact = g.artifact /\ f.version = g.version /\ f.path = g.path

\* The batch commits.  Its answer may be lost on the way back, which the
\* caller cannot tell from a rollback.
CommitBatch(r) ==
  LET k == request[r].key IN
  /\ At(r, "batch")
  /\ NewVersion(k) <= MaxVersion
  /\ \E ran \in 0..5 :
       /\ BatchClock(k, ran)
       /\ ~ViolatesPrimaryKey(k, ran)
       /\ artifacts' = ArtifactsAfter(k, ran)
       /\ versions' = VersionsAfter(k, ran)
       /\ files' = FilesAfter(k, ran)
       /\ latest' = LatestAfter(k, ran)
       /\ IF Publishes(k, ran)
          THEN /\ session' = [session EXCEPT ![k].status = "published"]
               /\ Answer(r, "OK") \/ Goto(r, "classify")
          ELSE /\ UNCHANGED session
               /\ Goto(r, "classify")
  /\ UNCHANGED <<uploaded, blobs>>

\* The batch throws: a key violation, or D1 is unavailable.
RollbackBatch(r) ==
  /\ At(r, "batch")
  /\ Goto(r, "classify")
  /\ UNCHANGED <<now, session, uploaded, catalogVars, blobs>>

ClassifyPublishFailure(r) ==
  LET k == request[r].key IN
  /\ At(r, "classify")
  /\ Answer(r, CASE session[k].status = "published" -> "OK"
                 [] session[k].status # "published" /\ IsSessionExpired(k)
                      -> "SESSION_EXPIRED"
                 [] OTHER -> "PUBLISH_CONFLICT")
  /\ UNCHANGED <<now, session, uploaded, catalogVars, blobs>>

-----------------------------------------------------------------------------
(* The environment.                                                        *)

\* The answer is delivered or lost, or the request dies half way (an error of
\* D1 or R2, a closed connection, an evicted isolate).
EndRequest(r) ==
  /\ ~At(r, "idle")
  /\ request' = [request EXCEPT ![r] = Idle]
  /\ UNCHANGED <<now, session, uploaded, catalogVars, blobs>>

Tick ==
  /\ now < MaxTime
  /\ now' = now + 1
  /\ UNCHANGED <<session, uploaded, catalogVars, blobs, request>>

RequestStep(r) ==
  \/ \E k \in Keys, a \in Artifacts \cup {NoArtifact}, base \in 0..MaxVersion, tree \in Trees :
       base < MaxVersion /\ CreateArtifactUpload(r, k, a, base, tree)
  \/ CreateUploadSession(r)
  \/ \E k \in Keys, p \in Paths : UploadArtifactFile(r, k, p)
  \/ PutBlob(r)
  \/ RecordUploadedFile(r)
  \/ \E k \in Keys : FinalizeArtifactUpload(r, k)
  \/ ListUploadedPaths(r)
  \/ PublishUploadSession(r)
  \/ ExpiresMeanwhile(r)
  \/ CommitBatch(r)
  \/ RollbackBatch(r)
  \/ ClassifyPublishFailure(r)
  \/ EndRequest(r)

Next == Tick \/ \E r \in Requests : RequestStep(r)

Spec == Init /\ [][Next]_vars

-----------------------------------------------------------------------------
(* Properties.                                                             *)

\* Every table holds rows of its schema, recorded paths are paths of their
\* session's manifest, and a request that is past its first step belongs to
\* a session row.
TypeOK ==
  /\ now \in 0..MaxTime
  /\ session \in [Keys -> Session \cup {NoSession}]
  /\ uploaded \in [Keys -> SUBSET Paths]
  /\ artifacts \subseteq Artifacts
  /\ latest \in [Artifacts -> 0..MaxVersion]
  /\ DOMAIN versions = Artifacts
  /\ files \subseteq FileRow
  /\ blobs \subseteq Artifacts \X Hashes
  /\ request \in [Requests -> Request]

\* Session k has a row in artifact_versions; its version is in the history of
\* the artifact, up to latest_version.
HasVersion(k) ==
  /\ Exists(k)
  /\ NewVersion(k) \in DOMAIN versions[session[k].artifact]
  /\ versions[session[k].artifact][NewVersion(k)] = VersionRow(k)

Visible(k) == HasVersion(k) /\ NewVersion(k) <= latest[session[k].artifact]

Published(k) == Exists(k) /\ session[k].status = "published"

\* No statement will ever again find the session in time and pending.
Over(k) ==
  /\ Exists(k)
  /\ session[k].status = "expired" \/ Second[session[k].expiresAt] <= Second[now]

\* latest_version is the newest of a gap-free numbering 1, 2, ... whatever
\* uploads raced: no number is skipped, and above latest_version there is at
\* most the next number, left by a batch that the expiry of its session cut.
GapFreeHistory ==
  \A a \in Artifacts :
    /\ 1..latest[a] \subseteq DOMAIN versions[a]
    /\ DOMAIN versions[a] \subseteq 1..(latest[a] + 1)
    /\ DOMAIN versions[a] # {} => a \in artifacts

\* A published session has its version in the history, and every version, in
\* the history or above it, is the successor of the base its session declared,
\* on the artifact and with the tree it declared: finalizing twice never makes
\* two versions, and no update is applied on top of a version its author did
\* not see.  A version whose session is not published is of a session that is
\* over: it will never be finished, nor moved into the history.
PublishedOnce ==
  /\ \A k \in Keys : Published(k) => Visible(k)
  /\ \A a \in Artifacts : \A v \in DOMAIN versions[a] :
       LET k == versions[a][v].session IN
         /\ HasVersion(k)
         /\ session[k].artifact = a
         /\ NewVersion(k) = v
         /\ Published(k) \/ Over(k)

FilesOf(a, v) == {f \in files : f.artifact = a /\ f.version = v}

\* Every version of the history has in artifact_files the rows of the manifest
\* of the session that made it, and no others.  What lies above latest_version
\* has them all or none, and no file is without its version.
VersionsComplete ==
  /\ \A a \in Artifacts : \A v \in DOMAIN versions[a] :
       LET rows == FileRows(versions[a][v].session) IN
         /\ v <= latest[a] => FilesOf(a, v) = rows
         /\ FilesOf(a, v) \in {{}, rows}
  /\ \A f \in files : f.version \in DOMAIN versions[f.artifact]

\* Finalize trusts the recorded paths and never looks at R2: whatever it
\* publishes, and whatever it could still publish, is stored.
PublishedBlobsStored ==
  /\ \A f \in files : Blob(f.artifact, f.sha256) \in blobs
  /\ \A k \in Keys : \A p \in uploaded[k] : BlobOf(k, p) \in blobs

\* What finalizeArtifactUpload answers stays true, however long the answer is
\* on its way and whatever races, retries and lost answers there are: after OK
\* the session's version is in the history; after SESSION_EXPIRED no batch
\* writes anything for the session any more, so what a client that starts over
\* with a new key finds of the old one is all there will ever be.
AnswersAreFinal ==
  [][\A r \in Requests : At(r, "done") /\ At(r, "done")' =>
       LET k == request[r].key IN
         /\ request[r].code = "OK" => Visible(k) /\ Visible(k)'
         /\ request[r].code = "SESSION_EXPIRED" =>
              /\ HasVersion(k)' = HasVersion(k)
              /\ Visible(k)' = Visible(k)]_vars

\* The tables implement compare-and-append: versions are only ever appended,
\* to the version their upload declared.  The log is the history up to
\* latest_version; the statement that moves it publishes.
History ==
  INSTANCE ArtifactHistory WITH
    Uploads <- Keys,
    Undeclared <- NoSession,
    declared <- [k \in Keys |->
      IF Exists(k)
      THEN [artifact |-> session[k].artifact, base |-> session[k].base,
            tree |-> session[k].tree]
      ELSE NoSession],
    log <- [a \in Artifacts |-> [v \in 1..latest[a] |-> versions[a][v]]]

ImplementsHistory == History!Spec
=============================================================================
