---------------------------- MODULE PublishClient ----------------------------
(***************************************************************************)
(* One `tm artifact publish` (ArtifactFlow::publish of the CLI) against    *)
(* the server of ArtifactPublish, which other clients use too.  A call may *)
(* time out while the server still works on it, or while it is still on    *)
(* its way, and is then sent again; after SESSION_EXPIRED the command      *)
(* starts over with a new idempotency key.  Token refreshes and local      *)
(* files are left out.                                                     *)
(***************************************************************************)
EXTENDS ArtifactPublish, FiniteSets

CONSTANTS
  FirstKey, SecondKey,  \* the keys the command makes up
  MaxRetries,           \* max_retries of the RetryPolicy
  MaxLate,              \* bound on the kinds of calls given up
  Nobody                \* the server works on no call of the command

ASSUME ClientAssumption ==
  /\ FirstKey \in Keys /\ SecondKey \in Keys /\ FirstKey # SecondKey
  /\ MaxRetries \in Nat /\ MaxLate \in Nat
  /\ Nobody \notin Requests

VARIABLES
  want,  \* PublishRequest: artifact, base version and tree
  cmd,   \* the command
  late,  \* calls the command gave up on, which may still reach the server
  mishaps  \* history: keys with what went wrong on the server's side

clientVars == <<vars, want, cmd, late, mishaps>>

ClientKeys == {FirstKey, SecondKey}

\* Not run yet; about to make a call ("create", "upload", "finalize") or waiting
\* for its answer, where `via` is the request of the server that works on it and
\* `missing` the paths still to be sent; or ended ("ok", "noop", "conflict",
\* "failed").
NotRun == [at |-> "idle"]

Calling == cmd.at \in {"create", "upload", "finalize"}

Calls(step) == cmd.at = step /\ cmd.via = Nobody

Awaits(r) == Calling /\ cmd.via = r

\* The next call.
Turn(step, round, missing) ==
  cmd' = [at |-> step, key |-> cmd.key, round |-> round, missing |-> missing,
          via |-> Nobody, tries |-> 0]

End(how) == cmd' = [at |-> how, key |-> cmd.key]

\* SESSION_EXPIRED: once more with a new key.
StartOver ==
  IF cmd.key = FirstKey
  THEN cmd' = [at |-> "create", key |-> SecondKey, round |-> 0, missing |-> {},
               via |-> Nobody, tries |-> 0]
  ELSE End("failed")

-----------------------------------------------------------------------------
(* The command.                                                            *)

Publish(a, base, tree) ==
  /\ cmd = NotRun
  /\ \/ base = 0 /\ a = NoArtifact
     \/ a \in artifacts /\ base \in 1..latest[a]
  /\ want' = [artifact |-> a, base |-> base, tree |-> tree]
  /\ cmd' = [at |-> "create", key |-> FirstKey, round |-> 0, missing |-> {},
             via |-> Nobody, tries |-> 0]
  /\ UNCHANGED <<vars, late, mishaps>>

CallServer(r) ==
  /\ \/ Calls("create")
          /\ CreateArtifactUpload(r, cmd.key, want.artifact, want.base, want.tree)
     \/ Calls("upload") /\ \E p \in cmd.missing : UploadArtifactFile(r, cmd.key, p)
     \/ Calls("finalize") /\ FinalizeArtifactUpload(r, cmd.key)
  /\ cmd' = [cmd EXCEPT !.via = r]
  /\ UNCHANGED <<want, late, mishaps>>

\* The session create answered with; status and uploadedPaths are the row's.
TakeSession(row, paths) ==
  CASE row.status = "published" -> Turn("finalize", 1, {})
    [] row.status = "expired" -> StartOver
    [] row.status = "pending" ->
         LET missing == DOMAIN Manifest[row.tree] \ paths IN
         Turn(IF missing = {} THEN "finalize" ELSE "upload", cmd.round, missing)

SessionCreated(r) ==
  /\ Awaits(r)
  /\ CreateUploadSession(r)
  /\ TakeSession(session'[cmd.key], uploaded[cmd.key])
  /\ UNCHANGED <<want, late, mishaps>>

\* What create answers without a write: the session there is, a stale base
\* version, or an unchanged tree.
CreateAnswered ==
  /\ Calls("create")
  /\ \/ Exists(cmd.key) /\ TakeSession(session[cmd.key], uploaded[cmd.key])
     \/ /\ ~Exists(cmd.key) /\ want.base > 0
        /\ \/ latest[want.artifact] # want.base /\ End("conflict")
           \/ /\ latest[want.artifact] = want.base
              /\ versions[want.artifact][want.base].tree = want.tree
              /\ End("noop")
  /\ UNCHANGED <<vars, want, late, mishaps>>

FileUploaded(r) ==
  /\ Awaits(r)
  /\ RecordUploadedFile(r)
  /\ LET missing == cmd.missing \ {request[r].path} IN
     Turn(IF missing = {} THEN "finalize" ELSE "upload", cmd.round, missing)
  /\ UNCHANGED <<want, late, mishaps>>

Overtaken(keys) == {<<k, "overtaken">> : k \in {j \in keys : Published(j)}}

\* The clock passes expires_at after uploadArtifactFile has read the session:
\* SESSION_EXPIRED, although a late finalize may have published it since.
UploadExpires(r) ==
  /\ Awaits(r) /\ At(r, "store") /\ PastExpiry(cmd.key)
  /\ EndRequest(r)
  /\ StartOver
  /\ mishaps' = mishaps \cup Overtaken({cmd.key})
  /\ UNCHANGED <<want, late>>

\* SESSION_NOT_PENDING: finalize to find out; SESSION_EXPIRED.
UploadRefused ==
  /\ Calls("upload")
  /\ \/ session[cmd.key].status = "published" /\ Turn("finalize", 1, {})
     \/ session[cmd.key].status # "published" /\ IsSessionExpired(cmd.key) /\ StartOver
  /\ UNCHANGED <<vars, want, late, mishaps>>

\* Fault: a conflict is tried again with a new key.
FinalizeAnsweredFault(r) ==
  /\ Awaits(r) /\ At(r, "done")
  /\ EndRequest(r)
  /\ CASE request[r].code = "OK" -> End("ok")
       [] request[r].code \in {"SESSION_EXPIRED", "PUBLISH_CONFLICT"} -> StartOver
       [] request[r].code = "UPLOAD_INCOMPLETE" ->
            IF cmd.round = 0 THEN Turn("create", 1, {}) ELSE End("failed")
  /\ UNCHANGED <<want, late, mishaps>>

FinalizeAnswered(r) ==
  /\ Awaits(r) /\ At(r, "done")
  /\ EndRequest(r)
  /\ CASE request[r].code = "OK" -> End("ok")
       [] request[r].code = "SESSION_EXPIRED" -> StartOver
       [] request[r].code = "PUBLISH_CONFLICT" -> End("conflict")
       [] request[r].code = "UPLOAD_INCOMPLETE" ->
            IF cmd.round = 0 THEN Turn("create", 1, {}) ELSE End("failed")
  /\ UNCHANGED <<want, late, mishaps>>

\* Send the call again, or give up on it and with it on the command.
Retry ==
  /\ IF cmd.tries < MaxRetries
     THEN cmd' = [cmd EXCEPT !.via = Nobody, !.tries = @ + 1]
     ELSE End("failed")
  /\ late' = late \cup {<<cmd.key, cmd.at>>}
  /\ Cardinality(late') <= MaxLate
  /\ UNCHANGED <<want, mishaps>>

\* A timeout, 429, a connection that fails: the server may go on.
TimeOut == Calling /\ Retry /\ UNCHANGED vars

\* 5xx: the server has given up on the call.
CallFails(r) == Awaits(r) /\ EndRequest(r) /\ Retry

-----------------------------------------------------------------------------
(* The rest of the system.                                                 *)

KindOf(q) ==
  CASE q.at = "insert" -> "create"
    [] q.at = "store" -> "upload"
    [] OTHER -> "finalize"

\* Nobody else knows the command's keys; its own late calls may arrive.
FromTheCommand(q) ==
  /\ <<q.key, KindOf(q)>> \in late
  /\ q.at = "insert" =>
       [artifact |-> q.artifact, base |-> q.base, tree |-> q.tree] = want

\* A batch that would have published does not run.
FailsForNoReason(r) ==
  /\ At(r, "batch") /\ request'[r].at = "classify"
  /\ UNCHANGED <<now, session>>
  /\ LET k == request[r].key IN
       /\ InTime(k, now) /\ Publishes(k, 5)
       /\ NewVersion(k) \notin DOMAIN versions[session[k].artifact]

\* A finalize that read the session in time is answered SESSION_EXPIRED.
FoundExpired(r) ==
  /\ request[r].at \in {"list", "batch", "done"} /\ request'[r] # request[r]
  /\ request'[r].at = "done" /\ request'[r].code = "SESSION_EXPIRED"

ServerRuns ==
  /\ Next
  /\ \A r \in Requests :
       /\ At(r, "idle") /\ request'[r] # Idle /\ request'[r].key \in ClientKeys
            => FromTheCommand(request'[r])
       /\ Awaits(r) => request'[r] # Idle
  /\ mishaps' = mishaps
       \cup {<<request[r].key, "failed">> : r \in {q \in Requests : FailsForNoReason(q)}}
       \cup Overtaken({request[r].key : r \in {q \in Requests : FoundExpired(q)}})
  /\ UNCHANGED <<want, cmd, late>>

\* ArtifactCleanup marks what has been expired for long.
MarkExpired(k) ==
  /\ Exists(k)
  /\ session[k].status = "pending"
  /\ Second[session[k].expiresAt] < Second[now]
  /\ session' = [session EXCEPT ![k].status = "expired"]
  /\ UNCHANGED <<now, uploaded, catalogVars, blobs, request, want, cmd, late, mishaps>>

ClientStep ==
  \/ \E a \in Artifacts \cup {NoArtifact}, base \in 0..MaxVersion, tree \in Trees :
       base < MaxVersion /\ Publish(a, base, tree)
  \/ \E r \in Requests :
       \/ CallServer(r) \/ SessionCreated(r) \/ FileUploaded(r) \/ UploadExpires(r)
       \/ FinalizeAnswered(r) \/ CallFails(r)
  \/ CreateAnswered
  \/ UploadRefused
  \/ TimeOut

ClientInit ==
  /\ Init
  /\ want = NoSession
  /\ cmd = NotRun
  /\ late = {}
  /\ mishaps = {}

ClientNext == ClientStep \/ ServerRuns \/ \E k \in Keys : MarkExpired(k)

ClientSpec == ClientInit /\ [][ClientNext]_clientVars

-----------------------------------------------------------------------------

\* The three ways the server has of telling the command that a version it has
\* made is none: the expiry cut the batch after latest_version moved and before
\* the session was marked; a finalize was overtaken; a batch failed and a late
\* call of the same session succeeded.
CutAfterLatest(k) == Visible(k) /\ ~Published(k)

Misreported(k) ==
  CutAfterLatest(k) \/ <<k, "failed">> \in mishaps \/ <<k, "overtaken">> \in mishaps

\* One command makes at most one version of the artifact it updates, whatever
\* it sends twice and however late it arrives: it takes a new key only when the
\* old one can publish no more (artifact_flow.rs:217).  A command that creates
\* an artifact makes a second one only when it is told that the first session
\* had expired although its version is there.
PublishesAtMostOnce ==
  Visible(FirstKey) /\ Visible(SecondKey) =>
    /\ want.base = 0
    /\ CutAfterLatest(FirstKey) \/ <<FirstKey, "overtaken">> \in mishaps

\* What the command reports is so: a success is a version of the history with
\* its tree on the version it named; after "no changes" or a conflict it has
\* made no version and never will, unless the server misreported one
\* (artifact_flow.rs:257, d1-artifact-repository.ts classifyPublishFailure).
ReportsAreTrue ==
  /\ cmd.at = "ok" =>
       \E a \in artifacts : \E v \in 1..latest[a] :
         /\ versions[a][v] = [session |-> cmd.key, tree |-> want.tree]
         /\ v = want.base + 1
         /\ want.base > 0 => a = want.artifact
  /\ cmd.at = "noop" => \A k \in ClientKeys : ~Visible(k)
  /\ cmd.at = "conflict" => \A k \in ClientKeys : Visible(k) => Misreported(k)
=============================================================================
