---------------------------- MODULE ArtifactProofs ----------------------------
(***************************************************************************)
(* Machine-checked proofs about ArtifactPublish, about ArtifactCleanup and *)
(* ArtifactRemnants (what the two stages of the job may take from the      *)
(* requests they run against, and what they may leave behind) and about    *)
(* PublishClient, for any number of keys, artifacts, trees and requests.   *)
(***************************************************************************)
EXTENDS ArtifactRemnants, PublishClient, Sequences, SequenceTheorems, FiniteSetTheorems,
        TLAPS


(***************************************************************************)
(* ArtifactPublish: the inductive invariant.                               *)
(***************************************************************************)

\* Every row of artifact_versions is one of the table, and of a session that had
\* every path recorded.
VersionRows ==
  \A a \in Artifacts : \A v \in DOMAIN versions[a] :
    versions[a][v] \in VersionRecord /\ AllUploaded(versions[a][v].session)

\* What a request in flight may rely on, whatever the other requests and the
\* cleanup do: its session exists, a finalize that passed its check has every
\* file recorded, and what it answered is true.
RequestOK(q) ==
  /\ q.at \notin {"idle", "insert"} => Exists(q.key)
  /\ q.at \in {"store", "record"} => q.path \in ManifestPaths(q.key)
  /\ q.at \in {"publish", "batch"} => AllUploaded(q.key)
  /\ q.at = "done" /\ q.code = "OK" => Published(q.key)
  /\ q.at = "done" /\ q.code = "SESSION_EXPIRED" => Over(q.key)

RequestInv == \A r \in Requests : RequestOK(request[r])

\* A recorded path is a path of the session's manifest; a published session has
\* every path recorded.
UploadInv ==
  \A k \in Keys :
    /\ \A p \in uploaded[k] : Exists(k) /\ p \in ManifestPaths(k)
    /\ Published(k) => AllUploaded(k)

IInv ==
  /\ TypeOK
  /\ VersionRows
  /\ GapFreeHistory
  /\ PublishedOnce
  /\ VersionsComplete
  /\ UploadInv
  /\ RequestInv

-----------------------------------------------------------------------------

\* Every version was made by some session.
LEMMA VersionHasSession ==
  ASSUME VersionRows, NEW a \in Artifacts, NEW v \in DOMAIN versions[a]
  PROVE  versions[a][v] \in VersionRecord /\ versions[a][v].session \in Keys
<1>1. versions[a][v] \in VersionRecord
  BY DEF VersionRows
<1>. QED
  BY <1>1 DEF VersionRecord

THEOREM InitInv == Init => IInv
<1>. SUFFICES ASSUME Init PROVE IInv
  OBVIOUS
<1>. USE DEF Init
<1>1. TypeOK
  BY ClockAssumption DEF TypeOK, Request, Idle
<1>2. \A a \in Artifacts : DOMAIN versions[a] = {}
  OBVIOUS
<1>3. VersionRows /\ GapFreeHistory
  BY <1>2 DEF VersionRows, GapFreeHistory
<1>4. PublishedOnce
  BY <1>2 DEF PublishedOnce, Published, Exists
<1>5. VersionsComplete
  BY <1>2 DEF VersionsComplete
<1>6. RequestInv /\ UploadInv
  BY DEF RequestInv, RequestOK, UploadInv, Published, Exists, Idle
<1>. QED
  BY <1>1, <1>3, <1>4, <1>5, <1>6 DEF IInv

-----------------------------------------------------------------------------
(* Steps.                                                                  *)

\* What no step undoes.
Evolves ==
  /\ now <= now' /\ now' \in 0..MaxTime
  /\ \A k \in Keys : Exists(k) =>
       /\ Exists(k)'
       /\ session'[k].artifact = session[k].artifact
       /\ session'[k].base = session[k].base
       /\ session'[k].tree = session[k].tree
       /\ session'[k].expiresAt = session[k].expiresAt
       /\ \/ session'[k].status = session[k].status
          \/ session'[k].status = "published" /\ ~Over(k)
          \/ session'[k].status = "expired" /\ session[k].status = "pending"
  /\ \A k \in Keys : uploaded[k] \subseteq uploaded'[k]

\* A session is over, or published, for good.
LEMMA OverStays ==
  ASSUME TypeOK, Evolves, NEW k \in Keys
  PROVE  (Over(k) => Over(k)') /\ (Published(k) => Published(k)')
<1>. SUFFICES ASSUME Exists(k) PROVE (Over(k) => Over(k)') /\ (Published(k) => Published(k)')
  BY DEF Over, Published
<1>1. /\ Exists(k)' /\ session'[k].expiresAt = session[k].expiresAt
      /\ Over(k) => session'[k].status \in {session[k].status, "expired"}
      /\ Published(k) => session'[k].status = "published"
  BY DEF Evolves, Published
<1>2. Second[now] <= Second[now'] /\ Second[now] \in Nat /\ Second[now'] \in Nat
  BY ClockAssumption DEF TypeOK, Evolves
<1>3. Second[session[k].expiresAt] \in Nat
  BY ClockAssumption DEF TypeOK, Exists, Session
<1>. QED
  BY <1>1, <1>2, <1>3 DEF Over, Published

\* What a session stands for never changes.
LEMMA FieldsStay ==
  ASSUME Evolves, NEW k \in Keys, Exists(k)
  PROVE  /\ Exists(k)' /\ session'[k].artifact = session[k].artifact
         /\ NewVersion(k)' = NewVersion(k) /\ VersionRow(k)' = VersionRow(k)
         /\ FileRows(k)' = FileRows(k) /\ ManifestPaths(k)' = ManifestPaths(k)
<1>1. /\ Exists(k)' /\ session'[k].artifact = session[k].artifact
      /\ session'[k].base = session[k].base /\ session'[k].tree = session[k].tree
  BY DEF Evolves
<1>. QED
  BY <1>1 DEF NewVersion, VersionRow, FileRows, ManifestPaths

\* A version of a session stays its version while its row is there.
LEMMA VersionStays ==
  ASSUME Evolves, NEW k \in Keys, HasVersion(k),
         NewVersion(k) \in DOMAIN versions'[session[k].artifact],
         versions'[session[k].artifact][NewVersion(k)]
           = versions[session[k].artifact][NewVersion(k)]
  PROVE  HasVersion(k)'
<1>1. Exists(k)
  BY DEF HasVersion
<1>2. /\ Exists(k)' /\ session'[k].artifact = session[k].artifact
      /\ NewVersion(k)' = NewVersion(k) /\ VersionRow(k)' = VersionRow(k)
  BY <1>1, FieldsStay
<1>. QED
  BY <1>2 DEF HasVersion

\* A step that leaves versions, files and latest versions alone and publishes
\* no session keeps what the invariant says of them.
LEMMA CatalogKeeps ==
  ASSUME IInv, Evolves, UNCHANGED <<latest, versions, files>>, artifacts \subseteq artifacts',
         \A k \in Keys : Published(k)' => Published(k)
  PROVE  VersionRows' /\ GapFreeHistory' /\ PublishedOnce' /\ VersionsComplete'
<1>1. GapFreeHistory'
  BY DEF IInv, GapFreeHistory
<1>2. \A k \in Keys : HasVersion(k) => HasVersion(k)' /\ session'[k].artifact = session[k].artifact
                                       /\ NewVersion(k)' = NewVersion(k)
  <2>. SUFFICES ASSUME NEW k \in Keys, HasVersion(k)
                PROVE  /\ HasVersion(k)' /\ session'[k].artifact = session[k].artifact
                       /\ NewVersion(k)' = NewVersion(k)
    OBVIOUS
  <2>1. HasVersion(k)'
    BY VersionStays DEF HasVersion
  <2>. QED
    BY <2>1, FieldsStay DEF HasVersion
<1>3. ASSUME NEW k \in Keys, Published(k)' PROVE Visible(k)'
  <2>1. Visible(k)
    BY <1>3 DEF IInv, PublishedOnce
  <2>. QED
    BY <1>2, <2>1 DEF Visible
<1>4. ASSUME NEW a \in Artifacts, NEW v \in DOMAIN versions[a]
      PROVE  \E k \in Keys : /\ k = versions[a][v].session /\ HasVersion(k) /\ HasVersion(k)'
                             /\ session'[k].artifact = a /\ NewVersion(k)' = v
                             /\ Published(k)' \/ Over(k)'
  <2>1. PICK k \in Keys : k = versions[a][v].session
    BY VersionHasSession DEF IInv
  <2>2. /\ HasVersion(k) /\ session[k].artifact = a /\ NewVersion(k) = v
        /\ Published(k) \/ Over(k)
    BY <2>1 DEF IInv, PublishedOnce
  <2>3. Published(k)' \/ Over(k)'
    BY <2>2, OverStays DEF IInv
  <2>. QED
    BY <1>2, <2>1, <2>2, <2>3
<1>5. PublishedOnce'
  <2>1. \A a \in Artifacts : \A v \in DOMAIN versions'[a] :
          /\ HasVersion(versions[a][v].session)'
          /\ session'[versions'[a][v].session].artifact = a
          /\ NewVersion(versions[a][v].session)' = v
          /\ Published(versions[a][v].session)' \/ Over(versions[a][v].session)'
    BY <1>4
  <2>. QED
    BY <1>3, <2>1 DEF PublishedOnce
<1>6. \A a \in Artifacts : \A v \in DOMAIN versions[a] :
        FileRows(versions[a][v].session)' = FileRows(versions[a][v].session)
  <2>. SUFFICES ASSUME NEW a \in Artifacts, NEW v \in DOMAIN versions[a]
                PROVE  FileRows(versions[a][v].session)' = FileRows(versions[a][v].session)
    OBVIOUS
  <2>1. PICK k \in Keys : k = versions[a][v].session /\ HasVersion(k)
    BY <1>4
  <2>2. FileRows(k)' = FileRows(k)
    BY <2>1, FieldsStay DEF HasVersion
  <2>. QED
    BY <2>1, <2>2 DEF FileRows, NewVersion, ManifestPaths
<1>7. VersionsComplete'
  BY <1>6 DEF IInv, VersionsComplete, FilesOf, FileRows, NewVersion, ManifestPaths
<1>8. VersionRows'
  <2>. SUFFICES ASSUME NEW a \in Artifacts, NEW v \in DOMAIN versions[a]
                PROVE  /\ versions[a][v] \in VersionRecord
                       /\ ManifestPaths(versions[a][v].session)'
                            \subseteq uploaded'[versions[a][v].session]
    BY DEF VersionRows, VersionRecord, AllUploaded, ManifestPaths
  <2>1. PICK k \in Keys : k = versions[a][v].session /\ HasVersion(k)
    BY <1>4
  <2>2. ManifestPaths(k)' = ManifestPaths(k) /\ uploaded[k] \subseteq uploaded'[k]
    BY <2>1, FieldsStay DEF HasVersion, Evolves
  <2>3. versions[a][v] \in VersionRecord /\ ManifestPaths(k) \subseteq uploaded[k]
    BY <2>1 DEF IInv, VersionRows, AllUploaded
  <2>. QED
    BY <2>1, <2>2, <2>3 DEF ManifestPaths
<1>. QED
  BY <1>1, <1>5, <1>7, <1>8

\* Recorded paths stay paths of the manifest when none is added.
LEMMA UploadsKeep ==
  ASSUME IInv, Evolves, UNCHANGED uploaded,
         \A k \in Keys : Published(k)' => Published(k) \/ (Exists(k) /\ AllUploaded(k))
  PROVE  UploadInv'
<1>. SUFFICES ASSUME NEW k \in Keys
              PROVE  /\ \A p \in uploaded[k] : Exists(k)' /\ p \in ManifestPaths(k)'
                     /\ Published(k)' => AllUploaded(k)'
  BY DEF UploadInv
<1>1. Exists(k) => Exists(k)' /\ ManifestPaths(k)' = ManifestPaths(k)
  BY FieldsStay
<1>2. /\ \A p \in uploaded[k] : Exists(k) /\ p \in ManifestPaths(k)
      /\ Published(k) => AllUploaded(k)
  BY DEF IInv, UploadInv
<1>3. CASE Exists(k)
  BY <1>1, <1>2, <1>3 DEF AllUploaded
<1>4. CASE ~Exists(k)
  BY <1>2, <1>4 DEF Published
<1>. QED
  BY <1>3, <1>4

-----------------------------------------------------------------------------
(* Requests.                                                               *)

\* Nothing another request does takes away what a request relies on.
LEMMA RequestStable ==
  ASSUME TypeOK, Evolves, NEW q \in Request, RequestOK(q)
  PROVE  RequestOK(q)'
<1>1. q.at \notin {"idle", "insert"} => q.key \in Keys
  BY DEF Request, Idle
<1>2. CASE q.at \in {"idle", "insert"}
  BY <1>2 DEF RequestOK
<1>3. CASE q.at \notin {"idle", "insert"}
  <2>. DEFINE k == q.key
  <2>1. k \in Keys /\ Exists(k) /\ Exists(k)'
    BY <1>1, <1>3 DEF RequestOK, Evolves
  <2>2. ManifestPaths(k)' = ManifestPaths(k)
    BY <2>1, FieldsStay
  <2>3. q.at \in {"store", "record"} => q.path \in ManifestPaths(k)'
    BY <2>2 DEF RequestOK
  <2>4. q.at \in {"publish", "batch"} => AllUploaded(k)'
    BY <2>1, <2>2 DEF RequestOK, Evolves, AllUploaded
  <2>5. /\ q.at = "done" /\ q.code = "OK" => Published(k)'
        /\ q.at = "done" /\ q.code = "SESSION_EXPIRED" => Over(k)'
    BY <2>1, OverStays DEF RequestOK
  <2>. QED
    BY <2>1, <2>3, <2>4, <2>5 DEF RequestOK
<1>. QED
  BY <1>2, <1>3

\* So a step only has to account for the request it moves.
LEMMA RequestMoves ==
  ASSUME TypeOK, Evolves, RequestInv, NEW r \in Requests, NEW q \in Request,
         request' = [request EXCEPT ![r] = q], RequestOK(q)'
  PROVE  RequestInv' /\ request' \in [Requests -> Request]
<1>1. request \in [Requests -> Request]
  BY DEF TypeOK
<1>2. request' \in [Requests -> Request]
  BY <1>1
<1>3. ASSUME NEW i \in Requests PROVE RequestOK(request[i])'
  <2>1. CASE i = r
    BY <1>1, <2>1
  <2>2. CASE i # r
    <3>1. request'[i] = request[i]
      BY <1>1, <2>2
    <3>2. RequestOK(request[i]) /\ request[i] \in Request
      BY <1>1 DEF RequestInv
    <3>. DEFINE p == request[i]
    <3>3. RequestOK(p) /\ p \in Request
      BY <3>2
    <3>. QED
      BY <3>1, <3>2, RequestStable DEF RequestOK
  <2>. QED
    BY <2>1, <2>2
<1>. QED
  BY <1>2, <1>3 DEF RequestInv

\* A step that moves one request and otherwise at most the clock.
LEMMA RequestOnly ==
  ASSUME IInv, NEW r \in Requests, NEW q \in Request, RequestOK(q)',
         request' = [request EXCEPT ![r] = q],
         now' \in {now, now + 1}, now' <= MaxTime,
         artifacts \subseteq artifacts', artifacts' \subseteq Artifacts,
         UNCHANGED <<session, uploaded, latest, versions, files, blobs>>
  PROVE  IInv'
<1>1. now \in Nat /\ now' \in 0..MaxTime /\ now <= now'
  BY ClockAssumption DEF IInv, TypeOK
<1>2. Evolves
  BY <1>1 DEF Evolves, Exists
<1>3. RequestInv' /\ request' \in [Requests -> Request]
  BY <1>2, RequestMoves DEF IInv
<1>4. TypeOK'
  BY <1>1, <1>3 DEF IInv, TypeOK
<1>5. \A k \in Keys : Published(k)' => Published(k)
  BY DEF Published, Exists
<1>6. VersionRows' /\ GapFreeHistory' /\ PublishedOnce' /\ VersionsComplete'
  BY <1>2, <1>5, CatalogKeeps
<1>7. UploadInv'
  BY <1>2, <1>5, UploadsKeep
<1>. QED
  BY <1>3, <1>4, <1>6, <1>7 DEF IInv

\* A step that moves one request and writes nothing.
LEMMA RequestAlone ==
  ASSUME IInv, NEW r \in Requests, NEW q \in Request, RequestOK(q),
         request' = [request EXCEPT ![r] = q],
         UNCHANGED <<now, session, uploaded, catalogVars, blobs>>
  PROVE  IInv'
<1>1. RequestOK(q)'
  BY DEF RequestOK, Exists, ManifestPaths, AllUploaded, Published, Over
<1>2. now' \in {now, now + 1} /\ now' <= MaxTime /\ artifacts' = artifacts /\ artifacts \subseteq Artifacts
  BY ClockAssumption DEF IInv, TypeOK, catalogVars
<1>. QED
  BY <1>1, <1>2, RequestOnly DEF catalogVars

-----------------------------------------------------------------------------
(* The steps of requests that write nothing.                               *)

\* The shapes of a request, by where it is.
LEMMA RequestShape ==
  ASSUME TypeOK, NEW r \in Requests
  PROVE  /\ request[r] \in Request
         /\ At(r, "insert") => request[r] \in
              [at : {"insert"}, key : Keys, artifact : Artifacts \cup {NoArtifact},
               base : 0..MaxVersion, tree : Trees]
         /\ request[r].at \in {"store", "record"} =>
              request[r] \in [at : {"store", "record"}, key : Keys, path : Paths]
         /\ request[r].at \in {"list", "publish", "batch", "classify"} =>
              request[r] \in [at : {"list", "publish", "batch", "classify"}, key : Keys]
         /\ At(r, "done") => request[r] \in [at : {"done"}, key : Keys, code : Code]
  BY DEF TypeOK, Request, Idle, At

LEMMA AnswerKeeps ==
  ASSUME IInv, NEW r \in Requests, NEW c \in Code, Answer(r, c),
         request[r].at \in {"list", "publish", "batch", "classify", "done"},
         c = "OK" => Published(request[r].key),
         c = "SESSION_EXPIRED" => Over(request[r].key),
         UNCHANGED <<now, session, uploaded, catalogVars, blobs>>
  PROVE  IInv'
<1>. DEFINE q == [at |-> "done", key |-> request[r].key, code |-> c]
<1>1. request[r].key \in Keys
  BY RequestShape DEF IInv, At
<1>2. q \in Request
  BY <1>1 DEF Request
<1>3. RequestOK(request[r])
  BY DEF IInv, RequestInv
<1>4. RequestOK(q)
  BY <1>1, <1>3 DEF RequestOK
<1>5. request' = [request EXCEPT ![r] = q]
  BY DEF Answer
<1>. HIDE DEF q
<1>. QED
  BY <1>2, <1>4, <1>5, RequestAlone

LEMMA GotoKeeps ==
  ASSUME IInv, NEW r \in Requests, NEW step \in {"list", "publish", "batch", "classify"},
         request[r].at \in {"list", "publish", "batch", "classify"}, Goto(r, step),
         step \in {"publish", "batch"} => AllUploaded(request[r].key),
         UNCHANGED <<now, session, uploaded, catalogVars, blobs>>
  PROVE  IInv'
<1>. DEFINE q == [at |-> step, key |-> request[r].key]
<1>1. request[r] \in [at : {"list", "publish", "batch", "classify"}, key : Keys]
  BY RequestShape DEF IInv
<1>2. q \in Request
  BY <1>1 DEF Request
<1>3. RequestOK(request[r])
  BY DEF IInv, RequestInv
<1>4. RequestOK(q)
  BY <1>1, <1>3 DEF RequestOK
<1>5. request' = [request EXCEPT ![r] = q]
  <2>1. [request[r] EXCEPT !.at = step] = q
    BY <1>1
  <2>2. request \in [Requests -> Request]
    BY DEF IInv, TypeOK
  <2>3. request' = [request EXCEPT ![r] = [request[r] EXCEPT !.at = step]]
    BY <2>2 DEF Goto
  <2>. QED
    BY <2>1, <2>3
<1>. HIDE DEF q
<1>. QED
  BY <1>2, <1>4, <1>5, RequestAlone

LEMMA CreateArtifactUploadKeeps ==
  ASSUME IInv, NEW r \in Requests, NEW k \in Keys, NEW a \in Artifacts \cup {NoArtifact},
         NEW base \in 0..MaxVersion, NEW tree \in Trees,
         CreateArtifactUpload(r, k, a, base, tree)
  PROVE  IInv'
<1>. DEFINE q == [at |-> "insert", key |-> k, artifact |-> a, base |-> base, tree |-> tree]
<1>1. q \in Request
  BY DEF Request
<1>2. RequestOK(q)
  BY DEF RequestOK
<1>3. /\ request' = [request EXCEPT ![r] = q]
      /\ UNCHANGED <<now, session, uploaded, catalogVars, blobs>>
  BY DEF CreateArtifactUpload
<1>. HIDE DEF q
<1>. QED
  BY <1>1, <1>2, <1>3, RequestAlone

LEMMA UploadArtifactFileKeeps ==
  ASSUME IInv, NEW r \in Requests, NEW k \in Keys, NEW p \in Paths, UploadArtifactFile(r, k, p)
  PROVE  IInv'
<1>. DEFINE q == [at |-> "store", key |-> k, path |-> p]
<1>1. q \in Request
  BY DEF Request
<1>2. RequestOK(q)
  BY DEF RequestOK, UploadArtifactFile
<1>3. /\ request' = [request EXCEPT ![r] = q]
      /\ UNCHANGED <<now, session, uploaded, catalogVars, blobs>>
  BY DEF UploadArtifactFile
<1>. HIDE DEF q
<1>. QED
  BY <1>1, <1>2, <1>3, RequestAlone

\* A session the use case finds expired is over for the batch too.
LEMMA ExpiredIsOver ==
  ASSUME TypeOK, NEW k \in Keys, Exists(k), IsSessionExpired(k)
  PROVE  Over(k)
<1>1. session[k] \in Session /\ now \in 0..MaxTime
  BY DEF TypeOK, Exists
<1>2. CASE session[k].status = "expired"
  BY <1>2 DEF Over
<1>3. CASE session[k].expiresAt <= now
  <2>1. session[k].expiresAt \in 0..(MaxTime + TTL) /\ now \in 0..(MaxTime + TTL)
    BY <1>1, ClockAssumption DEF Session
  <2>2. Second[session[k].expiresAt] <= Second[now]
    BY <1>3, <2>1, ClockAssumption
  <2>. QED
    BY <2>2 DEF Over
<1>. QED
  BY <1>2, <1>3 DEF IsSessionExpired, PastExpiry

LEMMA FinalizeArtifactUploadKeeps ==
  ASSUME IInv, NEW r \in Requests, NEW k \in Keys, FinalizeArtifactUpload(r, k)
  PROVE  IInv'
<1>. DEFINE expired == [at |-> "done", key |-> k, code |-> "SESSION_EXPIRED"]
            publish == [at |-> "publish", key |-> k]
            list == [at |-> "list", key |-> k]
<1>1. Exists(k) /\ UNCHANGED <<now, session, uploaded, catalogVars, blobs>>
  BY DEF FinalizeArtifactUpload
<1>2. session[k] \in Session
  BY <1>1 DEF IInv, TypeOK, Exists
<1>3. CASE session[k].status = "published"
  <2>1. request' = [request EXCEPT ![r] = publish]
    BY <1>3 DEF FinalizeArtifactUpload
  <2>2. publish \in Request
    BY DEF Request
  <2>3. RequestOK(publish)
    BY <1>1, <1>3 DEF RequestOK, IInv, UploadInv, Published
  <2>. HIDE DEF publish
  <2>. QED
    BY <1>1, <2>1, <2>2, <2>3, RequestAlone
<1>4. CASE session[k].status = "pending" /\ ~PastExpiry(k)
  <2>1. request' = [request EXCEPT ![r] = list]
    BY <1>4 DEF FinalizeArtifactUpload
  <2>2. list \in Request
    BY DEF Request
  <2>3. RequestOK(list)
    BY <1>1 DEF RequestOK
  <2>. HIDE DEF list
  <2>. QED
    BY <1>1, <2>1, <2>2, <2>3, RequestAlone
<1>5. CASE session[k].status # "published" /\ ~(session[k].status = "pending" /\ ~PastExpiry(k))
  <2>1. request' = [request EXCEPT ![r] = expired]
    BY <1>5 DEF FinalizeArtifactUpload
  <2>2. expired \in Request
    BY DEF Request, Code
  <2>3. IsSessionExpired(k)
    BY <1>2, <1>5 DEF IsSessionExpired, Session
  <2>4. Over(k)
    BY <1>1, <2>3, ExpiredIsOver DEF IInv
  <2>5. RequestOK(expired)
    BY <1>1, <2>4 DEF RequestOK
  <2>. HIDE DEF expired
  <2>. QED
    BY <1>1, <2>1, <2>2, <2>5, RequestAlone
<1>. QED
  BY <1>3, <1>4, <1>5

LEMMA ListUploadedPathsKeeps ==
  ASSUME IInv, NEW r \in Requests, ListUploadedPaths(r)
  PROVE  IInv'
<1>1. /\ request[r].at = "list"
      /\ UNCHANGED <<now, session, uploaded, catalogVars, blobs>>
  BY DEF ListUploadedPaths, At
<1>2. CASE AllUploaded(request[r].key)
  BY <1>1, <1>2, GotoKeeps DEF ListUploadedPaths
<1>3. CASE ~AllUploaded(request[r].key)
  BY <1>1, <1>3, AnswerKeeps DEF ListUploadedPaths, Code
<1>. QED
  BY <1>2, <1>3

LEMMA PublishUploadSessionKeeps ==
  ASSUME IInv, NEW r \in Requests, PublishUploadSession(r)
  PROVE  IInv'
<1>. DEFINE k == request[r].key
<1>1. /\ request[r].at = "publish"
      /\ UNCHANGED <<now, session, uploaded, catalogVars, blobs>>
  BY DEF PublishUploadSession, At
<1>2. k \in Keys /\ Exists(k) /\ AllUploaded(k)
  BY <1>1, RequestShape DEF IInv, RequestInv, RequestOK
<1>3. CASE session[k].status = "published" /\ Answer(r, "OK")
  BY <1>1, <1>2, <1>3, AnswerKeeps DEF Code, Published
<1>4. CASE session[k].status # "published" /\ IsSessionExpired(k) /\ Answer(r, "SESSION_EXPIRED")
  BY <1>1, <1>2, <1>4, ExpiredIsOver, AnswerKeeps DEF Code, IInv
<1>5. CASE Goto(r, "batch")
  BY <1>1, <1>2, <1>5, GotoKeeps
<1>. QED
  BY <1>3, <1>4, <1>5 DEF PublishUploadSession

LEMMA ExpiresMeanwhileKeeps ==
  ASSUME IInv, NEW r \in Requests, ExpiresMeanwhile(r)
  PROVE  IInv'
<1>. DEFINE k == request[r].key
<1>1. /\ request[r].at \in {"list", "batch", "done"} /\ PastExpiry(k) /\ Answer(r, "SESSION_EXPIRED")
      /\ UNCHANGED <<now, session, uploaded, catalogVars, blobs>>
  BY DEF ExpiresMeanwhile, At
<1>2. k \in Keys /\ Exists(k)
  BY <1>1, RequestShape DEF IInv, RequestInv, RequestOK, At
<1>3. Over(k)
  BY <1>1, <1>2, ExpiredIsOver DEF IInv, IsSessionExpired
<1>. QED
  BY <1>1, <1>3, AnswerKeeps DEF Code

LEMMA RollbackBatchKeeps ==
  ASSUME IInv, NEW r \in Requests, RollbackBatch(r)
  PROVE  IInv'
BY GotoKeeps DEF RollbackBatch, At

LEMMA ClassifyPublishFailureKeeps ==
  ASSUME IInv, NEW r \in Requests, ClassifyPublishFailure(r)
  PROVE  IInv'
<1>. DEFINE k == request[r].key
<1>1. /\ request[r].at = "classify"
      /\ UNCHANGED <<now, session, uploaded, catalogVars, blobs>>
  BY DEF ClassifyPublishFailure, At
<1>2. k \in Keys /\ Exists(k)
  BY <1>1, RequestShape DEF IInv, RequestInv, RequestOK
<1>3. CASE session[k].status = "published"
  BY <1>1, <1>2, <1>3, AnswerKeeps DEF ClassifyPublishFailure, Code, Published
<1>4. CASE session[k].status # "published" /\ IsSessionExpired(k)
  <2>1. Over(k)
    BY <1>2, <1>4, ExpiredIsOver DEF IInv
  <2>2. Answer(r, "SESSION_EXPIRED")
    BY <1>4 DEF ClassifyPublishFailure
  <2>. QED
    BY <1>1, <2>1, <2>2, AnswerKeeps DEF Code
<1>5. CASE session[k].status # "published" /\ ~IsSessionExpired(k)
  <2>1. Answer(r, "PUBLISH_CONFLICT")
    BY <1>5 DEF ClassifyPublishFailure
  <2>. QED
    BY <1>1, <2>1, AnswerKeeps DEF Code
<1>. QED
  BY <1>3, <1>4, <1>5

LEMMA EndRequestKeeps ==
  ASSUME IInv, NEW r \in Requests, EndRequest(r)
  PROVE  IInv'
<1>1. Idle \in Request
  BY DEF Request
<1>2. RequestOK(Idle)
  BY DEF RequestOK, Idle
<1>. QED
  BY <1>1, <1>2, RequestAlone DEF EndRequest

-----------------------------------------------------------------------------
(* The steps that write.                                                   *)

LEMMA TickKeeps ==
  ASSUME IInv, Tick
  PROVE  IInv'
<1>. USE DEF Tick, catalogVars
<1>1. Evolves
  BY ClockAssumption DEF Evolves, IInv, TypeOK, Exists
<1>2. RequestInv'
  <2>. SUFFICES ASSUME NEW r \in Requests PROVE RequestOK(request[r])'
    BY DEF RequestInv
  <2>. DEFINE q == request[r]
  <2>1. q \in Request /\ RequestOK(q)
    BY DEF IInv, TypeOK, RequestInv
  <2>2. \A p \in Request : RequestOK(p) => RequestOK(p)'
    BY <1>1, RequestStable DEF IInv
  <2>. QED
    BY <2>1, <2>2 DEF RequestOK
<1>3. TypeOK'
  BY ClockAssumption DEF IInv, TypeOK
<1>4. \A k \in Keys : Published(k)' => Published(k)
  BY DEF Published, Exists
<1>5. VersionRows' /\ GapFreeHistory' /\ PublishedOnce' /\ VersionsComplete'
  BY <1>1, <1>4, CatalogKeeps
<1>6. UploadInv'
  BY <1>1, <1>4, UploadsKeep
<1>. QED
  BY <1>2, <1>3, <1>5, <1>6 DEF IInv

\* The row a request opens is a pending row of the table.
LEMMA OpenedRow ==
  ASSUME TypeOK, NEW r \in Requests, At(r, "insert"), NEW a \in AssignedIds(request[r].artifact)
  PROVE  SessionRow(r, a) \in Session /\ SessionRow(r, a).status = "pending"
<1>1. /\ request[r].base \in 0..MaxVersion /\ request[r].tree \in Trees
      /\ request[r].artifact \in Artifacts \cup {NoArtifact}
  BY RequestShape
<1>2. a \in Artifacts \cup {NoArtifact} /\ a # NoArtifact
  BY <1>1, ManifestAssumption DEF AssignedIds
<1>. QED
  BY <1>1, <1>2, ClockAssumption DEF SessionRow, Session, ExpiresAt, TypeOK

LEMMA CreateUploadSessionKeeps ==
  ASSUME IInv, NEW r \in Requests, CreateUploadSession(r)
  PROVE  IInv'
<1>. DEFINE k == request[r].key
<1>1. Idle \in Request /\ RequestOK(Idle) /\ RequestOK(Idle)'
  BY DEF Request, RequestOK, Idle
<1>2. At(r, "insert") /\ request' = [request EXCEPT ![r] = Idle]
  BY DEF CreateUploadSession
<1>3. CASE UNCHANGED session
  BY <1>1, <1>2, <1>3, RequestAlone DEF CreateUploadSession
<1>4. ASSUME ~Exists(k), NEW a \in AssignedIds(request[r].artifact),
             session' = [session EXCEPT ![k] = SessionRow(r, a)]
      PROVE  IInv'
  <2>. USE DEF catalogVars
  <2>1. k \in Keys
    BY <1>2, RequestShape DEF IInv
  <2>2. UNCHANGED <<now, uploaded, catalogVars, blobs>>
    BY DEF CreateUploadSession
  <2>3. SessionRow(r, a) \in Session /\ SessionRow(r, a).status = "pending"
    BY <1>2, <1>4, OpenedRow DEF IInv
  <2>4. session \in [Keys -> Session \cup {NoSession}]
    BY DEF IInv, TypeOK
  <2>5. /\ session' \in [Keys -> Session \cup {NoSession}]
        /\ session'[k] \in Session /\ session'[k].status = "pending"
        /\ \A j \in Keys \ {k} : session'[j] = session[j]
        /\ session[k] = NoSession
    BY <1>4, <2>1, <2>3, <2>4, NoSessionAssumption DEF Exists
  <2>6. \A j \in Keys : Exists(j) => j # k /\ session'[j] = session[j] /\ Exists(j)'
    BY <2>5 DEF Exists
  <2>7. Evolves
    BY <2>2, <2>6 DEF Evolves, IInv, TypeOK
  <2>8. RequestInv' /\ request' \in [Requests -> Request]
    BY <1>1, <1>2, <2>7, RequestMoves DEF IInv
  <2>9. TypeOK'
    BY <2>2, <2>5, <2>8 DEF IInv, TypeOK
  <2>10. \A j \in Keys : Published(j)' => Published(j)
    BY <2>5, <2>6 DEF Published, Exists
  <2>11. VersionRows' /\ GapFreeHistory' /\ PublishedOnce' /\ VersionsComplete'
    BY <2>2, <2>7, <2>10, CatalogKeeps
  <2>12. UploadInv'
    BY <2>2, <2>7, <2>10, UploadsKeep
  <2>. QED
    BY <2>8, <2>9, <2>11, <2>12 DEF IInv
<1>. QED
  BY <1>3, <1>4 DEF CreateUploadSession

LEMMA PutBlobKeeps ==
  ASSUME IInv, NEW r \in Requests, PutBlob(r)
  PROVE  IInv'
<1>0. PICK k \in Keys, p \in Paths : k = request[r].key /\ p = request[r].path
  BY RequestShape DEF IInv, PutBlob, At
<1>. DEFINE q == [at |-> "record", key |-> k, path |-> p]
<1>1. /\ request[r].at = "store" /\ blobs' = blobs \cup {BlobOf(k, p)}
      /\ UNCHANGED <<now, session, uploaded, artifacts, latest, versions, files>>
  BY <1>0 DEF PutBlob, At, catalogVars
<1>2. /\ request[r] \in [at : {"store", "record"}, key : Keys, path : Paths]
      /\ request[r].key = k /\ request[r].path = p
  BY <1>0, <1>1, RequestShape DEF IInv
<1>3. Exists(k) /\ p \in ManifestPaths(k)
  BY <1>1, <1>2 DEF IInv, RequestInv, RequestOK
<1>4. session[k] \in Session
  BY <1>2, <1>3 DEF IInv, TypeOK, Exists
<1>5. BlobOf(k, p) \in Artifacts \X Hashes
  BY <1>3, <1>4, ManifestAssumption DEF BlobOf, Blob, ManifestPaths, Session
<1>6. request' = [request EXCEPT ![r] = q]
  <2>1. [request[r] EXCEPT !.at = "record"] = q
    BY <1>2
  <2>2. request' = [request EXCEPT ![r] = [request[r] EXCEPT !.at = "record"]]
    BY DEF IInv, TypeOK, PutBlob, Goto
  <2>. QED
    BY <2>1, <2>2
<1>7. q \in Request
  BY <1>2 DEF Request
<1>8. Evolves
  BY <1>1 DEF Evolves, IInv, TypeOK, Exists
<1>9. RequestOK(q)'
  BY <1>1, <1>3, <1>6 DEF RequestOK, Exists, ManifestPaths
<1>. HIDE DEF q
<1>10. RequestInv' /\ request' \in [Requests -> Request]
  BY <1>6, <1>7, <1>8, <1>9, RequestMoves DEF IInv
<1>11. TypeOK'
  BY <1>1, <1>5, <1>10 DEF IInv, TypeOK
<1>12. \A j \in Keys : Published(j)' => Published(j)
  BY <1>1 DEF Published, Exists
<1>13. VersionRows' /\ GapFreeHistory' /\ PublishedOnce' /\ VersionsComplete'
  BY <1>1, <1>8, <1>12, CatalogKeeps
<1>14. UploadInv'
  BY <1>1, <1>8, <1>12, UploadsKeep
<1>. QED
  BY <1>10, <1>11, <1>13, <1>14 DEF IInv

LEMMA RecordUploadedFileKeeps ==
  ASSUME IInv, NEW r \in Requests, RecordUploadedFile(r)
  PROVE  IInv'
<1>. DEFINE k == request[r].key
            p == request[r].path
<1>1. /\ request[r].at = "record" /\ uploaded' = [uploaded EXCEPT ![k] = @ \cup {p}]
      /\ request' = [request EXCEPT ![r] = Idle]
      /\ UNCHANGED <<now, session, blobs, artifacts, latest, versions, files>>
  BY DEF RecordUploadedFile, At, catalogVars
<1>2. k \in Keys /\ p \in Paths
  BY <1>1, RequestShape DEF IInv
<1>3. Exists(k) /\ p \in ManifestPaths(k)
  BY <1>1 DEF IInv, RequestInv, RequestOK
<1>4. /\ uploaded' \in [Keys -> SUBSET Paths]
      /\ uploaded'[k] = uploaded[k] \cup {p}
      /\ \A j \in Keys \ {k} : uploaded'[j] = uploaded[j]
  BY <1>1, <1>2 DEF IInv, TypeOK
<1>5. Evolves
  BY <1>1, <1>4 DEF Evolves, IInv, TypeOK, Exists
<1>6. Idle \in Request /\ RequestOK(Idle)'
  BY DEF Request, RequestOK, Idle
<1>7. RequestInv' /\ request' \in [Requests -> Request]
  BY <1>1, <1>5, <1>6, RequestMoves DEF IInv
<1>8. TypeOK'
  BY <1>1, <1>4, <1>7 DEF IInv, TypeOK
<1>9. \A j \in Keys : Published(j)' => Published(j)
  BY <1>1 DEF Published, Exists
<1>10. VersionRows' /\ GapFreeHistory' /\ PublishedOnce' /\ VersionsComplete'
  BY <1>1, <1>5, <1>9, CatalogKeeps
<1>11. UploadInv'
  <2>. SUFFICES ASSUME NEW j \in Keys
                PROVE  /\ \A x \in uploaded'[j] : Exists(j) /\ x \in ManifestPaths(j)
                       /\ Published(j) => ManifestPaths(j) \subseteq uploaded'[j]
    BY <1>1 DEF UploadInv, Exists, ManifestPaths, Published, AllUploaded
  <2>1. CASE j = k
    BY <1>3, <1>4, <2>1 DEF IInv, UploadInv, AllUploaded
  <2>2. CASE j # k
    BY <1>4, <2>2 DEF IInv, UploadInv, AllUploaded
  <2>. QED
    BY <2>1, <2>2
<1>. QED
  BY <1>7, <1>8, <1>10, <1>11 DEF IInv

-----------------------------------------------------------------------------
(* The batch.                                                              *)

\* The version of session k is inserted: nothing is in its place.
Inserts(k, ran) ==
  /\ ran >= 2 /\ session[k].status = "pending" /\ InTime(k, now)
  /\ latest[session[k].artifact] = session[k].base
  /\ NewVersion(k) \notin DOMAIN versions[session[k].artifact]
  /\ session[k].artifact \in ArtifactsAfter(k, ran)
  /\ VersionsAfter(k, ran) = [versions EXCEPT ![session[k].artifact] =
                                WithVersion(@, NewVersion(k), VersionRow(k))]

\* What a batch that commits does is the effect of a prefix of its statements
\* or nothing at all: no row but the artifact's is written unless the version's
\* is, files come with the version or not at all, latest_version moves only
\* when both are there, and the session is published exactly when all five
\* found it in time.
THEOREM BatchIsAPrefix ==
  ASSUME IInv, NEW k \in Keys, Exists(k), NEW ran \in 0..5, BatchClock(k, ran),
         ~ViolatesPrimaryKey(k, ran)
  PROVE  /\ artifacts \subseteq ArtifactsAfter(k, ran)
         /\ ArtifactsAfter(k, ran) \subseteq artifacts \cup {session[k].artifact}
         /\ \/ /\ Inserts(k, ran)
               /\ FilesAfter(k, ran) = IF ran >= 3 THEN files \cup FileRows(k) ELSE files
               /\ LatestAfter(k, ran) =
                    IF ran >= 4 THEN [latest EXCEPT ![session[k].artifact] = NewVersion(k)]
                                ELSE latest
               /\ Publishes(k, ran) <=> ran = 5
            \/ /\ VersionsAfter(k, ran) = versions
               /\ FilesAfter(k, ran) = files
               /\ LatestAfter(k, ran) = latest
               /\ ~Publishes(k, ran)
<1>. DEFINE a == session[k].artifact
            n == NewVersion(k)
<1>1. /\ session[k] \in Session /\ a \in Artifacts
      /\ session[k].base \in Nat /\ n \in Nat /\ n = session[k].base + 1
      /\ latest \in [Artifacts -> 0..MaxVersion] /\ DOMAIN versions = Artifacts
  BY DEF IInv, TypeOK, Exists, Session, NewVersion
<1>2. /\ artifacts \subseteq ArtifactsAfter(k, ran)
      /\ ArtifactsAfter(k, ran) \subseteq artifacts \cup {a}
  BY DEF ArtifactsAfter
<1>3. session[k].status = "pending" /\ ran > 0 => ~Over(k) /\ ~Published(k)
  <2>1. ran > 0 => InTime(k, now)
    BY DEF BatchClock
  <2>2. Second[session[k].expiresAt] \in Nat /\ Second[now] \in Nat
    BY <1>1, ClockAssumption DEF IInv, TypeOK, Session
  <2>. QED
    BY <2>1, <2>2 DEF InTime, Over, Published
<1>4. CASE InsertsVersion(k, ran)
  <2>1. /\ session[k].status = "pending" /\ ran >= 2 /\ a \in ArtifactsAfter(k, ran)
        /\ latest[a] = session[k].base
    BY <1>4 DEF InsertsVersion, Valid
  <2>2. InTime(k, now)
    BY <2>1 DEF BatchClock
  <2>3. n \notin DOMAIN versions[a]
    BY <1>4 DEF ViolatesPrimaryKey
  <2>4. VersionsAfter(k, ran) = [versions EXCEPT ![a] = WithVersion(@, n, VersionRow(k))]
    BY <1>4 DEF VersionsAfter
  <2>5. VersionsAfter(k, ran)[a] = WithVersion(versions[a], n, VersionRow(k))
    BY <1>1, <2>4
  <2>6. n \in DOMAIN VersionsAfter(k, ran)[a] /\ VersionsAfter(k, ran)[a][n] = VersionRow(k)
    BY <2>5 DEF WithVersion
  <2>7. VersionExists(k, ran) /\ VersionRow(k).session = k
    BY <2>6 DEF VersionExists, VersionRow
  <2>8. FilesAfter(k, ran) = IF ran >= 3 THEN files \cup FileRows(k) ELSE files
    BY <2>1, <2>7 DEF FilesAfter, InsertsFiles, Valid
  <2>9. LatestAfter(k, ran) = IF ran >= 4 THEN [latest EXCEPT ![a] = n] ELSE latest
    BY <2>1, <2>7 DEF LatestAfter, MovesLatest, Valid
  <2>10. Publishes(k, ran) <=> ran = 5
    <3>1. CASE ran = 5
      <4>1. LatestAfter(k, ran)[a] = n
        BY <1>1, <2>9, <3>1
      <4>. QED
        BY <2>1, <2>6, <2>7, <3>1, <4>1 DEF Publishes, Valid
    <3>2. CASE ran # 5
      BY <3>2 DEF Publishes, Valid
    <3>. QED
      BY <3>1, <3>2
  <2>. QED
    BY <1>2, <2>1, <2>2, <2>3, <2>4, <2>8, <2>9, <2>10 DEF Inserts
<1>5. CASE ~InsertsVersion(k, ran)
  <2>1. VersionsAfter(k, ran) = versions
    BY <1>5 DEF VersionsAfter
  <2>2. \A v \in DOMAIN versions[a] :
          session[k].status = "pending" /\ ran > 0 => versions[a][v].session # k
    BY <1>1, <1>3 DEF IInv, PublishedOnce
  <2>3. \A i \in 1..5 : Valid(k, i, ran) => session[k].status = "pending" /\ ran > 0
    BY DEF Valid
  <2>4. \A i \in 1..5 : ~(Valid(k, i, ran) /\ VersionExists(k, ran))
    BY <2>1, <2>2, <2>3 DEF VersionExists
  <2>5. FilesAfter(k, ran) = files /\ LatestAfter(k, ran) = latest
    BY <2>4 DEF FilesAfter, InsertsFiles, LatestAfter, MovesLatest
  <2>6. ~Publishes(k, ran)
    BY <2>1, <2>2, <2>3 DEF Publishes
  <2>. QED
    BY <1>2, <2>1, <2>5, <2>6
<1>. QED
  BY <1>4, <1>5

LEMMA FileRowsType ==
  ASSUME TypeOK, NEW k \in Keys, Exists(k)
  PROVE  FileRows(k) \subseteq FileRow
<1>1. session[k] \in Session /\ NewVersion(k) \in Nat
  BY DEF TypeOK, Exists, Session, NewVersion
<1>. SUFFICES ASSUME NEW p \in ManifestPaths(k)
              PROVE  [artifact |-> session[k].artifact, version |-> NewVersion(k), path |-> p,
                      sha256 |-> Manifest[session[k].tree][p]] \in FileRow
  BY DEF FileRows
<1>2. p \in Paths /\ Manifest[session[k].tree][p] \in Hashes
  BY <1>1, ManifestAssumption DEF ManifestPaths, Session
<1>. QED
  BY <1>1, <1>2 DEF FileRow, Session

\* The rows after a version was inserted at the free place n of artifact a.
LEMMA VersionsAfterInsert ==
  ASSUME IInv, NEW k \in Keys, Exists(k), NEW ran, Inserts(k, ran),
         versions' = VersionsAfter(k, ran)
  PROVE  LET a == session[k].artifact
             n == NewVersion(k)
         IN  /\ a \in Artifacts /\ n = latest[a] + 1 /\ n \notin DOMAIN versions[a]
             /\ DOMAIN versions[a] = 1..latest[a] /\ latest[a] \in Nat
             /\ DOMAIN versions' = Artifacts
             /\ DOMAIN versions'[a] = DOMAIN versions[a] \cup {n}
             /\ versions'[a][n] = VersionRow(k)
             /\ \A v \in DOMAIN versions[a] : versions'[a][v] = versions[a][v]
             /\ \A b \in Artifacts \ {a} : versions'[b] = versions[b]
<1>. DEFINE a == session[k].artifact
            n == NewVersion(k)
<1>1. a \in Artifacts /\ n = latest[a] + 1 /\ latest[a] \in Nat /\ DOMAIN versions = Artifacts
  BY DEF IInv, TypeOK, Exists, Session, NewVersion, Inserts
<1>2. n \notin DOMAIN versions[a]
  BY DEF Inserts
<1>3. DOMAIN versions[a] = 1..latest[a]
  <2>1. 1..latest[a] \subseteq DOMAIN versions[a] /\ DOMAIN versions[a] \subseteq 1..(latest[a] + 1)
    BY <1>1 DEF IInv, GapFreeHistory
  <2>2. ASSUME NEW v \in DOMAIN versions[a] PROVE v \in 1..latest[a]
    <3>1. v \in 1..(latest[a] + 1)
      BY <2>1
    <3>2. v # latest[a] + 1
      BY <1>1, <1>2
    <3>. QED
      BY <1>1, <3>1, <3>2
  <2>. QED
    BY <2>1, <2>2
<1>4. /\ versions' = [versions EXCEPT ![a] = WithVersion(@, n, VersionRow(k))]
      /\ versions'[a] = WithVersion(versions[a], n, VersionRow(k))
      /\ \A b \in Artifacts \ {a} : versions'[b] = versions[b]
      /\ DOMAIN versions' = Artifacts
  BY <1>1 DEF Inserts
<1>. QED
  BY <1>1, <1>2, <1>3, <1>4 DEF WithVersion

\* A step that inserts the version of a session, and goes on to its files, to
\* latest_version and to the session in this order, keeps what the invariant
\* says of them, if the session is over when it is not published.
LEMMA InsertKeeps ==
  ASSUME IInv, Evolves, NEW k \in Keys, Exists(k), AllUploaded(k), NEW ran \in 0..5,
         Inserts(k, ran),
         artifacts' = ArtifactsAfter(k, ran),
         versions' = VersionsAfter(k, ran),
         files' = IF ran >= 3 THEN files \cup FileRows(k) ELSE files,
         latest' = IF ran >= 4 THEN [latest EXCEPT ![session[k].artifact] = NewVersion(k)]
                               ELSE latest,
         Published(k)' => ran = 5,
         Published(k)' \/ Over(k)',
         \A j \in Keys \ {k} : Published(j)' => Published(j)
  PROVE  VersionRows' /\ GapFreeHistory' /\ PublishedOnce' /\ VersionsComplete'
<1>. DEFINE a == session[k].artifact
            n == NewVersion(k)
            row == VersionRow(k)
<1>1. /\ a \in Artifacts /\ n = latest[a] + 1 /\ n \notin DOMAIN versions[a]
      /\ DOMAIN versions[a] = 1..latest[a] /\ latest[a] \in Nat
      /\ DOMAIN versions'[a] = DOMAIN versions[a] \cup {n}
      /\ versions'[a][n] = row
      /\ \A v \in DOMAIN versions[a] : versions'[a][v] = versions[a][v]
      /\ \A b \in Artifacts \ {a} : versions'[b] = versions[b]
  BY VersionsAfterInsert
<1>2. /\ latest \in [Artifacts -> 0..MaxVersion]
      /\ latest'[a] = IF ran >= 4 THEN n ELSE latest[a]
      /\ \A b \in Artifacts \ {a} : latest'[b] = latest[b]
  BY <1>1 DEF IInv, TypeOK
<1>3. /\ a \in artifacts' /\ artifacts \subseteq artifacts'
  BY DEF Inserts, ArtifactsAfter
<1>4. /\ Exists(k)' /\ session'[k].artifact = a /\ NewVersion(k)' = n /\ VersionRow(k)' = row
      /\ FileRows(k)' = FileRows(k) /\ row.session = k /\ row \in VersionRecord
  <2>1. session[k] \in Session
    BY DEF IInv, TypeOK, Exists
  <2>. QED
    BY <2>1, FieldsStay DEF VersionRow, VersionRecord, Session
<1>5. HasVersion(k)' /\ (Published(k)' => Visible(k)')
  <2>1. HasVersion(k)'
    BY <1>1, <1>4 DEF HasVersion
  <2>2. ran = 5 => NewVersion(k)' <= latest'[session'[k].artifact]
    BY <1>1, <1>2, <1>4
  <2>. QED
    BY <2>1, <2>2 DEF Visible
<1>6. \A b \in Artifacts : \A v \in DOMAIN versions[b] :
        v \in DOMAIN versions'[b] /\ versions'[b][v] = versions[b][v]
  <2>. SUFFICES ASSUME NEW b \in Artifacts, NEW v \in DOMAIN versions[b]
                PROVE  v \in DOMAIN versions'[b] /\ versions'[b][v] = versions[b][v]
    OBVIOUS
  <2>1. CASE b = a
    BY <1>1, <2>1
  <2>2. CASE b # a
    BY <1>1, <2>2
  <2>. QED
    BY <2>1, <2>2
<1>7. \A b \in Artifacts : \A v \in DOMAIN versions'[b] :
        v \in DOMAIN versions[b] \/ (b = a /\ v = n)
  BY <1>1
<1>8. \A j \in Keys : HasVersion(j) => HasVersion(j)' /\ session'[j].artifact = session[j].artifact
                                       /\ NewVersion(j)' = NewVersion(j)
  <2>. SUFFICES ASSUME NEW j \in Keys, HasVersion(j)
                PROVE  /\ HasVersion(j)' /\ session'[j].artifact = session[j].artifact
                       /\ NewVersion(j)' = NewVersion(j)
    OBVIOUS
  <2>1. session[j].artifact \in Artifacts /\ Exists(j)
    BY DEF HasVersion, IInv, TypeOK, Exists, Session
  <2>2. HasVersion(j)'
    BY <1>6, <2>1, VersionStays DEF HasVersion
  <2>. QED
    BY <2>1, <2>2, FieldsStay
<1>9. \A b \in Artifacts : latest[b] <= latest'[b]
  <2>. SUFFICES ASSUME NEW b \in Artifacts PROVE latest[b] <= latest'[b]
    OBVIOUS
  <2>1. CASE b = a
    BY <1>1, <1>2, <2>1
  <2>2. CASE b # a
    BY <1>2, <2>2
  <2>. QED
    BY <2>1, <2>2
<1>10. VersionRows'
  <2>0. \A j \in Keys : Exists(j) /\ AllUploaded(j) => ManifestPaths(j)' \subseteq uploaded'[j]
    BY FieldsStay DEF Evolves, AllUploaded
  <2>. SUFFICES ASSUME NEW b \in Artifacts, NEW v \in DOMAIN versions'[b]
                PROVE  \E j \in Keys : /\ j = versions'[b][v].session /\ versions'[b][v] \in VersionRecord
                                       /\ Exists(j) /\ AllUploaded(j)
    BY <2>0 DEF VersionRows, VersionRecord, AllUploaded, ManifestPaths
  <2>1. CASE v \in DOMAIN versions[b]
    <3>1. PICK j \in Keys : j = versions[b][v].session /\ versions[b][v] \in VersionRecord
      BY <2>1, VersionHasSession DEF IInv
    <3>2. Exists(j) /\ AllUploaded(j)
      BY <2>1, <3>1 DEF IInv, PublishedOnce, HasVersion, VersionRows
    <3>. QED
      BY <1>6, <2>1, <3>1, <3>2
  <2>2. CASE b = a /\ v = n
    BY <1>1, <1>4, <2>2
  <2>. QED
    BY <1>7, <2>1, <2>2
<1>11. GapFreeHistory'
  <2>. SUFFICES ASSUME NEW b \in Artifacts
                PROVE  /\ 1..latest'[b] \subseteq DOMAIN versions'[b]
                       /\ DOMAIN versions'[b] \subseteq 1..(latest'[b] + 1)
                       /\ DOMAIN versions'[b] # {} => b \in artifacts'
    BY DEF GapFreeHistory
  <2>1. CASE b = a
    <3>1. DOMAIN versions'[a] = 1..(latest[a] + 1)
      BY <1>1
    <3>. QED
      BY <1>1, <1>2, <1>3, <2>1, <3>1
  <2>2. CASE b # a
    BY <1>1, <1>2, <1>3, <2>2 DEF IInv, GapFreeHistory
  <2>. QED
    BY <2>1, <2>2
<1>12. PublishedOnce'
  <2>1. ASSUME NEW j \in Keys, Published(j)' PROVE Visible(j)'
    <3>1. CASE j = k
      BY <1>5, <2>1, <3>1
    <3>2. CASE j # k
      <4>1. Visible(j)
        BY <2>1, <3>2 DEF IInv, PublishedOnce
      <4>2. session[j].artifact \in Artifacts /\ NewVersion(j) \in Nat
        BY <4>1 DEF Visible, HasVersion, IInv, TypeOK, Exists, Session, NewVersion
      <4>3. HasVersion(j)' /\ session'[j].artifact = session[j].artifact
            /\ NewVersion(j)' = NewVersion(j)
        BY <1>8, <4>1 DEF Visible
      <4>4. latest[session[j].artifact] <= latest'[session[j].artifact]
            /\ latest[session[j].artifact] \in Nat /\ latest'[session[j].artifact] \in Nat
        BY <1>1, <1>2, <1>9, <4>2
      <4>. QED
        BY <4>1, <4>2, <4>3, <4>4 DEF Visible
    <3>. QED
      BY <3>1, <3>2
  <2>2. ASSUME NEW b \in Artifacts, NEW v \in DOMAIN versions'[b]
        PROVE  \E j \in Keys : /\ j = versions'[b][v].session /\ HasVersion(j)'
                               /\ session'[j].artifact = b /\ NewVersion(j)' = v
                               /\ Published(j)' \/ Over(j)'
    <3>1. CASE v \in DOMAIN versions[b]
      <4>1. PICK j \in Keys : j = versions[b][v].session
        BY <3>1, VersionHasSession DEF IInv
      <4>2. /\ HasVersion(j) /\ session[j].artifact = b /\ NewVersion(j) = v
            /\ Published(j) \/ Over(j)
        BY <3>1, <4>1 DEF IInv, PublishedOnce
      <4>3. Published(j)' \/ Over(j)'
        BY <4>2, OverStays DEF IInv
      <4>. QED
        BY <1>6, <1>8, <3>1, <4>1, <4>2, <4>3
    <3>2. CASE b = a /\ v = n
      BY <1>1, <1>4, <1>5, <3>2
    <3>. QED
      BY <1>7, <3>1, <3>2
  <2>3. \A b \in Artifacts : \A v \in DOMAIN versions'[b] :
          /\ HasVersion(versions[b][v].session)'
          /\ session'[versions'[b][v].session].artifact = b
          /\ NewVersion(versions[b][v].session)' = v
          /\ Published(versions[b][v].session)' \/ Over(versions[b][v].session)'
    BY <2>2
  <2>. QED
    BY <2>1, <2>3 DEF PublishedOnce
<1>13. \A f \in FileRows(k) : f.artifact = a /\ f.version = n
  BY DEF FileRows
<1>14. \A f \in files : f.artifact \in Artifacts /\ f.version \in DOMAIN versions[f.artifact]
  BY DEF IInv, TypeOK, FileRow, VersionsComplete
<1>15. \A f \in files : ~(f.artifact = a /\ f.version = n)
  BY <1>1, <1>14
<1>16. ASSUME NEW b \in Artifacts, NEW v \in DOMAIN versions'[b]
       PROVE  LET rows == FileRows(versions[b][v].session)' IN
                /\ v <= latest'[b] => FilesOf(b, v)' = rows
                /\ FilesOf(b, v)' \in {{}, rows}
  <2>1. CASE b = a /\ v = n
    <3>1. FilesOf(b, v)' = IF ran >= 3 THEN FileRows(k) ELSE {}
      BY <1>13, <1>15, <2>1 DEF FilesOf
    <3>2. versions'[b][v].session = k
      BY <1>1, <1>4, <2>1
    <3>3. FileRows(versions[b][v].session)' = FileRows(k)'
      BY <3>2 DEF FileRows, NewVersion, ManifestPaths
    <3>4. v <= latest'[b] => ran >= 4
      BY <1>1, <1>2, <2>1
    <3>. QED
      BY <1>4, <3>1, <3>3, <3>4
  <2>2. CASE v \in DOMAIN versions[b]
    <3>0. ~(b = a /\ v = n)
      BY <1>1, <2>2
    <3>1. FilesOf(b, v)' = FilesOf(b, v)
      BY <1>13, <3>0 DEF FilesOf
    <3>2. PICK j \in Keys : j = versions[b][v].session /\ HasVersion(j)
      BY <2>2, VersionHasSession DEF IInv, PublishedOnce
    <3>3. FileRows(j)' = FileRows(j)
      BY <3>2, FieldsStay DEF HasVersion
    <3>4. versions'[b][v].session = j
      BY <1>6, <2>2, <3>2
    <3>5. FileRows(versions[b][v].session)' = FileRows(versions[b][v].session)
      BY <3>2, <3>3, <3>4 DEF FileRows, NewVersion, ManifestPaths
    <3>6. v <= latest'[b] => v <= latest[b]
      <4>1. CASE b = a
        BY <1>1, <2>2, <4>1
      <4>2. CASE b # a
        BY <1>2, <4>2
      <4>. QED
        BY <4>1, <4>2
    <3>. QED
      BY <2>2, <3>1, <3>5, <3>6 DEF IInv, VersionsComplete
  <2>. QED
    BY <1>7, <2>1, <2>2
<1>17. \A f \in files' : f.version \in DOMAIN versions'[f.artifact]
  <2>. SUFFICES ASSUME NEW f \in files' PROVE f.version \in DOMAIN versions'[f.artifact]
    OBVIOUS
  <2>1. CASE f \in files
    BY <1>6, <1>14, <2>1
  <2>2. CASE f \in FileRows(k)
    BY <1>1, <1>13, <2>2
  <2>. QED
    BY <2>1, <2>2
<1>18. VersionsComplete'
  BY <1>16, <1>17 DEF VersionsComplete
<1>. QED
  BY <1>10, <1>11, <1>12, <1>18

LEMMA CommitBatchKeeps ==
  ASSUME IInv, NEW r \in Requests, CommitBatch(r)
  PROVE  IInv'
<1>1. PICK k \in Keys : k = request[r].key
  BY RequestShape DEF IInv, CommitBatch, At
<1>2. request[r] \in [at : {"list", "publish", "batch", "classify"}, key : Keys]
      /\ request[r].at = "batch" /\ Exists(k) /\ AllUploaded(k)
  BY <1>1, RequestShape DEF IInv, RequestInv, RequestOK, CommitBatch, At
<1>3. NewVersion(k) <= MaxVersion /\ UNCHANGED <<uploaded, blobs>>
  BY <1>1 DEF CommitBatch
<1>4. PICK ran \in 0..5 :
        /\ BatchClock(k, ran) /\ ~ViolatesPrimaryKey(k, ran)
        /\ artifacts' = ArtifactsAfter(k, ran) /\ versions' = VersionsAfter(k, ran)
        /\ files' = FilesAfter(k, ran) /\ latest' = LatestAfter(k, ran)
        /\ IF Publishes(k, ran)
           THEN /\ session' = [session EXCEPT ![k].status = "published"]
                /\ Answer(r, "OK") \/ Goto(r, "classify")
           ELSE UNCHANGED session /\ Goto(r, "classify")
  BY <1>1 DEF CommitBatch
<1>. DEFINE a == session[k].artifact
            ok == [at |-> "done", key |-> k, code |-> "OK"]
            classify == [at |-> "classify", key |-> k]
<1>5. /\ session[k] \in Session /\ a \in Artifacts /\ session[k].base \in Nat
      /\ NewVersion(k) \in 0..MaxVersion
      /\ session \in [Keys -> Session \cup {NoSession}]
      /\ now \in 0..MaxTime /\ MaxTime \in Nat
  BY <1>2, <1>3, ClockAssumption DEF IInv, TypeOK, Exists, Session, NewVersion
<1>6. /\ now' \in {now, now + 1} /\ now' \in 0..MaxTime /\ now <= now'
      /\ ran < 5 /\ InTime(k, now) => ~InTime(k, now')
  BY <1>4, <1>5 DEF BatchClock
<1>7. artifacts \subseteq artifacts' /\ artifacts' \subseteq Artifacts
  BY <1>2, <1>4, <1>5, BatchIsAPrefix DEF IInv, TypeOK
<1>8. Goto(r, "classify") => request' = [request EXCEPT ![r] = classify]
  <2>1. [request[r] EXCEPT !.at = "classify"] = classify
    BY <1>1, <1>2
  <2>. QED
    BY <2>1 DEF Goto, IInv, TypeOK
<1>9. Answer(r, "OK") => request' = [request EXCEPT ![r] = ok]
  BY <1>1 DEF Answer
<1>10. classify \in Request /\ ok \in Request
  BY DEF Request, Code
<1>11. CASE ~Inserts(k, ran)
  <2>1. /\ versions' = versions /\ files' = files /\ latest' = latest /\ session' = session
        /\ Goto(r, "classify")
    BY <1>2, <1>4, <1>11, BatchIsAPrefix
  <2>2. RequestOK(classify)'
    BY <1>2, <2>1 DEF RequestOK, Exists
  <2>3. request' = [request EXCEPT ![r] = classify]
    BY <1>8, <2>1
  <2>4. now' <= MaxTime
    BY <1>5, <1>6
  <2>5. UNCHANGED <<session, uploaded, latest, versions, files, blobs>>
    BY <1>3, <2>1
  <2>. HIDE DEF classify
  <2>6. now' \in {now, now + 1} /\ classify \in Request
    BY <1>6, <1>10
  <2>. QED
    BY <1>7, <2>2, <2>3, <2>4, <2>5, <2>6, RequestOnly
<1>12. CASE Inserts(k, ran)
  <2>2. session[k].status = "pending" /\ ~Over(k) /\ ~Published(k)
    <3>1. Second[session[k].expiresAt] \in Nat /\ Second[now] \in Nat
      BY <1>5, ClockAssumption DEF Session
    <3>. QED
      BY <1>12, <3>1 DEF Inserts, InTime, Over, Published
  <2>3. Inserts(k, ran) => VersionsAfter(k, ran) # versions
    <3>1. NewVersion(k) \in DOMAIN WithVersion(versions[a], NewVersion(k), VersionRow(k))
      BY DEF WithVersion
    <3>. QED
      BY <1>5, <3>1 DEF Inserts, IInv, TypeOK
  <2>4. /\ files' = IF ran >= 3 THEN files \cup FileRows(k) ELSE files
        /\ latest' = IF ran >= 4 THEN [latest EXCEPT ![a] = NewVersion(k)] ELSE latest
        /\ Publishes(k, ran) <=> ran = 5
    BY <1>2, <1>4, <1>12, <2>3, BatchIsAPrefix
  <2>5. /\ session' \in [Keys -> Session \cup {NoSession}]
        /\ \A j \in Keys \ {k} : session'[j] = session[j]
        /\ session'[k] \in Session
        /\ session'[k].artifact = a /\ session'[k].base = session[k].base
        /\ session'[k].tree = session[k].tree /\ session'[k].expiresAt = session[k].expiresAt
        /\ session'[k].status = IF ran = 5 THEN "published" ELSE "pending"
    <3>1. CASE ran = 5
      <4>1. [session[k] EXCEPT !.status = "published"] \in Session
        BY <1>5 DEF Session
      <4>2. session' = [session EXCEPT ![k] = [session[k] EXCEPT !.status = "published"]]
        BY <1>4, <1>5, <2>4, <3>1
      <4>3. session'[k] = [session[k] EXCEPT !.status = "published"]
            /\ \A j \in Keys \ {k} : session'[j] = session[j]
        BY <1>5, <4>2
      <4>. QED
        BY <1>5, <3>1, <4>1, <4>2, <4>3 DEF Session
    <3>2. CASE ran # 5
      BY <1>4, <1>5, <2>2, <2>4, <3>2
    <3>. QED
      BY <3>1, <3>2
  <2>6. Exists(k)' /\ \A j \in Keys : Exists(j) => Exists(j)'
    BY <2>5, NoSessionAssumption DEF Exists
  <2>7. Evolves
    BY <1>2, <1>3, <1>6, <2>2, <2>5, <2>6 DEF Evolves
  <2>8. Published(k)' <=> ran = 5
    BY <2>5, <2>6 DEF Published
  <2>9. ran # 5 => Over(k)'
    <3>1. ran # 5 => ~InTime(k, now')
      BY <1>6, <1>12 DEF Inserts
    <3>2. Second[session[k].expiresAt] \in Nat /\ Second[now'] \in Nat
      BY <1>5, <1>6, ClockAssumption DEF Session
    <3>. QED
      BY <2>5, <2>6, <3>1, <3>2 DEF InTime, Over
  <2>10. \A j \in Keys \ {k} : Published(j)' => Published(j)
    BY <2>5 DEF Published, Exists
  <2>11. VersionRows' /\ GapFreeHistory' /\ PublishedOnce' /\ VersionsComplete'
    BY <1>2, <1>4, <1>12, <2>4, <2>7, <2>8, <2>9, <2>10, InsertKeeps
  <2>12. UploadInv'
    BY <1>2, <1>3, <2>7, <2>10, UploadsKeep
  <2>13. RequestInv' /\ request' \in [Requests -> Request]
    <3>1. CASE Answer(r, "OK") /\ ran = 5
      <4>1. RequestOK(ok)'
        BY <2>6, <2>8, <3>1 DEF RequestOK
      <4>. HIDE DEF ok
      <4>. QED
        BY <1>9, <1>10, <2>7, <3>1, <4>1, RequestMoves DEF IInv
    <3>2. CASE Goto(r, "classify")
      <4>1. RequestOK(classify)'
        BY <2>6 DEF RequestOK
      <4>. HIDE DEF classify
      <4>. QED
        BY <1>8, <1>10, <2>7, <3>2, <4>1, RequestMoves DEF IInv
    <3>. QED
      BY <1>4, <2>4, <3>1, <3>2
  <2>14. TypeOK'
    <3>1. files' \subseteq FileRow
      BY <1>2, <2>4, FileRowsType DEF IInv, TypeOK
    <3>2. latest' \in [Artifacts -> 0..MaxVersion]
      BY <1>5, <2>4 DEF IInv, TypeOK
    <3>3. DOMAIN versions' = Artifacts
      BY <1>4, <1>12 DEF Inserts, IInv, TypeOK
    <3>. QED
      BY <1>3, <1>6, <1>7, <2>5, <2>13, <3>1, <3>2, <3>3 DEF IInv, TypeOK
  <2>. QED
    BY <2>11, <2>12, <2>13, <2>14 DEF IInv
<1>. QED
  BY <1>11, <1>12


THEOREM NextInv == IInv /\ [Next]_vars => IInv'
<1>. SUFFICES ASSUME IInv, [Next]_vars PROVE IInv'
  OBVIOUS
<1>1. CASE Tick
  BY <1>1, TickKeeps
<1>2. ASSUME NEW r \in Requests, RequestStep(r) PROVE IInv'
  <2>1. ASSUME NEW k \in Keys, NEW a \in Artifacts \cup {NoArtifact}, NEW base \in 0..MaxVersion,
               NEW tree \in Trees, CreateArtifactUpload(r, k, a, base, tree)
        PROVE  IInv'
    BY <2>1, CreateArtifactUploadKeeps
  <2>2. ASSUME NEW k \in Keys, NEW p \in Paths, UploadArtifactFile(r, k, p)
        PROVE  IInv'
    BY <2>2, UploadArtifactFileKeeps
  <2>3. ASSUME NEW k \in Keys, FinalizeArtifactUpload(r, k)
        PROVE  IInv'
    BY <2>3, FinalizeArtifactUploadKeeps
  <2>. QED
    BY <1>2, <2>1, <2>2, <2>3, CreateUploadSessionKeeps, PutBlobKeeps, RecordUploadedFileKeeps,
       ListUploadedPathsKeeps, PublishUploadSessionKeeps, ExpiresMeanwhileKeeps, CommitBatchKeeps,
       RollbackBatchKeeps, ClassifyPublishFailureKeeps, EndRequestKeeps
       DEF RequestStep
<1>3. CASE UNCHANGED vars
  <2>. USE <1>3 DEF vars, catalogVars
  <2>1. Evolves
    BY ClockAssumption DEF Evolves, IInv, TypeOK, Exists
  <2>2. \A k \in Keys : Published(k)' => Published(k)
    BY DEF Published, Exists
  <2>3. VersionRows' /\ GapFreeHistory' /\ PublishedOnce' /\ VersionsComplete'
    BY <2>1, <2>2, CatalogKeeps
  <2>4. UploadInv'
    BY <2>1, <2>2, UploadsKeep
  <2>5. RequestInv'
    BY DEF IInv, RequestInv, RequestOK, Exists, ManifestPaths, AllUploaded, Published, Over
  <2>6. TypeOK'
    BY DEF IInv, TypeOK
  <2>. QED
    BY <2>3, <2>4, <2>5, <2>6 DEF IInv
<1>. QED
  BY <1>1, <1>2, <1>3 DEF Next

\* The invariant holds in every reachable state.
THEOREM Invariance == Spec => []IInv
<1>. QED
  BY InitInv, NextInv, PTL DEF Spec

-----------------------------------------------------------------------------
(* What follows from it.                                                   *)

\* Every table holds rows of its schema at all times, whatever the numbers of
\* keys, artifacts and requests.
THEOREM TypeCorrect == Spec => []TypeOK
<1>1. IInv => TypeOK
  BY DEF IInv
<1>. QED
  BY <1>1, Invariance, PTL

\* Version numbers never skip or repeat, however many uploads race and wherever
\* the expiry second cuts a batch.
THEOREM HistoryIsGapFree == Spec => []GapFreeHistory
<1>1. IInv => GapFreeHistory
  BY DEF IInv
<1>. QED
  BY <1>1, Invariance, PTL

\* A session makes at most one version, the successor of its declared base; one
\* whose session is not published is of a session that can never finish it.
THEOREM SessionsPublishOnce == Spec => []PublishedOnce
<1>1. IInv => PublishedOnce
  BY DEF IInv
<1>. QED
  BY <1>1, Invariance, PTL

\* The file rows of the versions of the history are exactly their manifests,
\* also of those a cut batch left without a published session.
THEOREM VersionsAreComplete == Spec => []VersionsComplete
<1>1. IInv => VersionsComplete
  BY DEF IInv
<1>. QED
  BY <1>1, Invariance, PTL

-----------------------------------------------------------------------------
(* Who changes the history.                                                *)

\* A batch whose first `ran` statements found session k in time, at least up to
\* its version.
Appends(k, ran) ==
  /\ Exists(k) /\ ~Over(k) /\ AllUploaded(k)
  /\ Inserts(k, ran)
  /\ versions' = VersionsAfter(k, ran)
  /\ artifacts' = ArtifactsAfter(k, ran)
  /\ files' = IF ran >= 3 THEN files \cup FileRows(k) ELSE files
  /\ latest' = IF ran >= 4 THEN [latest EXCEPT ![session[k].artifact] = NewVersion(k)] ELSE latest
  /\ IF ran = 5 THEN session' = [session EXCEPT ![k].status = "published"]
                ELSE UNCHANGED session /\ Over(k)'

\* The effect of a step on the catalog: none, or a batch.
Effect ==
  \/ UNCHANGED <<latest, versions, files>>
  \/ \E k \in Keys : \E ran \in 2..5 : Appends(k, ran)

LEMMA CommitEffect ==
  ASSUME IInv, NEW r \in Requests, CommitBatch(r)
  PROVE  \E k \in Keys :
           /\ k = request[r].key /\ Exists(k) /\ UNCHANGED <<uploaded, blobs>>
           /\ now' \in 0..MaxTime /\ now <= now'
           /\ Answer(r, "OK") \/ Goto(r, "classify")
           /\ \/ UNCHANGED <<versions, files, latest, session>>
              \/ \E ran \in 2..5 : Appends(k, ran)
<1>1. PICK k \in Keys : k = request[r].key
  BY RequestShape DEF IInv, CommitBatch, At
<1>2. Exists(k) /\ AllUploaded(k) /\ UNCHANGED <<uploaded, blobs>>
  BY <1>1 DEF IInv, RequestInv, RequestOK, CommitBatch, At
<1>3. PICK ran \in 0..5 :
        /\ BatchClock(k, ran) /\ ~ViolatesPrimaryKey(k, ran)
        /\ artifacts' = ArtifactsAfter(k, ran) /\ versions' = VersionsAfter(k, ran)
        /\ files' = FilesAfter(k, ran) /\ latest' = LatestAfter(k, ran)
        /\ IF Publishes(k, ran)
           THEN /\ session' = [session EXCEPT ![k].status = "published"]
                /\ Answer(r, "OK") \/ Goto(r, "classify")
           ELSE UNCHANGED session /\ Goto(r, "classify")
  BY <1>1 DEF CommitBatch
<1>4. /\ session[k] \in Session /\ now \in 0..MaxTime /\ MaxTime \in Nat
      /\ Second[session[k].expiresAt] \in Nat /\ Second[now] \in Nat
  BY <1>2, ClockAssumption DEF IInv, TypeOK, Exists, Session
<1>5. /\ now' \in 0..MaxTime /\ now <= now'
      /\ ran # 5 /\ InTime(k, now) /\ ran > 0 => ~InTime(k, now')
  BY <1>3, <1>4 DEF BatchClock
<1>6. Answer(r, "OK") \/ Goto(r, "classify")
  BY <1>3
<1>7. CASE ~Inserts(k, ran)
  <2>1. UNCHANGED <<versions, files, latest, session>>
    BY <1>2, <1>3, <1>7, BatchIsAPrefix
  <2>. QED
    BY <1>1, <1>2, <1>5, <1>6, <2>1
<1>8. CASE Inserts(k, ran)
  <2>1. ran \in 2..5 /\ InTime(k, now) /\ session[k].status = "pending"
    BY <1>8 DEF Inserts
  <2>2. ~Over(k)
    BY <1>4, <2>1 DEF Over, InTime
  <2>3. VersionsAfter(k, ran) # versions
    <3>1. NewVersion(k) \in DOMAIN WithVersion(versions[session[k].artifact], NewVersion(k), VersionRow(k))
      BY DEF WithVersion
    <3>. QED
      BY <1>4, <1>8, <3>1 DEF Inserts, IInv, TypeOK, Session
  <2>4. /\ files' = IF ran >= 3 THEN files \cup FileRows(k) ELSE files
        /\ latest' = IF ran >= 4 THEN [latest EXCEPT ![session[k].artifact] = NewVersion(k)] ELSE latest
        /\ Publishes(k, ran) <=> ran = 5
    BY <1>2, <1>3, <1>8, <2>3, BatchIsAPrefix
  <2>5. ran # 5 => Over(k)'
    <3>1. Second[now'] \in Nat
      BY <1>4, <1>5, ClockAssumption
    <3>. QED
      BY <1>2, <1>3, <1>4, <1>5, <2>1, <2>4, <3>1 DEF Over, InTime, Exists
  <2>6. Appends(k, ran)
    BY <1>2, <1>3, <1>8, <2>2, <2>4, <2>5 DEF Appends
  <2>. QED
    BY <1>1, <1>2, <1>5, <1>6, <2>1, <2>6
<1>. QED
  BY <1>7, <1>8

\* Nothing else does.
LEMMA HistoryEffect ==
  ASSUME IInv, [Next]_vars
  PROVE  Effect
<1>. USE DEF catalogVars
<1>1. CASE Tick
  BY <1>1 DEF Tick, Effect
<1>2. ASSUME NEW r \in Requests, RequestStep(r) PROVE Effect
  <2>1. CASE CommitBatch(r)
    BY <2>1, CommitEffect DEF Effect
  <2>2. CASE ~CommitBatch(r)
    BY <1>2, <2>2 DEF RequestStep, CreateArtifactUpload, CreateUploadSession, UploadArtifactFile,
       PutBlob, RecordUploadedFile, FinalizeArtifactUpload, ListUploadedPaths,
       PublishUploadSession, ExpiresMeanwhile, RollbackBatch, ClassifyPublishFailure, EndRequest,
       Effect
  <2>. QED
    BY <2>1, <2>2
<1>. QED
  BY <1>1, <1>2 DEF Next, vars, Effect

\* The rows of artifact_versions after it.
LEMMA AppendRows ==
  ASSUME IInv, NEW k \in Keys, NEW ran \in 2..5, Appends(k, ran)
  PROVE  LET a == session[k].artifact
             n == NewVersion(k)
         IN  /\ a \in Artifacts /\ n = latest[a] + 1 /\ n \notin DOMAIN versions[a]
             /\ DOMAIN versions[a] = 1..latest[a] /\ latest[a] \in Nat
             /\ DOMAIN versions' = Artifacts
             /\ DOMAIN versions'[a] = DOMAIN versions[a] \cup {n}
             /\ versions'[a][n] = VersionRow(k)
             /\ \A v \in DOMAIN versions[a] : versions'[a][v] = versions[a][v]
             /\ \A b \in Artifacts \ {a} : versions'[b] = versions[b]
             /\ latest'[a] = IF ran >= 4 THEN n ELSE latest[a]
             /\ \A b \in Artifacts \ {a} : latest'[b] = latest[b]
<1>1. session[k].artifact \in Artifacts /\ latest \in [Artifacts -> 0..MaxVersion]
  BY DEF IInv, TypeOK, Exists, Session, Appends
<1>. QED
  BY <1>1, VersionsAfterInsert DEF Appends

\* What a session that is over has of a version is all there will be.
LEMMA OverHasItsVersion ==
  ASSUME IInv, Evolves, Effect, NEW k \in Keys, Over(k)
  PROVE  /\ HasVersion(k)' <=> HasVersion(k)
         /\ Visible(k)' <=> Visible(k)
<1>1. /\ Exists(k) /\ Exists(k)' /\ session'[k].artifact = session[k].artifact
      /\ NewVersion(k)' = NewVersion(k) /\ VersionRow(k)' = VersionRow(k)
  BY FieldsStay DEF Over
<1>2. session[k].artifact \in Artifacts /\ NewVersion(k) \in Nat
  BY <1>1 DEF IInv, TypeOK, Exists, Session, NewVersion
<1>3. CASE UNCHANGED <<latest, versions, files>>
  BY <1>1, <1>3 DEF HasVersion, Visible
<1>4. ASSUME NEW j \in Keys, NEW ran \in 2..5, Appends(j, ran)
      PROVE  (HasVersion(k)' <=> HasVersion(k)) /\ (Visible(k)' <=> Visible(k))
  <2>. DEFINE a == session[j].artifact
              n == NewVersion(j)
  <2>1. /\ a \in Artifacts /\ n = latest[a] + 1 /\ n \notin DOMAIN versions[a]
        /\ DOMAIN versions[a] = 1..latest[a] /\ latest[a] \in Nat
        /\ DOMAIN versions'[a] = DOMAIN versions[a] \cup {n}
        /\ versions'[a][n] = VersionRow(j)
        /\ \A v \in DOMAIN versions[a] : versions'[a][v] = versions[a][v]
        /\ \A b \in Artifacts \ {a} : versions'[b] = versions[b]
        /\ latest'[a] = IF ran >= 4 THEN n ELSE latest[a]
        /\ \A b \in Artifacts \ {a} : latest'[b] = latest[b]
    BY <1>4, AppendRows
  <2>2. VersionRow(j) # VersionRow(k)
    BY <1>4 DEF Appends, VersionRow
  <2>3. CASE session[k].artifact # a
    BY <1>1, <1>2, <2>1, <2>3 DEF HasVersion, Visible
  <2>4. CASE session[k].artifact = a
    <3>1. HasVersion(k)' <=> HasVersion(k)
      BY <1>1, <2>1, <2>2, <2>4 DEF HasVersion
    <3>2. HasVersion(k) => NewVersion(k) <= latest[a] /\ NewVersion(k) <= latest'[a]
      BY <1>2, <2>1, <2>4 DEF HasVersion
    <3>. QED
      BY <1>1, <2>4, <3>1, <3>2 DEF Visible
  <2>. QED
    BY <2>3, <2>4
<1>. QED
  BY <1>3, <1>4 DEF Effect

-----------------------------------------------------------------------------
(* What the requests do to rows and blobs, and that published files are      *)
(* stored as long as nothing deletes a blob.                                 *)

\* Path p of session k is recorded, or stored and about to be recorded.
Recorded(k, p) ==
  \/ p \in uploaded[k]
  \/ \E r \in Requests : request[r].at = "record" /\ request[r].key = k /\ request[r].path = p

Puts(r) == At(r, "store") /\ request'[r].at = "record"

\* Sessions open pending and only the cleanup expires them; blobs appear by
\* puts, and a path is recorded after its put.
ServerEvolves ==
  /\ Evolves
  /\ blobs \subseteq blobs'
  /\ \A b \in blobs' \ blobs : \E r \in Requests :
       Puts(r) /\ b = BlobOf(request[r].key, request[r].path)
  /\ \A k \in Keys, p \in Paths : Recorded(k, p)' =>
       \/ Recorded(k, p)
       \/ Exists(k) /\ p \in ManifestPaths(k) /\ BlobOf(k, p) \in blobs'
  /\ \A k \in Keys : ~Exists(k) /\ Exists(k)' => session'[k].status = "pending"
  /\ \A k \in Keys : Exists(k) /\ session[k].status = "pending"
       => session'[k].status # "expired"

LEMMA QuietEvolves ==
  ASSUME IInv, NEW r \in Requests, UNCHANGED <<session, uploaded, blobs>>,
         now' \in 0..MaxTime, now <= now',
         \A o \in Requests \ {r} : request'[o] = request[o], request'[r].at # "record"
  PROVE  ServerEvolves
<1>1. Evolves
  BY DEF Evolves, IInv, TypeOK, Exists
<1>2. \A k \in Keys, p \in Paths : Recorded(k, p)' => Recorded(k, p)
  BY DEF Recorded
<1>. QED
  BY <1>1, <1>2 DEF ServerEvolves, Exists

LEMMA GotoEvolves ==
  ASSUME IInv, NEW r \in Requests, NEW step, step # "record",
         request[r].at \in {"list", "publish", "batch", "classify"}, Goto(r, step),
         UNCHANGED <<session, uploaded, blobs>>, now' \in 0..MaxTime, now <= now'
  PROVE  ServerEvolves
<1>1. request[r] \in [at : {"list", "publish", "batch", "classify"}, key : Keys]
  BY RequestShape DEF IInv
<1>2. request'[r] = [request[r] EXCEPT !.at = step]
      /\ \A o \in Requests \ {r} : request'[o] = request[o]
  BY DEF Goto, IInv, TypeOK
<1>3. request'[r].at = step
  BY <1>1, <1>2
<1>. QED
  BY <1>2, <1>3, QuietEvolves

LEMMA BecomesEvolves ==
  ASSUME IInv, NEW r \in Requests, NEW q, q.at # "record",
         request' = [request EXCEPT ![r] = q],
         UNCHANGED <<session, uploaded, blobs>>, now' \in 0..MaxTime, now <= now'
  PROVE  ServerEvolves
BY QuietEvolves DEF IInv, TypeOK

LEMMA AnswerEvolves ==
  ASSUME IInv, NEW r \in Requests, NEW c, Answer(r, c),
         UNCHANGED <<session, uploaded, blobs>>, now' \in 0..MaxTime, now <= now'
  PROVE  ServerEvolves
BY BecomesEvolves DEF Answer

LEMMA CreateEvolves ==
  ASSUME IInv, NEW r \in Requests, CreateUploadSession(r) PROVE ServerEvolves
<1>. DEFINE k == request[r].key
<1>1. /\ At(r, "insert") /\ request' = [request EXCEPT ![r] = Idle]
      /\ UNCHANGED <<now, uploaded, blobs>>
  BY DEF CreateUploadSession
<1>2. CASE UNCHANGED session
  <2>1. now' \in 0..MaxTime /\ now <= now'
    BY <1>1 DEF IInv, TypeOK
  <2>. QED
    BY <1>1, <1>2, <2>1, BecomesEvolves DEF Idle
<1>3. ASSUME ~Exists(k), NEW a \in AssignedIds(request[r].artifact),
             session' = [session EXCEPT ![k] = SessionRow(r, a)]
      PROVE  ServerEvolves
  <2>1. k \in Keys
    BY <1>1, RequestShape DEF IInv
  <2>2. SessionRow(r, a).status = "pending"
    BY <1>1, <1>3, OpenedRow DEF IInv
  <2>3. /\ session'[k].status = "pending"
        /\ \A j \in Keys \ {k} : session'[j] = session[j]
    BY <1>3, <2>1, <2>2 DEF IInv, TypeOK
  <2>4. \A j \in Keys : Exists(j) => session'[j] = session[j] /\ Exists(j)'
    BY <1>3, <2>3 DEF Exists
  <2>5. Evolves
    BY <1>1, <2>4 DEF Evolves, IInv, TypeOK
  <2>6. \A j \in Keys, p \in Paths : Recorded(j, p)' => Recorded(j, p)
    BY <1>1 DEF Recorded, Idle, IInv, TypeOK
  <2>. QED
    BY <1>1, <2>3, <2>4, <2>5, <2>6 DEF ServerEvolves, Exists
<1>. QED
  BY <1>2, <1>3 DEF CreateUploadSession

LEMMA PutEvolves == ASSUME IInv, NEW r \in Requests, PutBlob(r) PROVE ServerEvolves
<1>0. PICK k \in Keys, p \in Paths : k = request[r].key /\ p = request[r].path
  BY RequestShape DEF IInv, PutBlob, At
<1>1. /\ request[r].at = "store" /\ blobs' = blobs \cup {BlobOf(k, p)}
      /\ UNCHANGED <<now, session, uploaded>>
  BY <1>0 DEF PutBlob, At
<1>2. request[r] \in [at : {"store", "record"}, key : Keys, path : Paths]
  BY <1>1, RequestShape DEF IInv
<1>3. request'[r] = [request[r] EXCEPT !.at = "record"]
      /\ \A o \in Requests \ {r} : request'[o] = request[o]
  BY DEF PutBlob, Goto, IInv, TypeOK
<1>4. request'[r].at = "record" /\ request'[r].key = k /\ request'[r].path = p
  BY <1>0, <1>2, <1>3
<1>5. Evolves
  BY <1>1 DEF Evolves, IInv, TypeOK, Exists
<1>6. Exists(k) /\ p \in ManifestPaths(k)
  BY <1>0, <1>1 DEF IInv, RequestInv, RequestOK
<1>7. \A j \in Keys, x \in Paths : Recorded(j, x)' =>
        Recorded(j, x) \/ (j = k /\ x = p)
  BY <1>1, <1>3, <1>4 DEF Recorded
<1>8. Puts(r)
  BY <1>1, <1>4 DEF Puts, At
<1>9. \A b \in blobs' \ blobs : \E o \in Requests :
        Puts(o) /\ b = BlobOf(request[o].key, request[o].path)
  BY <1>0, <1>1, <1>8
<1>. QED
  BY <1>1, <1>5, <1>6, <1>7, <1>9 DEF ServerEvolves, Exists

LEMMA RecordEvolves == ASSUME IInv, NEW r \in Requests, RecordUploadedFile(r) PROVE ServerEvolves
<1>0. PICK k \in Keys, p \in Paths : k = request[r].key /\ p = request[r].path
  BY RequestShape DEF IInv, RecordUploadedFile, At
<1>1. /\ request[r].at = "record" /\ uploaded' = [uploaded EXCEPT ![k] = @ \cup {p}]
      /\ request' = [request EXCEPT ![r] = Idle]
      /\ UNCHANGED <<now, session, blobs>>
  BY <1>0 DEF RecordUploadedFile, At
<1>2. /\ uploaded'[k] = uploaded[k] \cup {p}
      /\ \A j \in Keys \ {k} : uploaded'[j] = uploaded[j]
  BY <1>1 DEF IInv, TypeOK
<1>3. Evolves
  BY <1>1, <1>2 DEF Evolves, IInv, TypeOK, Exists
<1>4. \A o \in Requests : o # r => request'[o] = request[o]
  BY <1>1 DEF IInv, TypeOK
<1>5. request'[r].at # "record"
  BY <1>1 DEF IInv, TypeOK, Idle
<1>6. Recorded(k, p)
  BY <1>0, <1>1 DEF Recorded
<1>7. \A j \in Keys, x \in Paths : Recorded(j, x)' => Recorded(j, x)
  BY <1>2, <1>4, <1>5, <1>6 DEF Recorded
<1>. QED
  BY <1>1, <1>3, <1>7 DEF ServerEvolves, Exists

LEMMA CommitEvolves == ASSUME IInv, NEW r \in Requests, CommitBatch(r) PROVE ServerEvolves
<1>1. PICK k \in Keys :
        /\ k = request[r].key /\ Exists(k) /\ UNCHANGED <<uploaded, blobs>>
        /\ now' \in 0..MaxTime /\ now <= now'
        /\ Answer(r, "OK") \/ Goto(r, "classify")
        /\ \/ UNCHANGED <<versions, files, latest, session>>
           \/ \E ran \in 2..5 : Appends(k, ran)
  BY CommitEffect
<1>2. request[r] \in [at : {"list", "publish", "batch", "classify"}, key : Keys]
      /\ request[r].at = "batch"
  BY RequestShape DEF IInv, CommitBatch, At
<1>3. CASE UNCHANGED session
  BY <1>1, <1>2, <1>3, GotoEvolves, AnswerEvolves
<1>4. ASSUME Appends(k, 5) PROVE ServerEvolves
  <2>1. /\ session[k] \in Session /\ session' = [session EXCEPT ![k].status = "published"]
        /\ ~Over(k)
    BY <1>1, <1>4 DEF Appends, IInv, TypeOK, Exists
  <2>2. /\ \A j \in Keys \ {k} : session'[j] = session[j]
        /\ session'[k] = [session[k] EXCEPT !.status = "published"]
    BY <2>1 DEF IInv, TypeOK
  <2>3. /\ session'[k].status = "published" /\ session'[k].artifact = session[k].artifact
        /\ session'[k].base = session[k].base
        /\ session'[k].tree = session[k].tree /\ session'[k].expiresAt = session[k].expiresAt
        /\ session'[k] \in Session
    BY <2>1, <2>2 DEF Session
  <2>4. Exists(k)'
    BY <2>3, NoSessionAssumption DEF Exists
  <2>5. Evolves
    <3>1. ASSUME NEW j \in Keys, j # k, Exists(j) PROVE Exists(j)' /\ session'[j] = session[j]
      BY <2>2, <3>1 DEF Exists
    <3>. QED
      BY <1>1, <2>1, <2>3, <2>4, <3>1 DEF Evolves
  <2>6. /\ \A o \in Requests \ {r} : request'[o] = request[o]
        /\ request'[r].at # "record"
    BY <1>1, <1>2 DEF Answer, Goto, IInv, TypeOK
  <2>7. \A j \in Keys, p \in Paths : Recorded(j, p)' => Recorded(j, p)
    BY <1>1, <2>6 DEF Recorded
  <2>. QED
    BY <1>1, <2>2, <2>3, <2>4, <2>5, <2>7 DEF ServerEvolves, Exists
<1>. QED
  BY <1>1, <1>3, <1>4 DEF Appends

LEMMA NextEvolves == ASSUME IInv, Next PROVE ServerEvolves
<1>1. CASE Tick
  <2>1. UNCHANGED <<session, uploaded, blobs, request>> /\ now' = now + 1 /\ now' \in 0..MaxTime
    BY <1>1, ClockAssumption DEF Tick, IInv, TypeOK
  <2>2. Evolves
    BY <2>1, ClockAssumption DEF Evolves, IInv, TypeOK, Exists
  <2>3. \A j \in Keys, p \in Paths : Recorded(j, p)' => Recorded(j, p)
    BY <2>1 DEF Recorded
  <2>. QED
    BY <2>1, <2>2, <2>3 DEF ServerEvolves, Exists
<1>2. ASSUME NEW r \in Requests, RequestStep(r) PROVE ServerEvolves
  <2>0. now \in 0..MaxTime /\ now <= now
    BY ClockAssumption DEF IInv, TypeOK
  <2>1. ASSUME NEW k \in Keys, NEW a \in Artifacts \cup {NoArtifact}, NEW base \in 0..MaxVersion,
               NEW tree \in Trees, CreateArtifactUpload(r, k, a, base, tree)
        PROVE  ServerEvolves
    BY <2>0, <2>1, BecomesEvolves DEF CreateArtifactUpload
  <2>2. ASSUME NEW k \in Keys, NEW p \in Paths, UploadArtifactFile(r, k, p)
        PROVE  ServerEvolves
    BY <2>0, <2>2, BecomesEvolves DEF UploadArtifactFile
  <2>3. ASSUME NEW k \in Keys, FinalizeArtifactUpload(r, k)
        PROVE  ServerEvolves
    <3>. DEFINE q == CASE session[k].status = "published" -> [at |-> "publish", key |-> k]
                       [] session[k].status = "pending" /\ ~PastExpiry(k)
                            -> [at |-> "list", key |-> k]
                       [] OTHER -> [at |-> "done", key |-> k, code |-> "SESSION_EXPIRED"]
    <3>1. request' = [request EXCEPT ![r] = q] /\ UNCHANGED <<now, session, uploaded, blobs>>
      BY <2>3 DEF FinalizeArtifactUpload
    <3>2. q.at # "record"
      <4>1. CASE session[k].status = "published"
        BY <4>1
      <4>2. CASE session[k].status # "published" /\ session[k].status = "pending" /\ ~PastExpiry(k)
        BY <4>2
      <4>3. CASE session[k].status # "published" /\ ~(session[k].status = "pending" /\ ~PastExpiry(k))
        BY <4>3
      <4>. QED
        BY <4>1, <4>2, <4>3
    <3>. HIDE DEF q
    <3>. QED
      BY <2>0, <3>1, <3>2, BecomesEvolves
  <2>4. CASE ListUploadedPaths(r)
    BY <2>0, <2>4, AnswerEvolves, GotoEvolves DEF ListUploadedPaths, At
  <2>5. CASE PublishUploadSession(r)
    BY <2>0, <2>5, AnswerEvolves, GotoEvolves DEF PublishUploadSession, At
  <2>6. CASE RollbackBatch(r)
    BY <2>0, <2>6, GotoEvolves DEF RollbackBatch, At
  <2>7. CASE ClassifyPublishFailure(r)
    BY <2>0, <2>7, AnswerEvolves DEF ClassifyPublishFailure
  <2>8. CASE EndRequest(r)
    BY <2>0, <2>8, BecomesEvolves DEF EndRequest, Idle
  <2>9. CASE ExpiresMeanwhile(r)
    BY <2>0, <2>9, AnswerEvolves DEF ExpiresMeanwhile
  <2>. QED
    BY <1>2, <2>1, <2>2, <2>3, <2>4, <2>5, <2>6, <2>7, <2>8, <2>9, CreateEvolves, PutEvolves,
       RecordEvolves, CommitEvolves DEF RequestStep
<1>. QED
  BY <1>1, <1>2 DEF Next

LEMMA StepEvolves == ASSUME IInv, [Next]_vars PROVE Evolves
<1>1. CASE Next
  BY <1>1, NextEvolves DEF ServerEvolves
<1>2. CASE UNCHANGED vars
  BY <1>2 DEF vars, Evolves, IInv, TypeOK, Exists
<1>. QED
  BY <1>1, <1>2

\* Whatever is recorded, or about to be, is stored.
BlobInv == \A k \in Keys, p \in Paths : Recorded(k, p) => BlobOf(k, p) \in blobs

LEMMA RecordedExists ==
  ASSUME IInv, NEW k \in Keys, NEW p \in Paths, Recorded(k, p)
  PROVE  Exists(k) /\ p \in ManifestPaths(k)
BY DEF IInv, UploadInv, RequestInv, RequestOK, Recorded

\* Every file is of a version, whose session had every path recorded.
LEMMA FileOfVersion ==
  ASSUME IInv, NEW f \in files
  PROVE  \E k \in Keys : /\ HasVersion(k) /\ AllUploaded(k) /\ f \in FileRows(k)
                         /\ Published(k) \/ Over(k)
<1>1. f.artifact \in Artifacts /\ f.version \in DOMAIN versions[f.artifact]
  BY DEF IInv, TypeOK, FileRow, VersionsComplete
<1>2. PICK k \in Keys : k = versions[f.artifact][f.version].session
  BY <1>1, VersionHasSession DEF IInv
<1>3. HasVersion(k) /\ AllUploaded(k) /\ (Published(k) \/ Over(k))
  BY <1>1, <1>2 DEF IInv, PublishedOnce, VersionRows
<1>4. f \in FilesOf(f.artifact, f.version)
  BY DEF FilesOf
<1>5. FilesOf(f.artifact, f.version) \in {{}, FileRows(k)}
  BY <1>1, <1>2 DEF IInv, VersionsComplete
<1>. QED
  BY <1>3, <1>4, <1>5

\* Without the cleanup, no published file ever lacks its blob.
THEOREM BlobsAreStored == Spec => []PublishedBlobsStored
<1>1. Init => BlobInv
  BY DEF Init, BlobInv, Recorded, Idle
<1>2. IInv /\ BlobInv /\ [Next]_vars => BlobInv'
  <2>. SUFFICES ASSUME IInv, BlobInv, [Next]_vars PROVE BlobInv'
    OBVIOUS
  <2>1. CASE Next
    <3>. SUFFICES ASSUME NEW k \in Keys, NEW p \in Paths, Recorded(k, p)'
                  PROVE  BlobOf(k, p)' \in blobs'
      BY DEF BlobInv
    <3>1. ServerEvolves
      BY <2>1, NextEvolves
    <3>2. Exists(k) /\ BlobOf(k, p) \in blobs'
      BY <3>1, RecordedExists DEF ServerEvolves, BlobInv
    <3>3. BlobOf(k, p)' = BlobOf(k, p)
      BY <3>1, <3>2 DEF ServerEvolves, Evolves, BlobOf
    <3>. QED
      BY <3>2, <3>3
  <2>2. CASE UNCHANGED vars
    BY <2>2 DEF vars, BlobInv, Recorded, BlobOf
  <2>. QED
    BY <2>1, <2>2
<1>3. IInv /\ BlobInv => PublishedBlobsStored
  <2>. SUFFICES ASSUME IInv, BlobInv PROVE PublishedBlobsStored
    OBVIOUS
  <2>1. ASSUME NEW k \in Keys, NEW p \in uploaded[k] PROVE BlobOf(k, p) \in blobs
    BY DEF IInv, TypeOK, BlobInv, Recorded
  <2>2. ASSUME NEW f \in files PROVE Blob(f.artifact, f.sha256) \in blobs
    <3>1. PICK k \in Keys : AllUploaded(k) /\ f \in FileRows(k)
      BY FileOfVersion
    <3>2. PICK p \in ManifestPaths(k) :
            f = [artifact |-> session[k].artifact, version |-> NewVersion(k), path |-> p,
                 sha256 |-> Manifest[session[k].tree][p]]
      BY <3>1 DEF FileRows
    <3>3. p \in uploaded[k]
      BY <3>1, <3>2 DEF AllUploaded
    <3>. QED
      BY <2>1, <3>2, <3>3 DEF BlobOf
  <2>. QED
    BY <2>1, <2>2 DEF PublishedBlobsStored
<1>. QED
  BY <1>1, <1>2, <1>3, Invariance, PTL DEF Spec

-----------------------------------------------------------------------------
(* The answers.                                                            *)

\* A decided answer keeps its session until it is delivered.
LEMMA DoneStays ==
  ASSUME IInv, [Next]_vars, NEW r \in Requests, At(r, "done"), At(r, "done")'
  PROVE  request'[r].key = request[r].key
<1>0. request \in [Requests -> Request] /\ request[r].at = "done" /\ request'[r].at = "done"
  BY DEF IInv, TypeOK, At
<1>1. CASE UNCHANGED request
  BY <1>1
<1>2. ASSUME NEW o \in Requests, RequestStep(o) PROVE request'[r].key = request[r].key
  <2>1. CASE o # r
    BY <1>0, <1>2, <2>1 DEF RequestStep, CreateArtifactUpload, CreateUploadSession,
       UploadArtifactFile, PutBlob, RecordUploadedFile, FinalizeArtifactUpload, ListUploadedPaths,
       PublishUploadSession, ExpiresMeanwhile, CommitBatch, RollbackBatch,
       ClassifyPublishFailure, EndRequest, Answer, Goto
  <2>2. CASE o = r
    <3>1. ExpiresMeanwhile(r) \/ EndRequest(r)
      BY <1>0, <1>2, <2>2 DEF RequestStep, CreateArtifactUpload, CreateUploadSession,
         UploadArtifactFile, PutBlob, RecordUploadedFile, FinalizeArtifactUpload,
         ListUploadedPaths, PublishUploadSession, CommitBatch, RollbackBatch,
         ClassifyPublishFailure, At
    <3>. QED
      BY <1>0, <3>1 DEF ExpiresMeanwhile, EndRequest, Answer, Idle
  <2>. QED
    BY <2>1, <2>2
<1>. QED
  BY <1>1, <1>2 DEF Next, Tick, vars

\* What an answer says of its session is final.
LEMMA AnswersStay ==
  ASSUME IInv, IInv', Evolves, Effect,
         NEW r \in Requests, At(r, "done"), request'[r].key = request[r].key
  PROVE  LET k == request[r].key IN
           /\ request[r].code = "OK" => Visible(k) /\ Visible(k)'
           /\ request[r].code = "SESSION_EXPIRED" =>
                /\ HasVersion(k)' = HasVersion(k)
                /\ Visible(k)' = Visible(k)
<1>. DEFINE k == request[r].key
<1>1. k \in Keys /\ request'[r].key = k
  BY RequestShape DEF IInv
<1>2. RequestOK(request[r])
  BY DEF IInv, RequestInv
<1>3. PICK j \in Keys : j = k
  BY <1>1
<1>4. request[r].code = "OK" => Visible(j) /\ Visible(j)'
  <2>1. request[r].code = "OK" => Published(j) /\ Published(j)'
    BY <1>2, <1>3, OverStays DEF RequestOK, At, IInv
  <2>. QED
    BY <2>1 DEF IInv, PublishedOnce
<1>5. request[r].code = "SESSION_EXPIRED" =>
        (HasVersion(j)' <=> HasVersion(j)) /\ (Visible(j)' <=> Visible(j))
  <2>1. request[r].code = "SESSION_EXPIRED" => Over(j)
    BY <1>2, <1>3 DEF RequestOK, At
  <2>. QED
    BY <2>1, OverHasItsVersion
<1>6. (HasVersion(k)' <=> HasVersion(j)') /\ (Visible(k)' <=> Visible(j)')
  BY <1>1, <1>3 DEF HasVersion, Visible, Exists, NewVersion, VersionRow
<1>. QED
  BY <1>3, <1>4, <1>5, <1>6 DEF HasVersion, Visible

\* What finalize answers stays true: after OK the version is in the history, and
\* after SESSION_EXPIRED no batch adds a version of the session or moves one
\* into the history.
THEOREM AnswersStayTrue == Spec => AnswersAreFinal
<1>1. ASSUME IInv, IInv', [Next]_vars, NEW r \in Requests, At(r, "done"), At(r, "done")'
      PROVE  LET k == request[r].key IN
               /\ request[r].code = "OK" => Visible(k) /\ Visible(k)'
               /\ request[r].code = "SESSION_EXPIRED" =>
                    /\ HasVersion(k)' = HasVersion(k)
                    /\ Visible(k)' = Visible(k)
  BY <1>1, StepEvolves, HistoryEffect, DoneStays, AnswersStay
<1>2. IInv /\ IInv' /\ [Next]_vars =>
        [\A r \in Requests : At(r, "done") /\ At(r, "done")' =>
           LET k == request[r].key IN
             /\ request[r].code = "OK" => Visible(k) /\ Visible(k)'
             /\ request[r].code = "SESSION_EXPIRED" =>
                  /\ HasVersion(k)' = HasVersion(k)
                  /\ Visible(k)' = Visible(k)]_vars
  BY <1>1
<1>. QED
  BY <1>2, Invariance, PTL DEF Spec, AnswersAreFinal

-----------------------------------------------------------------------------
(* Refinement of ArtifactHistory.                                          *)

\* The abstract value of a session row.
Declared ==
  [k \in Keys |->
     IF Exists(k)
     THEN [artifact |-> session[k].artifact, base |-> session[k].base, tree |-> session[k].tree]
     ELSE NoSession]

\* The abstract value of the versions: the history, up to latest_version.
Log == [a \in Artifacts |-> [v \in 1..latest[a] |-> versions[a][v]]]

LEMMA DeclaredType ==
  ASSUME TypeOK, NEW k \in Keys, Exists(k)
  PROVE  /\ Declared[k] \in History!Declaration
         /\ Declared[k] # NoSession
         /\ Declared[k].artifact = session[k].artifact
         /\ Declared[k].base = session[k].base
         /\ Declared[k].tree = session[k].tree
<1>1. session[k] \in Session
  BY DEF TypeOK, Exists
<1>. QED
  BY <1>1, NoSessionAssumption DEF Declared, Session, History!Declaration

\* A step that leaves what a session declares and the history alone stutters.
LEMMA Stutters ==
  ASSUME Log' = Log,
         \A k \in Keys : /\ Exists(k)' <=> Exists(k)
                         /\ Exists(k) => /\ session'[k].artifact = session[k].artifact
                                         /\ session'[k].base = session[k].base
                                         /\ session'[k].tree = session[k].tree
  PROVE  UNCHANGED History!historyVars
<1>1. Declared' = Declared
  BY DEF Declared
<1>. QED
  BY <1>1 DEF Declared, Log, History!historyVars

LEMMA OpeningDeclares ==
  ASSUME IInv, IInv', NEW r \in Requests, CreateUploadSession(r)
  PROVE  [History!Next]_History!historyVars
<1>1. PICK k \in Keys : k = request[r].key
  BY RequestShape DEF IInv, CreateUploadSession
<1>2. Log' = Log
  BY DEF CreateUploadSession, catalogVars, Log
<1>3. CASE UNCHANGED session
  BY <1>2, <1>3, Stutters DEF Exists
<1>4. ASSUME ~Exists(k), NEW a \in AssignedIds(request[r].artifact),
             session' = [session EXCEPT ![k] = SessionRow(r, a)]
      PROVE  History!Declare(k)
  <2>1. session \in [Keys -> Session \cup {NoSession}]
        /\ session' \in [Keys -> Session \cup {NoSession}]
    BY DEF IInv, TypeOK
  <2>2. \A j \in Keys \ {k} : session'[j] = session[j]
    BY <1>4, <2>1
  <2>3. session'[k] = SessionRow(r, a) /\ SessionRow(r, a) \in Session
    BY <1>4, <2>1, OpenedRow DEF IInv, CreateUploadSession
  <2>4. Declared'[k] \in History!Declaration
    BY <2>3, NoSessionAssumption DEF Declared, Exists, Session, History!Declaration
  <2>5. Declared' = [Declared EXCEPT ![k] = Declared'[k]]
    BY <2>2 DEF Declared, Exists
  <2>6. Declared[k] = NoSession
    BY <1>4 DEF Declared
  <2>. QED
    BY <1>2, <2>4, <2>5, <2>6 DEF Declared, Log, History!Declare
<1>. QED
  BY <1>1, <1>3, <1>4 DEF CreateUploadSession, History!Next

\* Publishing leaves what every session declares alone.
LEMMA PublishingKeepsDeclared ==
  ASSUME IInv, NEW k \in Keys, Exists(k),
         session' = [session EXCEPT ![k].status = "published"] \/ UNCHANGED session
  PROVE  \A j \in Keys : /\ Exists(j)' <=> Exists(j)
                         /\ Exists(j) => /\ session'[j].artifact = session[j].artifact
                                         /\ session'[j].base = session[j].base
                                         /\ session'[j].tree = session[j].tree
<1>1. CASE UNCHANGED session
  BY <1>1 DEF Exists
<1>2. CASE session' = [session EXCEPT ![k].status = "published"]
  <2>1. session \in [Keys -> Session \cup {NoSession}] /\ session[k] \in Session
    BY DEF IInv, TypeOK, Exists
  <2>2. \A j \in Keys \ {k} : session'[j] = session[j]
    BY <1>2, <2>1
  <2>3. session'[k] = [session[k] EXCEPT !.status = "published"]
    BY <1>2, <2>1
  <2>4. session'[k].artifact = session[k].artifact
        /\ session'[k].base = session[k].base /\ session'[k].tree = session[k].tree
    BY <2>1, <2>3 DEF Session
  <2>5. [session[k] EXCEPT !.status = "published"] \in Session
    BY <2>1 DEF Session
  <2>6. Exists(k)'
    BY <2>3, <2>5, NoSessionAssumption DEF Exists
  <2>. QED
    BY <2>2, <2>4, <2>6 DEF Exists
<1>. QED
  BY <1>1, <1>2

\* Moving latest_version to a new version appends it to the history.
LEMMA MovingLatestAppends ==
  ASSUME IInv, NEW k \in Keys, NEW ran \in 2..5, Appends(k, ran)
  PROVE  LET a == session[k].artifact IN
           Log' = IF ran >= 4 THEN [Log EXCEPT ![a] = Append(@, VersionRow(k))] ELSE Log
<1>. DEFINE a == session[k].artifact
            n == NewVersion(k)
<1>1. /\ a \in Artifacts /\ n = latest[a] + 1 /\ n \notin DOMAIN versions[a]
      /\ DOMAIN versions[a] = 1..latest[a] /\ latest[a] \in Nat
      /\ versions'[a][n] = VersionRow(k)
      /\ \A v \in DOMAIN versions[a] : versions'[a][v] = versions[a][v]
      /\ \A b \in Artifacts \ {a} : versions'[b] = versions[b]
      /\ latest'[a] = IF ran >= 4 THEN n ELSE latest[a]
      /\ \A b \in Artifacts \ {a} : latest'[b] = latest[b]
  BY AppendRows
<1>2. \A b \in Artifacts \ {a} : Log'[b] = Log[b]
  BY <1>1 DEF Log
<1>3. CASE ran < 4
  <2>0. latest'[a] = latest[a]
    BY <1>1, <1>3
  <2>1. Log'[a] = Log[a]
    <3>1. Log[a] = [v \in 1..latest[a] |-> versions[a][v]]
      BY <1>1 DEF Log
    <3>2. Log'[a] = [v \in 1..latest[a] |-> versions'[a][v]]
      BY <1>1, <2>0 DEF Log
    <3>3. \A v \in 1..latest[a] : versions'[a][v] = versions[a][v]
      BY <1>1
    <3>. HIDE DEF a
    <3>. QED
      BY <3>1, <3>2, <3>3
  <2>2. Log' = Log
    BY <1>2, <2>1 DEF Log
  <2>. QED
    BY <1>3, <2>2
<1>4. CASE ran >= 4
  <2>1. Log'[a] = [v \in 1..(latest[a] + 1) |-> versions'[a][v]]
    BY <1>1, <1>4 DEF Log
  <2>2. Log[a] = [v \in 1..latest[a] |-> versions[a][v]]
    BY <1>1 DEF Log
  <2>3. \A v \in 1..latest[a] : versions[a][v] \in VersionRecord
    BY <1>1 DEF IInv, VersionRows
  <2>4. Log[a] \in Seq(VersionRecord) /\ Len(Log[a]) = latest[a]
    <3>1. Log[a] \in [1..latest[a] -> VersionRecord]
      BY <2>2, <2>3
    <3>2. Log[a] \in Seq(VersionRecord)
      BY <1>1, <3>1, SeqDef
    <3>. QED
      BY <1>1, <3>1, <3>2, LenProperties
  <2>5. VersionRow(k) \in VersionRecord
    BY DEF Appends, IInv, TypeOK, Exists, Session, VersionRow, VersionRecord
  <2>6. /\ Append(Log[a], VersionRow(k)) \in Seq(VersionRecord)
        /\ Len(Append(Log[a], VersionRow(k))) = latest[a] + 1
        /\ \A v \in 1..latest[a] : Append(Log[a], VersionRow(k))[v] = versions[a][v]
        /\ Append(Log[a], VersionRow(k))[latest[a] + 1] = VersionRow(k)
    <3>1. \A v \in 1..latest[a] : Log[a][v] = versions[a][v]
      BY <2>2
    <3>2. \A v \in 1..Len(Log[a]) : Append(Log[a], VersionRow(k))[v] = Log[a][v]
      BY <2>4, <2>5, AppendProperties
    <3>3. /\ Append(Log[a], VersionRow(k)) \in Seq(VersionRecord)
          /\ Len(Append(Log[a], VersionRow(k))) = Len(Log[a]) + 1
          /\ Append(Log[a], VersionRow(k))[Len(Log[a]) + 1] = VersionRow(k)
      BY <2>4, <2>5, AppendProperties
    <3>. QED
      BY <2>4, <3>1, <3>2, <3>3
  <2>7. Append(Log[a], VersionRow(k)) = [v \in 1..(latest[a] + 1) |-> Append(Log[a], VersionRow(k))[v]]
    BY <2>6, LenProperties
  <2>8. \A v \in 1..(latest[a] + 1) : versions'[a][v] = Append(Log[a], VersionRow(k))[v]
    <3>. SUFFICES ASSUME NEW v \in 1..(latest[a] + 1)
                  PROVE  versions'[a][v] = Append(Log[a], VersionRow(k))[v]
      OBVIOUS
    <3>1. CASE v = latest[a] + 1
      BY <1>1, <2>6, <3>1
    <3>2. CASE v # latest[a] + 1
      <4>1. v \in 1..latest[a]
        BY <1>1, <3>2
      <4>. QED
        BY <1>1, <2>6, <4>1
    <3>. QED
      BY <3>1, <3>2
  <2>9. Log'[a] = Append(Log[a], VersionRow(k))
    BY <2>1, <2>7, <2>8
  <2>10. Log' = [Log EXCEPT ![a] = Append(@, VersionRow(k))]
    BY <1>1, <1>2, <2>9 DEF Log
  <2>. QED
    BY <1>4, <2>10
<1>. QED
  BY <1>3, <1>4

LEMMA PublishingAppends ==
  ASSUME IInv, IInv', NEW r \in Requests, CommitBatch(r)
  PROVE  [History!Next]_History!historyVars
<1>1. PICK k \in Keys :
        /\ Exists(k)
        /\ \/ UNCHANGED <<versions, files, latest, session>>
           \/ \E ran \in 2..5 : Appends(k, ran)
  BY CommitEffect
<1>2. CASE UNCHANGED <<versions, files, latest, session>>
  <2>1. Log' = Log
    BY <1>2 DEF Log
  <2>. QED
    BY <1>2, <2>1, Stutters DEF Exists
<1>3. ASSUME NEW ran \in 2..5, Appends(k, ran) PROVE [History!Next]_History!historyVars
  <2>. DEFINE a == session[k].artifact
  <2>1. \A j \in Keys : /\ Exists(j)' <=> Exists(j)
                        /\ Exists(j) => /\ session'[j].artifact = session[j].artifact
                                        /\ session'[j].base = session[j].base
                                        /\ session'[j].tree = session[j].tree
    BY <1>1, <1>3, PublishingKeepsDeclared DEF Appends
  <2>2. CASE ran < 4
    BY <1>3, <2>1, <2>2, MovingLatestAppends, Stutters
  <2>3. CASE ran >= 4
    <3>1. Log' = [Log EXCEPT ![a] = Append(@, VersionRow(k))]
      BY <1>3, <2>3, MovingLatestAppends
    <3>2. Declared' = Declared
      BY <2>1 DEF Declared
    <3>3. /\ Declared[k] # NoSession /\ Declared[k].artifact = a
          /\ Declared[k].base = session[k].base /\ Declared[k].tree = session[k].tree
      BY <1>1, DeclaredType DEF IInv
    <3>4. Len(Log[a]) = Declared[k].base
      <4>1. latest[a] \in Nat /\ a \in Artifacts /\ latest[a] = session[k].base
        BY <1>3, AppendRows DEF Appends, Inserts
      <4>2. Log[a] = [v \in 1..latest[a] |-> versions[a][v]]
        BY <4>1 DEF Log
      <4>3. Log[a] \in Seq(VersionRecord)
        <5>1. DOMAIN versions[a] = 1..latest[a]
          BY <1>3, AppendRows
        <5>2. Log[a] \in [1..latest[a] -> VersionRecord]
          BY <4>1, <4>2, <5>1 DEF IInv, VersionRows
        <5>. QED
          BY <4>1, <5>2, SeqDef
      <4>. QED
        BY <3>3, <4>1, <4>2, <4>3, LenProperties
    <3>5. History!Entry(k) = VersionRow(k)
      BY <3>3 DEF History!Entry, VersionRow, Declared
    <3>6. History!Publish(k)
      BY <3>1, <3>2, <3>3, <3>4, <3>5 DEF Declared, Log, History!Publish
    <3>. QED
      BY <3>6 DEF History!Next
  <2>. QED
    BY <2>2, <2>3
<1>. QED
  BY <1>1, <1>2, <1>3

\* Every step of the server is one of the abstract history, or none.
LEMMA NextImplements ==
  ASSUME IInv, IInv', [Next]_vars
  PROVE  [History!Next]_History!historyVars
<1>1. ASSUME NEW r \in Requests, RequestStep(r),
             ~CreateUploadSession(r), ~CommitBatch(r)
      PROVE  UNCHANGED <<session, latest, versions>>
  BY <1>1 DEF RequestStep, CreateArtifactUpload, UploadArtifactFile, PutBlob,
              RecordUploadedFile, FinalizeArtifactUpload, ListUploadedPaths,
              PublishUploadSession, ExpiresMeanwhile, RollbackBatch, ClassifyPublishFailure,
              EndRequest, catalogVars
<1>2. CASE UNCHANGED <<session, latest, versions>>
  <2>1. Log' = Log
    BY <1>2 DEF Log
  <2>. QED
    BY <1>2, <2>1, Stutters DEF Exists
<1>3. CASE UNCHANGED vars \/ Tick
  BY <1>2, <1>3 DEF vars, catalogVars, Tick
<1>4. ASSUME NEW r \in Requests, RequestStep(r)
      PROVE  [History!Next]_History!historyVars
  BY <1>1, <1>2, <1>4, OpeningDeclares, PublishingAppends
<1>. QED
  BY <1>3, <1>4 DEF Next

LEMMA InitImplements == Init => History!Init
<1>. SUFFICES ASSUME Init PROVE History!Init
  OBVIOUS
<1>1. \A a \in Artifacts : Log[a] = <<>>
  BY DEF Init, Log
<1>2. Log = [a \in Artifacts |-> <<>>]
  BY <1>1 DEF Log
<1>. QED
  BY <1>2 DEF Init, Exists, Log, History!Init

\* The tables implement compare-and-append: every behaviour of the requests,
\* seen through sessions and the history up to latest_version, is one of
\* ArtifactHistory, also when the expiry second cuts batches short.
THEOREM Refinement == Spec => ImplementsHistory
<1>1. IInv /\ IInv' /\ [Next]_vars => [History!Next]_History!historyVars
  BY NextImplements
<1>. QED
  BY <1>1, InitImplements, Invariance, PTL DEF Spec, ImplementsHistory, History!Spec

-----------------------------------------------------------------------------
(***************************************************************************)
(* ArtifactCleanup: the inductive invariant.                               *)
(***************************************************************************)

\* A session the job listed: it expired long before the job started and can
\* never be published.
Due(k) ==
  /\ Exists(k) /\ session[k].status # "published"
  /\ job.startedAt >= Grace
  /\ Second[session[k].expiresAt] < Second[job.startedAt - Grace]

ListedInv ==
  /\ ~JobAt("idle") => job.startedAt <= now /\ \A k \in job.todo : Due(k)
  /\ job.at \in {"inFlight", "delete", "mark"} => Due(job.key)

\* A pending session that keeps blob b from being garbage.
Covers(j, b) ==
  /\ Exists(j) /\ session[j].status = "pending"
  /\ \E p \in ManifestPaths(j) : b = BlobOf(j, p)

CoveredByOthers(k, b) ==
  b \in latePuts \/ Referenced(b) \/ \E j \in Keys \ {k} : Covers(j, b)

\* What the job keeps others need, and after its delete only that is left of
\* the session it is about to mark.
LeakInv ==
  /\ \A b \in blobs : b \in latePuts \/ Referenced(b) \/ \E j \in Keys : Covers(j, b)
  /\ job.at \in {"inFlight", "delete", "mark"} =>
       \A p \in ManifestPaths(job.key) : Manifest[session[job.key].tree][p] \in job.keep
         => CoveredByOthers(job.key, BlobOf(job.key, p))
  /\ JobAt("mark") =>
       \A p \in ManifestPaths(job.key) : BlobOf(job.key, p) \in blobs
         => CoveredByOthers(job.key, BlobOf(job.key, p))

Excused(j) == overlap[j].opened = "delete" \/ overlap[j].published = "inFlight"

\* The files of session j are rows of a version, published or cut.
HasFiles(j) == HasVersion(j) /\ FileRows(j) \subseteq files

\* The files of session j are of a version, or may still become ones.
Needed(j) == Exists(j) /\ (~Over(j) \/ HasFiles(j))

\* What session j needs and the job could delete is kept.
Kept(j) ==
  session[j].artifact = session[job.key].artifact
    => Excused(j) \/ BlobHashes(j) \cap BlobHashes(job.key) \subseteq job.keep

KeepInv ==
  /\ JobAt("inFlight") => \A j \in Keys : HasFiles(j) => Kept(j)
  /\ JobAt("delete") => \A j \in Keys : Needed(j) => Kept(j)

\* Recorded files of the sessions that need them are stored.
StoredInv ==
  /\ \A j \in Keys, p \in Paths :
       Recorded(j, p) /\ Needed(j) => BlobOf(j, p) \in blobs \/ Excused(j)
  /\ \A j \in Keys : ~HasVersion(j) => overlap[j].published = "none"

CleanupIInv ==
  /\ IInv
  /\ CleanupTypeOK
  /\ ListedInv
  /\ LeakInv
  /\ KeepInv
  /\ StoredInv

-----------------------------------------------------------------------------
(* The data of the job.                                                    *)

LEMMA JobShape ==
  ASSUME job \in Job
  PROVE  /\ ~JobAt("idle") => job.startedAt \in 0..MaxTime /\ job.todo \subseteq Keys
         /\ job.at \in {"inFlight", "delete", "mark"} =>
              /\ job \in [at : {"inFlight", "delete", "mark"}, startedAt : 0..MaxTime,
                          todo : SUBSET Keys, key : Keys, keep : SUBSET Hashes]
              /\ job.key \in Keys /\ job.keep \subseteq Hashes
         /\ job.at \in {"idle", "next", "inFlight", "delete", "mark"}
         /\ ~JobAt("idle") => BetweenSessions \in Job
BY DEF Job, IdleJob, JobAt, BetweenSessions

LEMMA BetweenAt == BetweenSessions.at = "next" /\ BetweenSessions.startedAt = job.startedAt
                   /\ BetweenSessions.todo = job.todo
BY DEF BetweenSessions

LEMMA IdleJobAt == IdleJob.at = "idle" /\ IdleJob \in Job
BY DEF IdleJob, Job

LEMMA SecondType ==
  ASSUME IInv
  PROVE  /\ now \in Nat /\ Second[now] \in Nat
         /\ \A k \in Keys : Exists(k) =>
              /\ session[k] \in Session /\ session[k].expiresAt \in Nat
              /\ Second[session[k].expiresAt] \in Nat
         /\ \A t \in 0..MaxTime : t >= Grace /\ t <= now =>
              /\ Second[t - Grace] \in Nat /\ Second[t - Grace] <= Second[now]
              /\ now - Grace \in Nat /\ Second[now - Grace] \in Nat
              /\ Second[t - Grace] <= Second[now - Grace]
<1>1. now \in 0..MaxTime /\ TTL \in Nat /\ MaxTime \in Nat /\ Grace \in Nat
  BY ClockAssumption, CleanupAssumption DEF IInv, TypeOK
<1>2. now \in 0..(MaxTime + TTL) /\ Second[now] \in Nat
  BY <1>1, ClockAssumption
<1>3. ASSUME NEW k \in Keys, Exists(k)
      PROVE  session[k] \in Session /\ session[k].expiresAt \in Nat /\ Second[session[k].expiresAt] \in Nat
  <2>1. session[k] \in Session
    BY <1>3 DEF Exists, IInv, TypeOK
  <2>. QED
    BY <2>1, <1>1, ClockAssumption DEF Session
<1>4. ASSUME NEW t \in 0..MaxTime, t >= Grace, t <= now
      PROVE  /\ Second[t - Grace] \in Nat /\ Second[t - Grace] <= Second[now]
             /\ now - Grace \in Nat /\ Second[now - Grace] \in Nat
             /\ Second[t - Grace] <= Second[now - Grace]
  <2>1. t - Grace \in 0..(MaxTime + TTL) /\ now - Grace \in 0..(MaxTime + TTL)
        /\ t - Grace <= now /\ t - Grace <= now - Grace
    BY <1>1, <1>4
  <2>. QED
    BY <1>2, <2>1, ClockAssumption
<1>. QED
  BY <1>1, <1>2, <1>3, <1>4

\* A listed session can never be published, and a put for it is late.
LEMMA DueIsOver ==
  ASSUME IInv, job \in Job, ~JobAt("idle"), job.startedAt <= now, NEW k \in Keys, Due(k)
  PROVE  /\ Over(k) /\ ~Published(k)
         /\ session[k].status = "expired" \/ Abandoned(k, now)
<1>1. job.startedAt \in 0..MaxTime
  BY JobShape
<1>2. /\ Second[session[k].expiresAt] <= Second[now]
      /\ Second[session[k].expiresAt] < Second[now - Grace]
      /\ now >= Grace
  BY <1>1, SecondType, CleanupAssumption DEF Due
<1>3. session[k].status \in {"pending", "expired"}
  BY SecondType DEF Due, Session
<1>. QED
  BY <1>2, <1>3 DEF Over, Due, Abandoned, Published

\* The files of a published session are rows.
LEMMA PublishedHasFiles ==
  ASSUME IInv, NEW j \in Keys, Published(j)
  PROVE  HasFiles(j)
<1>1. Visible(j) /\ HasVersion(j) /\ NewVersion(j) <= latest[session[j].artifact]
  BY DEF IInv, PublishedOnce, Visible
<1>2. session[j].artifact \in Artifacts
  BY <1>1 DEF HasVersion, IInv, TypeOK, Exists, Session
<1>3. versions[session[j].artifact][NewVersion(j)].session = j
  BY <1>1 DEF HasVersion, VersionRow
<1>4. FilesOf(session[j].artifact, NewVersion(j)) = FileRows(j)
  BY <1>1, <1>2, <1>3 DEF HasVersion, IInv, VersionsComplete
<1>. QED
  BY <1>1, <1>4 DEF HasFiles, FilesOf

LEMMA PublishedIsReferenced ==
  ASSUME IInv, NEW j \in Keys, Published(j), NEW p \in ManifestPaths(j)
  PROVE  Referenced(BlobOf(j, p))
<1>. DEFINE f == [artifact |-> session[j].artifact, version |-> NewVersion(j), path |-> p,
                  sha256 |-> Manifest[session[j].tree][p]]
<1>1. f \in files
  BY PublishedHasFiles DEF HasFiles, FileRows
<1>2. Blob(f.artifact, f.sha256) = BlobOf(j, p)
  BY DEF BlobOf
<1>. QED
  BY <1>1, <1>2 DEF Referenced

\* File rows are the manifests of sessions whose version has its files.
LEMMA FilesHaveSessions ==
  ASSUME IInv, NEW f \in files
  PROVE  \E j \in Keys : \E p \in ManifestPaths(j) :
           /\ HasFiles(j) /\ p \in Paths /\ Recorded(j, p)
           /\ f.artifact = session[j].artifact /\ f.sha256 = Manifest[session[j].tree][p]
           /\ Blob(f.artifact, f.sha256) = BlobOf(j, p)
           /\ Publisher(f) = j
<1>0. f.artifact \in Artifacts /\ f.version \in DOMAIN versions[f.artifact]
  BY DEF IInv, TypeOK, FileRow, VersionsComplete
<1>1. PICK j \in Keys : j = versions[f.artifact][f.version].session
  BY <1>0, VersionHasSession DEF IInv
<1>2. HasVersion(j) /\ AllUploaded(j)
  BY <1>0, <1>1 DEF IInv, PublishedOnce, VersionRows
<1>3. f \in FilesOf(f.artifact, f.version)
  BY DEF FilesOf
<1>4. FilesOf(f.artifact, f.version) = FileRows(j)
  BY <1>0, <1>1, <1>3 DEF IInv, VersionsComplete
<1>5. HasFiles(j)
  BY <1>2, <1>4 DEF HasFiles, FilesOf
<1>6. PICK p \in ManifestPaths(j) :
        f = [artifact |-> session[j].artifact, version |-> NewVersion(j), path |-> p,
             sha256 |-> Manifest[session[j].tree][p]]
  BY <1>3, <1>4 DEF FileRows
<1>7. f.artifact = session[j].artifact /\ f.sha256 = Manifest[session[j].tree][p]
  BY <1>6
<1>8. p \in uploaded[j] /\ p \in Paths
  BY <1>2, <1>6 DEF IInv, AllUploaded, TypeOK
<1>. QED
  BY <1>1, <1>5, <1>7, <1>8 DEF Recorded, BlobOf, Publisher

-----------------------------------------------------------------------------
(* What no step undoes.                                                    *)

LEMMA Stable ==
  ASSUME IInv, Evolves, NEW k \in Keys, Exists(k)
  PROVE  /\ Exists(k)' /\ session'[k].artifact = session[k].artifact
         /\ session'[k].expiresAt = session[k].expiresAt
         /\ ManifestPaths(k)' = ManifestPaths(k)
         /\ Manifest[session'[k].tree] = Manifest[session[k].tree]
         /\ BlobHashes(k)' = BlobHashes(k)
         /\ \A p : BlobOf(k, p)' = BlobOf(k, p)
         /\ FileRows(k)' = FileRows(k) /\ NewVersion(k)' = NewVersion(k)
         /\ Over(k) => Over(k)'
         /\ Published(k) => Published(k)'
<1>1. /\ Exists(k)' /\ session'[k].artifact = session[k].artifact
      /\ session'[k].tree = session[k].tree /\ session'[k].expiresAt = session[k].expiresAt
  BY DEF Evolves
<1>2. (Over(k) => Over(k)') /\ (Published(k) => Published(k)')
  BY OverStays DEF IInv
<1>3. FileRows(k)' = FileRows(k) /\ NewVersion(k)' = NewVersion(k)
  BY FieldsStay
<1>. QED
  BY <1>1, <1>2, <1>3 DEF ManifestPaths, BlobHashes, BlobOf

\* A batch gives no other session a version.
LEMMA OnlyItsBatch ==
  ASSUME IInv, IInv', Evolves, NEW j \in Keys, HasVersion(j)', ~HasVersion(j),
         NEW k \in Keys, NEW ran \in 2..5, Appends(k, ran)
  PROVE  j = k
<1>. SUFFICES ASSUME k # j PROVE FALSE
  OBVIOUS
<1>. DEFINE a == session'[j].artifact
            n == NewVersion(j)'
<1>1. a \in Artifacts /\ n \in DOMAIN versions'[a] /\ versions'[a][n].session = j
  <2>1. session'[j] \in Session
    BY DEF HasVersion, IInv, TypeOK, Exists
  <2>. QED
    BY <2>1 DEF HasVersion, VersionRow, Session
<1>2. ASSUME n \in DOMAIN versions[a], versions[a][n] = versions'[a][n] PROVE FALSE
  BY <1>1, <1>2 DEF IInv, PublishedOnce
<1>3. /\ session[k].artifact \in Artifacts
      /\ DOMAIN versions'[session[k].artifact]
           = DOMAIN versions[session[k].artifact] \cup {NewVersion(k)}
      /\ versions'[session[k].artifact][NewVersion(k)] = VersionRow(k)
      /\ \A v \in DOMAIN versions[session[k].artifact] :
           versions'[session[k].artifact][v] = versions[session[k].artifact][v]
      /\ \A b \in Artifacts \ {session[k].artifact} : versions'[b] = versions[b]
  BY AppendRows
<1>4. VersionRow(k).session = k
  BY DEF VersionRow
<1>5. CASE a = session[k].artifact /\ n = NewVersion(k)
  BY <1>1, <1>3, <1>4, <1>5
<1>6. CASE ~(a = session[k].artifact /\ n = NewVersion(k))
  BY <1>1, <1>2, <1>3, <1>6
<1>. QED
  BY <1>5, <1>6

\* A session gets its version by its own batch, while it is not over.
LEMMA VersionComesByBatch ==
  ASSUME IInv, IInv', Evolves, Effect, NEW j \in Keys, HasVersion(j)', ~HasVersion(j)
  PROVE  Exists(j) /\ ~Over(j)
<1>1. session'[j].artifact \in Artifacts /\ VersionRow(j)'.session = j
  BY DEF HasVersion, IInv, TypeOK, Exists, Session, VersionRow
<1>2. CASE UNCHANGED <<latest, versions, files>>
  BY <1>1, <1>2 DEF IInv, PublishedOnce, HasVersion
<1>3. ASSUME NEW k \in Keys, NEW ran \in 2..5, Appends(k, ran) PROVE Exists(j) /\ ~Over(j)
  BY <1>3, OnlyItsBatch DEF Appends
<1>. QED
  BY <1>2, <1>3 DEF Effect

\* What a session has of rows stays, and nothing but its own batch adds to it.
LEMMA FilesStay ==
  ASSUME IInv, Evolves, Effect, NEW j \in Keys, HasVersion(j)
  PROVE  HasVersion(j)' /\ (HasFiles(j)' <=> HasFiles(j)) /\ files \subseteq files'
<1>1. /\ Exists(j) /\ session[j].artifact \in Artifacts
      /\ NewVersion(j) \in DOMAIN versions[session[j].artifact]
  BY DEF HasVersion, IInv, TypeOK, Exists, Session
<1>2. FileRows(j)' = FileRows(j)
  BY <1>1, FieldsStay
<1>3. CASE UNCHANGED <<latest, versions, files>>
  <2>1. HasVersion(j)'
    BY <1>1, <1>3, VersionStays
  <2>. QED
    BY <1>2, <1>3, <2>1 DEF HasFiles
<1>4. ASSUME NEW k \in Keys, NEW ran \in 2..5, Appends(k, ran)
      PROVE  HasVersion(j)' /\ (HasFiles(j)' <=> HasFiles(j)) /\ files \subseteq files'
  <2>1. /\ session[k].artifact \in Artifacts
        /\ NewVersion(k) \notin DOMAIN versions[session[k].artifact]
        /\ DOMAIN versions'[session[k].artifact]
             = DOMAIN versions[session[k].artifact] \cup {NewVersion(k)}
        /\ \A v \in DOMAIN versions[session[k].artifact] :
             versions'[session[k].artifact][v] = versions[session[k].artifact][v]
        /\ \A b \in Artifacts \ {session[k].artifact} : versions'[b] = versions[b]
    BY <1>4, AppendRows
  <2>2. HasVersion(j)'
    BY <1>1, <2>1, VersionStays
  <2>3. \A f \in FileRows(j) : f \notin FileRows(k)
    <3>1. \A f \in FileRows(j) : f.artifact = session[j].artifact /\ f.version = NewVersion(j)
      BY DEF FileRows
    <3>2. \A f \in FileRows(k) : f.artifact = session[k].artifact /\ f.version = NewVersion(k)
      BY DEF FileRows
    <3>. QED
      BY <1>1, <2>1, <3>1, <3>2
  <2>4. files \subseteq files' /\ files' \subseteq files \cup FileRows(k)
    BY <1>4 DEF Appends
  <2>. QED
    BY <1>2, <2>2, <2>3, <2>4 DEF HasFiles
<1>. QED
  BY <1>3, <1>4 DEF Effect

\* Files are never taken out of their table.
LEMMA FilesGrow ==
  ASSUME Effect
  PROVE  files \subseteq files' /\ \A b : Referenced(b) => Referenced(b)'
<1>1. files \subseteq files'
  BY DEF Effect, Appends
<1>. QED
  BY <1>1 DEF Referenced

\* Who needs its files, needed them when it was there.
LEMMA NeededBefore ==
  ASSUME IInv, IInv', Evolves, Effect, NEW j \in Keys, Exists(j), Needed(j)'
  PROVE  Needed(j)
<1>1. CASE ~Over(j)'
  BY <1>1, Stable DEF Needed
<1>2. CASE HasFiles(j)' /\ HasVersion(j)
  BY <1>2, FilesStay DEF Needed
<1>3. CASE HasFiles(j)' /\ ~HasVersion(j)
  BY <1>3, VersionComesByBatch DEF HasFiles, Needed
<1>. QED
  BY <1>1, <1>2, <1>3 DEF Needed

LEMMA DueStays ==
  ASSUME IInv, Evolves, job \in Job, ~JobAt("idle"), job.startedAt <= now,
         job'.startedAt = job.startedAt, NEW k \in Keys, Due(k)
  PROVE  Due(k)'
<1>1. Exists(k) /\ Over(k)
  BY DueIsOver DEF Due
<1>2. Exists(k)' /\ session'[k].expiresAt = session[k].expiresAt
  BY <1>1, Stable
<1>3. session'[k].status # "published"
  BY <1>1 DEF Evolves, Due
<1>. QED
  BY <1>2, <1>3 DEF Due

\* Requests rely on nothing the job takes away.
LEMMA RequestsStable ==
  ASSUME IInv, Evolves, UNCHANGED request
  PROVE  RequestInv'
<1>1. ASSUME NEW r \in Requests PROVE RequestOK(request[r])'
  <2>1. PICK q \in Request : q = request[r] /\ RequestOK(q)
    BY DEF IInv, TypeOK, RequestInv
  <2>2. RequestOK(q)'
    BY <2>1, RequestStable DEF IInv
  <2>3. request'[r] = q
    BY <2>1
  <2>. QED
    BY <2>2, <2>3
<1>. QED
  BY <1>1 DEF RequestInv

\* The rows the job does not touch.
LEMMA OnlyBlobs ==
  ASSUME IInv, blobs' \subseteq blobs,
         UNCHANGED <<now, session, uploaded, catalogVars, request>>
  PROVE  IInv' /\ Evolves
<1>. USE DEF catalogVars
<1>1. Evolves
  BY DEF Evolves, IInv, TypeOK, Exists
<1>2. \A k \in Keys : Published(k)' => Published(k)
  BY DEF Published, Exists
<1>3. VersionRows' /\ GapFreeHistory' /\ PublishedOnce' /\ VersionsComplete'
  BY <1>1, <1>2, CatalogKeeps
<1>4. UploadInv' /\ RequestInv'
  BY <1>1, <1>2, UploadsKeep, RequestsStable
<1>5. TypeOK'
  BY DEF IInv, TypeOK
<1>. QED
  BY <1>1, <1>3, <1>4, <1>5 DEF IInv

\* Marking a pending session expired disturbs no request and no version.
LEMMA MarkingKeeps ==
  ASSUME IInv, NEW k \in Keys, Exists(k), session[k].status = "pending",
         session' = [session EXCEPT ![k].status = "expired"],
         UNCHANGED <<now, uploaded, catalogVars, blobs, request>>
  PROVE  IInv' /\ Evolves
<1>. USE DEF catalogVars
<1>1. session \in [Keys -> Session \cup {NoSession}] /\ session[k] \in Session
  BY DEF IInv, TypeOK, Exists
<1>2. /\ session'[k] = [session[k] EXCEPT !.status = "expired"]
      /\ \A j \in Keys \ {k} : session'[j] = session[j]
  BY <1>1
<1>3. /\ session'[k] \in Session /\ session'[k].status = "expired"
      /\ session'[k].artifact = session[k].artifact /\ session'[k].tree = session[k].tree
      /\ session'[k].base = session[k].base /\ session'[k].expiresAt = session[k].expiresAt
  BY <1>1, <1>2 DEF Session
<1>4. Exists(k)'
  BY <1>3, NoSessionAssumption DEF Exists
<1>5. Evolves
  BY <1>2, <1>3, <1>4 DEF Evolves, IInv, TypeOK, Exists
<1>6. \A j \in Keys : Published(j)' => Published(j)
  BY <1>2, <1>3 DEF Published, Exists
<1>7. VersionRows' /\ GapFreeHistory' /\ PublishedOnce' /\ VersionsComplete'
  BY <1>5, <1>6, CatalogKeeps
<1>8. UploadInv' /\ RequestInv'
  BY <1>5, <1>6, UploadsKeep, RequestsStable
<1>9. TypeOK'
  <2>1. session' \in [Keys -> Session \cup {NoSession}]
    BY <1>1, <1>3
  <2>. QED
    BY <2>1 DEF IInv, TypeOK
<1>. QED
  BY <1>5, <1>7, <1>8, <1>9 DEF IInv

-----------------------------------------------------------------------------
(* The steps of the job.                                                   *)

LEMMA CleanupInitOK == CleanupInit => CleanupIInv
<1>. SUFFICES ASSUME CleanupInit PROVE CleanupIInv
  OBVIOUS
<1>. USE DEF CleanupInit
<1>1. IInv
  BY InitInv
<1>2. CleanupTypeOK
  BY <1>1 DEF IInv, CleanupTypeOK, Job, Stage
<1>3. ListedInv /\ KeepInv
  BY DEF ListedInv, KeepInv, JobAt, IdleJob
<1>4. LeakInv
  BY DEF LeakInv, Init, JobAt, IdleJob
<1>5. StoredInv
  BY DEF StoredInv, Init, Recorded, Idle
<1>. QED
  BY <1>1, <1>2, <1>3, <1>4, <1>5 DEF CleanupIInv

\* A step of the job that writes nothing keeps all but what its own state says.
LEMMA ReadKeeps ==
  ASSUME CleanupIInv, UNCHANGED <<vars, overlap, latePuts>>, job' \in Job
  PROVE  /\ IInv' /\ CleanupTypeOK' /\ StoredInv'
         /\ \A b \in blobs' : b \in latePuts' \/ Referenced(b)' \/ \E j \in Keys : Covers(j, b)'
<1>. USE DEF vars
<1>1. IInv'
  BY NextInv DEF CleanupIInv
<1>2. CleanupTypeOK'
  BY <1>1 DEF CleanupIInv, CleanupTypeOK, IInv
<1>3. StoredInv'
  <2>1. \A j \in Keys : (Needed(j)' <=> Needed(j)) /\ (HasVersion(j)' <=> HasVersion(j))
    BY DEF Needed, Over, Exists, HasFiles, HasVersion, NewVersion, VersionRow, FileRows, ManifestPaths, catalogVars
  <2>. QED
    BY <2>1 DEF CleanupIInv, StoredInv, Recorded, BlobOf, Excused
<1>4. \A b \in blobs' : b \in latePuts' \/ Referenced(b)' \/ \E j \in Keys : Covers(j, b)'
  BY DEF CleanupIInv, LeakInv, Covers, Referenced, Exists, ManifestPaths, BlobOf, catalogVars
<1>. QED
  BY <1>1, <1>2, <1>3, <1>4

LEMMA StartCleanupKeeps == ASSUME CleanupIInv, StartCleanup PROVE CleanupIInv'
<1>1. PICK listed \in FirstToExpire(AbandonedSessions(now), BatchSize) :
        job' = [at |-> "next", startedAt |-> now, todo |-> listed]
  BY DEF StartCleanup
<1>2. UNCHANGED <<vars, overlap, latePuts>>
  BY DEF StartCleanup
<1>3. job'.at = "next" /\ job'.startedAt = now /\ job'.todo = listed
  BY <1>1
<1>4. listed \subseteq AbandonedSessions(now) /\ listed \subseteq Keys /\ now \in 0..MaxTime
  BY DEF FirstToExpire, AbandonedSessions, CleanupIInv, IInv, TypeOK
<1>5. job' \in Job
  BY <1>1, <1>4 DEF Job
<1>6. ListedInv'
  BY <1>2, <1>3, <1>4 DEF ListedInv, Due, AbandonedSessions, Abandoned, Exists, JobAt, vars,
                          CleanupIInv, IInv, TypeOK
<1>7. LeakInv' /\ KeepInv'
  BY <1>2, <1>3, <1>5, ReadKeeps DEF LeakInv, KeepInv, JobAt
<1>. QED
  BY <1>2, <1>5, <1>6, <1>7, ReadKeeps DEF CleanupIInv

LEMMA BetweenKeeps ==
  ASSUME CleanupIInv, job' = BetweenSessions \/ job' = IdleJob, ~JobAt("idle"),
         UNCHANGED <<vars, overlap, latePuts>>
  PROVE  CleanupIInv'
<1>1. job' \in Job
  BY JobShape, IdleJobAt DEF CleanupIInv, CleanupTypeOK
<1>2. job'.at = "idle" \/ (job'.at = "next" /\ job'.startedAt = job.startedAt /\ job'.todo = job.todo)
  BY IdleJobAt, BetweenAt
<1>3. ListedInv'
  BY <1>2 DEF CleanupIInv, ListedInv, Due, Exists, JobAt, vars
<1>4. LeakInv' /\ KeepInv'
  BY <1>1, <1>2, ReadKeeps DEF LeakInv, KeepInv, JobAt
<1>. QED
  BY <1>1, <1>3, <1>4, ReadKeeps DEF CleanupIInv

\* Published sessions are in what the first read keeps.
LEMMA FindReferencedHashesKeeps == ASSUME CleanupIInv, FindReferencedHashes PROVE CleanupIInv'
<1>1. PICK k \in job.todo :
        job' = [at |-> "inFlight", startedAt |-> job.startedAt, todo |-> job.todo \ {k},
                key |-> k, keep |-> ReferencedHashes(k)]
  BY DEF FindReferencedHashes
<1>2. UNCHANGED <<vars, overlap, latePuts>> /\ JobAt("next")
  BY DEF FindReferencedHashes
<1>3. job'.at = "inFlight" /\ job'.startedAt = job.startedAt /\ job'.todo = job.todo \ {k}
      /\ job'.key = k /\ job'.keep = ReferencedHashes(k)
  BY <1>1
<1>4. k \in Keys /\ Due(k) /\ job.startedAt \in 0..MaxTime /\ job.todo \subseteq Keys
      /\ job.startedAt <= now /\ ~JobAt("idle")
  BY <1>2, JobShape DEF CleanupIInv, CleanupTypeOK, ListedInv, JobAt
<1>6. job' \in Job
  <2>1. ReferencedHashes(k) \subseteq Hashes
    BY DEF ReferencedHashes, CleanupIInv, IInv, TypeOK, FileRow
  <2>. QED
    BY <1>1, <1>4, <2>1 DEF Job
<1>7. ListedInv'
  BY <1>2, <1>3, <1>4 DEF CleanupIInv, ListedInv, Due, Exists, JobAt, vars
<1>8. ASSUME NEW p \in ManifestPaths(k), Manifest[session[k].tree][p] \in ReferencedHashes(k)
      PROVE  CoveredByOthers(k, BlobOf(k, p))
  <2>1. PICK f \in files : f.artifact = session[k].artifact
                           /\ f.sha256 = Manifest[session[k].tree][p]
    BY <1>8 DEF ReferencedHashes
  <2>2. Blob(f.artifact, f.sha256) = BlobOf(k, p)
    BY <2>1 DEF BlobOf
  <2>. QED
    BY <2>2 DEF CoveredByOthers, Referenced
<1>9. LeakInv'
  BY <1>2, <1>3, <1>6, <1>8, ReadKeeps
     DEF LeakInv, JobAt, CoveredByOthers, Covers, Referenced, Exists, ManifestPaths, BlobOf, vars,
         catalogVars
<1>10. ASSUME NEW j \in Keys, HasFiles(j), session[j].artifact = session[k].artifact
       PROVE  BlobHashes(j) \cap BlobHashes(k) \subseteq ReferencedHashes(k)
  <2>. SUFFICES ASSUME NEW h \in BlobHashes(j), h \in BlobHashes(k) PROVE h \in ReferencedHashes(k)
    OBVIOUS
  <2>1. PICK p \in ManifestPaths(j) : h = Manifest[session[j].tree][p]
    BY DEF BlobHashes
  <2>. DEFINE f == [artifact |-> session[j].artifact, version |-> NewVersion(j), path |-> p,
                    sha256 |-> Manifest[session[j].tree][p]]
  <2>2. f \in files
    BY <1>10 DEF HasFiles, FileRows
  <2>3. f.artifact = session[k].artifact /\ f.sha256 = h
    BY <1>10, <2>1
  <2>. QED
    BY <2>2, <2>3 DEF ReferencedHashes
<1>11. KeepInv'
  BY <1>2, <1>3, <1>10
     DEF KeepInv, JobAt, Kept, Excused, Exists, BlobHashes, vars, catalogVars,
         HasFiles, HasVersion, NewVersion, VersionRow, FileRows, ManifestPaths
<1>. QED
  BY <1>2, <1>6, <1>7, <1>9, <1>11, ReadKeeps DEF CleanupIInv

\* The second read adds every session that could still publish.
LEMMA FindInFlightHashesKeeps == ASSUME CleanupIInv, FindInFlightHashes PROVE CleanupIInv'
<1>. DEFINE k == job.key
            more == InFlightHashes(k, job.startedAt)
<1>1. job' = [job EXCEPT !.at = "delete", !.keep = @ \cup more] /\ JobAt("inFlight")
      /\ UNCHANGED <<vars, overlap, latePuts>>
  BY DEF FindInFlightHashes
<1>2. /\ job \in [at : {"inFlight", "delete", "mark"}, startedAt : 0..MaxTime,
                  todo : SUBSET Keys, key : Keys, keep : SUBSET Hashes]
      /\ k \in Keys /\ Due(k) /\ job.startedAt \in 0..MaxTime /\ job.startedAt <= now
      /\ ~JobAt("idle")
  BY <1>1, JobShape DEF CleanupIInv, CleanupTypeOK, ListedInv, JobAt
<1>3. job'.at = "delete" /\ job'.startedAt = job.startedAt /\ job'.todo = job.todo
      /\ job'.key = k /\ job'.keep = job.keep \cup more
  BY <1>1, <1>2
<1>4. more \subseteq Hashes
  <2>1. ASSUME NEW j \in Keys, Exists(j) PROVE BlobHashes(j) \subseteq Hashes
    BY <2>1, ManifestAssumption, SecondType DEF BlobHashes, ManifestPaths, Session, CleanupIInv
  <2>. QED
    BY <2>1 DEF InFlightHashes, InFlightSessions
<1>5. job' \in Job
  <2>1. job' \in [at : {"inFlight", "delete", "mark"}, startedAt : 0..MaxTime,
                  todo : SUBSET Keys, key : Keys, keep : SUBSET Hashes]
    BY <1>1, <1>2, <1>4
  <2>. QED
    BY <2>1 DEF Job
<1>6. ListedInv'
  BY <1>1, <1>2, <1>3 DEF CleanupIInv, ListedInv, Due, Exists, JobAt, vars
<1>7. ASSUME NEW p \in ManifestPaths(k), Manifest[session[k].tree][p] \in more
      PROVE  CoveredByOthers(k, BlobOf(k, p))
  <2>1. PICK j \in InFlightSessions(k, job.startedAt) : Manifest[session[k].tree][p] \in BlobHashes(j)
    BY <1>7 DEF InFlightHashes
  <2>2. PICK x \in ManifestPaths(j) : Manifest[session[k].tree][p] = Manifest[session[j].tree][x]
    BY <2>1 DEF BlobHashes
  <2>3. Covers(j, BlobOf(k, p)) /\ j \in Keys \ {k}
    BY <2>1, <2>2 DEF Covers, InFlightSessions, BlobOf
  <2>. QED
    BY <2>3 DEF CoveredByOthers
<1>8. \A p \in ManifestPaths(k) : Manifest[session[k].tree][p] \in job.keep
        => CoveredByOthers(k, BlobOf(k, p))
  BY <1>1 DEF CleanupIInv, LeakInv, JobAt
<1>9. LeakInv'
  BY <1>1, <1>3, <1>5, <1>7, <1>8, ReadKeeps
     DEF LeakInv, JobAt, CoveredByOthers, Covers, Referenced, Exists, ManifestPaths, BlobOf, vars,
         catalogVars
<1>10. ASSUME NEW j \in Keys, Needed(j), session[j].artifact = session[k].artifact,
              ~Excused(j)
       PROVE  BlobHashes(j) \cap BlobHashes(k) \subseteq job.keep \cup more
  <2>1. CASE HasFiles(j)
    BY <1>1, <1>10, <2>1 DEF CleanupIInv, KeepInv, Kept
  <2>2. CASE ~HasFiles(j)
    <3>0. Exists(j) /\ ~Over(j) /\ ~Published(j)
      BY <1>10, <2>2, PublishedHasFiles DEF Needed, CleanupIInv
    <3>1. session[j].status = "pending"
      BY <3>0, SecondType DEF CleanupIInv, Published, Over, Session
    <3>2. j # k
      BY <1>2, <3>0, DueIsOver DEF CleanupIInv, CleanupTypeOK
    <3>3. Second[session[j].expiresAt] > Second[now] /\ job.startedAt >= Grace
      BY <1>2, <3>0, <3>1, SecondType DEF CleanupIInv, Over, Due
    <3>4. Second[session[j].expiresAt] >= Second[job.startedAt - Grace]
      BY <1>2, <3>0, <3>3, SecondType DEF CleanupIInv
    <3>. QED
      BY <1>10, <3>0, <3>1, <3>2, <3>4 DEF InFlightSessions, InFlightHashes
  <2>. QED
    BY <2>1, <2>2
<1>11. KeepInv'
  BY <1>1, <1>3, <1>10
     DEF KeepInv, JobAt, Kept, Excused, Needed, Over, Exists, BlobHashes, vars, catalogVars,
         HasFiles, HasVersion, NewVersion, VersionRow, FileRows, ManifestPaths
<1>. QED
  BY <1>1, <1>5, <1>6, <1>9, <1>11, ReadKeeps DEF CleanupIInv

\* Garbage is what nobody else needs.
LEMMA DeletingKeeps ==
  ASSUME CleanupIInv, JobAt("delete"), blobs \ Garbage \subseteq blobs', blobs' \subseteq blobs,
         UNCHANGED <<now, session, uploaded, catalogVars, request, overlap, latePuts>>,
         \/ job' = BetweenSessions
         \/ job' = [job EXCEPT !.at = "mark"] /\ blobs' = blobs \ Garbage
  PROVE  CleanupIInv'
<1>. DEFINE k == job.key
<1>1. IInv' /\ IInv /\ Evolves
  BY OnlyBlobs DEF CleanupIInv
<1>2. /\ job \in [at : {"inFlight", "delete", "mark"}, startedAt : 0..MaxTime,
                  todo : SUBSET Keys, key : Keys, keep : SUBSET Hashes]
      /\ k \in Keys /\ Due(k) /\ ~JobAt("idle") /\ job \in Job
      /\ BetweenSessions \in Job
  BY JobShape DEF CleanupIInv, CleanupTypeOK, ListedInv, JobAt
<1>3. job'.startedAt = job.startedAt /\ job'.todo = job.todo
      /\ (job'.at = "next" \/ (job'.at = "mark" /\ job'.key = k /\ job'.keep = job.keep
                                /\ blobs' = blobs \ Garbage))
  BY <1>2, BetweenAt
<1>4. job' \in Job
  <2>1. [job EXCEPT !.at = "mark"] \in [at : {"inFlight", "delete", "mark"}, startedAt : 0..MaxTime,
                  todo : SUBSET Keys, key : Keys, keep : SUBSET Hashes]
    BY <1>2
  <2>. QED
    BY <1>2, <2>1 DEF Job
<1>5. CleanupTypeOK'
  BY <1>1, <1>4 DEF CleanupIInv, CleanupTypeOK, IInv
<1>6. ListedInv'
  BY <1>2, <1>3 DEF CleanupIInv, ListedInv, Due, Exists, JobAt
<1>7. \A b \in blobs' : b \in latePuts' \/ Referenced(b)' \/ \E j \in Keys : Covers(j, b)'
  BY DEF CleanupIInv, LeakInv, Covers, Referenced, Exists, ManifestPaths, BlobOf, catalogVars
<1>8. ASSUME NEW p \in ManifestPaths(k), blobs' = blobs \ Garbage, BlobOf(k, p) \in blobs'
      PROVE  CoveredByOthers(k, BlobOf(k, p))
  <2>1. Manifest[session[k].tree][p] \in job.keep
    BY <1>8 DEF Garbage, BlobHashes, BlobOf
  <2>2. Manifest[session[k].tree][p] \in job.keep => CoveredByOthers(k, BlobOf(k, p))
    BY DEF CleanupIInv, LeakInv, JobAt
  <2>. QED
    BY <2>1, <2>2
<1>9. \A p \in ManifestPaths(k) : Manifest[session[k].tree][p] \in job.keep
         => CoveredByOthers(k, BlobOf(k, p))
  BY DEF CleanupIInv, LeakInv, JobAt
<1>10. LeakInv'
  BY <1>3, <1>7, <1>8, <1>9
     DEF LeakInv, JobAt, CoveredByOthers, Covers, Referenced, Exists, ManifestPaths, BlobOf,
         catalogVars
<1>11. KeepInv'
  BY <1>3 DEF KeepInv, JobAt
<1>12. ASSUME NEW j \in Keys, NEW p \in Paths, Recorded(j, p), Needed(j), ~Excused(j)
       PROVE  BlobOf(j, p) \in blobs'
  <2>1. Exists(j) /\ p \in ManifestPaths(j)
    BY <1>1, <1>12, RecordedExists
  <2>2. BlobOf(j, p) \in blobs
    BY <1>12 DEF CleanupIInv, StoredInv
  <2>3. ASSUME BlobOf(j, p) \in Garbage PROVE FALSE
    <3>1. PICK h \in BlobHashes(k) \ job.keep : BlobOf(j, p) = Blob(session[k].artifact, h)
      BY <2>3 DEF Garbage
    <3>2. session[j].artifact = session[k].artifact /\ Manifest[session[j].tree][p] = h
      BY <3>1 DEF BlobOf, Blob
    <3>3. h \in BlobHashes(j)
      BY <2>1, <3>2 DEF BlobHashes
    <3>4. BlobHashes(j) \cap BlobHashes(k) \subseteq job.keep
      BY <1>12, <2>1, <3>2 DEF CleanupIInv, KeepInv, Kept
    <3>. QED
      BY <3>1, <3>3, <3>4
  <2>. QED
    BY <2>2, <2>3
<1>13. StoredInv'
  <2>1. \A j \in Keys : (Needed(j)' <=> Needed(j)) /\ (HasVersion(j)' <=> HasVersion(j))
    BY DEF Needed, Over, Exists, HasFiles, HasVersion, NewVersion, VersionRow, FileRows, ManifestPaths, catalogVars
  <2>. QED
    BY <1>12, <2>1 DEF CleanupIInv, StoredInv, Recorded, BlobOf, Excused
<1>. QED
  BY <1>1, <1>5, <1>6, <1>10, <1>11, <1>13 DEF CleanupIInv

LEMMA MarkSessionsExpiredKeeps == ASSUME CleanupIInv, MarkSessionsExpired PROVE CleanupIInv'
<1>. DEFINE k == job.key
<1>1. /\ JobAt("mark") /\ job' = BetweenSessions
      /\ UNCHANGED <<now, uploaded, catalogVars, blobs, request, overlap, latePuts>>
  BY DEF MarkSessionsExpired
<1>2. k \in Keys /\ Due(k) /\ ~JobAt("idle") /\ BetweenSessions \in Job /\ job \in Job
      /\ job.startedAt <= now
  BY <1>1, JobShape DEF CleanupIInv, CleanupTypeOK, ListedInv, JobAt
<1>3. job'.at = "next" /\ job'.startedAt = job.startedAt /\ job'.todo = job.todo
  BY <1>1, BetweenAt
<1>4. CASE session[k].status # "pending"
  BY <1>1, <1>2, <1>4, BetweenKeeps DEF MarkSessionsExpired, vars
<1>5. CASE session[k].status = "pending"
  <2>1. session' = [session EXCEPT ![k].status = "expired"] /\ Exists(k)
    BY <1>2, <1>5 DEF MarkSessionsExpired, Due
  <2>2. IInv' /\ Evolves /\ IInv
    BY <1>1, <1>2, <1>5, <2>1, MarkingKeeps DEF CleanupIInv
  <2>3. CleanupTypeOK'
    BY <1>1, <1>2, <2>2 DEF CleanupIInv, CleanupTypeOK, IInv
  <2>4. ASSUME NEW j \in job.todo PROVE Due(j)'
    <3>1. j \in Keys /\ Due(j)
      BY <1>2, JobShape DEF CleanupIInv, ListedInv
    <3>. QED
      BY <1>2, <1>3, <2>2, <3>1, DueStays
  <2>5. ListedInv'
    BY <1>1, <1>2, <1>3, <2>4 DEF ListedInv, JobAt
  <2>6. ASSUME NEW b \in blobs, b \notin latePuts, ~Referenced(b)
        PROVE  \E j \in Keys : Covers(j, b)'
    <3>1. PICK j \in Keys \ {k} : Covers(j, b)
      <4>1. PICK i \in Keys : Covers(i, b)
        BY <2>6 DEF CleanupIInv, LeakInv
      <4>2. CASE i = k
        <5>1. PICK p \in ManifestPaths(k) : b = BlobOf(k, p)
          BY <4>1, <4>2 DEF Covers
        <5>2. CoveredByOthers(k, b)
          BY <1>1, <5>1 DEF CleanupIInv, LeakInv
        <5>. QED
          BY <2>6, <5>2 DEF CoveredByOthers
      <4>. QED
        BY <4>1, <4>2
    <3>2. session'[j] = session[j]
      BY <2>1 DEF CleanupIInv, IInv, TypeOK
    <3>3. Covers(j, b)'
      BY <3>1, <3>2 DEF Covers, Exists, ManifestPaths, BlobOf
    <3>. QED
      BY <3>3
  <2>7. LeakInv' /\ KeepInv'
    BY <1>1, <1>3, <2>6 DEF LeakInv, KeepInv, JobAt, Referenced, catalogVars
  <2>8. ASSUME NEW j \in Keys, NEW p \in Paths, Recorded(j, p)', Needed(j)'
        PROVE  BlobOf(j, p)' \in blobs' \/ Excused(j)'
    <3>1. Recorded(j, p) /\ Exists(j)
      BY <1>1, <2>2, <2>8, RecordedExists DEF Recorded
    <3>2. Needed(j) /\ BlobOf(j, p)' = BlobOf(j, p)
      BY <1>1, <2>2, <2>8, <3>1, Stable, NeededBefore DEF Effect, catalogVars
    <3>3. BlobOf(j, p) \in blobs \/ Excused(j)
      BY <3>1, <3>2 DEF CleanupIInv, StoredInv
    <3>. QED
      BY <1>1, <3>2, <3>3 DEF Excused
  <2>9. ASSUME NEW j \in Keys, ~HasVersion(j)' PROVE overlap'[j].published = "none"
    <3>1. ~HasVersion(j)
      BY <1>1, <2>2, <2>9, FilesStay DEF Effect, catalogVars
    <3>. QED
      BY <1>1, <3>1 DEF CleanupIInv, StoredInv
  <2>10. StoredInv'
    BY <2>8, <2>9 DEF StoredInv
  <2>. QED
    BY <2>2, <2>3, <2>5, <2>7, <2>10 DEF CleanupIInv
<1>. QED
  BY <1>4, <1>5

-----------------------------------------------------------------------------
(* The requests.                                                           *)

LEMMA ObservedOverlap ==
  ASSUME CleanupIInv, ServerStep, NEW j \in Keys
  PROVE  /\ overlap'[j].opened =
              IF Opens(j) THEN StageOn(session'[j].artifact) ELSE overlap[j].opened
         /\ overlap'[j].published =
              IF GetsVersion(j) THEN StageOn(session[j].artifact) ELSE overlap[j].published
BY DEF ServerStep, Observe

\* A session that was excused stays so.
LEMMA ExcusedStays ==
  ASSUME CleanupIInv, ServerStep, NEW j \in Keys, Exists(j), Excused(j)
  PROVE  Excused(j)'
<1>1. ~Opens(j)
  BY DEF Opens
<1>2. CASE overlap[j].opened = "delete"
  BY <1>1, <1>2, ObservedOverlap DEF Excused
<1>3. CASE overlap[j].published = "inFlight"
  <2>1. HasVersion(j)
    BY <1>3 DEF CleanupIInv, StoredInv
  <2>2. ~GetsVersion(j)
    BY <2>1 DEF GetsVersion
  <2>. QED
    BY <1>3, <2>2, ObservedOverlap DEF Excused
<1>. QED
  BY <1>2, <1>3 DEF Excused

\* A blob is covered, or late, from its put on.
LEMMA PutsAreCovered ==
  ASSUME CleanupIInv, ServerStep, ServerEvolves, NEW b \in blobs', b \notin blobs
  PROVE  b \in latePuts' \/ Referenced(b) \/ \E j \in Keys : Covers(j, b)
<1>1. PICK r \in Requests : Puts(r) /\ b = BlobOf(request[r].key, request[r].path)
  BY DEF ServerEvolves
<1>2. request[r].key \in Keys
  BY <1>1, RequestShape DEF Puts, At, CleanupIInv, IInv
<1>3. PICK k \in Keys : k = request[r].key
  BY <1>2
<1>4. Exists(k) /\ request[r].path \in ManifestPaths(k)
  BY <1>1, <1>3 DEF Puts, At, CleanupIInv, IInv, RequestInv, RequestOK
<1>5. CASE session[k].status = "expired" \/ Abandoned(k, now)
  <2>1. PutsLate(r)
    BY <1>1, <1>3, <1>5 DEF PutsLate, Puts
  <2>2. b \in latePuts'
    BY <1>1, <2>1 DEF ServerStep, Observe
  <2>. QED
    BY <2>2
<1>6. CASE ~(session[k].status = "expired" \/ Abandoned(k, now))
  <2>1. session[k].status \in {"pending", "published"}
    BY <1>4, <1>6, SecondType DEF CleanupIInv, Session
  <2>2. CASE session[k].status = "pending"
    BY <1>1, <1>3, <1>4, <2>2 DEF Covers
  <2>3. CASE session[k].status = "published"
    BY <1>1, <1>3, <1>4, <2>3, PublishedIsReferenced DEF Published, CleanupIInv
  <2>. QED
    BY <2>1, <2>2, <2>3
<1>. QED
  BY <1>5, <1>6

\* A request leaves a cover in place, or turns it into rows: only the job expires
\* sessions.
LEMMA CoverStays ==
  ASSUME CleanupIInv, IInv', ServerEvolves, NEW j \in Keys, NEW b, Covers(j, b)
  PROVE  Covers(j, b)' \/ Referenced(b)'
<1>1. Exists(j) /\ IInv /\ Evolves
  BY DEF Covers, CleanupIInv, ServerEvolves
<1>2. Exists(j)' /\ ManifestPaths(j)' = ManifestPaths(j) /\ \A p : BlobOf(j, p)' = BlobOf(j, p)
  BY <1>1, Stable
<1>3. session'[j].status \in {"pending", "published"}
  BY <1>1 DEF Covers, ServerEvolves, Evolves
<1>4. PICK p \in ManifestPaths(j)' : b = BlobOf(j, p)'
  BY <1>2 DEF Covers
<1>5. CASE session'[j].status = "pending"
  BY <1>2, <1>4, <1>5 DEF Covers
<1>6. CASE session'[j].status = "published"
  <2>1. Published(j)'
    BY <1>2, <1>6 DEF Published
  <2>2. Visible(j)' /\ HasVersion(j)' /\ NewVersion(j)' <= latest'[session'[j].artifact]
    BY <2>1 DEF IInv, PublishedOnce, Visible
  <2>3. session'[j].artifact \in Artifacts
    BY <1>2 DEF IInv, TypeOK, Exists, Session
  <2>4. versions'[session'[j].artifact][NewVersion(j)'].session = j
    BY <2>2 DEF HasVersion, VersionRow
  <2>5. FilesOf(session[j].artifact, NewVersion(j))' = FileRows(j)'
    BY <2>2, <2>3, <2>4 DEF HasVersion, IInv, VersionsComplete
  <2>. DEFINE f == [artifact |-> session'[j].artifact, version |-> NewVersion(j)', path |-> p,
                    sha256 |-> Manifest[session'[j].tree][p]]
  <2>6. f \in files'
    BY <1>4, <2>5 DEF FileRows, FilesOf
  <2>7. Blob(f.artifact, f.sha256) = b
    BY <1>4 DEF BlobOf
  <2>. QED
    BY <2>6, <2>7 DEF Referenced
<1>. QED
  BY <1>3, <1>5, <1>6

LEMMA ServerStepKeeps == ASSUME CleanupIInv, ServerStep PROVE CleanupIInv'
<1>1. IInv /\ Next /\ Observe /\ UNCHANGED job
  BY DEF CleanupIInv, ServerStep
<1>2. IInv' /\ ServerEvolves /\ Evolves
  BY <1>1, NextInv, NextEvolves DEF ServerEvolves
<1>0. Effect /\ \A b : Referenced(b) => Referenced(b)'
  BY <1>1, HistoryEffect, FilesGrow
<1>3. CleanupTypeOK'
  <2>1. \A a : StageOn(a) \in Stage
    BY DEF StageOn, Stage
  <2>2. overlap' \in [Keys -> [opened : Stage, published : Stage]]
    BY <1>1, <2>1 DEF Observe, CleanupIInv, CleanupTypeOK
  <2>3. ASSUME NEW r \in Requests, PutsLate(r)
        PROVE  BlobOf(request[r].key, request[r].path) \in Artifacts \X Hashes
    <3>1. PICK k \in Keys, p \in Paths : k = request[r].key /\ p = request[r].path
      BY <1>1, <2>3, RequestShape DEF PutsLate, At, IInv
    <3>2. Exists(k) /\ p \in ManifestPaths(k)
      BY <1>1, <2>3, <3>1 DEF PutsLate, At, IInv, RequestInv, RequestOK
    <3>3. session[k] \in Session
      BY <1>1, <3>2, SecondType
    <3>. QED
      BY <3>1, <3>2, <3>3, ManifestAssumption DEF BlobOf, Blob, Session, ManifestPaths
  <2>4. latePuts' \subseteq Artifacts \X Hashes
    BY <1>1, <2>3 DEF Observe, CleanupIInv, CleanupTypeOK
  <2>. QED
    BY <1>1, <1>2, <2>2, <2>4 DEF CleanupIInv, CleanupTypeOK, IInv
<1>4. job \in Job /\ ListedInv /\ latePuts \subseteq latePuts'
  BY <1>1 DEF CleanupIInv, CleanupTypeOK, Observe
<1>5. ASSUME ~JobAt("idle"), NEW k \in Keys, Due(k) PROVE Due(k)'
  BY <1>1, <1>2, <1>4, <1>5, DueStays DEF ListedInv
<1>6. ListedInv'
  <2>1. ~JobAt("idle") => job.startedAt <= now'
    BY <1>1, <1>2, <1>4, JobShape DEF ListedInv, Evolves, IInv, TypeOK
  <2>2. ~JobAt("idle") => \A k \in job.todo : Due(k)'
    BY <1>4, <1>5, JobShape DEF ListedInv
  <2>3. ASSUME job.at \in {"inFlight", "delete", "mark"} PROVE Due(job.key)'
    <3>1. PICK k \in Keys : k = job.key /\ Due(k)
      BY <1>4, <2>3, JobShape DEF ListedInv
    <3>2. Due(k)'
      BY <1>5, <2>3, <3>1 DEF JobAt
    <3>3. job'.key = k
      BY <1>1, <3>1
    <3>. QED
      BY <3>2, <3>3
  <2>. QED
    BY <1>1, <2>1, <2>2, <2>3 DEF ListedInv, JobAt
<1>7. ASSUME NEW b \in blobs', b \notin latePuts', ~Referenced(b)'
      PROVE  \E j \in Keys : Covers(j, b)'
  <2>1. PICK j \in Keys : Covers(j, b)
    BY <1>0, <1>2, <1>4, <1>7, PutsAreCovered DEF CleanupIInv, LeakInv
  <2>. QED
    BY <1>2, <1>7, <2>1, CoverStays
<1>8. ASSUME NEW k \in Keys, NEW b, CoveredByOthers(k, b) PROVE CoveredByOthers(k, b)'
  BY <1>0, <1>2, <1>4, <1>8, CoverStays DEF CoveredByOthers
<1>9. ASSUME job.at \in {"inFlight", "delete", "mark"}
      PROVE  /\ job.key \in Keys /\ Exists(job.key) /\ Over(job.key) /\ ~Published(job.key)
             /\ session[job.key].status = "expired" \/ Abandoned(job.key, now)
             /\ session'[job.key].artifact = session[job.key].artifact
             /\ Manifest[session'[job.key].tree] = Manifest[session[job.key].tree]
             /\ ManifestPaths(job.key)' = ManifestPaths(job.key)
             /\ BlobHashes(job.key)' = BlobHashes(job.key)
             /\ \A p : BlobOf(job.key, p)' = BlobOf(job.key, p)
  <2>1. PICK k \in Keys : k = job.key /\ Due(k) /\ Exists(k)
    BY <1>4, <1>9, JobShape DEF ListedInv, Due
  <2>2. Over(k) /\ ~Published(k) /\ (session[k].status = "expired" \/ Abandoned(k, now))
    BY <1>1, <1>4, <1>9, <2>1, DueIsOver DEF ListedInv, JobAt
  <2>3. /\ session'[k].artifact = session[k].artifact
        /\ Manifest[session'[k].tree] = Manifest[session[k].tree]
        /\ ManifestPaths(k)' = ManifestPaths(k) /\ BlobHashes(k)' = BlobHashes(k)
        /\ \A p : BlobOf(k, p)' = BlobOf(k, p)
    BY <1>1, <1>2, <2>1, Stable
  <2>4. job' = job
    BY <1>1
  <2>. QED
    BY <2>1, <2>2, <2>3, <2>4 DEF ManifestPaths, BlobHashes, BlobOf
<1>10. ASSUME job.at \in {"inFlight", "delete", "mark"}, NEW p \in ManifestPaths(job.key)
       PROVE  /\ Manifest[session[job.key].tree][p] \in job.keep
                   => CoveredByOthers(job.key, BlobOf(job.key, p))'
              /\ JobAt("mark") /\ BlobOf(job.key, p) \in blobs'
                   => CoveredByOthers(job.key, BlobOf(job.key, p))'
  <2>1. PICK k, b : k \in Keys /\ k = job.key /\ b = BlobOf(k, p)
    BY <1>9, <1>10
  <2>2. Manifest[session[k].tree][p] \in job.keep => CoveredByOthers(k, b)
    BY <1>10, <2>1 DEF CleanupIInv, LeakInv
  <2>3. ASSUME JobAt("mark"), b \in blobs', ~CoveredByOthers(k, b) PROVE CoveredByOthers(k, b)'
    <3>1. b \notin blobs
      BY <1>10, <2>1, <2>3 DEF CleanupIInv, LeakInv
    <3>2. PICK r \in Requests : Puts(r) /\ b = BlobOf(request[r].key, request[r].path)
      BY <1>2, <2>3, <3>1 DEF ServerEvolves
    <3>3. CASE request[r].key = k
      <4>1. PutsLate(r)
        BY <1>9, <1>10, <2>1, <3>2, <3>3 DEF PutsLate, Puts
      <4>2. b \in latePuts'
        BY <1>1, <3>2, <4>1 DEF Observe
      <4>. QED
        BY <4>2 DEF CoveredByOthers
    <3>4. CASE request[r].key # k
      <4>1. PICK i \in Keys : i = request[r].key
        BY <1>1, <3>2, RequestShape DEF Puts, At, IInv
      <4>2. Exists(i) /\ request[r].path \in ManifestPaths(i)
        BY <1>1, <3>2, <4>1 DEF Puts, At, IInv, RequestInv, RequestOK
      <4>3. CASE session[i].status = "expired"
        BY <1>1, <3>2, <4>1, <4>3 DEF PutsLate, Puts, Observe, CoveredByOthers
      <4>4. CASE session[i].status # "expired"
        <5>1. CASE session[i].status = "pending"
          <6>1. Covers(i, b) /\ i # k
            BY <3>2, <3>4, <4>1, <4>2, <5>1 DEF Covers
          <6>. QED
            BY <1>2, <2>1, <6>1, CoverStays DEF CoveredByOthers
        <5>2. CASE session[i].status = "published"
          <6>1. Referenced(b)
            BY <1>1, <3>2, <4>1, <4>2, <5>2, PublishedIsReferenced DEF Published
          <6>. QED
            BY <1>0, <6>1 DEF CoveredByOthers
        <5>. QED
          BY <1>1, <4>2, <4>4, <5>1, <5>2, SecondType DEF Session
      <4>. QED
        BY <4>3, <4>4
    <3>. QED
      BY <3>3, <3>4
  <2>4. CoveredByOthers(k, b)' => CoveredByOthers(job.key, BlobOf(job.key, p))'
    BY <1>1, <1>9, <1>10, <2>1 DEF CoveredByOthers, Referenced
  <2>. QED
    BY <1>8, <2>1, <2>2, <2>3, <2>4
<1>11. LeakInv'
  <2>1. job.at \in {"inFlight", "delete", "mark"} =>
          \A p \in ManifestPaths(job.key)' : (Manifest[session[job.key].tree][p] \in job.keep)'
            => CoveredByOthers(job.key, BlobOf(job.key, p))'
    BY <1>1, <1>9, <1>10
  <2>2. JobAt("mark") =>
          \A p \in ManifestPaths(job.key)' : (BlobOf(job.key, p) \in blobs)'
            => CoveredByOthers(job.key, BlobOf(job.key, p))'
    BY <1>1, <1>9, <1>10 DEF JobAt
  <2>. QED
    BY <1>1, <1>7, <2>1, <2>2 DEF LeakInv, JobAt
<1>12. ASSUME JobAt("inFlight"), NEW j \in Keys, HasFiles(j)',
              session'[j].artifact = session'[job.key].artifact, ~Excused(j)'
       PROVE  BlobHashes(j)' \cap BlobHashes(job.key)' \subseteq job.keep
  <2>1. session'[job.key].artifact = session[job.key].artifact
        /\ BlobHashes(job.key)' = BlobHashes(job.key)
    BY <1>9, <1>12 DEF JobAt
  <2>2. Exists(j)
    BY <1>0, <1>1, <1>2, <1>12, VersionComesByBatch DEF HasFiles, HasVersion
  <2>3. /\ BlobHashes(j)' = BlobHashes(j) /\ session'[j].artifact = session[j].artifact
    BY <1>1, <1>2, <2>2, Stable
  <2>4. StageOn(session[j].artifact) = "inFlight"
    BY <1>12, <2>1, <2>3 DEF StageOn, JobAt
  <2>5. HasVersion(j)
    <3>1. CASE ~HasVersion(j)
      <4>1. GetsVersion(j)
        BY <1>12, <3>1 DEF GetsVersion, HasFiles
      <4>. QED
        BY <1>12, <2>4, <4>1, ObservedOverlap DEF Excused
    <3>. QED
      BY <3>1
  <2>6. ~Excused(j) /\ HasFiles(j)
    BY <1>0, <1>1, <1>2, <1>12, <2>2, <2>5, ExcusedStays, FilesStay
  <2>. QED
    BY <1>12, <2>1, <2>3, <2>6 DEF CleanupIInv, KeepInv, Kept
<1>13. ASSUME JobAt("delete"), NEW j \in Keys, Needed(j)',
              session'[j].artifact = session'[job.key].artifact, ~Excused(j)'
       PROVE  BlobHashes(j)' \cap BlobHashes(job.key)' \subseteq job.keep
  <2>1. session'[job.key].artifact = session[job.key].artifact
        /\ BlobHashes(job.key)' = BlobHashes(job.key)
    BY <1>9, <1>13 DEF JobAt
  <2>2. CASE ~Exists(j)
    <3>1. Opens(j) /\ StageOn(session'[j].artifact) = "delete"
      BY <1>13, <2>1, <2>2 DEF Opens, Needed, Exists, StageOn, JobAt
    <3>. QED
      BY <1>13, <3>1, ObservedOverlap DEF Excused
  <2>3. CASE Exists(j)
    <3>1. /\ BlobHashes(j)' = BlobHashes(j) /\ session'[j].artifact = session[j].artifact
          /\ Needed(j)
      BY <1>0, <1>1, <1>2, <1>13, <2>3, Stable, NeededBefore
    <3>2. ~Excused(j)
      BY <1>13, <2>3, ExcusedStays
    <3>. QED
      BY <1>13, <2>1, <2>3, <3>1, <3>2 DEF CleanupIInv, KeepInv, Kept
  <2>. QED
    BY <2>2, <2>3
<1>14. KeepInv'
  BY <1>1, <1>12, <1>13 DEF KeepInv, Kept, JobAt
<1>15. ASSUME NEW j \in Keys, NEW p \in Paths, Recorded(j, p)', Needed(j)', ~Excused(j)'
       PROVE  BlobOf(j, p)' \in blobs'
  <2>1. Exists(j)
    BY <1>1, <1>2, <1>15, RecordedExists DEF ServerEvolves
  <2>2. Needed(j) /\ BlobOf(j, p)' = BlobOf(j, p) /\ ~Excused(j)
    BY <1>0, <1>1, <1>2, <1>15, <2>1, Stable, ExcusedStays, NeededBefore
  <2>3. BlobOf(j, p) \in blobs'
    BY <1>2, <1>15, <2>2 DEF ServerEvolves, CleanupIInv, StoredInv
  <2>. QED
    BY <2>2, <2>3
<1>16. ASSUME NEW j \in Keys, ~HasVersion(j)' PROVE overlap'[j].published = "none"
  <2>1. ~HasVersion(j) /\ ~GetsVersion(j)
    BY <1>0, <1>1, <1>2, <1>16, FilesStay DEF GetsVersion
  <2>. QED
    BY <2>1, ObservedOverlap DEF CleanupIInv, StoredInv
<1>17. StoredInv'
  BY <1>15, <1>16 DEF StoredInv
<1>. QED
  BY <1>2, <1>3, <1>6, <1>11, <1>14, <1>17 DEF CleanupIInv

-----------------------------------------------------------------------------
(* What follows from the invariant.                                        *)

LEMMA NoLeak == ASSUME CleanupIInv PROVE NothingLeaks
<1>. SUFFICES ASSUME NEW b \in blobs, b \notin latePuts, ~Referenced(b)
              PROVE  \E k \in Keys : /\ Exists(k) /\ session[k].status = "pending"
                                     /\ \E h \in BlobHashes(k) : b = Blob(session[k].artifact, h)
  BY DEF NothingLeaks
<1>1. PICK j \in Keys : Covers(j, b)
  BY DEF CleanupIInv, LeakInv
<1>2. PICK p \in ManifestPaths(j) : b = Blob(session[j].artifact, Manifest[session[j].tree][p])
  BY <1>1 DEF Covers, BlobOf
<1>. QED
  BY <1>1, <1>2 DEF Covers, BlobHashes

LEMMA OnlyRaces == ASSUME CleanupIInv PROVE MissingOnlyInRaces
<1>. SUFFICES ASSUME NEW f \in files PROVE Stored(f) \/ Excused(Publisher(f))
  BY DEF MissingOnlyInRaces, Excused
<1>1. PICK j \in Keys : \E p \in ManifestPaths(j) :
        /\ HasFiles(j) /\ p \in Paths /\ Recorded(j, p)
        /\ Blob(f.artifact, f.sha256) = BlobOf(j, p)
        /\ Publisher(f) = j
  BY FilesHaveSessions DEF CleanupIInv
<1>2. Needed(j)
  BY <1>1 DEF Needed, HasFiles, HasVersion
<1>. QED
  BY <1>1, <1>2 DEF CleanupIInv, StoredInv, Stored

-----------------------------------------------------------------------------

\* The invariant holds whatever the job and the requests interleave.
THEOREM CleanupInvariance == CleanupSpec => []CleanupIInv
<1>1. CleanupIInv /\ [CleanupNext]_cleanupVars => CleanupIInv'
  <2>. SUFFICES ASSUME CleanupIInv, [CleanupNext]_cleanupVars PROVE CleanupIInv'
    OBVIOUS
  <2>1. CASE ServerStep
    BY <2>1, ServerStepKeeps
  <2>2. CASE StartCleanup
    BY <2>2, StartCleanupKeeps
  <2>3. CASE FindReferencedHashes
    BY <2>3, FindReferencedHashesKeeps
  <2>4. CASE FindInFlightHashes
    BY <2>4, FindInFlightHashesKeeps
  <2>5. CASE DeleteMany
    <3>1. blobs \ Garbage \subseteq blobs' /\ blobs' \subseteq blobs
      BY <2>5 DEF DeleteMany
    <3>. QED
      BY <2>5, <3>1, DeletingKeeps DEF DeleteMany
  <2>6. CASE DeleteManyFails
    <3>1. blobs \ Garbage \subseteq blobs' /\ blobs' \subseteq blobs
      BY <2>6 DEF DeleteManyFails
    <3>. QED
      BY <2>6, <3>1, DeletingKeeps DEF DeleteManyFails
  <2>7. CASE MarkSessionsExpired
    BY <2>7, MarkSessionsExpiredKeeps
  <2>8. CASE SkipSession
    BY <2>8, BetweenKeeps DEF SkipSession, JobAt
  <2>9. CASE EndCleanup
    BY <2>9, BetweenKeeps DEF EndCleanup
  <2>10. CASE UNCHANGED cleanupVars
    <3>1. UNCHANGED <<vars, overlap, latePuts>> /\ job' = job /\ job' \in Job
      BY <2>10 DEF cleanupVars, CleanupIInv, CleanupTypeOK
    <3>2. ListedInv'
      BY <3>1 DEF CleanupIInv, ListedInv, Due, Exists, JobAt, vars
    <3>4. KeepInv'
      <4>1. \A j \in Keys : HasFiles(j)' = HasFiles(j)
        BY <3>1 DEF HasFiles, HasVersion, NewVersion, VersionRow, FileRows, ManifestPaths, Exists,
                    vars, catalogVars
      <4>2. \A j \in Keys : Needed(j)' = Needed(j)
        BY <3>1, <4>1 DEF Needed, Over, Exists, vars
      <4>3. \A j \in Keys : Kept(j)' = Kept(j)
        BY <3>1 DEF Kept, Excused, BlobHashes, ManifestPaths, vars
      <4>. QED
        BY <3>1, <4>1, <4>2, <4>3 DEF CleanupIInv, KeepInv, JobAt
    <3>3. LeakInv'
      BY <3>1 DEF CleanupIInv, LeakInv, CoveredByOthers, Covers, Referenced, Exists, JobAt,
                  ManifestPaths, BlobOf, vars, catalogVars
    <3>. QED
      BY <3>1, <3>2, <3>3, <3>4, ReadKeeps DEF CleanupIInv
  <2>. QED
    BY <2>1, <2>2, <2>3, <2>4, <2>5, <2>6, <2>7, <2>8, <2>9, <2>10
       DEF CleanupNext, CleanupStep
<1>. QED
  BY <1>1, CleanupInitOK, PTL DEF CleanupSpec

\* The job never deletes a blob of a file of some version, or of a session whose
\* batch could still run, except in its two windows: a session opened after its
\* second read, or given its version between its reads (cleanup-artifacts.ts:80).
THEOREM FilesGoMissingOnlyInRaces == CleanupSpec => []MissingOnlyInRaces
<1>. QED
  BY CleanupInvariance, OnlyRaces, PTL

\* And it leaves nothing behind but blobs put after their session was due.
THEOREM NothingIsLeaked == CleanupSpec => []NothingLeaks
<1>. QED
  BY CleanupInvariance, NoLeak, PTL

\* The job writes no version and decides no answer.
LEMMA CleanupStepEffect ==
  ASSUME CleanupIInv, CleanupStep
  PROVE  UNCHANGED <<request, latest, versions, files>> /\ Evolves
<1>. USE DEF vars, catalogVars
<1>1. UNCHANGED <<request, latest, versions, files>>
  BY DEF CleanupStep, StartCleanup, FindReferencedHashes, FindInFlightHashes, DeleteMany,
    DeleteManyFails, MarkSessionsExpired, SkipSession, EndCleanup
<1>2. CASE UNCHANGED <<now, session, uploaded>>
  <2>1. now \in 0..MaxTime /\ now' = now /\ now <= now'
    BY <1>2, ClockAssumption DEF CleanupIInv, IInv, TypeOK
  <2>. QED
    BY <1>1, <1>2, <2>1 DEF Evolves, Exists
<1>3. CASE MarkSessionsExpired /\ ~UNCHANGED session
  <2>1. JobAt("mark") /\ session[job.key].status = "pending"
        /\ session' = [session EXCEPT ![job.key].status = "expired"]
        /\ UNCHANGED <<now, uploaded, catalogVars, blobs, request>>
    BY <1>3 DEF MarkSessionsExpired
  <2>2. job.key \in Keys /\ Exists(job.key)
    BY <2>1, JobShape DEF CleanupIInv, CleanupTypeOK, ListedInv, JobAt, Due
  <2>. QED
    BY <2>1, <2>2, MarkingKeeps DEF CleanupIInv
<1>4. MarkSessionsExpired \/ UNCHANGED <<now, session, uploaded>>
  BY DEF CleanupStep, StartCleanup, FindReferencedHashes, FindInFlightHashes, DeleteMany,
    DeleteManyFails, SkipSession, EndCleanup
<1>5. CASE MarkSessionsExpired /\ UNCHANGED session
  BY <1>2, <1>5 DEF MarkSessionsExpired
<1>. QED
  BY <1>1, <1>2, <1>3, <1>4, <1>5

\* What the requests promise each other, they promise with the job running.
THEOREM PublishingHoldsUnderCleanup ==
  CleanupSpec => [](GapFreeHistory /\ PublishedOnce /\ VersionsComplete) /\ AnswersAreFinal
<1>1. CleanupIInv => GapFreeHistory /\ PublishedOnce /\ VersionsComplete
  BY DEF CleanupIInv, IInv
<1>2. ASSUME CleanupIInv, CleanupIInv', [CleanupNext]_cleanupVars,
             NEW r \in Requests, At(r, "done"), At(r, "done")'
      PROVE  LET k == request[r].key IN
               /\ request[r].code = "OK" => Visible(k) /\ Visible(k)'
               /\ request[r].code = "SESSION_EXPIRED" =>
                    /\ HasVersion(k)' = HasVersion(k)
                    /\ Visible(k)' = Visible(k)
  <2>1. IInv /\ IInv'
    BY <1>2 DEF CleanupIInv
  <2>2. CASE [Next]_vars
    BY <1>2, <2>1, <2>2, StepEvolves, HistoryEffect, DoneStays, AnswersStay
  <2>3. CASE CleanupStep
    <3>1. Evolves /\ Effect /\ request' = request
      BY <1>2, <2>3, CleanupStepEffect DEF Effect
    <3>. QED
      BY <1>2, <2>1, <3>1, AnswersStay
  <2>. QED
    BY <1>2, <2>2, <2>3 DEF CleanupNext, ServerStep, cleanupVars
<1>3. CleanupIInv /\ CleanupIInv' /\ [CleanupNext]_cleanupVars =>
        [\A r \in Requests : At(r, "done") /\ At(r, "done")' =>
           LET k == request[r].key IN
             /\ request[r].code = "OK" => Visible(k) /\ Visible(k)'
             /\ request[r].code = "SESSION_EXPIRED" =>
                  /\ HasVersion(k)' = HasVersion(k)
                  /\ Visible(k)' = Visible(k)]_vars
  BY <1>2
<1>. QED
  BY <1>1, <1>3, CleanupInvariance, PTL DEF CleanupSpec, AnswersAreFinal

-----------------------------------------------------------------------------
(***************************************************************************)
(* ArtifactRemnants: the sweep of stage 2.                                 *)
(***************************************************************************)

\* The sweep takes only what it looked up as deleted, and no more than its budget.
SweepInv ==
  /\ IsFiniteSet(blobs)
  /\ sweep.at = "prefixes" => sweep \in [at : {"prefixes"}, page : Nat, left : Int]
  /\ sweep.at \in {"objects", "delete"} =>
       gone /\ sweep.deleted \in Nat /\ sweep.deleted < MaxRemnantObjects
  /\ sweep.at = "delete" =>
       IsFiniteSet(sweep.keys) /\ sweep.deleted + Cardinality(sweep.keys) <= MaxRemnantObjects

\* A request stores at most one object.
LEMMA NextStoresOne ==
  ASSUME Next
  PROVE  \E b : blobs' \in {blobs, blobs \cup {b}}
<1>1. CASE Tick
  BY <1>1 DEF Tick
<1>2. ASSUME NEW r \in Requests, PutBlob(r)
      PROVE  \E b : blobs' \in {blobs, blobs \cup {b}}
  BY <1>2 DEF PutBlob
<1>3. ASSUME NEW r \in Requests, RequestStep(r), ~ PutBlob(r)
      PROVE  blobs' = blobs
  BY <1>3 DEF RequestStep, CreateArtifactUpload, CreateUploadSession, UploadArtifactFile,
    RecordUploadedFile, FinalizeArtifactUpload, ListUploadedPaths, PublishUploadSession,
    ExpiresMeanwhile, CommitBatch, RollbackBatch, ClassifyPublishFailure, EndRequest
<1>. QED
  BY <1>1, <1>2, <1>3 DEF Next

LEMMA CleanupStaysFinite ==
  ASSUME CleanupNext, IsFiniteSet(blobs)
  PROVE  IsFiniteSet(blobs)'
<1>1. CASE ServerStep
  <2>1. PICK b : blobs' \in {blobs, blobs \cup {b}}
    BY <1>1, NextStoresOne DEF ServerStep
  <2>2. IsFiniteSet(blobs \cup {b})
    BY FS_AddElement
  <2>. QED
    BY <2>1, <2>2
<1>2. CASE CleanupStep
  <2>1. blobs' \subseteq blobs
    BY <1>2 DEF CleanupStep, StartCleanup, FindReferencedHashes, FindInFlightHashes,
      DeleteMany, DeleteManyFails, MarkSessionsExpired, SkipSession, EndCleanup, vars
  <2>. QED
    BY <2>1, FS_Subset
<1>. QED
  BY <1>1, <1>2 DEF CleanupNext

LEMMA PageFits ==
  ASSUME NEW deleted \in Nat, deleted < MaxRemnantObjects
  PROVE  PageLimit(deleted) \in Nat /\ deleted + PageLimit(deleted) <= MaxRemnantObjects
BY RemnantsAssumption DEF PageLimit

\* One step of the sweep.
LEMMA SweepStepKeeps ==
  ASSUME SweepInv, SweepStep, inFront \in Nat
  PROVE  SweepInv'
<1>1. CASE StartSweep
  BY <1>1 DEF StartSweep, Others, SweepInv
<1>2. CASE ListPrefixes
  <2>1. ASSUME sweep' = NextPage PROVE sweep' \in [at : {"prefixes"}, page : Nat, left : Int]
    <3>1. sweep \in [at : {"prefixes"}, page : Nat, left : Int]
      BY <1>2 DEF ListPrefixes, SweepInv
    <3>2. sweep.page + 1 \in Nat /\ sweep.left - PrefixPageSize \in Int
      BY <3>1, RemnantsAssumption
    <3>. QED
      BY <2>1, <3>1, <3>2 DEF NextPage
  <2>2. ASSUME sweep' # NextPage PROVE sweep' \in {[at |-> "lookup"], IdleSweep}
    BY <1>2, <2>2 DEF ListPrefixes
  <2>3. blobs' = blobs /\ gone' = gone
    BY <1>2 DEF ListPrefixes, Others
  <2>. QED
    BY <2>1, <2>2, <2>3 DEF SweepInv, IdleSweep
<1>3. CASE FindExistingProjectIds
  BY <1>3, RemnantsAssumption DEF FindExistingProjectIds, Others, SweepInv, IdleSweep
<1>4. CASE LookupFails \/ EndSweep
  BY <1>4 DEF LookupFails, EndSweep, Others, SweepInv, IdleSweep
<1>5. CASE ListObjects
  <2>1. PICK keys \in SUBSET blobs :
          /\ Cardinality(keys) <= PageLimit(sweep.deleted)
          /\ sweep' = IF keys = {} THEN IdleSweep
                      ELSE [at |-> "delete", deleted |-> sweep.deleted, keys |-> keys,
                            last |-> keys = blobs]
    <3>1. PICK keys \in SUBSET blobs :
          /\ \/ Cardinality(keys) = PageLimit(sweep.deleted)
             \/ Cardinality(keys) < PageLimit(sweep.deleted)
          /\ sweep' = IF keys = {} THEN IdleSweep
                      ELSE [at |-> "delete", deleted |-> sweep.deleted, keys |-> keys,
                            last |-> keys = blobs]
      BY <1>5 DEF ListObjects
    <3>2. IsFiniteSet(keys) /\ Cardinality(keys) \in Nat
      BY <3>1, FS_Subset, FS_CardinalityType DEF SweepInv
    <3>3. PageLimit(sweep.deleted) \in Nat
      BY <1>5, PageFits DEF ListObjects, SweepInv
    <3>. QED
      BY <3>1, <3>2, <3>3
  <2>2. IsFiniteSet(keys) /\ Cardinality(keys) \in Nat
    BY <2>1, FS_Subset, FS_CardinalityType DEF SweepInv
  <2>3. gone /\ sweep.deleted \in Nat /\ sweep.deleted < MaxRemnantObjects
    BY <1>5 DEF ListObjects, SweepInv
  <2>4. /\ PageLimit(sweep.deleted) \in Nat
        /\ sweep.deleted + PageLimit(sweep.deleted) <= MaxRemnantObjects
    BY <2>3, PageFits
  <2>5. sweep.deleted + Cardinality(keys) <= MaxRemnantObjects
    BY <2>1, <2>2, <2>3, <2>4, RemnantsAssumption
  <2>6. blobs' = blobs /\ gone' = gone
    BY <1>5 DEF ListObjects, Others
  <2>7. CASE keys = {}
    BY <2>1, <2>6, <2>7 DEF SweepInv, IdleSweep
  <2>8. CASE keys # {}
    BY <2>1, <2>2, <2>3, <2>5, <2>6, <2>8 DEF SweepInv
  <2>. QED
    BY <2>7, <2>8
<1>6. CASE DeleteObjects
  <2>1. /\ gone /\ sweep.deleted \in Nat /\ IsFiniteSet(sweep.keys)
        /\ Cardinality(sweep.keys) \in Nat
    BY <1>6, FS_CardinalityType DEF DeleteObjects, SweepInv
  <2>2. blobs' \subseteq blobs /\ gone' = gone
    BY <1>6 DEF DeleteObjects, Others
  <2>3. IsFiniteSet(blobs')
    BY <2>2, FS_Subset DEF SweepInv
  <2>4. sweep' = IdleSweep \/
          /\ sweep' = [at |-> "objects", deleted |-> sweep.deleted + Cardinality(sweep.keys)]
          /\ sweep.deleted + Cardinality(sweep.keys) < MaxRemnantObjects
    BY <1>6, <2>1, RemnantsAssumption DEF DeleteObjects
  <2>. QED
    BY <2>1, <2>2, <2>3, <2>4 DEF SweepInv, IdleSweep
<1>7. CASE DeleteObjectsFails
  <2>1. blobs' \subseteq blobs /\ sweep' = IdleSweep
    BY <1>7 DEF DeleteObjectsFails
  <2>2. IsFiniteSet(blobs')
    BY <2>1, FS_Subset DEF SweepInv
  <2>. QED
    BY <2>1, <2>2 DEF SweepInv, IdleSweep
<1>. QED
  BY <1>1, <1>2, <1>3, <1>4, <1>5, <1>6, <1>7 DEF SweepStep

LEMMA SweepInvariance == RemnantsSpec => [](SweepInv /\ inFront \in Nat)
<1>1. RemnantsInit => SweepInv /\ inFront \in Nat
  BY FS_EmptySet DEF RemnantsInit, CleanupInit, Init, SweepInv, IdleSweep
<1>2. SweepInv /\ inFront \in Nat /\ [RemnantsNext]_remnantVars => (SweepInv /\ inFront \in Nat)'
  <2>. SUFFICES ASSUME SweepInv, inFront \in Nat, [RemnantsNext]_remnantVars
                PROVE  (SweepInv /\ inFront \in Nat)'
    OBVIOUS
  <2>1. CASE CleanupNext /\ UNCHANGED <<gone, onWay, inFront, sweep>>
    BY <2>1, CleanupStaysFinite DEF SweepInv
  <2>2. CASE DeleteProject
    BY <2>2 DEF DeleteProject, SweepInv
  <2>3. CASE PutOnWay
    <3>1. PICK b \in onWay : blobs' = blobs \cup {b}
      BY <2>3 DEF PutOnWay
    <3>2. IsFiniteSet(blobs')
      BY <3>1, FS_AddElement DEF SweepInv
    <3>. QED
      BY <2>3, <3>2 DEF PutOnWay, SweepInv
  <2>4. CASE PrefixAppears
    <3>1. blobs' = blobs /\ gone' = gone /\ inFront' = inFront + 1
      BY <2>4 DEF PrefixAppears, cleanupVars, vars
    <3>2. CASE sweep' = sweep
      BY <3>1, <3>2 DEF SweepInv
    <3>3. CASE sweep.at = "prefixes" /\ sweep' = [sweep EXCEPT !.left = @ + 1]
      <4>1. sweep' \in [at : {"prefixes"}, page : Nat, left : Int]
        BY <3>3 DEF SweepInv
      <4>. QED
        BY <3>1, <4>1 DEF SweepInv
    <3>. QED
      BY <2>4, <3>2, <3>3 DEF PrefixAppears
  <2>5. CASE SweepStep
    <3>1. inFront' = inFront
      BY <2>5 DEF SweepStep, StartSweep, ListPrefixes, FindExistingProjectIds, LookupFails,
        ListObjects, DeleteObjects, DeleteObjectsFails, EndSweep, Others
    <3>. QED
      BY <2>5, <3>1, SweepStepKeeps
  <2>6. CASE UNCHANGED remnantVars
    BY <2>6 DEF remnantVars, cleanupVars, vars, SweepInv
  <2>. QED
    BY <2>1, <2>2, <2>3, <2>4, <2>5, <2>6 DEF RemnantsNext
<1>. QED
  BY <1>1, <1>2, PTL DEF RemnantsSpec

\* Only a call that deletes ends a "delete" with fewer objects.
LEMMA DeletesAreSwept ==
  ASSUME SweepInv, [RemnantsNext]_remnantVars,
         sweep.at = "delete", sweep' # sweep, blobs' # blobs
  PROVE  gone /\ sweep.deleted + Cardinality(blobs \ blobs') <= MaxRemnantObjects
<1>1. DeleteObjects \/ DeleteObjectsFails
  BY DEF RemnantsNext, remnantVars, DeleteProject, PutOnWay, PrefixAppears, SweepStep,
    StartSweep, ListPrefixes, FindExistingProjectIds, LookupFails, ListObjects, EndSweep,
    IdleSweep
<1>2. blobs \ blobs' \subseteq sweep.keys
  BY <1>1 DEF DeleteObjects, DeleteObjectsFails
<1>3. /\ gone /\ sweep.deleted \in Nat /\ IsFiniteSet(sweep.keys)
      /\ sweep.deleted + Cardinality(sweep.keys) <= MaxRemnantObjects
  BY DEF SweepInv
<1>4. /\ Cardinality(blobs \ blobs') <= Cardinality(sweep.keys)
      /\ Cardinality(blobs \ blobs') \in Nat /\ Cardinality(sweep.keys) \in Nat
  BY <1>2, <1>3, FS_Subset, FS_CardinalityType
<1>. QED
  BY <1>3, <1>4, RemnantsAssumption

\* Stage 2 deletes nothing of a project whose row is there, whatever fails
\* between its calls, and in one run no more than its budget
\* (cleanup-artifacts.ts:159, 183).
THEOREM SweepsTakeOnlyRemnants == RemnantsSpec => OnlyRemnantsAreSwept
<1>1. SweepInv /\ [RemnantsNext]_remnantVars =>
        [sweep.at = "delete" /\ sweep' # sweep /\ blobs' # blobs =>
           gone /\ sweep.deleted + Cardinality(blobs \ blobs') <= MaxRemnantObjects]_remnantVars
  BY DeletesAreSwept
<1>. QED
  BY <1>1, SweepInvariance, PTL DEF RemnantsSpec, OnlyRemnantsAreSwept

-----------------------------------------------------------------------------
(***************************************************************************)
(* PublishClient: what a step of the server may do to the command.         *)
(***************************************************************************)

\* A request that finalizes.
Finalizes(q) == q.at \in {"list", "publish", "batch", "classify", "done"}

\* The version of k is taken.
Taken(k) == NewVersion(k) \in DOMAIN versions[session[k].artifact]

\* A session that will never be published.
Lost(k) == Exists(k) /\ ~Published(k) /\ (Over(k) \/ Taken(k))

\* A request that just came in.
Arrives(q) ==
  /\ q.at \in {"insert", "store", "list", "publish", "done"}
  /\ q.at = "insert" =>
       /\ q.artifact = NoArtifact <=> q.base = 0
       /\ q.base > 0 => q.artifact \in Artifacts /\ q.base <= latest[q.artifact]
  /\ q.at # "insert" => Exists(q.key)
  /\ q.at = "done" => q.code = "SESSION_EXPIRED" /\ Over(q.key) /\ ~Published(q.key)

\* The next step of one that did not end.
GoesOnAs(r, n) ==
  /\ n.key = request[r].key
  /\ n.at # "insert"
  /\ Finalizes(n) <=> Finalizes(request[r])
  /\ n.at = "classify" =>
       /\ At(r, "batch")
       /\ \A k \in Keys : k = n.key => Published(k)' \/ Over(k)' \/ UNCHANGED <<now, session>>
  /\ n.at = "done" /\ n.code = "PUBLISH_CONFLICT" => At(r, "classify") /\ ~Published(n.key)
  /\ n.at = "done" /\ n.code = "SESSION_EXPIRED" =>
       /\ Over(n.key)
       /\ request[r].at \in {"list", "batch", "done"} \/ ~Published(n.key)

Follows(r) ==
  \/ request'[r] \in {request[r], Idle}
  \/ request[r] = Idle /\ Arrives(request'[r])
  \/ request[r] # Idle /\ request'[r] # Idle /\ GoesOnAs(r, request'[r])

\* The row a request opens a session with.
OpenedBy(q, row) ==
  /\ row.base = q.base /\ row.tree = q.tree
  /\ q.artifact # NoArtifact => row.artifact = q.artifact

HasBatch(k) == \E r \in Requests : At(r, "batch") /\ request[r].key = k

Progress ==
  /\ Evolves
  /\ Effect
  /\ \A a \in Artifacts : latest[a] <= latest'[a]
  /\ \A a \in Artifacts : DOMAIN versions[a] \subseteq DOMAIN versions'[a]
  /\ \A k \in Keys : Published(k)' /\ ~Published(k) => ~Taken(k) /\ HasBatch(k)
  /\ \A k \in Keys : HasVersion(k)' /\ ~HasVersion(k) => HasBatch(k)
  /\ \A k \in Keys : Exists(k)' /\ ~Exists(k) =>
       \E r \in Requests :
         At(r, "insert") /\ request[r].key = k /\ OpenedBy(request[r], session'[k])
  /\ \A r \in Requests : Follows(r)

\* A step that leaves the sessions and the catalog alone.
LEMMA QuietProgress ==
  ASSUME IInv, Evolves, UNCHANGED <<session, latest, versions, files>>,
         \A r \in Requests : Follows(r)
  PROVE  Progress
<1>1. \A a \in Artifacts : latest[a] <= latest'[a]
  BY DEF IInv, TypeOK
<1>2. \A k \in Keys : (Published(k)' <=> Published(k)) /\ (HasVersion(k)' <=> HasVersion(k))
                      /\ (Exists(k)' <=> Exists(k))
  BY DEF Published, HasVersion, Exists, NewVersion, VersionRow
<1>. QED
  BY <1>1, <1>2 DEF Progress, Effect

LEMMA MovesOne ==
  ASSUME IInv, IInv', Next, NEW r \in Requests, NEW q, request' = [request EXCEPT ![r] = q],
         UNCHANGED <<session, latest, versions, files>>, Follows(r)
  PROVE  Progress
<1>1. Evolves
  BY NextEvolves DEF ServerEvolves
<1>2. \A o \in Requests : o # r => request'[o] = request[o]
  BY DEF IInv, TypeOK
<1>3. \A o \in Requests : Follows(o)
  BY <1>2 DEF Follows
<1>. QED
  BY <1>1, <1>3, QuietProgress

LEMMA MovedTo ==
  ASSUME IInv, NEW r \in Requests, NEW step, Goto(r, step),
         request[r].at \in {"list", "publish", "batch", "classify"}
  PROVE  /\ request' = [request EXCEPT ![r] = [at |-> step, key |-> request[r].key]]
         /\ request'[r] = [at |-> step, key |-> request[r].key]
         /\ \A o \in Requests : o # r => request'[o] = request[o]
<1>1. request[r] \in [at : {"list", "publish", "batch", "classify"}, key : Keys]
  BY RequestShape DEF IInv
<1>2. [request[r] EXCEPT !.at = step] = [at |-> step, key |-> request[r].key]
  BY <1>1
<1>. QED
  BY <1>2 DEF Goto, IInv, TypeOK

\* Requests that arrive.
LEMMA CreateProgress ==
  ASSUME IInv, IInv', Next, NEW r \in Requests, NEW k \in Keys, NEW base \in 0..MaxVersion,
         NEW a \in Artifacts \cup {NoArtifact}, NEW tree \in Trees,
         CreateArtifactUpload(r, k, a, base, tree)
  PROVE  Progress
<1>. DEFINE q == [at |-> "insert", key |-> k, artifact |-> a, base |-> base, tree |-> tree]
<1>1. /\ request' = [request EXCEPT ![r] = q] /\ UNCHANGED <<session, latest, versions, files>>
      /\ request[r].at = "idle"
      /\ (base = 0 /\ a = NoArtifact) \/ (base > 0 /\ a \in artifacts /\ latest[a] = base)
  BY DEF CreateArtifactUpload, catalogVars, At
<1>2. request[r] = Idle /\ request'[r] = q
  BY <1>1 DEF IInv, TypeOK, Request
<1>3. Arrives(q)
  BY <1>1, ManifestAssumption DEF Arrives, IInv, TypeOK
<1>4. Follows(r)
  BY <1>2, <1>3 DEF Follows
<1>. QED
  BY <1>1, <1>4, MovesOne

LEMMA UploadProgress ==
  ASSUME IInv, IInv', Next, NEW r \in Requests, NEW k \in Keys, NEW p \in Paths,
         UploadArtifactFile(r, k, p)
  PROVE  Progress
<1>. DEFINE q == [at |-> "store", key |-> k, path |-> p]
<1>1. /\ request' = [request EXCEPT ![r] = q] /\ UNCHANGED <<session, latest, versions, files>>
      /\ request[r].at = "idle" /\ Exists(k)
  BY DEF UploadArtifactFile, catalogVars, At
<1>2. request[r] = Idle /\ request'[r] = q
  BY <1>1 DEF IInv, TypeOK, Request
<1>3. Follows(r)
  BY <1>1, <1>2 DEF Follows, Arrives
<1>. QED
  BY <1>1, <1>3, MovesOne

LEMMA FinalizeProgress ==
  ASSUME IInv, IInv', Next, NEW r \in Requests, NEW k \in Keys, FinalizeArtifactUpload(r, k)
  PROVE  /\ Progress /\ request[r] = Idle
         /\ request'[r] # Idle /\ request'[r].key = k /\ Finalizes(request'[r])
         /\ \A o \in Requests : o # r => request'[o] = request[o]
<1>. DEFINE q == CASE session[k].status = "published" -> [at |-> "publish", key |-> k]
                   [] session[k].status = "pending" /\ ~PastExpiry(k)
                        -> [at |-> "list", key |-> k]
                   [] OTHER -> [at |-> "done", key |-> k, code |-> "SESSION_EXPIRED"]
<1>1. /\ request' = [request EXCEPT ![r] = q] /\ UNCHANGED <<session, latest, versions, files>>
      /\ request[r].at = "idle" /\ Exists(k)
  BY DEF FinalizeArtifactUpload, catalogVars, At
<1>2. request[r] = Idle /\ request'[r] = q /\ \A o \in Requests : o # r => request'[o] = request[o]
  BY <1>1 DEF IInv, TypeOK, Request
<1>7. session[k].status \in {"pending", "published", "expired"}
  BY <1>1 DEF IInv, TypeOK, Exists, Session
<1>3. q \in {[at |-> "publish", key |-> k], [at |-> "list", key |-> k],
             [at |-> "done", key |-> k, code |-> "SESSION_EXPIRED"]}
  <2>1. CASE session[k].status = "published"
    BY <2>1
  <2>2. CASE session[k].status # "published" /\ session[k].status = "pending" /\ ~PastExpiry(k)
    BY <2>2
  <2>3. CASE session[k].status # "published" /\ ~(session[k].status = "pending" /\ ~PastExpiry(k))
    BY <2>3
  <2>. QED
    BY <2>1, <2>2, <2>3
<1>6. q.at = "done" => ~Published(k) /\ Over(k)
  <2>1. q.at = "done" => session[k].status # "published" /\ IsSessionExpired(k)
    BY <1>7 DEF IsSessionExpired
  <2>. QED
    BY <1>1, <2>1, ExpiredIsOver DEF Published, IInv
<1>. HIDE DEF q
<1>4. q # Idle /\ q.key = k /\ Finalizes(q) /\ Arrives(q)
  BY <1>1, <1>3, <1>6 DEF Idle, Finalizes, Arrives
<1>5. Follows(r)
  BY <1>2, <1>4 DEF Follows
<1>. QED
  BY <1>1, <1>2, <1>4, <1>5, MovesOne

\* Requests that end, or go on without writing to a session or a version.
LEMMA EndProgress ==
  ASSUME IInv, IInv', Next, NEW r \in Requests, request' = [request EXCEPT ![r] = Idle],
         UNCHANGED <<session, latest, versions, files>>
  PROVE  Progress
<1>1. request'[r] = Idle
  BY DEF IInv, TypeOK
<1>2. Follows(r)
  BY <1>1 DEF Follows
<1>. QED
  BY <1>2, MovesOne

LEMMA PutProgress ==
  ASSUME IInv, IInv', Next, NEW r \in Requests, PutBlob(r)
  PROVE  Progress
<1>1. request[r] \in [at : {"store", "record"}, key : Keys, path : Paths] /\ request[r].at = "store"
  BY RequestShape DEF PutBlob, At, IInv
<1>. DEFINE q == [request[r] EXCEPT !.at = "record"]
<1>2. q.at = "record" /\ q.key = request[r].key
  BY <1>1
<1>3. /\ request' = [request EXCEPT ![r] = q] /\ request'[r] = q
      /\ UNCHANGED <<session, latest, versions, files>>
  BY DEF PutBlob, Goto, catalogVars, IInv, TypeOK
<1>4. GoesOnAs(r, q) /\ q # Idle /\ request[r] # Idle
  BY <1>1, <1>2 DEF GoesOnAs, Finalizes, Idle
<1>. HIDE DEF q
<1>5. Follows(r)
  BY <1>3, <1>4 DEF Follows
<1>. QED
  BY <1>3, <1>5, MovesOne

LEMMA AnswerProgress ==
  ASSUME IInv, IInv', Next, NEW r \in Requests, NEW c, Answer(r, c),
         request[r].at \in {"list", "publish", "batch", "classify", "done"},
         c = "PUBLISH_CONFLICT" => At(r, "classify") /\ ~Published(request[r].key),
         c = "SESSION_EXPIRED" =>
           /\ IsSessionExpired(request[r].key)
           /\ request[r].at \in {"list", "batch", "done"} \/ ~Published(request[r].key),
         UNCHANGED <<session, latest, versions, files>>
  PROVE  Progress
<1>. DEFINE q == [at |-> "done", key |-> request[r].key, code |-> c]
<1>1. request' = [request EXCEPT ![r] = q] /\ request'[r] = q
  BY DEF Answer, IInv, TypeOK
<1>4. q.at = "done" /\ q.key = request[r].key /\ q.code = c
  OBVIOUS
<1>6. c = "SESSION_EXPIRED" => Over(request[r].key)
  BY ExpiredIsOver, RequestShape DEF IInv, RequestInv, RequestOK, At
<1>. HIDE DEF q
<1>5. Finalizes(q) /\ Finalizes(request[r]) /\ q # Idle /\ request[r] # Idle
  BY <1>4 DEF Finalizes, Idle
<1>2. GoesOnAs(r, q) /\ q # Idle /\ request[r] # Idle
  BY <1>4, <1>5, <1>6 DEF GoesOnAs
<1>3. Follows(r)
  BY <1>1, <1>2 DEF Follows
<1>. QED
  BY <1>1, <1>3, MovesOne

LEMMA GotoProgress ==
  ASSUME IInv, IInv', Next, NEW r \in Requests, NEW step \in {"publish", "batch", "classify"},
         Goto(r, step), request[r].at \in {"list", "publish", "batch", "classify"},
         step = "classify" => At(r, "batch"),
         UNCHANGED <<now, session, latest, versions, files>>
  PROVE  Progress
<1>. DEFINE q == [at |-> step, key |-> request[r].key]
<1>1. request' = [request EXCEPT ![r] = q] /\ request'[r] = q
  BY MovedTo
<1>4. q.at = step /\ q.key = request[r].key
  OBVIOUS
<1>. HIDE DEF q
<1>5. Finalizes(q) /\ Finalizes(request[r]) /\ q # Idle /\ request[r] # Idle
  BY <1>4 DEF Finalizes, Idle
<1>2. GoesOnAs(r, q) /\ q # Idle /\ request[r] # Idle
  BY <1>4, <1>5 DEF GoesOnAs
<1>3. Follows(r)
  BY <1>1, <1>2 DEF Follows
<1>. QED
  BY <1>1, <1>3, MovesOne

LEMMA SessionProgress ==
  ASSUME IInv, IInv', Next, NEW r \in Requests, CreateUploadSession(r)
  PROVE  Progress
<1>. DEFINE k == request[r].key
<1>1. /\ request' = [request EXCEPT ![r] = Idle] /\ UNCHANGED <<latest, versions, files>>
      /\ At(r, "insert")
  BY DEF CreateUploadSession, catalogVars
<1>2. CASE UNCHANGED session
  BY <1>1, <1>2, EndProgress
<1>3. ASSUME ~Exists(k), NEW a \in AssignedIds(request[r].artifact),
             session' = [session EXCEPT ![k] = SessionRow(r, a)]
      PROVE  Progress
  <2>1. k \in Keys
    BY <1>1, RequestShape DEF IInv
  <2>2. SessionRow(r, a) \in Session /\ SessionRow(r, a).status = "pending"
    BY <1>1, OpenedRow DEF IInv
  <2>3. session'[k] = SessionRow(r, a) /\ \A j \in Keys : j # k => session'[j] = session[j]
    BY <1>3, <2>1 DEF IInv, TypeOK
  <2>4. Evolves
    BY NextEvolves DEF ServerEvolves
  <2>5. OpenedBy(request[r], session'[k])
    BY <2>3 DEF OpenedBy, SessionRow, AssignedIds
  <2>6. \A j \in Keys : Published(j)' => Published(j)
    BY <2>2, <2>3 DEF Published, Exists
  <2>10. \A j \in Keys : HasVersion(j)' => HasVersion(j)
    <3>1. ASSUME NEW j \in Keys, HasVersion(j)', ~HasVersion(j) PROVE FALSE
      <4>1. Exists(j)
        BY <1>1, <2>4, <3>1, VersionComesByBatch DEF Effect
      <4>2. j # k /\ session'[j] = session[j] /\ versions' = versions
        BY <1>1, <1>3, <2>3, <4>1
      <4>. QED
        BY <3>1, <4>1, <4>2 DEF HasVersion, Exists, NewVersion, VersionRow
    <3>. QED
      BY <3>1
  <2>7. \A j \in Keys : Exists(j)' /\ ~Exists(j) => j = k
    BY <2>3 DEF Exists
  <2>8. \A o \in Requests : Follows(o)
    BY <1>1 DEF Follows, IInv, TypeOK
  <2>9. \A b \in Artifacts : latest[b] <= latest'[b]
    BY <1>1 DEF IInv, TypeOK
  <2>. QED
    BY <1>1, <2>4, <2>5, <2>6, <2>7, <2>8, <2>9, <2>10 DEF Progress, Effect
<1>. QED
  BY <1>2, <1>3 DEF CreateUploadSession

\* A batch that does not publish its session leaves it over, or has rolled back.
LEMMA CommitFound ==
  ASSUME IInv, NEW r \in Requests, CommitBatch(r), NEW k \in Keys, k = request[r].key, Exists(k)
  PROVE  Published(k)' \/ Over(k)' \/ UNCHANGED <<now, session>>
<1>1. PICK ran \in 0..5 :
        /\ BatchClock(k, ran)
        /\ session' = [session EXCEPT ![k].status = "published"] \/ UNCHANGED session
  BY DEF CommitBatch
<1>2. session[k] \in Session /\ session \in [Keys -> Session \cup {NoSession}]
  BY DEF IInv, TypeOK, Exists
<1>3. CASE session' = [session EXCEPT ![k].status = "published"]
  <2>1. session'[k] = [session[k] EXCEPT !.status = "published"]
    BY <1>2, <1>3
  <2>2. session'[k].status = "published" /\ session'[k] \in Session
    BY <1>2, <2>1 DEF Session
  <2>. QED
    BY <2>2, NoSessionAssumption DEF Published, Exists
<1>4. CASE UNCHANGED session /\ ~UNCHANGED now
  <2>1. ~InTime(k, now') /\ now' = now + 1 /\ now < MaxTime /\ now \in 0..MaxTime
    BY <1>1, <1>4 DEF BatchClock, IInv, TypeOK
  <2>2. now' \in 0..(MaxTime + TTL)
    BY <2>1, ClockAssumption
  <2>3. Second[session[k].expiresAt] \in Nat /\ Second[now'] \in Nat
    BY <1>2, <2>2, ClockAssumption DEF Session
  <2>. QED
    BY <1>4, <2>1, <2>3 DEF InTime, Over, Exists
<1>. QED
  BY <1>1, <1>3, <1>4

LEMMA BatchProgress ==
  ASSUME IInv, IInv', Next, NEW r \in Requests, CommitBatch(r)
  PROVE  Progress
<1>1. PICK k \in Keys :
        /\ k = request[r].key /\ Exists(k)
        /\ Answer(r, "OK") \/ Goto(r, "classify")
        /\ \/ UNCHANGED <<versions, files, latest, session>>
           \/ \E ran \in 2..5 : Appends(k, ran)
  BY CommitEffect
<1>2. /\ Evolves /\ At(r, "batch") /\ HasBatch(k)
      /\ request[r] \in [at : {"list", "publish", "batch", "classify"}, key : Keys]
  BY <1>1, NextEvolves, RequestShape DEF ServerEvolves, HasBatch, CommitBatch, At, IInv
<1>3. \A o \in Requests : Follows(o)
  <2>1. CASE Answer(r, "OK")
    <3>. DEFINE q == [at |-> "done", key |-> k, code |-> "OK"]
    <3>1. request'[r] = q /\ \A o \in Requests : o # r => request'[o] = request[o]
      BY <1>1, <2>1 DEF Answer, IInv, TypeOK
    <3>2. GoesOnAs(r, q) /\ q # Idle /\ request[r] # Idle
      BY <1>1, <1>2 DEF GoesOnAs, Finalizes, Idle, At
    <3>. QED
      BY <3>1, <3>2 DEF Follows
  <2>2. CASE Goto(r, "classify")
    <3>. DEFINE q == [at |-> "classify", key |-> k]
    <3>1. request'[r] = q /\ \A o \in Requests : o # r => request'[o] = request[o]
      BY <1>1, <1>2, <2>2, MovedTo DEF At
    <3>2. Published(k)' \/ Over(k)' \/ UNCHANGED <<now, session>>
      BY <1>1, CommitFound
    <3>3. GoesOnAs(r, q) /\ q # Idle /\ request[r] # Idle
      BY <1>1, <1>2, <3>2 DEF GoesOnAs, Finalizes, Idle, At
    <3>. QED
      BY <3>1, <3>3 DEF Follows
  <2>. QED
    BY <1>1, <2>1, <2>2
<1>4. CASE UNCHANGED <<versions, files, latest, session>>
  BY <1>2, <1>3, <1>4, QuietProgress
<1>5. ASSUME NEW ran \in 2..5, Appends(k, ran) PROVE Progress
  <2>. DEFINE a == session[k].artifact
              n == NewVersion(k)
  <2>1. /\ a \in Artifacts /\ n = latest[a] + 1 /\ n \notin DOMAIN versions[a]
        /\ latest[a] \in Nat
        /\ DOMAIN versions'[a] = DOMAIN versions[a] \cup {n}
        /\ \A b \in Artifacts \ {a} : versions'[b] = versions[b]
        /\ latest'[a] = IF ran >= 4 THEN n ELSE latest[a]
        /\ \A b \in Artifacts \ {a} : latest'[b] = latest[b]
    BY <1>5, AppendRows
  <2>2. \A b \in Artifacts : /\ latest[b] <= latest'[b]
                              /\ DOMAIN versions[b] \subseteq DOMAIN versions'[b]
    BY <2>1 DEF IInv, TypeOK
  <2>3. \A j \in Keys \ {k} : session'[j] = session[j]
    BY <1>5 DEF Appends, IInv, TypeOK
  <2>4. ASSUME NEW j \in Keys, Published(j)', ~Published(j) PROVE ~Taken(j) /\ HasBatch(j)
    <3>1. j = k
      BY <2>3, <2>4 DEF Published, Exists
    <3>. QED
      BY <1>2, <2>1, <3>1 DEF Taken
  <2>5. ASSUME NEW j \in Keys, HasVersion(j)', ~HasVersion(j) PROVE HasBatch(j)
    <3>1. j = k
      BY <1>2, <1>5, <2>5, OnlyItsBatch
    <3>. QED
      BY <1>2, <3>1
  <2>6. \A j \in Keys : Exists(j)' => Exists(j)
    BY <1>1, <2>3 DEF Exists
  <2>7. Effect
    BY <1>5 DEF Effect
  <2>. QED
    BY <1>2, <1>3, <2>2, <2>4, <2>5, <2>6, <2>7 DEF Progress
<1>. QED
  BY <1>1, <1>4, <1>5

LEMMA NextProgress ==
  ASSUME IInv, IInv', Next
  PROVE  Progress
<1>1. CASE Tick
  <2>1. UNCHANGED <<session, latest, versions, files, request>>
    BY <1>1 DEF Tick, catalogVars
  <2>2. Evolves
    BY NextEvolves DEF ServerEvolves
  <2>. QED
    BY <2>1, <2>2, QuietProgress DEF Follows
<1>2. ASSUME NEW r \in Requests, RequestStep(r) PROVE Progress
  <2>1. CASE PutBlob(r) \/ CreateUploadSession(r) \/ CommitBatch(r)
    BY <2>1, PutProgress, SessionProgress, BatchProgress
  <2>2. CASE RecordUploadedFile(r) \/ EndRequest(r)
    BY <2>2, EndProgress DEF RecordUploadedFile, EndRequest, catalogVars
  <2>3. CASE ListUploadedPaths(r)
    BY <2>3, AnswerProgress, GotoProgress DEF ListUploadedPaths, At, catalogVars
  <2>4. CASE PublishUploadSession(r)
    BY <2>4, AnswerProgress, GotoProgress DEF PublishUploadSession, Published, At, catalogVars
  <2>7. CASE ExpiresMeanwhile(r)
    BY <2>7, AnswerProgress DEF ExpiresMeanwhile, IsSessionExpired, At, catalogVars
  <2>5. CASE RollbackBatch(r)
    BY <2>5, GotoProgress DEF RollbackBatch, At, catalogVars
  <2>6. CASE ClassifyPublishFailure(r)
    <3>1. PICK c : /\ Answer(r, c)
                   /\ c \in {"PUBLISH_CONFLICT", "SESSION_EXPIRED"} =>
                        session[request[r].key].status # "published"
                   /\ c = "SESSION_EXPIRED" => IsSessionExpired(request[r].key)
      BY <2>6 DEF ClassifyPublishFailure
    <3>. QED
      BY <2>6, <3>1, AnswerProgress DEF ClassifyPublishFailure, At, Published, catalogVars
  <2>. QED
    BY <1>2, <2>1, <2>2, <2>3, <2>4, <2>5, <2>6, <2>7, CreateProgress, UploadProgress,
       FinalizeProgress DEF RequestStep
<1>. QED
  BY <1>1, <1>2 DEF Next

LEMMA StutterProgress ==
  ASSUME IInv, UNCHANGED vars
  PROVE  IInv' /\ Progress
<1>1. UNCHANGED <<now, session, uploaded, artifacts, latest, versions, files, blobs, request>>
  BY DEF vars, catalogVars
<1>2. IInv' /\ Evolves
  BY <1>1, OnlyBlobs DEF catalogVars
<1>. QED
  BY <1>1, <1>2, QuietProgress DEF Follows

LEMMA MarkProgress ==
  ASSUME IInv, NEW k \in Keys, MarkExpired(k)
  PROVE  IInv' /\ Progress
<1>1. /\ Exists(k) /\ session[k].status = "pending"
      /\ session' = [session EXCEPT ![k].status = "expired"]
      /\ UNCHANGED <<now, uploaded, catalogVars, blobs, request>>
  BY DEF MarkExpired
<1>2. IInv' /\ Evolves
  BY <1>1, MarkingKeeps
<1>3. UNCHANGED <<latest, versions, files, request>>
  BY <1>1 DEF catalogVars
<1>4. session[k] \in Session /\ session'[k] = [session[k] EXCEPT !.status = "expired"]
      /\ \A j \in Keys : j # k => session'[j] = session[j]
  BY <1>1 DEF IInv, TypeOK, Exists
<1>5. session'[k].status = "expired"
  BY <1>4 DEF Session
<1>6. \A j \in Keys : (Exists(j)' => Exists(j)) /\ (Published(j)' => Published(j))
  BY <1>1, <1>4, <1>5 DEF Published, Exists
<1>7. Effect
  BY <1>3 DEF Effect
<1>8. ASSUME NEW j \in Keys, HasVersion(j)' PROVE HasVersion(j)
  <2>1. Exists(j)
    BY <1>6, <1>8 DEF HasVersion
  <2>. QED
    BY <1>2, <1>3, <1>8, <2>1, FieldsStay DEF HasVersion
<1>9. \A a \in Artifacts : latest[a] <= latest'[a]
  BY <1>3 DEF IInv, TypeOK
<1>. QED
  BY <1>2, <1>3, <1>6, <1>7, <1>8, <1>9 DEF Progress, Follows

-----------------------------------------------------------------------------
(***************************************************************************)
(* PublishClient: the inductive invariant.                                 *)
(***************************************************************************)

Ran == cmd # NotRun

\* The keys the command has used so far: it takes the second after the first.
KeyInUse(k) == Ran /\ (k = SecondKey => cmd.key = SecondKey)

Command ==
  {NotRun}
    \cup [at : {"create", "upload", "finalize"}, key : ClientKeys, round : {0, 1},
          missing : SUBSET Paths, via : Requests \cup {Nobody}, tries : 0..MaxRetries]
    \cup [at : {"ok", "noop", "conflict", "failed"}, key : ClientKeys]

ClientTypeOK ==
  /\ cmd \in Command
  /\ late \subseteq ClientKeys \X {"create", "upload", "finalize"}
  /\ mishaps \subseteq Keys \X {"failed", "overtaken"}
  /\ Ran => /\ want \in [artifact : Artifacts \cup {NoArtifact}, base : 0..(MaxVersion - 1),
                         tree : Trees]
            /\ want.base = 0 <=> want.artifact = NoArtifact

Failed(k) == <<k, "failed">> \in mishaps

\* A session that is over; if it was published, the command was told otherwise by
\* a call that had been overtaken.
Spent(k) == Exists(k) /\ Over(k) /\ (Published(k) => <<k, "overtaken">> \in mishaps)

\* The command never asked to finalize k, and no call that still could is left.
NeverFinalized(k) ==
  /\ ~Published(k) /\ ~HasVersion(k)
  /\ <<k, "finalize">> \notin late
  /\ \A r \in Requests : request[r] # Idle /\ request[r].key = k => ~Finalizes(request[r])

\* What holds of every call the server works on: it was made on a version there
\* is, one with a key of the command asks for what the command wants, one that
\* found its batch had not published its session knows why, and one that answers
\* SESSION_EXPIRED has not seen the session published.
CallOK(q) ==
  /\ q.at = "insert" =>
       /\ q.artifact = NoArtifact <=> q.base = 0
       /\ q.base > 0 => q.base <= latest[q.artifact]
       /\ q.key \in ClientKeys =>
            [artifact |-> q.artifact, base |-> q.base, tree |-> q.tree] = want
  /\ q.at = "classify" => Failed(q.key) \/ Published(q.key) \/ Lost(q.key)
  /\ q.at = "done" /\ q.code = "PUBLISH_CONFLICT" => Failed(q.key) \/ Lost(q.key)
  /\ q.at = "done" /\ q.code = "SESSION_EXPIRED" => Spent(q.key)
  /\ q # Idle /\ q.key \in ClientKeys => KeyInUse(q.key)

CallsOK == \A r \in Requests : CallOK(request[r])

SessionOK(k) ==
  /\ session[k].base <= latest[session[k].artifact]
  /\ k \in ClientKeys =>
       /\ KeyInUse(k)
       /\ session[k].base = want.base /\ session[k].tree = want.tree
       /\ want.base > 0 => session[k].artifact = want.artifact

SessionsOK == \A k \in Keys : Exists(k) => SessionOK(k)

LateOK == \A c \in late : KeyInUse(c[1]) /\ (c[2] = "finalize" => Exists(c[1]))

\* What the command knows: it took the second key because the first can publish
\* no more, and what it reports of its last key is so.
CommandOK ==
  /\ \A r \in Requests : Awaits(r) => request[r] # Idle /\ request[r].key = cmd.key
  /\ cmd.at \in {"upload", "finalize"} => Exists(cmd.key)
  /\ Ran /\ cmd.key = SecondKey => Spent(FirstKey)
  /\ cmd.at = "ok" => Published(cmd.key)
  /\ cmd.at = "noop" => /\ NeverFinalized(cmd.key)
                        /\ cmd.key = SecondKey => ~Visible(FirstKey)
  /\ cmd.at = "conflict" => Failed(cmd.key) \/ Lost(cmd.key) \/ NeverFinalized(cmd.key)

ClientIInv ==
  /\ IInv
  /\ ClientTypeOK
  /\ CallsOK
  /\ SessionsOK
  /\ LateOK
  /\ CommandOK

-----------------------------------------------------------------------------
(* What the calls and the sessions keep, whoever moves.                    *)

LEMMA LostStays ==
  ASSUME IInv, Progress, NEW k \in Keys, Lost(k)
  PROVE  Lost(k)'
<1>1. Exists(k) /\ Exists(k)' /\ (Over(k) => Over(k)') /\ ~Published(k)
  BY Stable DEF Lost, Progress
<1>2. CASE Over(k)
  <2>1. ~Published(k)'
    BY <1>1, <1>2 DEF Progress, Evolves, Published
  <2>. QED
    BY <1>1, <1>2, <2>1 DEF Lost
<1>3. CASE Taken(k)
  <2>1. ~Published(k)'
    BY <1>1, <1>3 DEF Progress
  <2>2. session'[k].artifact = session[k].artifact /\ NewVersion(k)' = NewVersion(k)
        /\ session[k].artifact \in Artifacts
    BY <1>1, FieldsStay DEF Progress, IInv, TypeOK, Exists, Session
  <2>3. Taken(k)'
    BY <1>3, <2>2 DEF Taken, Progress
  <2>. QED
    BY <1>1, <2>1, <2>3 DEF Lost
<1>. QED
  BY <1>2, <1>3 DEF Lost

LEMMA SpentStays ==
  ASSUME IInv, Progress, mishaps \subseteq mishaps', NEW k \in Keys, Spent(k)
  PROVE  Spent(k)'
<1>1. Exists(k) /\ Exists(k)' /\ Over(k) /\ Over(k)'
  BY Stable DEF Spent, Progress
<1>2. Published(k)' => Published(k)
  BY <1>1 DEF Progress, Evolves, Published
<1>. QED
  BY <1>1, <1>2 DEF Spent

\* A batch that runs in time and finds the version of its session free publishes.
LEMMA FreeBatchPublishes ==
  ASSUME IInv, NEW k \in Keys, Exists(k), SessionOK(k), session[k].status = "pending", ~Taken(k)
  PROVE  Publishes(k, 5)
<1>. DEFINE a == session[k].artifact
            n == NewVersion(k)
<1>1. /\ a \in Artifacts /\ session[k].base \in Nat /\ n = session[k].base + 1
      /\ latest[a] \in Nat /\ session[k].base <= latest[a]
      /\ versions[a] \in {versions[b] : b \in Artifacts} /\ DOMAIN versions = Artifacts
      /\ DOMAIN latest = Artifacts
  BY DEF IInv, TypeOK, Exists, Session, NewVersion, SessionOK
<1>2. 1..latest[a] \subseteq DOMAIN versions[a] /\ (DOMAIN versions[a] # {} => a \in artifacts)
  BY <1>1 DEF IInv, GapFreeHistory
<1>3. latest[a] = session[k].base
  BY <1>1, <1>2 DEF Taken
<1>4. \A i \in 1..5 : Valid(k, i, 5)
  BY DEF Valid
<1>5. a \in ArtifactsAfter(k, 5)
  BY <1>1, <1>2, <1>3, <1>4 DEF ArtifactsAfter, InsertsArtifact
<1>6. InsertsVersion(k, 5)
  BY <1>3, <1>4, <1>5 DEF InsertsVersion
<1>7. n \in DOMAIN VersionsAfter(k, 5)[a] /\ VersionsAfter(k, 5)[a][n] = VersionRow(k)
  BY <1>1, <1>6 DEF VersionsAfter, WithVersion
<1>8. VersionsAfter(k, 5)[a][n].session = k
  BY <1>7 DEF VersionRow
<1>9. LatestAfter(k, 5)[a] = n
  BY <1>1, <1>3, <1>4, <1>7, <1>8 DEF LatestAfter, MovesLatest, VersionExists
<1>. QED
  BY <1>4, <1>5, <1>7, <1>8, <1>9 DEF Publishes

\* A batch that publishes nothing will not publish later either, unless it failed
\* for no reason.
LEMMA UnpublishedIsLost ==
  ASSUME IInv, SessionsOK, NEW k \in Keys, Exists(k),
         ~(InTime(k, now) /\ Publishes(k, 5) /\ ~Taken(k))
  PROVE  Published(k) \/ Lost(k)
<1>1. session[k].status \in {"pending", "published", "expired"} /\ SessionOK(k)
  BY DEF IInv, TypeOK, Exists, Session, SessionsOK
<1>2. Second[session[k].expiresAt] \in Nat /\ Second[now] \in Nat
  BY SecondType DEF IInv
<1>3. CASE ~InTime(k, now)
  BY <1>2, <1>3 DEF InTime, Lost, Over
<1>4. CASE Taken(k)
  BY <1>4 DEF Lost
<1>5. CASE session[k].status = "pending" /\ ~Taken(k) /\ InTime(k, now)
  BY <1>1, <1>5, FreeBatchPublishes
<1>6. CASE session[k].status = "expired"
  BY <1>6 DEF Lost, Over
<1>7. CASE session[k].status = "published"
  BY <1>7 DEF Published
<1>. QED
  BY <1>1, <1>3, <1>4, <1>5, <1>6, <1>7

LEMMA CallKeeps ==
  ASSUME ClientIInv, IInv', Progress, want' = want, mishaps \subseteq mishaps',
         \A k \in ClientKeys : KeyInUse(k) => KeyInUse(k)',
         NEW r \in Requests,
         FailsForNoReason(r) => <<request[r].key, "failed">> \in mishaps',
         FoundExpired(r) /\ Published(request[r].key) =>
           <<request[r].key, "overtaken">> \in mishaps',
         request[r] = Idle /\ request'[r] # Idle /\ request'[r].key \in ClientKeys =>
           /\ KeyInUse(request'[r].key)
           /\ request'[r].at = "insert" =>
                [artifact |-> request'[r].artifact, base |-> request'[r].base,
                 tree |-> request'[r].tree] = want
  PROVE  CallOK(request[r])'
<1>. USE DEF ClientIInv
<1>. PICK q, n : q = request[r] /\ n = request'[r]
  OBVIOUS
<1>1. q \in Request /\ n \in Request /\ CallOK(q) /\ Follows(r)
  BY DEF IInv, TypeOK, CallsOK, Progress
<1>2. \A a \in Artifacts : latest[a] <= latest'[a] /\ latest[a] \in Nat /\ latest'[a] \in Nat
  BY DEF IInv, TypeOK, Progress
<1>3. Idle.at = "idle"
  BY DEF Idle
<1>4. CASE n = Idle
  BY <1>3, <1>4 DEF CallOK
<1>5. CASE n = q /\ n # Idle
  <2>1. ASSUME q.at = "insert"
        PROVE  /\ q.artifact = NoArtifact <=> q.base = 0
               /\ q.base > 0 => q.base <= latest'[q.artifact]
               /\ q.key \in ClientKeys =>
                    [artifact |-> q.artifact, base |-> q.base, tree |-> q.tree] = want'
    <3>1. q.base \in Nat /\ q.artifact \in Artifacts \cup {NoArtifact}
      BY <2>1, RequestShape DEF At, IInv
    <3>. QED
      BY <1>1, <1>2, <2>1, <3>1 DEF CallOK
  <2>2. ASSUME q.at \in {"classify", "done"}
        PROVE  /\ q.at = "classify" => Failed(q.key)' \/ Published(q.key)' \/ Lost(q.key)'
               /\ q.at = "done" /\ q.code = "PUBLISH_CONFLICT" =>
                    Failed(q.key)' \/ Lost(q.key)'
               /\ q.at = "done" /\ q.code = "SESSION_EXPIRED" => Spent(q.key)'
    <3>1. PICK k \in Keys : k = q.key /\ Exists(k)
      BY <2>2 DEF IInv, RequestInv, RequestOK, TypeOK, Request, Idle
    <3>2. /\ Published(k) => Published(k)'
          /\ Lost(k) => Lost(k)'
          /\ Spent(k) => Spent(k)'
          /\ Failed(k) => Failed(k)'
      BY <3>1, Stable, LostStays, SpentStays DEF Progress, Failed
    <3>3. /\ q.at = "classify" => Failed(k)' \/ Published(k)' \/ Lost(k)'
          /\ q.at = "done" /\ q.code = "PUBLISH_CONFLICT" => Failed(k)' \/ Lost(k)'
          /\ q.at = "done" /\ q.code = "SESSION_EXPIRED" => Spent(k)'
      BY <1>1, <3>1, <3>2 DEF CallOK
    <3>. QED
      BY <3>1, <3>3
  <2>3. q.key \in ClientKeys => KeyInUse(q.key)'
    BY <1>1, <1>5 DEF CallOK
  <2>. QED
    BY <1>1, <1>5, <2>1, <2>2, <2>3 DEF CallOK
<1>6. CASE q = Idle /\ n # Idle /\ Arrives(n)
  <2>1. n.at = "insert" => n.base \in Nat
    BY <1>1 DEF Request, Idle
  <2>2. ASSUME n.at = "done" PROVE Spent(n.key)'
    <3>1. PICK k \in Keys : k = n.key /\ Exists(k) /\ Over(k) /\ ~Published(k)
      BY <1>1, <1>6, <2>2 DEF Arrives, Request, Idle
    <3>2. Spent(k)'
      BY <3>1, SpentStays DEF Spent
    <3>. QED
      BY <3>1, <3>2
  <2>. QED
    BY <1>2, <1>6, <2>1, <2>2 DEF CallOK, Arrives
<1>7. CASE q # Idle /\ n # Idle /\ GoesOnAs(r, n)
  <2>1. n.key = q.key /\ n.at # "insert"
    BY <1>7 DEF GoesOnAs
  <2>2. n.key \in ClientKeys => KeyInUse(n.key)'
    BY <1>1, <1>7, <2>1 DEF CallOK
  <2>3. CASE n.at \notin {"classify", "done"}
    BY <1>7, <2>1, <2>2, <2>3 DEF CallOK
  <2>4. CASE n.at = "classify"
    <3>1. PICK k \in Keys : k = q.key /\ Exists(k) /\ At(r, "batch")
      BY <1>7, <2>4, RequestShape DEF GoesOnAs, IInv, RequestInv, RequestOK, At
    <3>2. Exists(k)' /\ (Published(k) => Published(k)')
      BY <3>1, Stable DEF Progress
    <3>3. Failed(k)' \/ Published(k)' \/ Lost(k)'
      <4>1. CASE ~UNCHANGED <<now, session>>
        <5>1. Published(k)' \/ Over(k)'
          BY <1>7, <2>1, <2>4, <3>1, <4>1 DEF GoesOnAs
        <5>. QED
          BY <3>2, <5>1 DEF Lost
      <4>2. CASE UNCHANGED <<now, session>> /\ ~FailsForNoReason(r)
        <5>1. ~(InTime(k, now) /\ Publishes(k, 5) /\ ~Taken(k))
          BY <2>4, <3>1, <4>2 DEF FailsForNoReason, Taken
        <5>2. Published(k) \/ Lost(k)
          BY <3>1, <5>1, UnpublishedIsLost
        <5>. QED
          BY <3>1, <3>2, <5>2, LostStays
      <4>3. CASE FailsForNoReason(r)
        BY <3>1, <4>3 DEF Failed
      <4>. QED
        BY <4>1, <4>2, <4>3
    <3>. QED
      BY <1>7, <2>1, <2>2, <2>4, <3>1, <3>3 DEF CallOK
  <2>5. CASE n.at = "done"
    <3>1. PICK k \in Keys : k = q.key /\ Exists(k)
      <4>1. q.at \in {"list", "publish", "batch", "classify", "done"}
        BY <1>7, <2>5 DEF GoesOnAs, Finalizes
      <4>. QED
        BY <4>1, RequestShape DEF IInv, RequestInv, RequestOK, At
    <3>2. ASSUME n.code = "PUBLISH_CONFLICT" PROVE Failed(k)' \/ Lost(k)'
      <4>1. At(r, "classify") /\ ~Published(k)
        BY <1>7, <2>1, <2>5, <3>1, <3>2 DEF GoesOnAs
      <4>2. Failed(k) \/ Lost(k)
        BY <1>1, <3>1, <4>1 DEF CallOK, At
      <4>. QED
        BY <3>1, <4>2, LostStays DEF Failed
    <3>3. ASSUME n.code = "SESSION_EXPIRED" PROVE Spent(k)'
      <4>1. Over(k) /\ (q.at \in {"list", "batch", "done"} \/ ~Published(k))
        BY <1>7, <2>1, <2>5, <3>1, <3>3 DEF GoesOnAs
      <4>2. Exists(k)' /\ Over(k)' /\ (Published(k)' => Published(k))
        BY <3>1, <4>1, Stable DEF Progress, Evolves, Published
      <4>3. Published(k) => <<k, "overtaken">> \in mishaps'
        <5>1. CASE n = q
          BY <1>1, <2>5, <3>1, <3>3, <5>1 DEF CallOK, Spent
        <5>2. CASE n # q
          BY <2>5, <3>1, <3>3, <4>1, <5>2 DEF FoundExpired
        <5>. QED
          BY <5>1, <5>2
      <4>. QED
        BY <4>2, <4>3 DEF Spent
    <3>. QED
      BY <1>7, <2>1, <2>2, <2>5, <3>1, <3>2, <3>3 DEF CallOK
  <2>. QED
    BY <2>3, <2>4, <2>5
<1>8. CallOK(n)'
  BY <1>1, <1>4, <1>5, <1>6, <1>7 DEF Follows
<1>. QED
  BY <1>8 DEF CallOK

LEMMA SessionKeeps ==
  ASSUME ClientIInv, IInv', Progress, want' = want,
         \A k \in ClientKeys : KeyInUse(k) => KeyInUse(k)',
         NEW k \in Keys, Exists(k)'
  PROVE  SessionOK(k)'
<1>. USE DEF ClientIInv
<1>1. session'[k] \in Session /\ latest'[session'[k].artifact] \in Nat
  BY DEF IInv, TypeOK, Exists, Session
<1>2. CASE Exists(k)
  <2>1. session[k] \in Session /\ SessionOK(k)
    BY <1>2 DEF SessionsOK, IInv, TypeOK, Exists
  <2>2. session'[k].artifact = session[k].artifact /\ session'[k].base = session[k].base
        /\ session'[k].tree = session[k].tree
    BY <1>2 DEF Progress, Evolves
  <2>3. session[k].base \in Nat /\ latest[session[k].artifact] \in Nat
        /\ latest[session[k].artifact] <= latest'[session[k].artifact]
    BY <2>1 DEF Progress, IInv, TypeOK, Session
  <2>. QED
    BY <1>1, <2>1, <2>2, <2>3 DEF SessionOK
<1>3. CASE ~Exists(k)
  <2>1. PICK r \in Requests :
          At(r, "insert") /\ request[r].key = k /\ OpenedBy(request[r], session'[k])
    BY <1>3 DEF Progress
  <2>. DEFINE q == request[r]
  <2>2. CallOK(q) /\ q.base \in Nat /\ q.artifact \in Artifacts \cup {NoArtifact} /\ q # Idle
    BY <2>1, RequestShape DEF At, IInv, CallsOK, Idle
  <2>3. CASE q.base = 0
    BY <1>1, <2>1, <2>2, <2>3 DEF SessionOK, CallOK, OpenedBy, At
  <2>4. CASE q.base > 0
    <3>1. session'[k].artifact = q.artifact /\ session'[k].base = q.base
          /\ session'[k].tree = q.tree /\ q.artifact \in Artifacts /\ q.base <= latest[q.artifact]
      BY <2>1, <2>2, <2>4 DEF CallOK, OpenedBy, At
    <3>2. latest[q.artifact] <= latest'[q.artifact] /\ latest[q.artifact] \in Nat
      BY <3>1 DEF Progress, IInv, TypeOK
    <3>. QED
      BY <1>1, <2>1, <2>2, <3>1, <3>2 DEF SessionOK, CallOK, At
  <2>. QED
    BY <2>2, <2>3, <2>4
<1>. QED
  BY <1>2, <1>3

\* One step, with what it must account for: the command, what it gave up on and
\* the requests that come in with its keys.
LEMMA StepKeeps ==
  ASSUME ClientIInv, IInv', Progress, ClientTypeOK', CommandOK', LateOK', want' = want,
         mishaps \subseteq mishaps', \A k \in ClientKeys : KeyInUse(k) => KeyInUse(k)',
         \A r \in Requests :
           /\ FailsForNoReason(r) => <<request[r].key, "failed">> \in mishaps'
           /\ FoundExpired(r) /\ Published(request[r].key) =>
                <<request[r].key, "overtaken">> \in mishaps',
         \A r \in Requests :
           request[r] = Idle /\ request'[r] # Idle /\ request'[r].key \in ClientKeys =>
             /\ KeyInUse(request'[r].key)
             /\ request'[r].at = "insert" =>
                  [artifact |-> request'[r].artifact, base |-> request'[r].base,
                   tree |-> request'[r].tree] = want
  PROVE  ClientIInv'
<1>1. ASSUME NEW r \in Requests PROVE CallOK(request[r])'
  BY CallKeeps
<1>2. ASSUME NEW k \in Keys, Exists(k)' PROVE SessionOK(k)'
  BY <1>2, SessionKeeps
<1>3. CallsOK' /\ SessionsOK'
  BY <1>1, <1>2 DEF CallsOK, SessionsOK
<1>. QED
  BY <1>3 DEF ClientIInv

-----------------------------------------------------------------------------
(* Steps the command has no part in.                                       *)

LEMMA NeverFinalizedStays ==
  ASSUME IInv, Progress, late' = late, NEW k \in Keys, NeverFinalized(k),
         \A r \in Requests : request[r] = Idle /\ request'[r] # Idle /\ request'[r].key = k =>
                               ~Finalizes(request'[r])
  PROVE  NeverFinalized(k)'
<1>1. \A r \in Requests : request[r] # Idle /\ request[r].key = k => ~Finalizes(request[r])
  BY DEF NeverFinalized
<1>2. ASSUME NEW r \in Requests, request'[r] # Idle, request'[r].key = k
      PROVE  ~Finalizes(request'[r])
  <2>1. Follows(r)
    BY DEF Progress
  <2>. QED
    BY <1>1, <1>2, <2>1 DEF Follows, GoesOnAs
<1>3. ~Published(k)' /\ ~HasVersion(k)'
  <2>1. ~HasBatch(k)
    BY <1>1 DEF HasBatch, At, Finalizes, Idle
  <2>. QED
    BY <2>1 DEF NeverFinalized, Progress
<1>4. \A r \in Requests : (request[r] # Idle /\ request[r].key = k => ~Finalizes(request[r]))'
  BY <1>2 DEF Finalizes
<1>. QED
  BY <1>3, <1>4 DEF NeverFinalized

\* What is said of the key of the next command is said of that key.
LEMMA SameKey ==
  ASSUME NEW k, cmd'.key = k
  PROVE  /\ Exists(cmd.key)' <=> Exists(k)'
         /\ Published(cmd.key)' <=> Published(k)'
         /\ Failed(cmd.key)' <=> Failed(k)'
         /\ Lost(cmd.key)' <=> Lost(k)'
         /\ NeverFinalized(cmd.key)' <=> NeverFinalized(k)'
<1>1. /\ Exists(cmd.key)' <=> Exists(k)'
      /\ Published(cmd.key)' <=> Published(k)'
      /\ Failed(cmd.key)' <=> Failed(k)'
  BY DEF Exists, Published, Failed
<1>2. Lost(cmd.key)' <=> Lost(k)'
  BY DEF Exists, Published, Lost, Over, Taken, NewVersion
<1>3. NeverFinalized(cmd.key)' <=> NeverFinalized(k)'
  BY DEF NeverFinalized, Exists, Published, HasVersion, NewVersion, VersionRow
<1>. QED
  BY <1>1, <1>2, <1>3

LEMMA CommandStays ==
  ASSUME ClientIInv, IInv', Progress, UNCHANGED <<want, cmd, late>>,
         mishaps \subseteq mishaps', mishaps' \subseteq Keys \X {"failed", "overtaken"},
         \A r \in Requests :
           /\ FailsForNoReason(r) => <<request[r].key, "failed">> \in mishaps'
           /\ FoundExpired(r) /\ Published(request[r].key) =>
                <<request[r].key, "overtaken">> \in mishaps',
         \A r \in Requests : Awaits(r) => request'[r] # Idle,
         \A r \in Requests :
           request[r] = Idle /\ request'[r] # Idle /\ request'[r].key \in ClientKeys =>
             FromTheCommand(request'[r])
  PROVE  ClientIInv'
<1>. USE DEF ClientIInv
<1>1. ClientTypeOK' /\ \A k : KeyInUse(k)' <=> KeyInUse(k)
  BY DEF ClientTypeOK, Ran, KeyInUse, Command
<1>2. Ran => cmd.key \in ClientKeys /\ cmd.key \in Keys
  BY ClientAssumption DEF ClientTypeOK, Ran, Command, ClientKeys
<1>3. ASSUME NEW k \in Keys
      PROVE  /\ Exists(k) => Exists(k)' /\ (Over(k) => Over(k)')
             /\ Published(k) => Published(k)'
             /\ Lost(k) => Lost(k)'
             /\ Spent(k) => Spent(k)'
             /\ Failed(k) => Failed(k)'
             /\ Over(k) => (Visible(k)' <=> Visible(k))
  BY Stable, LostStays, SpentStays, OverHasItsVersion
     DEF Progress, Published, Lost, Spent, Over, Failed
<1>4. LateOK'
  BY <1>1, <1>3, ClientAssumption DEF LateOK, ClientTypeOK, ClientKeys
<1>5. ASSUME NEW r \in Requests, request[r] = Idle, request'[r] # Idle,
             request'[r].key \in ClientKeys
      PROVE  /\ KeyInUse(request'[r].key)
             /\ request'[r].at = "insert" =>
                  [artifact |-> request'[r].artifact, base |-> request'[r].base,
                   tree |-> request'[r].tree] = want
             /\ Finalizes(request'[r]) => <<request'[r].key, "finalize">> \in late
  <2>1. FromTheCommand(request'[r])
    BY <1>5
  <2>2. KeyInUse(request'[r].key)
    BY <2>1 DEF FromTheCommand, LateOK
  <2>3. Finalizes(request'[r]) => KindOf(request'[r]) = "finalize"
    BY DEF Finalizes, KindOf
  <2>. QED
    BY <1>1, <2>1, <2>2, <2>3 DEF FromTheCommand
<1>6. ASSUME NEW r \in Requests, Awaits(r)
      PROVE  request'[r] # Idle /\ request'[r].key = cmd.key
  <2>1. request[r] # Idle /\ request[r].key = cmd.key /\ request'[r] # Idle /\ Follows(r)
    BY <1>6 DEF CommandOK, Progress
  <2>. QED
    BY <2>1 DEF Follows, GoesOnAs
<1>7. Ran /\ NeverFinalized(cmd.key) => NeverFinalized(cmd.key)'
  <2>1. ASSUME NEW k \in ClientKeys, NeverFinalized(k) PROVE NeverFinalized(k)'
    <3>1. k \in Keys /\ <<k, "finalize">> \notin late
      BY <2>1, ClientAssumption DEF ClientKeys, NeverFinalized
    <3>2. \A r \in Requests : request[r] = Idle /\ request'[r] # Idle /\ request'[r].key = k =>
                                ~Finalizes(request'[r])
      BY <1>5, <3>1
    <3>. QED
      BY <2>1, <3>1, <3>2, NeverFinalizedStays
  <2>2. PICK k : k = cmd.key
    OBVIOUS
  <2>. QED
    BY <1>2, <2>1, <2>2 DEF NeverFinalized
<1>8. CommandOK'
  <2>1. PICK k : k = cmd.key
    OBVIOUS
  <2>2. cmd.at \in {"upload", "finalize", "ok", "noop", "conflict"} => Ran
    BY DEF Ran, NotRun
  <2>3. \A r \in Requests : Awaits(r)' => Awaits(r)
    BY DEF Awaits, Calling
  <2>4. \A r \in Requests : Awaits(r)' => request'[r] # Idle /\ request'[r].key = cmd'.key
    BY <1>6, <2>3
  <2>5. Ran /\ k = SecondKey => Spent(FirstKey)' /\ (Visible(FirstKey)' <=> Visible(FirstKey))
    BY <1>3, <2>1, ClientAssumption DEF CommandOK, Spent
  <2>6. /\ cmd.at \in {"upload", "finalize"} => Exists(k)'
        /\ cmd.at = "ok" => Published(k)'
        /\ cmd.at = "noop" => NeverFinalized(k)' /\ (k = SecondKey => ~Visible(FirstKey)')
        /\ cmd.at = "conflict" => Failed(k)' \/ Lost(k)' \/ NeverFinalized(k)'
    <3>1. NeverFinalized(cmd.key) /\ Ran => NeverFinalized(k)'
      BY <1>7, <2>1, SameKey
    <3>. QED
      BY <1>2, <1>3, <2>1, <2>2, <2>5, <3>1 DEF CommandOK
  <2>7. cmd' = cmd /\ cmd'.key = k
    BY <2>1
  <2>. QED
    BY <2>4, <2>5, <2>6, <2>7, SameKey DEF CommandOK, Ran
<1>. QED
  BY <1>1, <1>4, <1>5, <1>8, StepKeeps

-----------------------------------------------------------------------------
(* Where a step takes the command.                                         *)

\* The command goes on, with the same key or the next one.
Onward ==
  /\ Ran' /\ cmd' \in Command
  /\ \A k \in ClientKeys : KeyInUse(k) => KeyInUse(k)'
  /\ CommandOK'

LEMMA ClientKeysAreKeys ==
  /\ ClientKeys \subseteq Keys /\ FirstKey \in ClientKeys /\ SecondKey \in ClientKeys
  /\ FirstKey # SecondKey
  BY ClientAssumption DEF ClientKeys

\* The shapes of the command, by where it is.
LEMMA CommandShape ==
  ASSUME ClientTypeOK
  PROVE  /\ Calling => /\ Ran /\ cmd.round \in {0, 1} /\ cmd.missing \subseteq Paths
                       /\ cmd \in [at : {"create", "upload", "finalize"}, key : ClientKeys,
                                   round : {0, 1}, missing : SUBSET Paths,
                                   via : Requests \cup {Nobody}, tries : 0..MaxRetries]
         /\ Ran => cmd.key \in ClientKeys /\ cmd.key \in Keys
  BY ClientKeysAreKeys DEF ClientTypeOK, Calling, Ran, Command, NotRun

LEMMA FirstKeyStaysSpent ==
  ASSUME ClientIInv, Progress, mishaps \subseteq mishaps', Ran, cmd.key = SecondKey
  PROVE  Spent(FirstKey)'
<1>1. Spent(FirstKey) /\ FirstKey \in Keys
  BY ClientAssumption DEF ClientIInv, CommandOK
<1>. QED
  BY <1>1, SpentStays DEF ClientIInv

LEMMA TurnOK ==
  ASSUME ClientIInv, Progress, mishaps \subseteq mishaps', Ran,
         NEW step \in {"create", "upload", "finalize"},
         NEW round \in {0, 1}, NEW missing \in SUBSET Paths, Turn(step, round, missing),
         NEW k, k = cmd.key, step # "create" => Exists(k)'
  PROVE  Onward
<1>1. cmd' = [at |-> step, key |-> cmd.key, round |-> round, missing |-> missing,
              via |-> Nobody, tries |-> 0]
  BY DEF Turn
<1>2. cmd.key \in ClientKeys
  BY CommandShape DEF ClientIInv
<1>3. cmd' \in Command
  BY <1>1, <1>2, ClientAssumption DEF Command
<1>4. cmd'.key = k /\ cmd'.at = step /\ cmd'.via = Nobody
  BY <1>1
<1>5. Ran' /\ \A j : KeyInUse(j) => KeyInUse(j)'
  BY <1>1, <1>4 DEF Ran, NotRun, KeyInUse
<1>6. \A r \in Requests : ~Awaits(r)'
  BY <1>4, ClientAssumption DEF Awaits
<1>. QED
  BY <1>3, <1>4, <1>5, <1>6, FirstKeyStaysSpent, SameKey DEF Onward, CommandOK

LEMMA EndOK ==
  ASSUME ClientIInv, Progress, mishaps \subseteq mishaps', Ran,
         NEW how \in {"ok", "noop", "conflict", "failed"}, End(how), NEW k, k = cmd.key,
         how = "ok" => Published(k)',
         how = "noop" => NeverFinalized(k)' /\ (k = SecondKey => ~Visible(FirstKey)'),
         how = "conflict" => (Failed(k) \/ Lost(k) \/ NeverFinalized(k))'
  PROVE  Onward
<1>1. cmd' = [at |-> how, key |-> k]
  BY DEF End
<1>2. k \in ClientKeys
  BY CommandShape DEF ClientIInv
<1>3. cmd' \in Command
  BY <1>1, <1>2 DEF Command
<1>4. cmd'.key = k /\ cmd'.at = how
  BY <1>1
<1>5. Ran' /\ \A j : KeyInUse(j) => KeyInUse(j)'
  BY <1>1, <1>4 DEF Ran, NotRun, KeyInUse
<1>6. \A r \in Requests : ~Awaits(r)'
  BY <1>4 DEF Awaits, Calling
<1>. QED
  BY <1>3, <1>4, <1>5, <1>6, FirstKeyStaysSpent, SameKey DEF Onward, CommandOK

\* A new key is taken only when the old one can publish no more.
LEMMA StartOverOK ==
  ASSUME ClientIInv, Progress, mishaps \subseteq mishaps', Ran, StartOver,
         NEW k, k = cmd.key, Spent(k)'
  PROVE  Onward
<1>1. CASE k = FirstKey
  <2>1. cmd' = [at |-> "create", key |-> SecondKey, round |-> 0, missing |-> {},
                via |-> Nobody, tries |-> 0]
    BY <1>1 DEF StartOver
  <2>2. cmd' \in Command
    BY <2>1, ClientKeysAreKeys, ClientAssumption DEF Command
  <2>3. cmd'.key = SecondKey /\ cmd'.at = "create" /\ cmd'.via = Nobody
    BY <2>1
  <2>4. Ran' /\ \A j : KeyInUse(j) => KeyInUse(j)'
    BY <2>1, <2>3 DEF Ran, NotRun, KeyInUse
  <2>5. \A r \in Requests : ~Awaits(r)'
    BY <2>3, ClientAssumption DEF Awaits
  <2>. QED
    BY <1>1, <2>2, <2>3, <2>4, <2>5 DEF Onward, CommandOK
<1>2. CASE k # FirstKey
  BY <1>2, EndOK DEF StartOver
<1>. QED
  BY <1>1, <1>2

\* What create answered, taken as the state of the session.
LEMMA TakeSessionOK ==
  ASSUME ClientIInv, IInv', Progress, mishaps \subseteq mishaps', Ran, cmd.round \in {0, 1},
         NEW k, k = cmd.key, Exists(k)',
         NEW row, row = session'[k], NEW paths, TakeSession(row, paths)
  PROVE  Onward
<1>1. k \in Keys /\ row \in Session
  BY CommandShape DEF ClientIInv, IInv, TypeOK, Exists
<1>2. row.status \in {"published", "expired", "pending"} /\ row.tree \in Trees
  BY <1>1 DEF Session
<1>3. CASE row.status = "published"
  BY <1>3, TurnOK DEF TakeSession
<1>4. CASE row.status = "expired"
  <2>1. StartOver /\ Spent(k)'
    BY <1>4 DEF TakeSession, Over, Spent, Published
  <2>. QED
    BY <2>1, StartOverOK
<1>5. CASE row.status = "pending"
  <2>. DEFINE missing == DOMAIN Manifest[row.tree] \ paths
  <2>1. Turn(IF missing = {} THEN "finalize" ELSE "upload", cmd.round, missing)
    BY <1>5 DEF TakeSession
  <2>2. missing \in SUBSET Paths
    BY <1>2, ManifestAssumption
  <2>. HIDE DEF missing
  <2>. QED
    BY <2>1, <2>2, TurnOK
<1>. QED
  BY <1>2, <1>3, <1>4, <1>5


\* A step of the command: it may give up on the call it waits for.
LEMMA CommandKeeps ==
  ASSUME ClientIInv, IInv', Progress, Ran, Onward, UNCHANGED want,
         mishaps \subseteq mishaps', mishaps' \subseteq Keys \X {"failed", "overtaken"},
         late' = late \/ (Calling /\ late' = late \cup {<<cmd.key, cmd.at>>}),
         \A r \in Requests : ~FailsForNoReason(r) /\ ~FoundExpired(r),
         \A r \in Requests : request[r] = Idle /\ request'[r] # Idle =>
           /\ request'[r].key = cmd.key
           /\ request'[r].at = "insert" =>
                [artifact |-> request'[r].artifact, base |-> request'[r].base,
                 tree |-> request'[r].tree] = want
  PROVE  ClientIInv'
<1>. USE DEF ClientIInv
<1>1. cmd.key \in ClientKeys /\ cmd.key \in Keys /\ KeyInUse(cmd.key)
  BY CommandShape DEF KeyInUse
<1>2. Calling => <<cmd.key, cmd.at>> \in ClientKeys \X {"create", "upload", "finalize"}
  BY <1>1 DEF Calling
<1>3. ClientTypeOK'
  BY <1>2 DEF ClientTypeOK, Onward, Ran
<1>4. LateOK'
  <2>1. ASSUME NEW c \in late' PROVE KeyInUse(c[1]) /\ (c[2] = "finalize" => Exists(c[1])) /\ c[1] \in ClientKeys
    <3>1. CASE c \in late
      BY <3>1 DEF LateOK, ClientTypeOK
    <3>2. CASE Calling /\ c = <<cmd.key, cmd.at>>
      BY <1>1, <3>2 DEF CommandOK
    <3>. QED
      BY <2>1, <3>1, <3>2
  <2>2. \A k \in ClientKeys : (KeyInUse(k) => KeyInUse(k)') /\ (Exists(k) => Exists(k)')
    BY ClientKeysAreKeys DEF Onward, Progress, Evolves
  <2>3. ASSUME NEW c \in late' PROVE KeyInUse(c[1])' /\ (c[2] = "finalize" => Exists(c[1])')
    BY <2>1, <2>2
  <2>. QED
    BY <2>3 DEF LateOK
<1>5. CommandOK' /\ \A k \in ClientKeys : KeyInUse(k) => KeyInUse(k)'
  BY DEF Onward
<1>6. \A r \in Requests :
        request[r] = Idle /\ request'[r] # Idle /\ request'[r].key \in ClientKeys =>
          /\ KeyInUse(request'[r].key)
          /\ request'[r].at = "insert" =>
               [artifact |-> request'[r].artifact, base |-> request'[r].base,
                tree |-> request'[r].tree] = want
  BY <1>1
<1>. QED
  BY <1>3, <1>4, <1>5, <1>6, StepKeeps

-----------------------------------------------------------------------------
(* The steps of the command.                                               *)

\* It starts: nobody has used its keys.
LEMMA PublishKeeps ==
  ASSUME ClientIInv, NEW a \in Artifacts \cup {NoArtifact}, NEW base \in 0..MaxVersion,
         base < MaxVersion, NEW tree \in Trees, Publish(a, base, tree)
  PROVE  ClientIInv'
<1>. USE DEF ClientIInv
<1>1. /\ ~Ran /\ UNCHANGED <<vars, late, mishaps>>
      /\ want' = [artifact |-> a, base |-> base, tree |-> tree]
      /\ cmd' = [at |-> "create", key |-> FirstKey, round |-> 0, missing |-> {},
                 via |-> Nobody, tries |-> 0]
  BY DEF Publish, Ran
<1>2. /\ \A k \in Keys : Exists(k) => k \notin ClientKeys
      /\ \A r \in Requests : request[r] # Idle => request[r].key \notin ClientKeys
      /\ late = {}
  BY <1>1 DEF SessionsOK, SessionOK, CallsOK, CallOK, LateOK, KeyInUse
<1>3. IInv' /\ Progress
  BY <1>1, StutterProgress
<1>4. UNCHANGED <<session, latest, versions, now, request, mishaps>>
  BY <1>1 DEF vars, catalogVars
<1>5. cmd' \in Command /\ Ran' /\ cmd'.key = FirstKey /\ cmd'.at = "create" /\ cmd'.via = Nobody
  BY <1>1, ClientKeysAreKeys, ClientAssumption DEF Command, Ran, NotRun
<1>6. (base = 0 <=> a = NoArtifact) /\ base \in 0..(MaxVersion - 1)
  <2>1. a \in artifacts /\ base \in 1..latest[a] => a \in Artifacts /\ base > 0
    BY DEF IInv, TypeOK
  <2>. QED
    BY <2>1, ManifestAssumption, ClockAssumption DEF Publish
<1>7. ClientTypeOK'
  BY <1>1, <1>2, <1>5, <1>6 DEF ClientTypeOK
<1>8. LateOK'
  BY <1>1, <1>2 DEF LateOK
<1>9. SessionsOK'
  BY <1>2, <1>4 DEF SessionsOK, SessionOK, Exists
<1>10. CallsOK'
  <2>1. ASSUME NEW r \in Requests PROVE CallOK(request[r])'
    <3>1. CASE request[r] = Idle
      BY <1>4, <3>1 DEF CallOK, Idle
    <3>2. CASE request[r] # Idle
      BY <1>1, <1>2, <1>4, <3>2
         DEF CallsOK, CallOK, Lost, Taken, NewVersion, Over, Published, Exists, Failed, Spent
    <3>. QED
      BY <3>1, <3>2
  <2>. QED
    BY <2>1 DEF CallsOK
<1>11. CommandOK'
  <2>1. \A r \in Requests : ~Awaits(r)'
    BY <1>5, ClientAssumption DEF Awaits
  <2>. QED
    BY <1>5, <2>1, ClientKeysAreKeys DEF CommandOK
<1>. QED
  BY <1>3, <1>7, <1>8, <1>9, <1>10, <1>11

\* Calls that are answered without a write to the tables.
LEMMA CreateAnsweredKeeps == ASSUME ClientIInv, CreateAnswered PROVE ClientIInv'
<1>. USE DEF ClientIInv
<1>1. /\ Calls("create") /\ Calling /\ UNCHANGED <<vars, want, late, mishaps>>
      /\ Ran /\ cmd.round \in {0, 1}
  BY CommandShape DEF CreateAnswered, Calls, Calling
<1>2. IInv' /\ Progress /\ UNCHANGED <<session, latest, versions, request>>
  BY <1>1, StutterProgress DEF vars, catalogVars
<1>3. PICK k \in Keys : k = cmd.key
  BY <1>1, CommandShape
<1>4. Onward
  <2>1. CASE Exists(k) /\ TakeSession(session[k], uploaded[k])
    <3>1. Exists(k)' /\ session'[k] = session[k]
      BY <1>2, <2>1 DEF Exists
    <3>. QED
      BY <1>1, <1>2, <1>3, <2>1, <3>1, TakeSessionOK
  <2>2. ASSUME ~Exists(k),
               \/ End("conflict")
               \/ End("noop") /\ want.base > 0 /\ latest[want.artifact] = want.base
        PROVE  Onward
    <3>1. ~Published(k)' /\ ~HasVersion(k)' /\ <<k, "finalize">> \notin late'
      BY <1>1, <1>2, <2>2 DEF Published, HasVersion, Exists, LateOK
    <3>2. \A r \in Requests : request[r] # Idle /\ request[r].key = k => ~Finalizes(request[r])
      BY <2>2 DEF IInv, RequestInv, RequestOK, Finalizes
    <3>3. NeverFinalized(k)'
      BY <1>2, <3>1, <3>2 DEF NeverFinalized, Finalizes
    <3>4. ASSUME want.base > 0, latest[want.artifact] = want.base, k = SecondKey
          PROVE  ~Visible(FirstKey)'
      <4>1. Exists(FirstKey) /\ FirstKey \in Keys /\ FirstKey \in ClientKeys
        BY <1>1, <1>3, <3>4, ClientKeysAreKeys DEF CommandOK, Spent
      <4>2. /\ session[FirstKey].artifact = want.artifact
            /\ session[FirstKey].base = want.base /\ want.base \in Nat
        BY <1>1, <3>4, <4>1 DEF SessionsOK, SessionOK, ClientTypeOK
      <4>. QED
        BY <1>2, <3>4, <4>2 DEF Visible, NewVersion
    <3>5. CASE End("noop") /\ want.base > 0 /\ latest[want.artifact] = want.base
      BY <1>1, <1>2, <1>3, <3>3, <3>4, <3>5, EndOK
    <3>6. CASE End("conflict")
      BY <1>1, <1>2, <1>3, <3>3, <3>6, EndOK
    <3>. QED
      BY <2>2, <3>5, <3>6
  <2>. QED
    BY <1>3, <2>1, <2>2 DEF CreateAnswered
<1>5. \A r \in Requests : ~FailsForNoReason(r) /\ ~FoundExpired(r)
  BY <1>2 DEF FailsForNoReason, FoundExpired, At
<1>. QED
  BY <1>1, <1>2, <1>4, <1>5, CommandKeeps DEF ClientTypeOK

LEMMA UploadRefusedKeeps == ASSUME ClientIInv, UploadRefused PROVE ClientIInv'
<1>. USE DEF ClientIInv
<1>1. Calls("upload") /\ Calling /\ Ran /\ UNCHANGED <<vars, want, late, mishaps>>
  BY CommandShape DEF UploadRefused, Calls, Calling
<1>2. IInv' /\ Progress /\ UNCHANGED <<session, request, now>>
  BY <1>1, StutterProgress DEF vars, catalogVars
<1>3. PICK k \in Keys : k = cmd.key
  BY <1>1, CommandShape
<1>4. Exists(k) /\ Exists(k)'
  BY <1>1, <1>2, <1>3 DEF CommandOK, Calls, Exists
<1>5. Onward
  <2>1. CASE Turn("finalize", 1, {})
    BY <1>1, <1>2, <1>3, <1>4, <2>1, TurnOK
  <2>2. CASE session[k].status # "published" /\ IsSessionExpired(k) /\ StartOver
    <3>1. Over(k)
      BY <1>4, <2>2, ExpiredIsOver DEF IInv
    <3>2. Spent(k)'
      BY <1>2, <1>4, <2>2, <3>1 DEF Over, Exists, Spent, Published
    <3>. QED
      BY <1>1, <1>2, <1>3, <2>2, <3>2, StartOverOK
  <2>. QED
    BY <1>3, <2>1, <2>2 DEF UploadRefused
<1>6. \A r \in Requests : ~FailsForNoReason(r) /\ ~FoundExpired(r)
  BY <1>2 DEF FailsForNoReason, FoundExpired, At
<1>. QED
  BY <1>1, <1>2, <1>5, <1>6, CommandKeeps DEF ClientTypeOK

\* The command makes a call: the server takes it in.
LEMMA CallServerKeeps == ASSUME ClientIInv, NEW r \in Requests, CallServer(r) PROVE ClientIInv'
<1>. USE DEF ClientIInv
<1>1. /\ Calling /\ Ran /\ cmd' = [cmd EXCEPT !.via = r] /\ UNCHANGED <<want, late, mishaps>>
      /\ cmd.missing \subseteq Paths
      /\ cmd \in [at : {"create", "upload", "finalize"}, key : ClientKeys,
                  round : {0, 1}, missing : SUBSET Paths,
                  via : Requests \cup {Nobody}, tries : 0..MaxRetries]
  BY CommandShape DEF CallServer, Calls, Calling
<1>2. PICK k \in Keys : k = cmd.key
  BY <1>1, CommandShape
<1>3. /\ want.artifact \in Artifacts \cup {NoArtifact} /\ want.base \in 0..MaxVersion
      /\ want.base < MaxVersion /\ want.tree \in Trees
      /\ want = [artifact |-> want.artifact, base |-> want.base, tree |-> want.tree]
  BY <1>1, ClockAssumption DEF ClientTypeOK
<1>4. /\ IInv' /\ Progress /\ request[r] = Idle
      /\ request'[r] # Idle /\ request'[r].key = k
      /\ request'[r].at = "insert" =>
           [artifact |-> request'[r].artifact, base |-> request'[r].base,
            tree |-> request'[r].tree] = want
      /\ \A o \in Requests : o # r => request'[o] = request[o]
  <2>1. CASE Calls("create") /\ CreateArtifactUpload(r, k, want.artifact, want.base, want.tree)
    <3>. DEFINE q == [at |-> "insert", key |-> k, artifact |-> want.artifact,
                      base |-> want.base, tree |-> want.tree]
    <3>1. Next
      BY <1>3, <2>1 DEF Next, RequestStep
    <3>2. IInv' /\ Progress
      BY <1>3, <2>1, <3>1, NextInv, CreateProgress
    <3>3. request' = [request EXCEPT ![r] = q] /\ request[r].at = "idle"
      BY <2>1 DEF CreateArtifactUpload, At
    <3>4. request'[r] = q /\ request[r] = Idle /\ \A o \in Requests : o # r => request'[o] = request[o]
      BY <3>3 DEF IInv, TypeOK, Request
    <3>. QED
      BY <1>3, <3>2, <3>4 DEF Idle
  <2>2. ASSUME NEW p \in cmd.missing, UploadArtifactFile(r, k, p)
        PROVE  /\ IInv' /\ Progress /\ request[r] = Idle
               /\ request'[r] # Idle /\ request'[r].key = k /\ request'[r].at = "store"
               /\ \A o \in Requests : o # r => request'[o] = request[o]
    <3>1. Next /\ p \in Paths
      BY <1>1, <2>2 DEF Next, RequestStep
    <3>2. IInv' /\ Progress
      BY <2>2, <3>1, NextInv, UploadProgress
    <3>3. /\ request[r] = Idle
          /\ request'[r] = [at |-> "store", key |-> k, path |-> p]
          /\ \A o \in Requests : o # r => request'[o] = request[o]
      BY <2>2 DEF UploadArtifactFile, IInv, TypeOK, Request, At
    <3>. QED
      BY <3>2, <3>3 DEF Idle
  <2>3. CASE FinalizeArtifactUpload(r, k)
    <3>1. Next
      BY <2>3 DEF Next, RequestStep
    <3>2. IInv'
      BY <3>1, NextInv
    <3>3. Finalizes(request'[r]) => request'[r].at # "insert"
      BY DEF Finalizes
    <3>. QED
      BY <2>3, <3>1, <3>2, <3>3, FinalizeProgress
  <2>4. \/ Calls("create") /\ CreateArtifactUpload(r, k, want.artifact, want.base, want.tree)
        \/ \E p \in cmd.missing : UploadArtifactFile(r, k, p)
        \/ FinalizeArtifactUpload(r, k)
    BY <1>2 DEF CallServer
  <2>. QED
    BY <2>1, <2>2, <2>3, <2>4
<1>5. /\ cmd' \in Command /\ cmd'.key = k /\ cmd'.at = cmd.at /\ cmd'.via = r
  BY <1>1, <1>2 DEF Command
<1>6. Ran' /\ Calling'
  BY <1>1, <1>5 DEF Calling, Ran, NotRun
<1>7. CommandOK'
  <2>1. \A o \in Requests : Awaits(o)' => request'[o] # Idle /\ request'[o].key = k
    BY <1>4, <1>5 DEF Awaits
  <2>2. cmd'.at \in {"upload", "finalize"} => Exists(k)'
    BY <1>2, <1>4, <1>5 DEF CommandOK, Progress, Evolves
  <2>3. k = SecondKey => Spent(FirstKey)'
    BY <1>1, <1>2, <1>4, FirstKeyStaysSpent
  <2>. QED
    BY <1>5, <1>6, <2>1, <2>2, <2>3 DEF CommandOK, Calling, Exists
<1>8. Onward
  BY <1>2, <1>5, <1>6, <1>7 DEF Onward, KeyInUse
<1>9. \A o \in Requests : ~FailsForNoReason(o) /\ ~FoundExpired(o)
  BY <1>4 DEF FailsForNoReason, FoundExpired, At, Idle
<1>. QED
  BY <1>1, <1>2, <1>4, <1>8, <1>9, CommandKeeps DEF ClientTypeOK

\* The server ends a call, and the command goes on.
LEMMA AnsweredKeeps ==
  ASSUME ClientIInv, IInv', Progress, Ran, Onward, UNCHANGED want,
         mishaps \subseteq mishaps', mishaps' \subseteq Keys \X {"failed", "overtaken"},
         late' = late \/ (Calling /\ late' = late \cup {<<cmd.key, cmd.at>>}),
         NEW r \in Requests, request' = [request EXCEPT ![r] = Idle]
  PROVE  ClientIInv'
<1>1. \A o \in Requests : request'[o] \in {request[o], Idle}
  BY DEF ClientIInv, IInv, TypeOK
<1>2. \A o \in Requests : ~FailsForNoReason(o) /\ ~FoundExpired(o)
  BY <1>1 DEF FailsForNoReason, FoundExpired, At, Idle
<1>. QED
  BY <1>1, <1>2, CommandKeeps

LEMMA AwaitedCall ==
  ASSUME ClientIInv, NEW r \in Requests, Awaits(r), RequestStep(r)
  PROVE  /\ IInv' /\ Progress /\ Calling /\ Ran /\ cmd.round \in {0, 1}
         /\ cmd.missing \subseteq Paths /\ cmd.key \in Keys
         /\ request[r] # Idle /\ request[r].key = cmd.key
         /\ mishaps \subseteq Keys \X {"failed", "overtaken"}
<1>. USE DEF ClientIInv
<1>1. Next /\ Calling
  BY DEF Next, Awaits
<1>. QED
  BY <1>1, NextInv, NextProgress, CommandShape DEF CommandOK, ClientTypeOK

LEMMA SessionCreatedKeeps ==
  ASSUME ClientIInv, NEW r \in Requests, SessionCreated(r)
  PROVE  ClientIInv'
<1>1. Awaits(r) /\ RequestStep(r) /\ CreateUploadSession(r) /\ UNCHANGED <<want, late, mishaps>>
  BY DEF SessionCreated, RequestStep
<1>2. IInv' /\ Progress /\ Ran /\ cmd.round \in {0, 1}
  BY <1>1, AwaitedCall
<1>3. PICK k \in Keys : k = cmd.key /\ k = request[r].key
  BY <1>1, AwaitedCall
<1>4. Exists(k)'
  <2>1. CASE Exists(k)
    BY <1>2, <2>1 DEF Progress, Evolves
  <2>2. ASSUME NEW a \in AssignedIds(request[r].artifact),
               session' = [session EXCEPT ![k] = SessionRow(r, a)]
        PROVE  Exists(k)'
    <3>1. session'[k] = SessionRow(r, a) /\ SessionRow(r, a) \in Session
      BY <1>1, <2>2, OpenedRow DEF ClientIInv, IInv, TypeOK, CreateUploadSession
    <3>. QED
      BY <3>1, NoSessionAssumption DEF Exists
  <2>. QED
    BY <1>1, <1>3, <2>1, <2>2 DEF CreateUploadSession
<1>5. Onward
  <2>1. TakeSession(session'[k], uploaded[k])
    BY <1>3 DEF SessionCreated
  <2>. QED
    BY <1>1, <1>2, <1>3, <1>4, <2>1, TakeSessionOK
<1>. QED
  BY <1>1, <1>2, <1>5, AwaitedCall, AnsweredKeeps DEF CreateUploadSession

LEMMA FileUploadedKeeps ==
  ASSUME ClientIInv, NEW r \in Requests, FileUploaded(r)
  PROVE  ClientIInv'
<1>. DEFINE missing == cmd.missing \ {request[r].path}
<1>1. /\ Awaits(r) /\ RequestStep(r) /\ RecordUploadedFile(r) /\ UNCHANGED <<want, late, mishaps>>
      /\ Turn(IF missing = {} THEN "finalize" ELSE "upload", cmd.round, missing)
  BY DEF FileUploaded, RequestStep
<1>2. IInv' /\ Progress /\ Ran /\ cmd.round \in {0, 1} /\ missing \in SUBSET Paths
  BY <1>1, AwaitedCall
<1>3. PICK k \in Keys : k = cmd.key /\ k = request[r].key
  BY <1>1, AwaitedCall
<1>4. Exists(k)'
  BY <1>1, <1>2, <1>3 DEF RecordUploadedFile, At, ClientIInv, IInv, RequestInv, RequestOK,
     Progress, Evolves
<1>. HIDE DEF missing
<1>5. Onward
  BY <1>1, <1>2, <1>3, <1>4, TurnOK
<1>. QED
  BY <1>1, <1>2, <1>5, AwaitedCall, AnsweredKeeps DEF RecordUploadedFile

LEMMA UploadExpiresKeeps ==
  ASSUME ClientIInv, NEW r \in Requests, UploadExpires(r)
  PROVE  ClientIInv'
<1>1. /\ Awaits(r) /\ RequestStep(r) /\ EndRequest(r) /\ UNCHANGED <<want, late>> /\ StartOver
      /\ At(r, "store") /\ PastExpiry(cmd.key) /\ mishaps' = mishaps \cup Overtaken({cmd.key})
  BY DEF UploadExpires, RequestStep
<1>2. IInv' /\ Progress /\ Ran /\ mishaps \subseteq Keys \X {"failed", "overtaken"}
  BY <1>1, AwaitedCall
<1>3. PICK k \in Keys : k = cmd.key /\ k = request[r].key
  BY <1>1, AwaitedCall
<1>4. Exists(k) /\ Over(k)
  <2>1. Exists(k)
    BY <1>1, <1>3 DEF ClientIInv, IInv, RequestInv, RequestOK, At
  <2>. QED
    BY <1>1, <1>3, <2>1, ExpiredIsOver DEF ClientIInv, IInv, IsSessionExpired
<1>5. /\ mishaps \subseteq mishaps' /\ mishaps' \subseteq Keys \X {"failed", "overtaken"}
      /\ Published(k) => <<k, "overtaken">> \in mishaps'
  BY <1>1, <1>2, <1>3 DEF Overtaken
<1>6. Spent(k)'
  <2>1. Exists(k)' /\ Over(k)' /\ (Published(k)' => Published(k))
    BY <1>2, <1>4, Stable DEF ClientIInv, Progress, Evolves, Published
  <2>. QED
    BY <1>5, <2>1 DEF Spent
<1>7. Onward
  BY <1>1, <1>2, <1>3, <1>5, <1>6, StartOverOK
<1>. QED
  BY <1>1, <1>2, <1>5, <1>7, AnsweredKeeps DEF EndRequest

LEMMA FinalizeAnsweredKeeps ==
  ASSUME ClientIInv, NEW r \in Requests, FinalizeAnswered(r)
  PROVE  ClientIInv'
<1>1. /\ Awaits(r) /\ RequestStep(r) /\ EndRequest(r) /\ UNCHANGED <<want, late, mishaps>>
      /\ At(r, "done")
  BY DEF FinalizeAnswered, RequestStep
<1>2. IInv' /\ Progress /\ Ran /\ cmd.round \in {0, 1}
  BY <1>1, AwaitedCall
<1>3. PICK k \in Keys : k = cmd.key /\ k = request[r].key
  BY <1>1, AwaitedCall
<1>4. /\ RequestOK(request[r]) /\ CallOK(request[r]) /\ request[r].at = "done"
      /\ request[r].code \in Code
  BY <1>1 DEF ClientIInv, IInv, RequestInv, CallsOK, At, TypeOK, Request, Idle
<1>5. Exists(k) /\ Exists(k)'
  BY <1>2, <1>3, <1>4 DEF RequestOK, Progress, Evolves
<1>6. Onward
  <2>1. CASE request[r].code = "OK"
    <3>1. Published(k)' /\ End("ok")
      BY <1>2, <1>3, <1>4, <1>5, <2>1, Stable
         DEF FinalizeAnswered, RequestOK, Progress, ClientIInv
    <3>. QED
      BY <1>1, <1>2, <1>3, <3>1, EndOK
  <2>2. CASE request[r].code = "SESSION_EXPIRED"
    <3>1. Spent(k) /\ StartOver
      BY <1>3, <1>4, <2>2 DEF FinalizeAnswered, CallOK
    <3>2. Spent(k)'
      BY <1>1, <1>2, <3>1, SpentStays DEF ClientIInv
    <3>. QED
      BY <1>1, <1>2, <1>3, <3>1, <3>2, StartOverOK
  <2>3. CASE request[r].code = "PUBLISH_CONFLICT"
    <3>1. End("conflict") /\ (Failed(k) \/ Lost(k))
      BY <1>3, <1>4, <2>3 DEF FinalizeAnswered, CallOK
    <3>2. Failed(k)' \/ Lost(k)'
      BY <1>1, <1>2, <3>1, LostStays DEF ClientIInv, Failed
    <3>. QED
      BY <1>1, <1>2, <1>3, <3>1, <3>2, EndOK
  <2>4. CASE request[r].code = "UPLOAD_INCOMPLETE"
    <3>1. CASE Turn("create", 1, {})
      BY <1>1, <1>2, <1>3, <3>1, TurnOK
    <3>2. CASE End("failed")
      BY <1>1, <1>2, <1>3, <3>2, EndOK
    <3>. QED
      BY <2>4, <3>1, <3>2 DEF FinalizeAnswered
  <2>. QED
    BY <1>4, <2>1, <2>2, <2>3, <2>4 DEF Code
<1>. QED
  BY <1>1, <1>2, <1>6, AwaitedCall, AnsweredKeeps DEF EndRequest

\* What the command does when no answer comes.
LEMMA RetryOK ==
  ASSUME ClientIInv, Progress, UNCHANGED mishaps, Calling, Retry
  PROVE  Onward /\ Ran
<1>1. /\ Ran /\ cmd.key \in ClientKeys
      /\ cmd \in [at : {"create", "upload", "finalize"}, key : ClientKeys,
                  round : {0, 1}, missing : SUBSET Paths,
                  via : Requests \cup {Nobody}, tries : 0..MaxRetries]
  BY CommandShape DEF ClientIInv
<1>2. PICK k : k = cmd.key
  OBVIOUS
<1>3. CASE cmd.tries < MaxRetries
  <2>1. cmd' = [cmd EXCEPT !.via = Nobody, !.tries = cmd.tries + 1]
    BY <1>3 DEF Retry
  <2>2. cmd.tries + 1 \in 0..MaxRetries
    BY <1>1, <1>3, ClientAssumption
  <2>3. cmd' \in Command /\ cmd'.key = k /\ cmd'.at = cmd.at /\ cmd'.via = Nobody
    BY <1>1, <1>2, <2>1, <2>2 DEF Command
  <2>4. Ran' /\ \A j : KeyInUse(j) => KeyInUse(j)'
    BY <1>1, <1>2, <2>3 DEF Ran, NotRun, KeyInUse
  <2>5. \A r \in Requests : ~Awaits(r)'
    BY <2>3, ClientAssumption DEF Awaits
  <2>6. cmd'.at \in {"upload", "finalize"} => Exists(k)'
    BY <1>1, <1>2, <2>3, ClientKeysAreKeys DEF ClientIInv, CommandOK, Progress, Evolves
  <2>7. k = SecondKey => Spent(FirstKey)'
    BY <1>1, <1>2, FirstKeyStaysSpent
  <2>8. CommandOK'
    BY <1>1, <2>3, <2>5, <2>6, <2>7 DEF CommandOK, Exists
  <2>. QED
    BY <1>1, <2>3, <2>4, <2>8 DEF Onward
<1>4. CASE ~(cmd.tries < MaxRetries)
  BY <1>1, <1>2, <1>4, EndOK DEF Retry
<1>. QED
  BY <1>1, <1>3, <1>4

LEMMA TimeOutKeeps == ASSUME ClientIInv, TimeOut PROVE ClientIInv'
<1>1. Calling /\ Retry /\ UNCHANGED <<want, mishaps>> /\ late' = late \cup {<<cmd.key, cmd.at>>}
      /\ UNCHANGED vars
  BY DEF TimeOut, Retry
<1>2. IInv' /\ Progress /\ UNCHANGED request
  BY <1>1, StutterProgress DEF ClientIInv, vars
<1>3. Onward /\ Ran
  BY <1>1, <1>2, RetryOK
<1>4. \A r \in Requests : ~FailsForNoReason(r) /\ ~FoundExpired(r)
  BY <1>2 DEF FailsForNoReason, FoundExpired, At
<1>. QED
  BY <1>1, <1>2, <1>3, <1>4, CommandKeeps DEF ClientIInv, ClientTypeOK

LEMMA CallFailsKeeps ==
  ASSUME ClientIInv, NEW r \in Requests, CallFails(r)
  PROVE  ClientIInv'
<1>1. Awaits(r) /\ RequestStep(r) /\ EndRequest(r) /\ Retry
      /\ UNCHANGED <<want, mishaps>> /\ late' = late \cup {<<cmd.key, cmd.at>>}
  BY DEF CallFails, Retry, RequestStep
<1>2. IInv' /\ Progress /\ Calling
  BY <1>1, AwaitedCall
<1>3. Onward /\ Ran
  BY <1>1, <1>2, RetryOK
<1>. QED
  BY <1>1, <1>2, <1>3, AwaitedCall, AnsweredKeeps DEF EndRequest

-----------------------------------------------------------------------------
(* Steps of the server on its own.                                         *)

LEMMA ServerRunsKeeps == ASSUME ClientIInv, ServerRuns PROVE ClientIInv'
<1>. USE DEF ClientIInv
<1>. DEFINE failing == {q \in Requests : FailsForNoReason(q)}
            found == {q \in Requests : FoundExpired(q)}
<1>1. /\ Next /\ UNCHANGED <<want, cmd, late>>
      /\ mishaps' = mishaps \cup {<<request[r].key, "failed">> : r \in failing}
                             \cup Overtaken({request[r].key : r \in found})
      /\ \A r \in Requests : Awaits(r) => request'[r] # Idle
  BY DEF ServerRuns
<1>2. IInv' /\ Progress
  BY <1>1, NextInv, NextProgress
<1>3. mishaps \subseteq mishaps' /\ mishaps' \subseteq Keys \X {"failed", "overtaken"}
  <2>1. \A r \in Requests : FailsForNoReason(r) \/ FoundExpired(r) => request[r].key \in Keys
    BY RequestShape DEF FailsForNoReason, FoundExpired, At, IInv
  <2>2. mishaps \subseteq Keys \X {"failed", "overtaken"}
    BY DEF ClientTypeOK
  <2>3. \A r \in failing : <<request[r].key, "failed">> \in Keys \X {"failed", "overtaken"}
    BY <2>1
  <2>4. Overtaken({request[r].key : r \in found}) \subseteq Keys \X {"failed", "overtaken"}
    BY <2>1 DEF Overtaken
  <2>. QED
    BY <1>1, <2>2, <2>3, <2>4
<1>4. \A r \in Requests :
        /\ FailsForNoReason(r) => <<request[r].key, "failed">> \in mishaps'
        /\ FoundExpired(r) /\ Published(request[r].key) =>
             <<request[r].key, "overtaken">> \in mishaps'
  BY <1>1 DEF Overtaken
<1>5. \A r \in Requests :
        request[r] = Idle /\ request'[r] # Idle /\ request'[r].key \in ClientKeys =>
          FromTheCommand(request'[r])
  BY DEF ServerRuns, At, Idle
<1>. QED
  BY <1>1, <1>2, <1>3, <1>4, <1>5, CommandStays

\* Steps that leave the requests alone.
LEMMA OthersKeep ==
  ASSUME ClientIInv, IInv', Progress, UNCHANGED <<request, want, cmd, late, mishaps>>
  PROVE  ClientIInv'
<1>1. \A r \in Requests : ~FailsForNoReason(r) /\ ~FoundExpired(r)
  BY DEF FailsForNoReason, FoundExpired, At
<1>2. /\ mishaps \subseteq Keys \X {"failed", "overtaken"}
      /\ \A r \in Requests : Awaits(r) => request'[r] # Idle
  BY DEF ClientIInv, ClientTypeOK, CommandOK
<1>. QED
  BY <1>1, <1>2, CommandStays

-----------------------------------------------------------------------------

LEMMA ClientInitInv == ClientInit => ClientIInv
<1>. SUFFICES ASSUME ClientInit PROVE ClientIInv
  OBVIOUS
<1>1. /\ IInv /\ ~Ran /\ cmd = NotRun /\ late = {} /\ mishaps = {}
      /\ \A k \in Keys : ~Exists(k)
      /\ \A r \in Requests : request[r] = Idle
  BY InitInv DEF ClientInit, Init, Ran, Exists
<1>2. ClientTypeOK
  BY <1>1 DEF ClientTypeOK, Command
<1>3. CallsOK /\ SessionsOK /\ LateOK
  BY <1>1 DEF CallsOK, CallOK, Idle, SessionsOK, LateOK
<1>4. CommandOK
  BY <1>1 DEF CommandOK, Awaits, Calling, NotRun
<1>. QED
  BY <1>1, <1>2, <1>3, <1>4 DEF ClientIInv

LEMMA ClientNextInv == ClientIInv /\ [ClientNext]_clientVars => ClientIInv'
<1>. SUFFICES ASSUME ClientIInv, [ClientNext]_clientVars PROVE ClientIInv'
  OBVIOUS
<1>1. CASE ClientStep
  <2>1. ASSUME NEW r \in Requests,
               CallServer(r) \/ SessionCreated(r) \/ FileUploaded(r) \/ UploadExpires(r)
                 \/ FinalizeAnswered(r) \/ CallFails(r)
        PROVE  ClientIInv'
    BY <2>1, CallServerKeeps, SessionCreatedKeeps, FileUploadedKeeps, UploadExpiresKeeps,
       FinalizeAnsweredKeeps, CallFailsKeeps
  <2>. QED
    BY <1>1, <2>1, PublishKeeps, CreateAnsweredKeeps, UploadRefusedKeeps, TimeOutKeeps
       DEF ClientStep
<1>2. CASE ServerRuns
  BY <1>2, ServerRunsKeeps
<1>3. ASSUME NEW k \in Keys, MarkExpired(k) PROVE ClientIInv'
  BY <1>3, MarkProgress, OthersKeep DEF MarkExpired, ClientIInv
<1>4. CASE UNCHANGED clientVars
  BY <1>4, StutterProgress, OthersKeep DEF clientVars, vars, ClientIInv
<1>. QED
  BY <1>1, <1>2, <1>3, <1>4 DEF ClientNext

\* The invariant holds in every state of a command, whatever the server, the
\* network and the other clients do.
THEOREM ClientInvariance == ClientSpec => []ClientIInv
<1>. QED
  BY ClientInitInv, ClientNextInv, PTL DEF ClientSpec

\* One command makes at most one version of the artifact it updates, whatever it
\* sends twice and however late it arrives; one that creates makes a second only
\* when it was told that the first session had expired although its version is
\* there (artifact_flow.rs:217).
THEOREM PublishesOnce == ClientSpec => []PublishesAtMostOnce
<1>1. ClientIInv => PublishesAtMostOnce
  <2>. SUFFICES ASSUME ClientIInv, Visible(FirstKey), Visible(SecondKey)
                PROVE  want.base = 0 /\ (CutAfterLatest(FirstKey)
                                          \/ <<FirstKey, "overtaken">> \in mishaps)
    BY DEF PublishesAtMostOnce
  <2>1. /\ HasVersion(FirstKey) /\ HasVersion(SecondKey)
        /\ SessionOK(FirstKey) /\ SessionOK(SecondKey)
    BY ClientKeysAreKeys DEF ClientIInv, SessionsOK, Visible, HasVersion
  <2>2. Spent(FirstKey) /\ Ran
    BY <2>1, ClientKeysAreKeys DEF ClientIInv, SessionOK, KeyInUse, CommandOK
  <2>3. want.base = 0
    <3>1. want.base \in Nat
      BY <2>2 DEF ClientIInv, ClientTypeOK
    <3>2. want.base > 0 => VersionRow(FirstKey) = VersionRow(SecondKey)
      BY <2>1, ClientKeysAreKeys DEF SessionOK, HasVersion, NewVersion
    <3>3. VersionRow(FirstKey) # VersionRow(SecondKey)
      BY ClientKeysAreKeys DEF VersionRow
    <3>. QED
      BY <3>1, <3>2, <3>3
  <2>. QED
    BY <2>2, <2>3 DEF Spent, CutAfterLatest
<1>. QED
  BY <1>1, ClientInvariance, PTL

LEMMA ReportsHold == ASSUME ClientIInv PROVE ReportsAreTrue
<1>. USE DEF ClientIInv
<1>1. cmd.at \in {"ok", "noop", "conflict"} => Ran /\ cmd.key \in ClientKeys /\ cmd.key \in Keys
  BY CommandShape DEF Ran, NotRun
<1>2. ASSUME cmd.at = "ok"
      PROVE  \E a \in artifacts : \E v \in 1..latest[a] :
               /\ versions[a][v] = [session |-> cmd.key, tree |-> want.tree]
               /\ v = want.base + 1
               /\ want.base > 0 => a = want.artifact
  <2>. DEFINE k == cmd.key
              a == session[k].artifact
              v == NewVersion(k)
  <2>1. k \in Keys /\ k \in ClientKeys /\ Exists(k) /\ Published(k)
    BY <1>1, <1>2 DEF CommandOK, Published
  <2>2. session[k] \in Session
    BY <2>1 DEF IInv, TypeOK, Exists
  <2>3. /\ session[k].base = want.base /\ session[k].tree = want.tree
        /\ want.base > 0 => a = want.artifact
    BY <2>1 DEF SessionsOK, SessionOK
  <2>4. Visible(k)
    BY <2>1 DEF IInv, PublishedOnce
  <2>5. v \in DOMAIN versions[a] /\ versions[a][v] = VersionRow(k) /\ v <= latest[a]
    BY <2>4 DEF Visible, HasVersion
  <2>6. a \in Artifacts /\ a \in artifacts
    BY <2>2, <2>5 DEF IInv, GapFreeHistory, Session
  <2>7. v \in 1..latest[a]
    BY <2>2, <2>5, <2>6 DEF IInv, TypeOK, Session, NewVersion
  <2>. QED
    BY <2>3, <2>5, <2>6, <2>7 DEF NewVersion, VersionRow
<1>3. ASSUME Ran, NEW k \in ClientKeys, Visible(k), k # cmd.key
      PROVE  k = FirstKey /\ cmd.key = SecondKey /\ Spent(k)
  <2>1. KeyInUse(k)
    BY <1>3, ClientKeysAreKeys DEF SessionsOK, SessionOK, Visible, HasVersion
  <2>. QED
    BY <1>3, <2>1, CommandShape DEF KeyInUse, ClientKeys, CommandOK
<1>4. ASSUME cmd.at = "noop", NEW k \in ClientKeys, Visible(k) PROVE FALSE
  <2>1. CASE k = cmd.key
    BY <1>4, <2>1 DEF CommandOK, NeverFinalized, Visible, HasVersion, Exists, NewVersion, VersionRow
  <2>2. CASE k # cmd.key
    BY <1>1, <1>3, <1>4, <2>2 DEF CommandOK
  <2>. QED
    BY <2>1, <2>2
<1>5. ASSUME cmd.at = "conflict", NEW k \in ClientKeys, Visible(k) PROVE Misreported(k)
  <2>1. CASE k = cmd.key
    <3>1. Failed(k) \/ Lost(k) \/ NeverFinalized(k)
      BY <1>5, <2>1 DEF CommandOK
    <3>. QED
      BY <1>5, <3>1 DEF Misreported, CutAfterLatest, Failed, Lost, NeverFinalized, Visible
  <2>2. CASE k # cmd.key
    BY <1>1, <1>3, <1>5, <2>2 DEF Spent, Misreported, CutAfterLatest
  <2>. QED
    BY <2>1, <2>2
<1>. QED
  BY <1>2, <1>4, <1>5 DEF ReportsAreTrue

\* A success the command reports is a version of the history with its tree on the
\* version it named; after "no changes" or a conflict it has made no version and
\* never will, unless the server misreported one (artifact_flow.rs:257,
\* d1-artifact-repository.ts classifyPublishFailure).
THEOREM ReportsStayTrue == ClientSpec => []ReportsAreTrue
<1>. QED
  BY ReportsHold, ClientInvariance, PTL

\* The steps of the command that are requests' steps, and those that leave the
\* requests alone.
LEMMA ClientStepsRequests ==
  ASSUME ClientIInv, [ClientNext]_clientVars
  PROVE  [Next]_vars \/ \E k \in Keys : MarkExpired(k)
<1>1. ASSUME NEW r \in Requests,
             SessionCreated(r) \/ FileUploaded(r) \/ UploadExpires(r) \/ FinalizeAnswered(r)
               \/ CallFails(r)
      PROVE  Next
  BY <1>1 DEF SessionCreated, FileUploaded, UploadExpires, FinalizeAnswered, CallFails, Next,
     RequestStep
<1>2. ASSUME NEW r \in Requests, CallServer(r) PROVE Next
  <2>1. cmd.key \in Keys /\ cmd.missing \subseteq Paths /\ Ran
    BY <1>2, CommandShape DEF CallServer, Calls, Calling, ClientIInv
  <2>2. /\ want.artifact \in Artifacts \cup {NoArtifact} /\ want.base \in 0..MaxVersion
        /\ want.base < MaxVersion /\ want.tree \in Trees
    BY <2>1, ClockAssumption DEF ClientIInv, ClientTypeOK
  <2>. QED
    BY <1>2, <2>1, <2>2 DEF CallServer, Next, RequestStep
<1>. QED
  BY <1>1, <1>2
     DEF ClientNext, ClientStep, ServerRuns, Publish, CreateAnswered, UploadRefused, TimeOut,
         clientVars

\* What the server promises of its tables and its answers holds while a command
\* publishes too, and while the cleanup marks sessions expired.
THEOREM PublishingHoldsForTheCommand ==
  ClientSpec => [](GapFreeHistory /\ PublishedOnce /\ VersionsComplete) /\ AnswersAreFinal
<1>1. ClientIInv => GapFreeHistory /\ PublishedOnce /\ VersionsComplete
  BY DEF ClientIInv, IInv
<1>2. ASSUME ClientIInv, ClientIInv', [ClientNext]_clientVars,
             NEW r \in Requests, At(r, "done"), At(r, "done")'
      PROVE  LET k == request[r].key IN
               /\ request[r].code = "OK" => Visible(k) /\ Visible(k)'
               /\ request[r].code = "SESSION_EXPIRED" =>
                    /\ HasVersion(k)' = HasVersion(k)
                    /\ Visible(k)' = Visible(k)
  <2>1. IInv /\ IInv'
    BY <1>2 DEF ClientIInv
  <2>2. CASE [Next]_vars
    BY <1>2, <2>1, <2>2, StepEvolves, HistoryEffect, DoneStays, AnswersStay
  <2>3. ASSUME NEW k \in Keys, MarkExpired(k)
        PROVE  Evolves /\ Effect /\ request' = request
    BY <2>1, <2>3, MarkProgress DEF Progress, MarkExpired
  <2>4. CASE \E k \in Keys : MarkExpired(k)
    <3>1. Evolves /\ Effect /\ request' = request
      BY <2>3, <2>4
    <3>. QED
      BY <1>2, <2>1, <3>1, AnswersStay
  <2>. QED
    BY <1>2, <2>2, <2>4, ClientStepsRequests
<1>3. ClientIInv /\ ClientIInv' /\ [ClientNext]_clientVars =>
        [\A r \in Requests : At(r, "done") /\ At(r, "done")' =>
           LET k == request[r].key IN
             /\ request[r].code = "OK" => Visible(k) /\ Visible(k)'
             /\ request[r].code = "SESSION_EXPIRED" =>
                  /\ HasVersion(k)' = HasVersion(k)
                  /\ Visible(k)' = Visible(k)]_vars
  BY <1>2
<1>. QED
  BY <1>1, <1>3, ClientInvariance, PTL DEF ClientSpec, AnswersAreFinal

LEMMA ClientImplements ==
  ASSUME ClientIInv, ClientIInv', [ClientNext]_clientVars
  PROVE  [History!Next]_History!historyVars
<1>1. IInv /\ IInv'
  BY DEF ClientIInv
<1>2. CASE [Next]_vars
  BY <1>1, <1>2, NextImplements
<1>5. ASSUME NEW k \in Keys, MarkExpired(k) PROVE UNCHANGED History!historyVars
  <2>1. /\ session' = [session EXCEPT ![k] = [session[k] EXCEPT !.status = "expired"]]
        /\ session[k] \in Session /\ UNCHANGED <<versions, latest>>
    BY <1>1, <1>5 DEF MarkExpired, catalogVars, IInv, TypeOK, Exists
  <2>2. /\ session'[k] = [session[k] EXCEPT !.status = "expired"]
        /\ \A j \in Keys : j # k => session'[j] = session[j]
    BY <1>1, <2>1 DEF IInv, TypeOK
  <2>3. /\ session'[k].artifact = session[k].artifact /\ session'[k].base = session[k].base
        /\ session'[k].tree = session[k].tree
    BY <2>1, <2>2 DEF Session
  <2>4. \A j \in Keys : (Exists(j) => Exists(j)') /\ (j # k => session'[j] = session[j])
    BY <1>1, <1>5, <2>2, MarkProgress DEF Progress, Evolves
  <2>5. \A j \in Keys : Exists(j)' <=> Exists(j)
    BY <1>5, <2>4 DEF Exists, MarkExpired
  <2>. QED
    BY <2>1, <2>3, <2>4, <2>5, Stutters DEF Log
<1>. QED
  BY <1>2, <1>5, ClientStepsRequests

\* The command, the server and the marking of expired sessions together still
\* implement compare-and-append.
THEOREM ClientRefinement == ClientSpec => ImplementsHistory
<1>1. ClientIInv /\ ClientIInv' /\ [ClientNext]_clientVars => [History!Next]_History!historyVars
  BY ClientImplements
<1>2. ClientInit => History!Init
  BY InitImplements DEF ClientInit
<1>. QED
  BY <1>1, <1>2, ClientInvariance, PTL DEF ClientSpec, ImplementsHistory, History!Spec
=============================================================================
