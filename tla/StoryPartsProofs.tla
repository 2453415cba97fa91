--------------------------- MODULE StoryPartsProofs ---------------------------
(***************************************************************************)
(* Machine-checked proofs about StoryParts, for any number of stories,     *)
(* files and requests.                                                     *)
(***************************************************************************)
EXTENDS StoryParts, TLAPS

(***************************************************************************)
(* The inductive invariant.                                                *)
(***************************************************************************)

UploadSteps == {"put", "create", "undo"}

DeletionSteps == {"object", "row"}

FileSteps == UploadSteps \cup DeletionSteps

\* While no addition has crossed another, what a check found still holds.
CheckedInv ==
  ~crossed =>
    \A r \in Requests : request[r].at = "insert" =>
      ~LeadsBack(blockers, request[r].blocking, request[r].blocked)

\* An upload has its file to itself until it is undone, and the object before the row.
UploadOK(r) ==
  LET q == request[r] IN
  q.at \in UploadSteps =>
    /\ q.file \in used
    /\ q.at = "create" => q.file \in objects
    /\ \A o \in Requests \ {r} : request[o].at \in UploadSteps => request[o].file # q.file
    /\ q.at # "undo" =>
         /\ owner[q.file] = NoStory
         /\ \A o \in Requests \ {r} : request[o].at \in DeletionSteps => request[o].file # q.file

\* A deletion works on a file that was uploaded before, the object first.
DeletionOK(r) ==
  LET q == request[r] IN
  q.at \in DeletionSteps =>
    /\ q.file \in used
    /\ q.at = "row" => q.file \in removed \ objects

FilesInv ==
  /\ \A r \in Requests : UploadOK(r) /\ DeletionOK(r)
  /\ \A f \in Files : owner[f] # NoStory => f \in used

FilesOK == FilesInv /\ ListedFilesAreStored /\ StrayObjectsAreExplained

BlockersOK == CheckedInv /\ NoCycles

IInv == TypeOK /\ BlockersOK /\ FilesOK

-----------------------------------------------------------------------------
(***************************************************************************)
(* Blockers.                                                               *)
(***************************************************************************)

LEMMA RequestData ==
  ASSUME NEW q \in Request
  PROVE  /\ q.at \in {"idle", "list", "insert", "unlink"} \cup FileSteps
         /\ q.at \in {"list", "insert", "unlink"} => q.blocking \in Stories /\ q.blocked \in Stories
         /\ q.at = "list" => [q EXCEPT !.at = "insert"] \in Request
         /\ q.at \in FileSteps =>
              /\ q.file \in Files /\ q.of \in Stories
              /\ \A at \in FileSteps : [q EXCEPT !.at = at] \in Request
BY DEF Request, Idle, FileSteps, UploadSteps, DeletionSteps

LEMMA IdleData == Idle \in Request /\ Idle.at = "idle"
BY DEF Request, Idle

\* Fewer blockers lead back from fewer stories, and close fewer cycles.
LEMMA FewerLeadBackLess ==
  ASSUME NEW P, NEW Q, Q \subseteq P, NEW a, NEW b, ~LeadsBack(P, a, b)
  PROVE  ~LeadsBack(Q, a, b)
<1>1. PICK S \in SUBSET Stories : b \in S /\ (\A p \in P : p[1] \in S => p[2] \in S) /\ a \notin S
  BY DEF LeadsBack
<1>2. \A p \in Q : p[1] \in S => p[2] \in S
  BY <1>1
<1>. QED
  BY <1>1, <1>2 DEF LeadsBack

\* A blocker that leads nowhere back closes no cycle.
LEMMA NewBlockerClosesNothing ==
  ASSUME NEW P, NEW a \in Stories, NEW b \in Stories, ~LeadsBack(P, a, b),
         \A S \in SUBSET Stories : (\A x \in S : \E y \in S : <<x, y>> \in P) => S = {},
         NEW C \in SUBSET Stories,
         \A x \in C : \E y \in C : <<x, y>> \in P \cup {<<a, b>>}
  PROVE  C = {}
<1>1. PICK T \in SUBSET Stories :
             b \in T /\ (\A p \in P : p[1] \in T => p[2] \in T) /\ a \notin T
  BY DEF LeadsBack
<1>. DEFINE D == C \cap T
<1>2. ASSUME NEW x \in D
      PROVE  \E y \in D : <<x, y>> \in P
  <2>1. PICK y \in C : <<x, y>> \in P \cup {<<a, b>>}
    OBVIOUS
  <2>2. <<x, y>> # <<a, b>>
    BY <1>1
  <2>3. <<x, y>> \in P
    BY <2>1, <2>2
  <2>4. y \in T
    BY <1>1, <2>3
  <2>. QED
    BY <2>3, <2>4
<1>3. D = {}
  BY <1>2
<1>4. ASSUME NEW x \in C
      PROVE  \E y \in C : <<x, y>> \in P
  <2>1. PICK y \in C : <<x, y>> \in P \cup {<<a, b>>}
    OBVIOUS
  <2>2. y # b
    BY <1>1, <1>3
  <2>. QED
    BY <2>1, <2>2
<1>. QED
  BY <1>4

\* A step of a request that adds no blocker and passes no check.
LEMMA BlockersStay ==
  ASSUME IInv, blockers' \subseteq blockers, crossed' = crossed,
         \A r \in Requests : request'[r].at = "insert" => request'[r] = request[r]
  PROVE  BlockersOK'
<1>1. CheckedInv'
  BY FewerLeadBackLess DEF IInv, BlockersOK, CheckedInv
<1>2. NoCycles'
  BY DEF IInv, BlockersOK, NoCycles, Closed
<1>. QED
  BY <1>1, <1>2 DEF BlockersOK

\* A step of a request that has nothing to do with files.
LEMMA FilesStay ==
  ASSUME IInv, UNCHANGED fileVars, NEW r \in Requests, NEW q,
         request' = [request EXCEPT ![r] = q],
         request[r].at \notin FileSteps, q.at \notin FileSteps
  PROVE  FilesOK'
<1>. USE DEF IInv, TypeOK, FilesOK, fileVars
<1>1. \A o \in Requests :
        /\ request'[o].at \in FileSteps <=> request[o].at \in FileSteps
        /\ request'[o].at \in FileSteps => request'[o] = request[o]
  OBVIOUS
<1>2. UploadSteps \subseteq FileSteps /\ DeletionSteps \subseteq FileSteps
      /\ "create" \in FileSteps /\ "undo" \in FileSteps
  BY DEF FileSteps, UploadSteps, DeletionSteps
<1>3. FilesInv'
  BY <1>1, <1>2 DEF FilesInv, UploadOK, DeletionOK
<1>4. \A f \in Files : Uploading(f) => Uploading(f)'
  BY <1>1, <1>2 DEF Uploading
<1>. QED
  BY <1>3, <1>4 DEF ListedFilesAreStored, StrayObjectsAreExplained

LEMMA AddStoryBlockerKeeps ==
  ASSUME IInv, NEW r \in Requests, NEW a \in Stories, NEW b \in Stories, AddStoryBlocker(r, a, b)
  PROVE  IInv'
<1>. DEFINE q == [at |-> "list", blocking |-> a, blocked |-> b]
<1>1. request' = [request EXCEPT ![r] = q] /\ request[r] = Idle
      /\ UNCHANGED <<story, blockers, crossed>> /\ UNCHANGED fileVars
  BY DEF AddStoryBlocker, Proceed, blockerVars
<1>2. q \in Request
  BY DEF Request
<1>3. TypeOK'
  BY <1>1, <1>2 DEF IInv, TypeOK, fileVars
<1>4. q.at \notin FileSteps /\ Idle.at \notin FileSteps
  BY DEF FileSteps, UploadSteps, DeletionSteps, Idle
<1>. QED
  BY <1>1, <1>3, <1>4, BlockersStay, FilesStay DEF IInv, TypeOK

LEMMA RemoveStoryBlockerKeeps ==
  ASSUME IInv, NEW r \in Requests, NEW a \in Stories, NEW b \in Stories,
         RemoveStoryBlocker(r, a, b)
  PROVE  IInv'
<1>. DEFINE q == [at |-> "unlink", blocking |-> a, blocked |-> b]
<1>1. request' = [request EXCEPT ![r] = q] /\ request[r] = Idle
      /\ UNCHANGED <<story, blockers, crossed>> /\ UNCHANGED fileVars
  BY DEF RemoveStoryBlocker, Proceed, blockerVars
<1>2. q \in Request
  BY DEF Request
<1>3. TypeOK'
  BY <1>1, <1>2 DEF IInv, TypeOK, fileVars
<1>4. q.at \notin FileSteps /\ Idle.at \notin FileSteps
  BY DEF FileSteps, UploadSteps, DeletionSteps, Idle
<1>. QED
  BY <1>1, <1>3, <1>4, BlockersStay, FilesStay DEF IInv, TypeOK

LEMMA ListBlockerPairsKeeps ==
  ASSUME IInv, NEW r \in Requests, ListBlockerPairs(r)
  PROVE  IInv'
<1>. DEFINE q == request[r]
            next == IF LeadsBack(blockers, q.blocking, q.blocked) THEN Idle
                    ELSE [q EXCEPT !.at = "insert"]
<1>1. /\ q \in Request /\ q.at = "list"
      /\ request' = [request EXCEPT ![r] = next]
      /\ UNCHANGED <<story, blockers, crossed>> /\ UNCHANGED fileVars
  BY DEF ListBlockerPairs, Proceed, blockerVars, IInv, TypeOK
<1>2. /\ next \in Request /\ next.at \notin FileSteps /\ q.at \notin FileSteps
      /\ next.at = "insert" => /\ next.blocking = q.blocking /\ next.blocked = q.blocked
                               /\ ~LeadsBack(blockers, q.blocking, q.blocked)
  <2>1. "idle" \notin FileSteps /\ "list" \notin FileSteps /\ "insert" \notin FileSteps
    BY DEF FileSteps, UploadSteps, DeletionSteps
  <2>2. CASE LeadsBack(blockers, q.blocking, q.blocked)
    BY <1>1, <2>1, <2>2, IdleData
  <2>3. CASE ~LeadsBack(blockers, q.blocking, q.blocked)
    <3>1. [q EXCEPT !.at = "insert"] \in Request
      BY <1>1, RequestData
    <3>2. /\ [q EXCEPT !.at = "insert"].at = "insert"
          /\ [q EXCEPT !.at = "insert"].blocking = q.blocking
          /\ [q EXCEPT !.at = "insert"].blocked = q.blocked
      BY <1>1 DEF Request, Idle
    <3>. QED
      BY <1>1, <2>1, <2>3, <3>1, <3>2
  <2>. QED
    BY <2>2, <2>3
<1>. HIDE DEF next
<1>3. TypeOK'
  BY <1>1, <1>2 DEF IInv, TypeOK, fileVars
<1>4. CheckedInv'
  BY <1>1, <1>2 DEF IInv, TypeOK, BlockersOK, CheckedInv, LeadsBack
<1>5. NoCycles'
  BY <1>1 DEF IInv, BlockersOK, NoCycles, Closed
<1>. QED
  BY <1>1, <1>2, <1>3, <1>4, <1>5, FilesStay DEF IInv, BlockersOK

LEMMA AddBlockerKeeps ==
  ASSUME IInv, NEW r \in Requests, AddBlocker(r)
  PROVE  IInv'
<1>. DEFINE q == request[r]
<1>1. /\ q \in Request /\ q.at = "insert" /\ q.blocking \in Stories /\ q.blocked \in Stories
      /\ story[q.blocking] # "gone" /\ story[q.blocked] # "gone"
      /\ blockers' = blockers \cup {<<q.blocking, q.blocked>>}
      /\ request' = [request EXCEPT ![r] = Idle]
      /\ crossed' = (crossed \/ \E other \in Requests \ {r} : request[other].at = "insert")
      /\ story' = story /\ UNCHANGED fileVars
  BY RequestData DEF AddBlocker, Proceed, IInv, TypeOK
<1>2. TypeOK'
  BY <1>1, IdleData DEF IInv, TypeOK, fileVars
<1>3. CheckedInv'
  BY <1>1, IdleData DEF IInv, TypeOK, CheckedInv
<1>4. NoCycles'
  <2>1. SUFFICES ASSUME ~crossed', NEW C \in SUBSET Stories, Closed(C)'
                 PROVE  C = {}
    BY DEF NoCycles
  <2>2. ~crossed
    BY <1>1, <2>1
  <2>3. ~LeadsBack(blockers, q.blocking, q.blocked)
    BY <1>1, <2>2 DEF IInv, BlockersOK, CheckedInv
  <2>4. \A S \in SUBSET Stories : (\A x \in S : \E y \in S : <<x, y>> \in blockers) => S = {}
    BY <2>2 DEF IInv, BlockersOK, NoCycles, Closed
  <2>5. \A x \in C : \E y \in C : <<x, y>> \in blockers \cup {<<q.blocking, q.blocked>>}
    BY <1>1, <2>1 DEF Closed
  <2>6. q.blocking \in Stories /\ q.blocked \in Stories
    BY <1>1
  <2>. HIDE DEF q
  <2>. QED
    BY <2>1, <2>3, <2>4, <2>5, <2>6, NewBlockerClosesNothing
<1>5. q.at \notin FileSteps /\ Idle.at \notin FileSteps
  BY <1>1 DEF FileSteps, UploadSteps, DeletionSteps, Idle
<1>. QED
  BY <1>1, <1>2, <1>3, <1>4, <1>5, FilesStay DEF IInv, BlockersOK

LEMMA RemoveBlockerKeeps ==
  ASSUME IInv, NEW r \in Requests, RemoveBlocker(r)
  PROVE  IInv'
<1>1. /\ request[r].at = "unlink" /\ request' = [request EXCEPT ![r] = Idle]
      /\ blockers' \subseteq blockers /\ UNCHANGED <<story, crossed>> /\ UNCHANGED fileVars
  BY DEF RemoveBlocker, Proceed
<1>2. TypeOK'
  BY <1>1, IdleData DEF IInv, TypeOK, fileVars
<1>3. request[r].at \notin FileSteps /\ Idle.at \notin FileSteps
  BY <1>1 DEF FileSteps, UploadSteps, DeletionSteps, Idle
<1>. QED
  BY <1>1, <1>2, <1>3, IdleData, BlockersStay, FilesStay DEF IInv, TypeOK

-----------------------------------------------------------------------------
(***************************************************************************)
(* Attachments.                                                            *)
(***************************************************************************)

\* A step of an attachment's request leaves the blockers alone.
LEMMA FileStepBlockers ==
  ASSUME IInv, UNCHANGED blockerVars, NEW r \in Requests, NEW q,
         request' = [request EXCEPT ![r] = q], q.at # "insert"
  PROVE  BlockersOK'
BY BlockersStay DEF IInv, TypeOK, blockerVars

LEMMA UploadStoryAttachmentKeeps ==
  ASSUME IInv, NEW r \in Requests, NEW f \in Files, NEW s \in Stories, UploadStoryAttachment(r, f, s)
  PROVE  IInv'
<1>. DEFINE q == [at |-> "put", file |-> f, of |-> s]
<1>1. /\ request[r] = Idle /\ f \notin used /\ used' = used \cup {f}
      /\ request' = [request EXCEPT ![r] = q]
      /\ UNCHANGED <<story, owner, objects, removed, orphaned>> /\ UNCHANGED blockerVars
  BY DEF UploadStoryAttachment, Proceed
<1>2. q \in Request /\ q.at # "insert"
  BY DEF Request
<1>3. TypeOK'
  BY <1>1, <1>2 DEF IInv, TypeOK, blockerVars
<1>4. FilesInv'
  BY <1>1, IdleData
  DEF IInv, TypeOK, FilesOK, FilesInv, UploadOK, DeletionOK, FileSteps, UploadSteps, DeletionSteps
<1>5. ListedFilesAreStored' /\ StrayObjectsAreExplained'
  BY <1>1, IdleData
  DEF IInv, TypeOK, FilesOK, ListedFilesAreStored, StrayObjectsAreExplained, Uploading
<1>. QED
  BY <1>1, <1>2, <1>3, <1>4, <1>5, FileStepBlockers DEF IInv, FilesOK

LEMMA PutObjectKeeps ==
  ASSUME IInv, NEW r \in Requests, PutObject(r)
  PROVE  IInv'
<1>. DEFINE f == request[r].file
            q == [request[r] EXCEPT !.at = "create"]
<1>1. /\ request[r] \in Request /\ request[r].at = "put"
      /\ objects' = objects \cup {f}
      /\ request' = [request EXCEPT ![r] = q]
      /\ UNCHANGED <<story, owner, used, removed, orphaned>> /\ UNCHANGED blockerVars
  BY DEF PutObject, Advance, Proceed, IInv, TypeOK
<1>2. /\ q \in Request /\ q.at = "create" /\ q.file = f /\ f \in Files /\ f \in used
      /\ owner[f] = NoStory
      /\ \A o \in Requests \ {r} : request[o].at \in FileSteps => request[o].file # f
  <2>1. q \in Request /\ q.at = "create" /\ q.file = f /\ f \in Files
    BY <1>1, RequestData DEF Request, Idle, FileSteps, UploadSteps, DeletionSteps
  <2>2. /\ f \in used /\ owner[f] = NoStory
        /\ \A o \in Requests \ {r} : request[o].at \in FileSteps => request[o].file # f
    BY <1>1 DEF FileSteps, UploadSteps, DeletionSteps, IInv, FilesOK, FilesInv, UploadOK
  <2>. QED
    BY <2>1, <2>2
<1>. HIDE DEF q, f
<1>3. TypeOK'
  BY <1>1, <1>2 DEF IInv, TypeOK, blockerVars
<1>4. FilesInv'
  BY <1>1, <1>2
  DEF IInv, TypeOK, FilesOK, FilesInv, UploadOK, DeletionOK, FileSteps, UploadSteps, DeletionSteps
<1>5. ListedFilesAreStored' /\ StrayObjectsAreExplained'
  BY <1>1, <1>2
  DEF IInv, TypeOK, FilesOK, ListedFilesAreStored, StrayObjectsAreExplained, Uploading
<1>. QED
  BY <1>1, <1>2, <1>3, <1>4, <1>5, FileStepBlockers DEF IInv, FilesOK

LEMMA PutFailsKeeps ==
  ASSUME IInv, NEW r \in Requests, PutFails(r)
  PROVE  IInv'
<1>1. /\ request[r].at = "put" /\ request' = [request EXCEPT ![r] = Idle]
      /\ UNCHANGED <<story, owner, objects, used, removed, orphaned>> /\ UNCHANGED blockerVars
  BY DEF PutFails, Proceed, fileVars
<1>2. TypeOK'
  BY <1>1, IdleData DEF IInv, TypeOK, blockerVars
<1>3. FilesInv'
  BY <1>1, IdleData
  DEF IInv, TypeOK, FilesOK, FilesInv, UploadOK, DeletionOK, FileSteps, UploadSteps, DeletionSteps
<1>4. ListedFilesAreStored' /\ StrayObjectsAreExplained'
  BY <1>1
  DEF IInv, TypeOK, FilesOK, ListedFilesAreStored, StrayObjectsAreExplained, Uploading
<1>. QED
  BY <1>1, <1>2, <1>3, <1>4, IdleData, FileStepBlockers DEF IInv, FilesOK

LEMMA CreateAttachmentKeeps ==
  ASSUME IInv, NEW r \in Requests, CreateAttachment(r)
  PROVE  IInv'
<1>. DEFINE f == request[r].file
            s == request[r].of
<1>1. /\ request[r] \in Request /\ request[r].at = "create"
      /\ owner' = [owner EXCEPT ![f] = s]
      /\ request' = [request EXCEPT ![r] = Idle]
      /\ UNCHANGED <<story, objects, used, removed, orphaned>> /\ UNCHANGED blockerVars
  BY DEF CreateAttachment, Proceed, IInv, TypeOK
<1>2. /\ f \in Files /\ s \in Stories /\ s # NoStory /\ f \in used /\ f \in objects
      /\ \A o \in Requests \ {r} : request[o].at \in FileSteps => request[o].file # f
  BY <1>1, RequestData, PartsAssumption
  DEF FileSteps, UploadSteps, DeletionSteps, IInv, FilesOK, FilesInv, UploadOK
<1>. HIDE DEF f, s
<1>3. TypeOK'
  BY <1>1, <1>2, IdleData DEF IInv, TypeOK, blockerVars
<1>4. FilesInv'
  BY <1>1, <1>2, IdleData
  DEF IInv, TypeOK, FilesOK, FilesInv, UploadOK, DeletionOK, FileSteps, UploadSteps, DeletionSteps
<1>5. ListedFilesAreStored' /\ StrayObjectsAreExplained'
  BY <1>1, <1>2
  DEF IInv, TypeOK, FilesOK, ListedFilesAreStored, StrayObjectsAreExplained, Uploading, f
<1>. QED
  BY <1>1, <1>3, <1>4, <1>5, IdleData, FileStepBlockers DEF IInv, FilesOK

LEMMA CreateUnansweredKeeps ==
  ASSUME IInv, NEW r \in Requests, CreateUnanswered(r)
  PROVE  IInv'
<1>. DEFINE f == request[r].file
            s == request[r].of
            q == [request[r] EXCEPT !.at = "undo"]
<1>1. /\ request[r] \in Request /\ request[r].at = "create"
      /\ owner' = [owner EXCEPT ![f] = s]
      /\ request' = [request EXCEPT ![r] = q]
      /\ UNCHANGED <<story, objects, used, removed, orphaned>> /\ UNCHANGED blockerVars
  BY DEF CreateUnanswered, Advance, Proceed, IInv, TypeOK
<1>2. /\ f \in Files /\ s \in Stories /\ s # NoStory /\ f \in used /\ f \in objects
      /\ \A o \in Requests \ {r} : request[o].at \in FileSteps => request[o].file # f
      /\ q \in Request /\ q.at = "undo" /\ q.file = f
  <2>1. /\ f \in Files /\ s \in Stories /\ s # NoStory /\ f \in used /\ f \in objects
        /\ \A o \in Requests \ {r} : request[o].at \in FileSteps => request[o].file # f
    BY <1>1, RequestData, PartsAssumption
    DEF FileSteps, UploadSteps, DeletionSteps, IInv, FilesOK, FilesInv, UploadOK
  <2>2. q \in Request /\ q.at = "undo" /\ q.file = f
    BY <1>1, RequestData DEF Request, Idle, FileSteps, UploadSteps, DeletionSteps
  <2>. QED
    BY <2>1, <2>2
<1>. HIDE DEF f, s, q
<1>3. TypeOK'
  BY <1>1, <1>2 DEF IInv, TypeOK, blockerVars
<1>4. FilesInv'
  BY <1>1, <1>2
  DEF IInv, TypeOK, FilesOK, FilesInv, UploadOK, DeletionOK, FileSteps, UploadSteps, DeletionSteps
<1>5. ListedFilesAreStored' /\ StrayObjectsAreExplained'
  BY <1>1, <1>2
  DEF IInv, TypeOK, FilesOK, ListedFilesAreStored, StrayObjectsAreExplained, Uploading, f
<1>. QED
  BY <1>1, <1>2, <1>3, <1>4, <1>5, FileStepBlockers DEF IInv, FilesOK

LEMMA CreateFailsKeeps ==
  ASSUME IInv, NEW r \in Requests, CreateFails(r)
  PROVE  IInv'
<1>. DEFINE q == [request[r] EXCEPT !.at = "undo"]
<1>1. /\ request[r] \in Request /\ request[r].at = "create"
      /\ request' = [request EXCEPT ![r] = q]
      /\ UNCHANGED <<story, owner, objects, used, removed, orphaned>> /\ UNCHANGED blockerVars
  BY DEF CreateFails, Advance, Proceed, IInv, TypeOK, fileVars
<1>2. q \in Request /\ q.at = "undo" /\ q.file = request[r].file
  BY <1>1, RequestData DEF Request, Idle, FileSteps, UploadSteps, DeletionSteps
<1>. HIDE DEF q
<1>3. TypeOK'
  BY <1>1, <1>2 DEF IInv, TypeOK, blockerVars
<1>4. FilesInv'
  BY <1>1, <1>2
  DEF IInv, TypeOK, FilesOK, FilesInv, UploadOK, DeletionOK, FileSteps, UploadSteps, DeletionSteps
<1>5. ListedFilesAreStored' /\ StrayObjectsAreExplained'
  BY <1>1, <1>2
  DEF IInv, TypeOK, FilesOK, ListedFilesAreStored, StrayObjectsAreExplained, Uploading
<1>. QED
  BY <1>1, <1>2, <1>3, <1>4, <1>5, FileStepBlockers DEF IInv, FilesOK

LEMMA UndoUploadKeeps ==
  ASSUME IInv, NEW r \in Requests, UndoUpload(r)
  PROVE  IInv'
<1>. DEFINE f == request[r].file
<1>1. /\ request[r] \in Request /\ request[r].at = "undo"
      /\ \/ objects' = objects \ {f} /\ removed' = removed \cup {f} /\ orphaned' = orphaned
         \/ orphaned' = orphaned \cup {f} /\ UNCHANGED <<objects, removed>>
      /\ request' = [request EXCEPT ![r] = Idle]
      /\ UNCHANGED <<story, owner, used>> /\ UNCHANGED blockerVars
  BY DEF UndoUpload, Proceed, IInv, TypeOK
<1>2. /\ f \in Files
      /\ \A o \in Requests \ {r} : request[o].at \in UploadSteps => request[o].file # f
  BY <1>1, RequestData
  DEF FileSteps, UploadSteps, DeletionSteps, IInv, FilesOK, FilesInv, UploadOK
<1>3. TypeOK'
  BY <1>1, <1>2, IdleData DEF IInv, TypeOK, blockerVars
<1>4. FilesInv'
  BY <1>1, <1>2, IdleData
  DEF IInv, TypeOK, FilesOK, FilesInv, UploadOK, DeletionOK, FileSteps, UploadSteps, DeletionSteps
<1>5. ListedFilesAreStored' /\ StrayObjectsAreExplained'
  BY <1>1, <1>2
  DEF IInv, TypeOK, FilesOK, ListedFilesAreStored, StrayObjectsAreExplained, Uploading
<1>. QED
  BY <1>1, <1>3, <1>4, <1>5, IdleData, FileStepBlockers DEF IInv, FilesOK

LEMMA DeleteStoryAttachmentKeeps ==
  ASSUME IInv, NEW r \in Requests, NEW f \in Files, DeleteStoryAttachment(r, f)
  PROVE  IInv'
<1>. DEFINE q == [at |-> "object", file |-> f, of |-> owner[f]]
<1>1. /\ request[r] = Idle /\ owner[f] # NoStory /\ owner[f] \in Stories
      /\ request' = [request EXCEPT ![r] = q]
      /\ UNCHANGED <<story, owner, objects, used, removed, orphaned>> /\ UNCHANGED blockerVars
  BY DEF DeleteStoryAttachment, Proceed, fileVars, IInv, TypeOK
<1>2. q \in Request /\ q.at # "insert"
  BY <1>1 DEF Request
<1>3. TypeOK'
  BY <1>1, <1>2 DEF IInv, TypeOK, blockerVars
<1>4. FilesInv'
  BY <1>1, IdleData
  DEF IInv, TypeOK, FilesOK, FilesInv, UploadOK, DeletionOK, FileSteps, UploadSteps, DeletionSteps
<1>5. ListedFilesAreStored' /\ StrayObjectsAreExplained'
  BY <1>1, IdleData
  DEF IInv, TypeOK, FilesOK, ListedFilesAreStored, StrayObjectsAreExplained, Uploading
<1>. QED
  BY <1>1, <1>2, <1>3, <1>4, <1>5, FileStepBlockers DEF IInv, FilesOK

LEMMA DeleteObjectKeeps ==
  ASSUME IInv, NEW r \in Requests, DeleteObject(r)
  PROVE  IInv'
<1>. DEFINE f == request[r].file
            q == [request[r] EXCEPT !.at = "row"]
<1>1. /\ request[r] \in Request /\ request[r].at = "object"
      /\ objects' = objects \ {f} /\ removed' = removed \cup {f}
      /\ request' = [request EXCEPT ![r] = q]
      /\ UNCHANGED <<story, owner, used, orphaned>> /\ UNCHANGED blockerVars
  BY DEF DeleteObject, Advance, Proceed, IInv, TypeOK
<1>2. /\ q \in Request /\ q.at = "row" /\ q.file = f /\ f \in Files /\ f \in used
      /\ \A o \in Requests : request[o].at \in {"put", "create"} => request[o].file # f
  <2>1. q \in Request /\ q.at = "row" /\ q.file = f /\ f \in Files
    BY <1>1, RequestData DEF Request, Idle, FileSteps, UploadSteps, DeletionSteps
  <2>2. f \in used
    BY <1>1 DEF DeletionSteps, IInv, FilesOK, FilesInv, DeletionOK
  <2>3. ASSUME NEW o \in Requests, request[o].at \in {"put", "create"}
        PROVE  request[o].file # f
    BY <1>1, <2>3 DEF FileSteps, UploadSteps, DeletionSteps, IInv, FilesOK, FilesInv, UploadOK
  <2>. QED
    BY <2>1, <2>2, <2>3
<1>. HIDE DEF q, f
<1>3. TypeOK'
  BY <1>1, <1>2 DEF IInv, TypeOK, blockerVars
<1>4. FilesInv'
  BY <1>1, <1>2
  DEF IInv, TypeOK, FilesOK, FilesInv, UploadOK, DeletionOK, FileSteps, UploadSteps, DeletionSteps
<1>5. ListedFilesAreStored' /\ StrayObjectsAreExplained'
  BY <1>1, <1>2
  DEF IInv, TypeOK, FilesOK, ListedFilesAreStored, StrayObjectsAreExplained, Uploading
<1>. QED
  BY <1>1, <1>2, <1>3, <1>4, <1>5, FileStepBlockers DEF IInv, FilesOK

LEMMA DeleteAttachmentKeeps ==
  ASSUME IInv, NEW r \in Requests, DeleteAttachment(r)
  PROVE  IInv'
<1>. DEFINE f == request[r].file
<1>1. /\ request[r] \in Request /\ request[r].at = "row"
      /\ owner' = [owner EXCEPT ![f] = NoStory]
      /\ request' = [request EXCEPT ![r] = Idle]
      /\ UNCHANGED <<story, objects, used, removed, orphaned>> /\ UNCHANGED blockerVars
  BY DEF DeleteAttachment, Proceed, IInv, TypeOK
<1>2. f \in Files /\ f \notin objects
  BY <1>1, RequestData
  DEF FileSteps, UploadSteps, DeletionSteps, IInv, FilesOK, FilesInv, DeletionOK
<1>. HIDE DEF f
<1>3. TypeOK'
  BY <1>1, <1>2, IdleData DEF IInv, TypeOK, blockerVars
<1>4. FilesInv'
  BY <1>1, <1>2, IdleData
  DEF IInv, TypeOK, FilesOK, FilesInv, UploadOK, DeletionOK, FileSteps, UploadSteps, DeletionSteps
<1>5. ListedFilesAreStored' /\ StrayObjectsAreExplained'
  BY <1>1, <1>2
  DEF IInv, TypeOK, FilesOK, ListedFilesAreStored, StrayObjectsAreExplained, Uploading
<1>. QED
  BY <1>1, <1>3, <1>4, <1>5, IdleData, FileStepBlockers DEF IInv, FilesOK

-----------------------------------------------------------------------------
(***************************************************************************)
(* The rest of the system, and failures.                                   *)
(***************************************************************************)

LEMMA SetArchivedKeeps ==
  ASSUME IInv, NEW s \in Stories, SetArchived(s)
  PROVE  IInv'
<1>1. /\ story[s] # "gone"
      /\ story' = [story EXCEPT ![s] = IF @ = "active" THEN "archived" ELSE "active"]
      /\ UNCHANGED <<blockers, crossed, owner, objects, used, removed, orphaned, request>>
  BY DEF SetArchived, blockerVars, fileVars
<1>2. TypeOK'
  <2>1. /\ story' \in [Stories -> {"active", "archived", "gone"}]
        /\ \A t \in Stories : story'[t] = "gone" <=> story[t] = "gone"
    BY <1>1 DEF IInv, TypeOK
  <2>2. {t \in Stories : story'[t] # "gone"} = {t \in Stories : story[t] # "gone"}
    BY <2>1
  <2>. QED
    BY <1>1, <2>1, <2>2 DEF IInv, TypeOK
<1>3. BlockersOK'
  BY <1>1, BlockersStay
<1>4. FilesOK'
  BY <1>1 DEF IInv, FilesOK, FilesInv, UploadOK, DeletionOK, ListedFilesAreStored,
              StrayObjectsAreExplained, Uploading
<1>. QED
  BY <1>2, <1>3, <1>4 DEF IInv

LEMMA DeleteStoryKeeps ==
  ASSUME IInv, NEW s \in Stories, DeleteStory(s)
  PROVE  IInv'
<1>1. /\ story' = [story EXCEPT ![s] = "gone"]
      /\ blockers' = WithoutStory(s)
      /\ owner' = [f \in Files |-> IF owner[f] = s THEN NoStory ELSE owner[f]]
      /\ orphaned' = orphaned \cup {f \in Files : owner[f] = s}
      /\ UNCHANGED <<request, objects, used, crossed, removed>>
  BY DEF DeleteStory
<1>2. TypeOK'
  <2>1. story' \in [Stories -> {"active", "archived", "gone"}]
        /\ \A t \in Stories \ {s} : story'[t] = story[t]
    BY <1>1 DEF IInv, TypeOK
  <2>2. blockers' \subseteq {t \in Stories : story'[t] # "gone"} \X {t \in Stories : story'[t] # "gone"}
    BY <1>1, <2>1 DEF IInv, TypeOK, WithoutStory
  <2>3. owner' \in [Files -> Stories \cup {NoStory}] /\ orphaned' \subseteq Files
    BY <1>1 DEF IInv, TypeOK
  <2>. QED
    BY <1>1, <2>1, <2>2, <2>3 DEF IInv, TypeOK
<1>3. BlockersOK'
  BY <1>1, BlockersStay DEF WithoutStory
<1>4. FilesInv'
  BY <1>1, RequestData
  DEF IInv, TypeOK, FilesOK, FilesInv, UploadOK, DeletionOK, FileSteps, UploadSteps, DeletionSteps
<1>5. ListedFilesAreStored' /\ StrayObjectsAreExplained'
  BY <1>1
  DEF IInv, TypeOK, FilesOK, ListedFilesAreStored, StrayObjectsAreExplained, Uploading
<1>. QED
  BY <1>2, <1>3, <1>4, <1>5 DEF IInv, FilesOK

LEMMA RequestFailsKeeps ==
  ASSUME IInv, NEW r \in Requests, RequestFails(r)
  PROVE  IInv'
<1>. DEFINE q == request[r]
<1>1. /\ q \in Request /\ request' = [request EXCEPT ![r] = Idle]
      /\ orphaned' = IF q.at \in {"create", "undo"} THEN orphaned \cup {q.file} ELSE orphaned
      /\ UNCHANGED <<story, owner, objects, used, removed>> /\ UNCHANGED blockerVars
  BY DEF RequestFails, Proceed, IInv, TypeOK
<1>2. q.at \in {"create", "undo"} => q.file \in Files
  BY <1>1, RequestData DEF FileSteps, UploadSteps
<1>3. TypeOK'
  BY <1>1, <1>2, IdleData DEF IInv, TypeOK, blockerVars
<1>4. FilesInv'
  BY <1>1, IdleData
  DEF IInv, TypeOK, FilesOK, FilesInv, UploadOK, DeletionOK, FileSteps, UploadSteps, DeletionSteps
<1>5. ListedFilesAreStored' /\ StrayObjectsAreExplained'
  BY <1>1
  DEF IInv, TypeOK, FilesOK, ListedFilesAreStored, StrayObjectsAreExplained, Uploading
<1>. QED
  BY <1>1, <1>3, <1>4, <1>5, IdleData, FileStepBlockers DEF IInv, FilesOK

-----------------------------------------------------------------------------
(***************************************************************************)
(* The theorems.                                                           *)
(***************************************************************************)

LEMMA InitOK == Init => IInv
<1>. SUFFICES ASSUME Init PROVE IInv
  OBVIOUS
<1>1. TypeOK
  BY IdleData DEF Init, TypeOK
<1>2. BlockersOK
  BY IdleData DEF Init, BlockersOK, CheckedInv, NoCycles, Closed
<1>3. FilesOK
  BY IdleData DEF Init, FilesOK, FilesInv, UploadOK, DeletionOK, UploadSteps, DeletionSteps,
                  ListedFilesAreStored, StrayObjectsAreExplained
<1>. QED
  BY <1>1, <1>2, <1>3 DEF IInv

LEMMA StepKeeps == IInv /\ [Next]_vars => IInv'
<1>. SUFFICES ASSUME IInv, [Next]_vars PROVE IInv'
  OBVIOUS
<1>1. ASSUME NEW r \in Requests, RequestStep(r)
      PROVE  IInv'
  BY <1>1, AddStoryBlockerKeeps, RemoveStoryBlockerKeeps, ListBlockerPairsKeeps, AddBlockerKeeps,
     RemoveBlockerKeeps, UploadStoryAttachmentKeeps, PutObjectKeeps, PutFailsKeeps,
     CreateAttachmentKeeps, CreateFailsKeeps, CreateUnansweredKeeps, UndoUploadKeeps,
     DeleteStoryAttachmentKeeps, DeleteObjectKeeps, DeleteAttachmentKeeps, RequestFailsKeeps
  DEF RequestStep
<1>2. CASE UNCHANGED vars
  BY <1>2
  DEF vars, IInv, TypeOK, BlockersOK, CheckedInv, NoCycles, Closed, LeadsBack, FilesOK, FilesInv,
      UploadOK, DeletionOK, ListedFilesAreStored, StrayObjectsAreExplained, Uploading
<1>. QED
  BY <1>1, <1>2, SetArchivedKeeps, DeleteStoryKeeps DEF Next

\* The inductive invariant: a passed check stays true while no other addition
\* comes between, and an upload has its file to itself.
THEOREM Invariance == Spec => []IInv
BY InitOK, StepKeeps, PTL DEF Spec

\* Blockers and attachments refer to stories that exist, objects to uploads.
THEOREM TypeCorrect == Spec => []TypeOK
<1>1. IInv => TypeOK
  BY DEF IInv
<1>. QED
  BY <1>1, Invariance, PTL

\* Among any number of stories, blockers form no cycle unless two additions
\* crossed.
THEOREM BlockersAreAcyclic == Spec => []NoCycles
<1>1. IInv => NoCycles
  BY DEF IInv, BlockersOK
<1>. QED
  BY <1>1, Invariance, PTL

\* What is listed can be downloaded, unless somebody began to delete it or an upload
\* that never heard of its row was undone.
THEOREM ListedFilesStayStored == Spec => []ListedFilesAreStored
<1>1. IInv => ListedFilesAreStored
  BY DEF IInv, FilesOK
<1>. QED
  BY <1>1, Invariance, PTL

\* Every object without a row is on its way or was left behind for a reason.
THEOREM StrayObjectsStayExplained == Spec => []StrayObjectsAreExplained
<1>1. IInv => StrayObjectsAreExplained
  BY DEF IInv, FilesOK
<1>. QED
  BY <1>1, Invariance, PTL

=============================================================================
