-------------------------- MODULE StoryCommentsProofs --------------------------
(***************************************************************************)
(* Machine-checked proofs about StoryComments, for any number of users,    *)
(* comments, deletions and requests.                                       *)
(***************************************************************************)
EXTENDS StoryComments, TLAPS

(***************************************************************************)
(* The inductive invariant.                                                *)
(***************************************************************************)

\* Every comment that is left was inserted after a sweep.
AllLate == \A c \in Comments : comment[c] # NoRow => c \in late

\* What a deletion has done that did not fail: its entry, its sweep, its notices.
DeletionOK(q) ==
  InDeletion(q) =>
    /\ q.id \in used /\ q.to = due[q.id]
    /\ "record" \in q.pending \/ q.failed \/ q.id \in entries
    /\ "sweep" \in q.pending \/ q.failed \/ AllLate
    /\ q.at # "clear" => q.pending = {} /\ ~q.failed
    /\ q.at = "remove" => {q.id} \X q.to \subseteq farewells

DeletionsOK == \A r \in Requests : DeletionOK(request[r])

IInv ==
  /\ TypeOK
  /\ DeletionsOK
  /\ NoCommentOutlivesItsStory
  /\ NoticesAreOfComments
  /\ DeletionsAreTold

-----------------------------------------------------------------------------
(***************************************************************************)
(* Requests.                                                               *)
(***************************************************************************)

LEMMA RequestData ==
  ASSUME NEW q \in Request
  PROVE  /\ q.at \in {"create", "insert"} =>
              q.id \in Comments /\ q.by \in Users /\ q.body \in Bodies /\ q.to \subseteq Users
         /\ q.at = "edit" => q.id \in Comments /\ q.body \in Bodies
         /\ q.at = "erase" => q.id \in Comments
         /\ InDeletion(q) =>
              /\ q.id \in Deletions /\ q.to \subseteq Users
              /\ q.pending \subseteq {"record", "sweep"} /\ q.failed \in BOOLEAN
BY DEF Request, Idle, InDeletion

LEMMA InsertsNext ==
  ASSUME NEW q \in Request, q.at = "create"
  PROVE  [q EXCEPT !.at = "insert"] \in Request /\ ~InDeletion([q EXCEPT !.at = "insert"])
<1>1. q \in [at : {"create", "insert"}, id : Comments, by : Users, body : Bodies, to : SUBSET Users]
  BY DEF Request, Idle
<1>2. [q EXCEPT !.at = "insert"]
        \in [at : {"create", "insert"}, id : Comments, by : Users, body : Bodies, to : SUBSET Users]
  BY <1>1
<1>3. [q EXCEPT !.at = "insert"].at = "insert"
  BY <1>1
<1>. QED
  BY <1>2, <1>3 DEF Request, InDeletion

DeletionRequest ==
  [at : {"clear", "notify", "remove"}, id : Deletions, by : Users, to : SUBSET Users,
   pending : SUBSET {"record", "sweep"}, failed : BOOLEAN]

LEMMA DeletionData ==
  ASSUME NEW q \in Request, InDeletion(q)
  PROVE  q \in DeletionRequest
BY DEF Request, Idle, InDeletion, DeletionRequest

\* A deletion goes on to its next call.
LEMMA Advanced ==
  ASSUME NEW q \in Request, InDeletion(q), NEW at \in {"notify", "remove"}
  PROVE  LET n == [q EXCEPT !.at = at] IN
         /\ n \in Request /\ InDeletion(n)
         /\ n.at = at /\ n.id = q.id /\ n.to = q.to
         /\ n.pending = q.pending /\ n.failed = q.failed
<1>. DEFINE n == [q EXCEPT !.at = at]
<1>1. q \in DeletionRequest
  BY DeletionData
<1>2. n \in DeletionRequest
  BY <1>1 DEF DeletionRequest
<1>3. /\ n.at = at /\ n.id = q.id /\ n.to = q.to
      /\ n.pending = q.pending /\ n.failed = q.failed
  BY <1>1 DEF DeletionRequest
<1>4. n \in Request
  BY <1>2 DEF DeletionRequest, Request
<1>5. InDeletion(n)
  BY <1>3 DEF InDeletion
<1>. QED
  BY <1>3, <1>4, <1>5

LEMMA IdleData == Idle \in Request /\ ~InDeletion(Idle)
BY DEF Request, Idle, InDeletion

\* A step of one request leaves the deletions of the others as they were.
LEMMA OthersStay ==
  ASSUME IInv, NEW r \in Requests, NEW q,
         request' = [request EXCEPT ![r] = q],
         used \subseteq used', entries \subseteq entries', farewells \subseteq farewells',
         \A d \in used : due'[d] = due[d],
         SweptOver /\ AllLate => AllLate',
         InDeletion(q) =>
           /\ q.id \in used' /\ q.to = due'[q.id]
           /\ "record" \in q.pending \/ q.failed \/ q.id \in entries'
           /\ "sweep" \in q.pending \/ q.failed \/ AllLate'
           /\ q.at # "clear" => q.pending = {} /\ ~q.failed
           /\ q.at = "remove" => {q.id} \X q.to \subseteq farewells'
  PROVE  DeletionsOK'
<1>1. SUFFICES ASSUME NEW o \in Requests PROVE DeletionOK(request[o])'
  BY DEF DeletionsOK
<1>2. CASE o = r
  <2>1. request'[o] = q
    BY <1>2 DEF IInv, TypeOK
  <2>. QED
    BY <2>1 DEF DeletionOK
<1>3. CASE o # r
  <2>1. request'[o] = request[o] /\ DeletionOK(request[o])
    BY <1>3 DEF IInv, TypeOK, DeletionsOK
  <2>2. InDeletion(request[o]) /\ "sweep" \notin request[o].pending => SweptOver
    BY DEF SweptOver
  <2>. QED
    BY <2>1, <2>2 DEF DeletionOK
<1>. QED
  BY <1>2, <1>3

\* A request ends or begins with nothing stored.
LEMMA QuietStep ==
  ASSUME IInv, NEW r \in Requests, NEW q \in Request, ~InDeletion(q),
         request' = [request EXCEPT ![r] = q], used' \in SUBSET (Comments \cup Deletions),
         used \subseteq used', UNCHANGED <<story, owners, commentVars, deletionVars>>
  PROVE  IInv'
<1>. USE DEF commentVars, deletionVars
<1>1. TypeOK'
  BY DEF IInv, TypeOK
<1>2. AllLate => AllLate'
  BY DEF AllLate
<1>3. DeletionsOK'
  BY <1>2, OthersStay
<1>. QED
  BY <1>1, <1>3 DEF IInv, NoCommentOutlivesItsStory, NoticesAreOfComments, DeletionsAreTold

-----------------------------------------------------------------------------
(***************************************************************************)
(* Comments.                                                               *)
(***************************************************************************)

LEMMA CreateStoryCommentKeeps ==
  ASSUME IInv, NEW r \in Requests, NEW c \in Comments, NEW u \in Users, NEW b \in Bodies,
         NEW to \in SUBSET Users, CreateStoryComment(r, c, u, b, to)
  PROVE  IInv'
<1>. DEFINE q == [at |-> "create", id |-> c, by |-> u, body |-> b, to |-> (owners \cup to) \ {u}]
<1>1. q \in Request /\ ~InDeletion(q)
  BY DEF Request, InDeletion, IInv, TypeOK
<1>2. /\ request' = [request EXCEPT ![r] = q] /\ used' = used \cup {c}
      /\ UNCHANGED <<story, owners, commentVars, deletionVars>>
  BY DEF CreateStoryComment, Proceed
<1>3. used' \in SUBSET (Comments \cup Deletions) /\ used \subseteq used'
  BY <1>2 DEF IInv, TypeOK
<1>. QED
  BY <1>1, <1>2, <1>3, QuietStep

LEMMA ReadStoryKeeps ==
  ASSUME IInv, NEW r \in Requests, ReadStory(r)
  PROVE  IInv'
<1>. DEFINE q == IF story = "active" THEN [request[r] EXCEPT !.at = "insert"] ELSE Idle
<1>1. request[r] \in Request /\ request[r].at = "create"
  BY DEF ReadStory, IInv, TypeOK
<1>2. q \in Request /\ ~InDeletion(q)
  BY <1>1, InsertsNext, IdleData
<1>3. /\ request' = [request EXCEPT ![r] = q] /\ used' = used
      /\ UNCHANGED <<story, owners, commentVars, deletionVars>>
  BY DEF ReadStory, Advance, Proceed
<1>4. used' \in SUBSET (Comments \cup Deletions) /\ used \subseteq used'
  BY <1>3 DEF IInv, TypeOK
<1>. QED
  BY <1>2, <1>3, <1>4, QuietStep

LEMMA UpdateStoryCommentKeeps ==
  ASSUME IInv, NEW r \in Requests, NEW c \in Comments, NEW u \in Users, NEW b \in Bodies,
         UpdateStoryComment(r, c, u, b)
  PROVE  IInv'
<1>. DEFINE q == [at |-> "edit", id |-> c, body |-> b]
<1>1. q \in Request /\ ~InDeletion(q)
  BY DEF Request, InDeletion
<1>2. /\ request' = [request EXCEPT ![r] = q] /\ used' = used
      /\ UNCHANGED <<story, owners, commentVars, deletionVars>>
  BY DEF UpdateStoryComment, Proceed
<1>3. used' \in SUBSET (Comments \cup Deletions) /\ used \subseteq used'
  BY <1>2 DEF IInv, TypeOK
<1>. QED
  BY <1>1, <1>2, <1>3, QuietStep

LEMMA DeleteStoryCommentKeeps ==
  ASSUME IInv, NEW r \in Requests, NEW c \in Comments, NEW u \in Users,
         DeleteStoryComment(r, c, u)
  PROVE  IInv'
<1>. DEFINE q == [at |-> "erase", id |-> c]
<1>1. q \in Request /\ ~InDeletion(q)
  BY DEF Request, InDeletion
<1>2. /\ request' = [request EXCEPT ![r] = q] /\ used' = used
      /\ UNCHANGED <<story, owners, commentVars, deletionVars>>
  BY DEF DeleteStoryComment, Proceed
<1>3. used' \in SUBSET (Comments \cup Deletions) /\ used \subseteq used'
  BY <1>2 DEF IInv, TypeOK
<1>. QED
  BY <1>1, <1>2, <1>3, QuietStep

LEMMA RequestFailsKeeps ==
  ASSUME IInv, NEW r \in Requests, RequestFails(r)
  PROVE  IInv'
<1>1. /\ request' = [request EXCEPT ![r] = Idle] /\ used' = used
      /\ UNCHANGED <<story, owners, commentVars, deletionVars>>
  BY DEF RequestFails, Proceed
<1>2. used' \in SUBSET (Comments \cup Deletions) /\ used \subseteq used'
  BY <1>1 DEF IInv, TypeOK
<1>. QED
  BY <1>1, <1>2, IdleData, QuietStep

\* A comment inserted while the sweep of a deletion is over is a late one.
LEMMA InsertCommentKeeps ==
  ASSUME IInv, NEW r \in Requests, InsertComment(r)
  PROVE  IInv'
<1>. DEFINE q == request[r]
<1>1. /\ q.at = "insert" /\ q.id \in Comments /\ q.by \in Users /\ q.body \in Bodies
      /\ q.to \subseteq Users
  BY RequestData DEF InsertComment, IInv, TypeOK
<1>2. /\ request' = [request EXCEPT ![r] = Idle]
      /\ UNCHANGED <<story, owners, used, entries, farewells, due>>
  BY DEF InsertComment, Proceed, deletionVars
<1>3. CASE story = "active"
  <2>1. /\ comment' = [comment EXCEPT ![q.id] = [by |-> q.by, body |-> q.body]]
        /\ notices' = notices \cup ({q.id} \X q.to) /\ said' = said \cup {q.id}
        /\ late' = IF SweptOver THEN late \cup {q.id} ELSE late
    BY <1>3 DEF InsertComment
  <2>2. TypeOK'
    <3>1. [by |-> q.by, body |-> q.body] \in [by : Users, body : Bodies]
      BY <1>1
    <3>2. comment' \in [Comments -> [by : Users, body : Bodies] \cup {NoRow}]
      BY <2>1, <3>1 DEF IInv, TypeOK
    <3>3. notices' \subseteq Comments \X Users /\ said' \subseteq Comments /\ late' \subseteq Comments
      BY <1>1, <2>1 DEF IInv, TypeOK
    <3>. QED
      BY <1>2, <3>2, <3>3, IdleData DEF IInv, TypeOK
  <2>3. SweptOver /\ AllLate => AllLate'
    BY <1>1, <2>1 DEF AllLate, IInv, TypeOK
  <2>4. DeletionsOK'
    BY <1>2, <2>3, IdleData, OthersStay
  <2>5. NoticesAreOfComments'
    BY <1>1, <2>1 DEF IInv, NoticesAreOfComments
  <2>. QED
    BY <1>2, <1>3, <2>2, <2>4, <2>5
      DEF IInv, NoCommentOutlivesItsStory, DeletionsAreTold
<1>4. CASE story # "active"
  <2>1. UNCHANGED <<story, owners, commentVars, deletionVars>>
    BY <1>2, <1>4 DEF InsertComment, deletionVars
  <2>2. used' \in SUBSET (Comments \cup Deletions) /\ used \subseteq used'
    BY <1>2 DEF IInv, TypeOK
  <2>. QED
    BY <1>2, <2>1, <2>2, IdleData, QuietStep
<1>. QED
  BY <1>3, <1>4

LEMMA EditCommentKeeps ==
  ASSUME IInv, NEW r \in Requests, EditComment(r)
  PROVE  IInv'
<1>. DEFINE q == request[r]
<1>1. q.id \in Comments /\ q.body \in Bodies
  BY RequestData DEF EditComment, IInv, TypeOK
<1>2. /\ request' = [request EXCEPT ![r] = Idle]
      /\ UNCHANGED <<story, owners, used, notices, said, late, entries, farewells, due>>
      /\ \/ comment' = comment
         \/ comment[q.id] # NoRow /\ comment' = [comment EXCEPT ![q.id].body = q.body]
  BY DEF EditComment, Proceed, deletionVars
<1>3. comment' \in [Comments -> [by : Users, body : Bodies] \cup {NoRow}]
  BY <1>1, <1>2 DEF IInv, TypeOK
<1>4. \A c \in Comments : comment'[c] # NoRow => comment[c] # NoRow
  BY <1>1, <1>2 DEF IInv, TypeOK
<1>5. TypeOK'
  BY <1>2, <1>3, IdleData DEF IInv, TypeOK
<1>6. AllLate => AllLate'
  BY <1>2, <1>4 DEF AllLate
<1>7. DeletionsOK'
  BY <1>2, <1>6, IdleData, OthersStay
<1>. QED
  BY <1>2, <1>4, <1>5, <1>7
    DEF IInv, NoCommentOutlivesItsStory, NoticesAreOfComments, DeletionsAreTold

LEMMA EraseCommentKeeps ==
  ASSUME IInv, NEW r \in Requests, EraseComment(r)
  PROVE  IInv'
<1>. DEFINE q == request[r]
<1>1. q.id \in Comments
  BY RequestData DEF EraseComment, IInv, TypeOK
<1>2. /\ request' = [request EXCEPT ![r] = Idle]
      /\ UNCHANGED <<story, owners, used, notices, said, late, entries, farewells, due>>
      /\ comment' = comment \/ comment' = [comment EXCEPT ![q.id] = NoRow]
  BY DEF EraseComment, Proceed, deletionVars
<1>3. comment' \in [Comments -> [by : Users, body : Bodies] \cup {NoRow}]
  BY <1>1, <1>2 DEF IInv, TypeOK
<1>4. \A c \in Comments : comment'[c] # NoRow => comment[c] # NoRow
  BY <1>1, <1>2 DEF IInv, TypeOK
<1>5. TypeOK'
  BY <1>2, <1>3, IdleData DEF IInv, TypeOK
<1>6. AllLate => AllLate'
  BY <1>2, <1>4 DEF AllLate
<1>7. DeletionsOK'
  BY <1>2, <1>6, IdleData, OthersStay
<1>. QED
  BY <1>2, <1>4, <1>5, <1>7
    DEF IInv, NoCommentOutlivesItsStory, NoticesAreOfComments, DeletionsAreTold

-----------------------------------------------------------------------------
(***************************************************************************)
(* The deletion.                                                           *)
(***************************************************************************)

LEMMA DeleteStoryKeeps ==
  ASSUME IInv, NEW r \in Requests, NEW d \in Deletions, NEW u \in Users, DeleteStory(r, d, u)
  PROVE  IInv'
<1>. DEFINE q == [at |-> "clear", id |-> d, by |-> u, to |-> owners \ {u},
                  pending |-> {"record", "sweep"}, failed |-> FALSE]
<1>1. /\ request' = [request EXCEPT ![r] = q] /\ used' = used \cup {d} /\ d \notin used
      /\ due' = [due EXCEPT ![d] = owners \ {u}] /\ story = "active"
      /\ UNCHANGED <<story, owners, comment, notices, said, late, entries, farewells>>
  BY DEF DeleteStory, Proceed, commentVars
<1>2. q \in Request
  BY DEF Request, IInv, TypeOK
<1>3. TypeOK'
  BY <1>1, <1>2 DEF IInv, TypeOK
<1>4. (\A e \in used : due'[e] = due[e]) /\ due'[d] = owners \ {u}
  BY <1>1 DEF IInv, TypeOK
<1>5. AllLate => AllLate'
  BY <1>1 DEF AllLate
<1>6. DeletionsOK'
  BY <1>1, <1>4, <1>5, OthersStay
<1>. QED
  BY <1>1, <1>3, <1>6
    DEF IInv, NoCommentOutlivesItsStory, NoticesAreOfComments, DeletionsAreTold

LEMMA RecordDeletedKeeps ==
  ASSUME IInv, NEW r \in Requests, RecordDeleted(r)
  PROVE  IInv'
<1>. DEFINE q == request[r]
            failed == q.failed \/ FALSE
            left == q.pending \ {"record"}
            next == [q EXCEPT !.pending = left, !.failed = failed]
<1>1. /\ q \in Request /\ q.at = "clear" /\ InDeletion(q) /\ DeletionOK(q)
      /\ story # "gone" /\ entries' = entries \cup {q.id} /\ request' = [request EXCEPT ![r] = next]
      /\ UNCHANGED <<story, owners, used, comment, notices, said, late, farewells, due>>
  BY DEF RecordDeleted, Settle, Proceed, InDeletion, commentVars, IInv, TypeOK, DeletionsOK
<1>2. /\ next \in Request /\ q.id \in Deletions
      /\ next.at = q.at /\ next.id = q.id /\ next.to = q.to
      /\ next.pending = q.pending \ {"record"} /\ next.failed = q.failed
  <2>1. q.failed \in BOOLEAN /\ q.id \in Deletions
    BY <1>1, RequestData
  <2>2. failed \in BOOLEAN /\ failed = q.failed
    BY <2>1
  <2>3. left \subseteq q.pending
    OBVIOUS
  <2>4. q \in Request /\ InDeletion(q)
    BY <1>1
  <2>. HIDE DEF failed, left, q
  <2>5. /\ next \in Request /\ next.at = q.at /\ next.id = q.id /\ next.to = q.to
        /\ next.pending = left /\ next.failed = failed
    <3>1. q \in DeletionRequest
      BY <2>4, DeletionData
    <3>2. next \in DeletionRequest
      BY <2>2, <2>3, <3>1 DEF DeletionRequest
    <3>3. /\ next.at = q.at /\ next.id = q.id /\ next.to = q.to
          /\ next.pending = left /\ next.failed = failed
      BY <3>1 DEF DeletionRequest
    <3>. QED
      BY <3>2, <3>3 DEF DeletionRequest, Request
  <2>. QED
    BY <2>1, <2>2, <2>5 DEF left
<1>. HIDE DEF next
<1>3. TypeOK'
  BY <1>1, <1>2 DEF IInv, TypeOK
<1>4. AllLate <=> AllLate'
  BY <1>1 DEF AllLate
<1>5. DeletionsOK'
  BY <1>1, <1>2, <1>4, OthersStay DEF DeletionOK
<1>. QED
  BY <1>1, <1>3, <1>5
    DEF IInv, NoCommentOutlivesItsStory, NoticesAreOfComments, DeletionsAreTold

LEMMA DeleteAllForStoryKeeps ==
  ASSUME IInv, NEW r \in Requests, DeleteAllForStory(r)
  PROVE  IInv'
<1>. DEFINE q == request[r]
            failed == q.failed \/ FALSE
            left == q.pending \ {"sweep"}
            next == [q EXCEPT !.pending = left, !.failed = failed]
<1>1. /\ q \in Request /\ q.at = "clear" /\ InDeletion(q) /\ DeletionOK(q)
      /\ comment' = (IF story = "gone" THEN comment ELSE [c \in Comments |-> NoRow])
      /\ request' = [request EXCEPT ![r] = next]
      /\ UNCHANGED <<story, owners, used, notices, said, late, entries, farewells, due>>
  BY DEF DeleteAllForStory, Settle, Proceed, InDeletion, deletionVars, IInv, TypeOK, DeletionsOK
<1>2. /\ next \in Request
      /\ next.at = q.at /\ next.id = q.id /\ next.to = q.to
      /\ next.pending = q.pending \ {"sweep"} /\ next.failed = q.failed
  <2>1. q.failed \in BOOLEAN
    BY <1>1, RequestData
  <2>2. failed \in BOOLEAN /\ failed = q.failed
    BY <2>1
  <2>3. left \subseteq q.pending
    OBVIOUS
  <2>4. q \in Request /\ InDeletion(q)
    BY <1>1
  <2>. HIDE DEF failed, left, q
  <2>5. /\ next \in Request /\ next.at = q.at /\ next.id = q.id /\ next.to = q.to
        /\ next.pending = left /\ next.failed = failed
    <3>1. q \in DeletionRequest
      BY <2>4, DeletionData
    <3>2. next \in DeletionRequest
      BY <2>2, <2>3, <3>1 DEF DeletionRequest
    <3>3. /\ next.at = q.at /\ next.id = q.id /\ next.to = q.to
          /\ next.pending = left /\ next.failed = failed
      BY <3>1 DEF DeletionRequest
    <3>. QED
      BY <3>2, <3>3 DEF DeletionRequest, Request
  <2>. QED
    BY <2>1, <2>2, <2>5 DEF left
<1>. HIDE DEF next
<1>3. TypeOK'
  BY <1>1, <1>2 DEF IInv, TypeOK
<1>4. AllLate'
  BY <1>1 DEF AllLate, IInv, NoCommentOutlivesItsStory
<1>5. DeletionsOK'
  BY <1>1, <1>2, <1>4, OthersStay DEF DeletionOK
<1>. QED
  BY <1>1, <1>3, <1>4, <1>5
    DEF IInv, AllLate, NoCommentOutlivesItsStory, NoticesAreOfComments, DeletionsAreTold

LEMMA CallFailsKeeps ==
  ASSUME IInv, NEW r \in Requests, CallFails(r)
  PROVE  IInv'
<1>. DEFINE q == request[r]
            failed == q.failed \/ TRUE
            left(call) == q.pending \ {call}
            next(call) == [q EXCEPT !.pending = left(call), !.failed = failed]
<1>1. /\ q \in Request /\ q.at = "clear" /\ InDeletion(q) /\ DeletionOK(q)
      /\ UNCHANGED <<story, owners, used, comment, notices, said, late, entries, farewells, due>>
  BY DEF CallFails, InDeletion, commentVars, deletionVars, IInv, TypeOK, DeletionsOK
<1>2. PICK call \in q.pending : request' = [request EXCEPT ![r] = next(call)]
  BY DEF CallFails, Settle, Proceed
<1>. DEFINE n == next(call)
<1>3. /\ n \in Request /\ n.at = q.at /\ n.id = q.id /\ n.to = q.to /\ n.failed
  <2>1. failed \in BOOLEAN /\ failed = TRUE
    OBVIOUS
  <2>2. left(call) \subseteq q.pending
    OBVIOUS
  <2>3. q \in Request /\ InDeletion(q)
    BY <1>1
  <2>. HIDE DEF failed, left, q
  <2>4. q \in DeletionRequest
    BY <2>3, DeletionData
  <2>5. n \in DeletionRequest
    BY <2>1, <2>2, <2>4 DEF DeletionRequest
  <2>6. n.at = q.at /\ n.id = q.id /\ n.to = q.to /\ n.failed = failed
    BY <2>4 DEF DeletionRequest
  <2>. QED
    BY <2>1, <2>5, <2>6 DEF DeletionRequest, Request
<1>4. request' = [request EXCEPT ![r] = n]
  BY <1>2
<1>. HIDE DEF n
<1>5. TypeOK'
  BY <1>1, <1>3, <1>4 DEF IInv, TypeOK
<1>6. AllLate => AllLate'
  BY <1>1 DEF AllLate
<1>7. DeletionsOK'
  BY <1>1, <1>3, <1>4, <1>6, OthersStay DEF DeletionOK
<1>. QED
  BY <1>1, <1>5, <1>7
    DEF IInv, NoCommentOutlivesItsStory, NoticesAreOfComments, DeletionsAreTold

LEMMA ClearedKeeps ==
  ASSUME IInv, NEW r \in Requests, Cleared(r)
  PROVE  IInv'
<1>. DEFINE q == request[r]
            next == [q EXCEPT !.at = "notify"]
<1>1. /\ q \in Request /\ q.at = "clear" /\ InDeletion(q) /\ DeletionOK(q) /\ q.pending = {}
      /\ UNCHANGED <<story, owners, used, comment, notices, said, late, entries, farewells, due>>
  BY DEF Cleared, InDeletion, commentVars, deletionVars, IInv, TypeOK, DeletionsOK
<1>2. /\ next \in Request
      /\ next.at = "notify" /\ next.id = q.id /\ next.to = q.to
      /\ next.pending = q.pending /\ next.failed = q.failed
  BY <1>1, Advanced, RequestData
<1>. HIDE DEF next
<1>3. AllLate <=> AllLate'
  BY <1>1 DEF AllLate
<1>4. CASE q.failed
  <2>1. request' = [request EXCEPT ![r] = Idle]
    BY <1>4 DEF Cleared, Proceed
  <2>2. TypeOK' /\ DeletionsOK'
    BY <1>1, <1>3, <2>1, IdleData, OthersStay DEF IInv, TypeOK
  <2>. QED
    BY <1>1, <2>2
      DEF IInv, NoCommentOutlivesItsStory, NoticesAreOfComments, DeletionsAreTold
<1>5. CASE ~q.failed
  <2>1. request' = [request EXCEPT ![r] = next]
    BY <1>5 DEF Cleared, Advance, Proceed, next
  <2>2. TypeOK'
    BY <1>1, <1>2, <2>1 DEF IInv, TypeOK
  <2>3. DeletionsOK'
    BY <1>1, <1>2, <1>3, <1>5, <2>1, OthersStay DEF DeletionOK
  <2>. QED
    BY <1>1, <2>2, <2>3
      DEF IInv, NoCommentOutlivesItsStory, NoticesAreOfComments, DeletionsAreTold
<1>. QED
  BY <1>4, <1>5

LEMMA NotifyOwnersKeeps ==
  ASSUME IInv, NEW r \in Requests, NotifyOwners(r)
  PROVE  IInv'
<1>. DEFINE q == request[r]
            next == [q EXCEPT !.at = "remove"]
<1>1. /\ q \in Request /\ q.at = "notify" /\ InDeletion(q) /\ DeletionOK(q)
      /\ farewells' = farewells \cup ({q.id} \X q.to) /\ request' = [request EXCEPT ![r] = next]
      /\ UNCHANGED <<story, owners, used, comment, notices, said, late, entries, due>>
  BY DEF NotifyOwners, Advance, Proceed, InDeletion, commentVars, IInv, TypeOK, DeletionsOK
<1>2. /\ next \in Request /\ q.id \in Deletions /\ q.to \subseteq Users
      /\ next.at = "remove" /\ next.id = q.id /\ next.to = q.to
      /\ next.pending = q.pending /\ next.failed = q.failed
  BY <1>1, Advanced, RequestData
<1>. HIDE DEF next
<1>3. TypeOK'
  BY <1>1, <1>2 DEF IInv, TypeOK
<1>4. AllLate <=> AllLate'
  BY <1>1 DEF AllLate
<1>5. DeletionsOK'
  BY <1>1, <1>2, <1>4, OthersStay DEF DeletionOK
<1>6. DeletionsAreTold'
  BY <1>1 DEF IInv, DeletionsAreTold
<1>. QED
  BY <1>1, <1>3, <1>5, <1>6 DEF IInv, NoCommentOutlivesItsStory, NoticesAreOfComments

\* Here the story goes: its deletion has recorded, swept and told what it had to.
LEMMA RemoveStoryKeeps ==
  ASSUME IInv, NEW r \in Requests, RemoveStory(r)
  PROVE  IInv'
<1>. DEFINE q == request[r]
<1>1. /\ q \in Request /\ q.at = "remove" /\ InDeletion(q) /\ DeletionOK(q)
      /\ story' = "gone" /\ notices' = {} /\ request' = [request EXCEPT ![r] = Idle]
      /\ UNCHANGED <<owners, used, comment, said, late, entries, farewells, due>>
  BY DEF RemoveStory, Proceed, InDeletion, deletionVars, IInv, TypeOK, DeletionsOK
<1>2. q.id \in entries /\ AllLate /\ {q.id} \X due[q.id] \subseteq farewells
  BY <1>1 DEF DeletionOK
<1>3. TypeOK'
  BY <1>1, IdleData DEF IInv, TypeOK
<1>4. AllLate => AllLate'
  BY <1>1 DEF AllLate
<1>5. DeletionsOK'
  BY <1>1, <1>4, IdleData, OthersStay
<1>6. NoCommentOutlivesItsStory'
  BY <1>1, <1>2 DEF AllLate, NoCommentOutlivesItsStory
<1>7. DeletionsAreTold'
  BY <1>1, <1>2 DEF DeletionsAreTold
<1>. QED
  BY <1>1, <1>3, <1>5, <1>6, <1>7 DEF IInv, NoticesAreOfComments

-----------------------------------------------------------------------------
(***************************************************************************)
(* The rest of the system, and the theorems.                               *)
(***************************************************************************)

LEMMA StoryChangeKeeps ==
  ASSUME IInv, SetArchived \/ ReplaceOwners
  PROVE  IInv'
<1>1. /\ story # "gone" /\ story' \in {"active", "archived"} /\ owners' \subseteq Users
      /\ UNCHANGED <<request, used, comment, notices, said, late, entries, farewells, due>>
  BY DEF SetArchived, ReplaceOwners, commentVars, deletionVars, IInv, TypeOK
<1>2. TypeOK'
  BY <1>1 DEF IInv, TypeOK
<1>3. AllLate <=> AllLate'
  BY <1>1 DEF AllLate
<1>4. DeletionsOK'
  BY <1>1, <1>3 DEF IInv, DeletionsOK, DeletionOK
<1>. QED
  BY <1>1, <1>2, <1>4
    DEF IInv, NoCommentOutlivesItsStory, NoticesAreOfComments, DeletionsAreTold

LEMMA InitEstablishes == Init => IInv
<1>1. SUFFICES ASSUME Init PROVE IInv
  OBVIOUS
<1>2. TypeOK
  BY <1>1, IdleData DEF Init, TypeOK
<1>3. DeletionsOK
  BY <1>1, IdleData DEF Init, DeletionsOK, DeletionOK
<1>. QED
  BY <1>1, <1>2, <1>3
    DEF Init, IInv, NoCommentOutlivesItsStory, NoticesAreOfComments, DeletionsAreTold

LEMMA NextKeeps == IInv /\ [Next]_vars => IInv'
<1>1. SUFFICES ASSUME IInv, [Next]_vars PROVE IInv'
  OBVIOUS
<1>2. CASE UNCHANGED vars
  BY <1>1, <1>2 DEF vars, IInv, TypeOK, DeletionsOK, DeletionOK, AllLate,
    NoCommentOutlivesItsStory, NoticesAreOfComments, DeletionsAreTold
<1>3. ASSUME NEW r \in Requests, CommentStep(r) PROVE IInv'
  BY <1>1, <1>3, CreateStoryCommentKeeps, ReadStoryKeeps, InsertCommentKeeps,
    UpdateStoryCommentKeeps, EditCommentKeeps, DeleteStoryCommentKeeps, EraseCommentKeeps
    DEF CommentStep
<1>4. ASSUME NEW r \in Requests, DeletionStep(r) PROVE IInv'
  BY <1>1, <1>4, DeleteStoryKeeps, RecordDeletedKeeps, DeleteAllForStoryKeeps,
    CallFailsKeeps, ClearedKeeps, NotifyOwnersKeeps, RemoveStoryKeeps DEF DeletionStep
<1>. QED
  BY <1>1, <1>2, <1>3, <1>4, RequestFailsKeeps, StoryChangeKeeps DEF Next

LEMMA Invariance == Spec => []IInv
<1>. QED
  BY InitEstablishes, NextKeeps, PTL DEF Spec

\* Type correctness.
THEOREM TypeCorrect == Spec => []TypeOK
<1>1. IInv => TypeOK
  BY DEF IInv
<1>. QED
  BY <1>1, Invariance, PTL

\* A comment whose story is gone was inserted after a sweep of it (delete-story.ts:74).
THEOREM SweptComments == Spec => []NoCommentOutlivesItsStory
<1>1. IInv => NoCommentOutlivesItsStory
  BY DEF IInv
<1>. QED
  BY <1>1, Invariance, PTL

\* Nobody is told of a comment that was refused (d1-story-comment-repository.ts:199).
THEOREM NoticesHaveComments == Spec => []NoticesAreOfComments
<1>1. IInv => NoticesAreOfComments
  BY DEF IInv
<1>. QED
  BY <1>1, Invariance, PTL

\* A story that is gone left an entry, and a notice to each owner that deletion
\* knew of (delete-story.ts:60, 85).
THEOREM DeletionsTell == Spec => []DeletionsAreTold
<1>1. IInv => DeletionsAreTold
  BY DEF IInv
<1>. QED
  BY <1>1, Invariance, PTL

\* The comments of an archived story change only by a deletion that began before
\* (d1-story-comment-repository.ts:182, 301, 338).
THEOREM ArchivedCommentsStay == Spec => ArchivedCommentsAreKept
<1>1. ASSUME [Next]_vars, story = "archived", comment' # comment
      PROVE  \E r \in Requests : request[r].at = "clear"
  <2>1. ASSUME NEW r \in Requests, CommentStep(r) PROVE comment' = comment
    BY <1>1, <2>1 DEF CommentStep, CreateStoryComment, ReadStory, InsertComment,
      UpdateStoryComment, EditComment, DeleteStoryComment, EraseComment, commentVars
  <2>2. ASSUME NEW r \in Requests, DeletionStep(r), request[r].at # "clear"
        PROVE  comment' = comment
    BY <1>1, <2>2 DEF DeletionStep, DeleteStory, RecordDeleted, DeleteAllForStory,
      CallFails, Cleared, NotifyOwners, RemoveStory, commentVars
  <2>3. (\E r \in Requests : RequestFails(r)) \/ SetArchived \/ ReplaceOwners => comment' = comment
    BY DEF RequestFails, SetArchived, ReplaceOwners, commentVars
  <2>4. UNCHANGED vars => comment' = comment
    BY DEF vars
  <2>. QED
    BY <1>1, <2>1, <2>2, <2>3, <2>4 DEF Next
<1>2. [Next]_vars => [story = "archived" /\ comment' # comment =>
                        \E r \in Requests : request[r].at = "clear"]_vars
  BY <1>1
<1>. QED
  BY <1>2, PTL DEF Spec, ArchivedCommentsAreKept
=============================================================================
