-------------------------- MODULE StoryTimelineProofs --------------------------
(***************************************************************************)
(* Machine-checked proofs about StoryTimeline, for any number of users,    *)
(* patches, requests, statuses and texts, and any lists of owners.         *)
(***************************************************************************)
EXTENDS StoryTimeline, TLAPS

(***************************************************************************)
(* Types.                                                                  *)
(***************************************************************************)

Reading ==
  [at : {"read"}, patch : Patches, by : Users, set : Edits, wish : Wishes \cup {Keep},
   before : Row]

Writing ==
  [at : {"write", "reread"}, patch : Patches, by : Users, set : Edits,
   wish : Wishes \cup {Keep}, before : Row, seen : Statuses]

Telling ==
  [at : {"record", "notify", "members"}, patch : Patches, by : Users, set : Edits,
   text : Texts, owners : SUBSET Users, news : SUBSET Change]

Mentioning ==
  [at : {"mention"}, patch : Patches, text : Texts, listed : SUBSET Users]

Request == {Idle} \cup Reading \cup Writing \cup Telling \cup Mentioning

TypeOK ==
  /\ row \in Row /\ archived \in BOOLEAN
  /\ owners \subseteq Users /\ inserting \subseteq Users
  /\ members \subseteq Users /\ gone \subseteq Users
  /\ told \subseteq Change /\ made \subseteq Change
  /\ alerts \subseteq Patches \X Users
  /\ mentioned \subseteq [patch : Patches, text : Texts, to : Users]
  /\ request \in [Requests -> Request]
  /\ used \subseteq Patches /\ writer \subseteq Patches
  /\ mixed \in [Patches -> SUBSET Fields]
  /\ reached \in [Patches -> SUBSET Users]

(***************************************************************************)
(* The inductive invariant.                                                *)
(***************************************************************************)

\* A patch is drawn once: no two requests carry the same one, and nothing is
\* recorded of one that was not sent.
PatchesAreFresh ==
  /\ \A r \in Requests : request[r] # Idle => request[r].patch \in used
  /\ \A r, o \in Requests :
       r # o /\ request[r] # Idle /\ request[o] # Idle => request[r].patch # request[o].patch
  /\ \A c \in told \cup made : c.patch \in used
  /\ \A p \in Patches \ used : mixed[p] = {} /\ reached[p] = {}

\* Who left a project stays away.
NobodyReturns == members \cap gone = {}

\* The record of a change of field f by patch p.
Entry(p, f, old, new) == [patch |-> p, field |-> f, old |-> old, new |-> new]

\* A change is from one value to another.
ChangesDiffer == \A m \in made : m.old # m.new

\* Before its batch a patch has changed nothing, and what nobody else changed is as
\* in its snapshot, the status it will be guarded by included.
BeforeBatchOK(q) ==
  q.at \in {"read", "write"} =>
    /\ \A m \in made : m.patch # q.patch
    /\ \A f \in Fields \ mixed[q.patch] : row[f] = q.before[f]
    /\ q.at = "write" /\ "status" \in DOMAIN q.set => q.seen = q.before["status"]

\* After its batch the row shows exactly its changes, but for mixed fields.
AfterBatchOK(q) ==
  q.at = "reread" =>
    /\ \A f \in Fields \ mixed[q.patch] :
         row[f] # q.before[f] => Entry(q.patch, f, q.before[f], row[f]) \in made
    /\ \A m \in made : m.patch = q.patch =>
         /\ m.field \in mixed[q.patch]
              \/ m = Entry(q.patch, m.field, q.before[m.field], row[m.field])
         /\ m.field = "status" => m.old = q.before["status"]

\* What it is about to record is that.
NewsOK(q) ==
  q.at = "record" =>
    /\ \A e \in q.news : e.patch = q.patch /\ (e.field \in mixed[q.patch] \/ e \in made)
    /\ \A m \in made : m.patch = q.patch => m.field \in mixed[q.patch] \/ m \in q.news
    /\ \A e \in q.news, m \in made :
         m.patch = q.patch /\ e.field = "status" /\ m.field = "status" => e.old = m.old

\* Nothing is told of a patch before it records its entries.
UntoldOK(q) ==
  q.at \in {"read", "write", "reread", "record"} => \A e \in told : e.patch # q.patch

\* A patch that still has its mentions to send has reached nobody, and knows the
\* description if it is the one that wrote it.
MentionsOK(q) ==
  /\ q # Idle => reached[q.patch] = {}
  /\ q.at \in {"record", "notify", "members", "mention"} /\ q.patch \in writer =>
       q.text = row["description"]

RequestOK(q) ==
  BeforeBatchOK(q) /\ AfterBatchOK(q) /\ NewsOK(q) /\ UntoldOK(q) /\ MentionsOK(q)

RequestsOK == \A r \in Requests : RequestOK(request[r])

IInv ==
  /\ TypeOK
  /\ PatchesAreFresh
  /\ NobodyReturns
  /\ ChangesDiffer
  /\ RequestsOK
  /\ EntriesAreTrue
  /\ MentionsArriveOnce

-----------------------------------------------------------------------------
(***************************************************************************)
(* Rows, changes and requests.                                             *)
(***************************************************************************)

LEMMA RowData ==
  ASSUME NEW x \in Row
  PROVE  /\ DOMAIN x = Fields /\ x["status"] \in Statuses /\ x["description"] \in Texts
         /\ x = [f \in Fields |-> x[f]]
BY DEF Row, Fields

LEMMA EditsData ==
  ASSUME NEW set \in Edits
  PROVE  /\ DOMAIN set \subseteq Fields
         /\ "status" \in DOMAIN set => set["status"] \in Statuses
         /\ "description" \in DOMAIN set => set["description"] \in Texts
<1>1. PICK x \in Row, F \in SUBSET Fields : set = [f \in F |-> x[f]]
  BY DEF Edits
<1>. QED
  BY <1>1, RowData

LEMMA EditedIsARow ==
  ASSUME NEW old \in Row, NEW set \in Edits
  PROVE  /\ Edited(old, set) \in Row
         /\ \A f \in Fields : Edited(old, set)[f] # old[f] => f \in DOMAIN set
<1>. DEFINE new == Edited(old, set)
<1>1. new["status"] \in Statuses /\ new["description"] \in Texts
  BY RowData, EditsData DEF Edited, Fields
<1>2. new = [status |-> new["status"], description |-> new["description"]]
  BY DEF Edited, Fields
<1>3. new \in Row
  BY <1>1, <1>2 DEF Row
<1>4. \A f \in Fields : new[f] # old[f] => f \in DOMAIN set
  BY DEF Edited
<1>. QED
  BY <1>3, <1>4

LEMMA DifferingData ==
  ASSUME NEW p \in Patches, NEW before \in Row, NEW after \in Row
  PROVE  /\ Differing(p, before, after) \subseteq Change
         /\ \A f \in Fields : before[f] # after[f] =>
              Entry(p, f, before[f], after[f]) \in Differing(p, before, after)
         /\ \A c \in Differing(p, before, after) :
              /\ c.patch = p /\ c.field \in Fields /\ before[c.field] # after[c.field]
              /\ c = Entry(p, c.field, before[c.field], after[c.field])
<1>1. \A f \in Fields : Entry(p, f, before[f], after[f]) \in Change
  BY RowData DEF Entry, Change, Fields
<1>. QED
  BY <1>1 DEF Differing, Entry

LEMMA ChangeData ==
  ASSUME NEW c \in Change
  PROVE  /\ c.patch \in Patches /\ c.field \in Fields
         /\ c = Entry(c.patch, c.field, c.old, c.new)
BY DEF Change, Fields, Entry

LEMMA RequestData ==
  ASSUME NEW q \in Request
  PROVE  /\ q.at = "idle" <=> q = Idle
         /\ q.at = "read" => q \in Reading
         /\ q.at \in {"write", "reread"} => q \in Writing
         /\ q.at \in {"record", "notify", "members"} => q \in Telling
         /\ q.at = "mention" => q \in Mentioning
         /\ q # Idle => q.patch \in Patches
BY DEF Request, Idle, Reading, Writing, Telling, Mentioning

LEMMA IdleIsOK == Idle \in Request /\ RequestOK(Idle) /\ Idle.at = "idle"
BY DEF Request, Idle, RequestOK, BeforeBatchOK, AfterBatchOK, NewsOK, UntoldOK, MentionsOK

\* What a step of r leaves to another request.
LEMMA OthersData ==
  ASSUME IInv, NEW r \in Requests, NEW q, request' = [request EXCEPT ![r] = q],
         NEW o \in Requests
  PROVE  /\ request'[r] = q
         /\ o # r => request'[o] = request[o]
         /\ request[o] \in Request /\ RequestOK(request[o])
         /\ request[o] # Idle => request[o].patch \in used
         /\ o # r /\ request[o] # Idle /\ request[r] # Idle =>
              request[o].patch # request[r].patch
BY DEF IInv, TypeOK, PatchesAreFresh, RequestsOK

\* A step that only moves a request on keeps the invariant if the request is left as
\* it should be.
LEMMA QuietStep ==
  ASSUME IInv, NEW r \in Requests, NEW q \in Request, RequestOK(q),
         request' = [request EXCEPT ![r] = q],
         used \subseteq used', used' \subseteq Patches,
         q # Idle => /\ q.patch \in used'
                     /\ IF request[r] = Idle THEN q.patch \notin used
                        ELSE q.patch = request[r].patch,
         q.at \in {"notify", "members", "mention"} =>
           \A m \in made : m.patch = q.patch => m.field \in mixed[m.patch] \/ m \in told,
         owners' \subseteq Users, alerts' \subseteq Patches \X Users,
         UNCHANGED <<row, inserting, archived, members, gone, told, mentioned, historyVars>>
  PROVE  IInv'
<1>. USE DEF historyVars
<1>0. \A o \in Requests : o # r => request'[o] = request[o]
  BY OthersData
<1>1. request'[r] = q
  BY OthersData
<1>2. TypeOK'
  BY DEF IInv, TypeOK
<1>3. PatchesAreFresh'
  BY <1>0, <1>1 DEF IInv, PatchesAreFresh
<1>4. RequestsOK'
  <2>. SUFFICES ASSUME NEW o \in Requests PROVE RequestOK(request[o])'
    BY DEF RequestsOK
  <2>1. RequestOK(request'[o])
    BY <1>0, <1>1, OthersData
  <2>. QED
    BY <2>1 DEF RequestOK, BeforeBatchOK, AfterBatchOK, NewsOK, UntoldOK, MentionsOK
<1>5. EntriesAreTrue'
  BY <1>0, <1>1 DEF IInv, EntriesAreTrue
<1>6. NobodyReturns' /\ ChangesDiffer' /\ MentionsArriveOnce'
  BY DEF IInv, NobodyReturns, ChangesDiffer, MentionsArriveOnce
<1>. QED
  BY <1>2, <1>3, <1>4, <1>5, <1>6 DEF IInv

-----------------------------------------------------------------------------
(***************************************************************************)
(* The update.                                                             *)
(***************************************************************************)

LEMMA UpdateStoryKeeps ==
  ASSUME IInv, NEW r \in Requests, NEW p \in Patches, NEW u \in members, NEW set \in Edits,
         NEW wish \in Wishes \cup {Keep}, UpdateStory(r, p, u, set, wish)
  PROVE  IInv'
<1>. DEFINE q == [at |-> "read", patch |-> p, by |-> u, set |-> set, wish |-> wish,
                  before |-> row]
<1>1. /\ request[r] = Idle /\ p \notin used /\ used' = used \cup {p}
      /\ request' = [request EXCEPT ![r] = q]
      /\ UNCHANGED <<storyVars, newsVars, historyVars>>
  BY DEF UpdateStory, Proceed
<1>2. q \in Request /\ q # Idle
  BY DEF IInv, TypeOK, Request, Reading, Idle
<1>3. /\ \A c \in told \cup made : c.patch # p
      /\ mixed[p] = {} /\ reached[p] = {}
  BY <1>1 DEF IInv, PatchesAreFresh
<1>4. RequestOK(q)
  BY <1>3 DEF RequestOK, BeforeBatchOK, AfterBatchOK, NewsOK, UntoldOK, MentionsOK
<1>5. used \subseteq used' /\ used' \subseteq Patches
  BY <1>1 DEF IInv, TypeOK
<1>6. owners \subseteq Users /\ alerts \subseteq Patches \X Users
  BY DEF IInv, TypeOK
<1>. QED
  BY <1>1, <1>2, <1>4, <1>5, <1>6, QuietStep DEF storyVars, newsVars

\* A request may end at any time.
LEMMA EndsKeep ==
  ASSUME IInv, NEW r \in Requests, request' = [request EXCEPT ![r] = Idle],
         owners' \subseteq Users, alerts' \subseteq Patches \X Users,
         UNCHANGED <<row, inserting, archived, members, gone, told, mentioned, used, historyVars>>
  PROVE  IInv'
<1>1. used \subseteq used' /\ used' \subseteq Patches
  BY DEF IInv, TypeOK
<1>. QED
  BY <1>1, IdleIsOK, QuietStep

\* A request goes on to q, of the same patch.
LEMMA GoesOn ==
  ASSUME IInv, NEW r \in Requests, NEW q \in Request, RequestOK(q),
         request[r] # Idle, q.patch = request[r].patch,
         request' = [request EXCEPT ![r] = q],
         q.at \in {"notify", "members", "mention"} =>
           \A m \in made : m.patch = q.patch => m.field \in mixed[m.patch] \/ m \in told,
         alerts' \subseteq Patches \X Users,
         UNCHANGED <<storyVars, told, mentioned, used, historyVars>>
  PROVE  IInv'
<1>1. used \subseteq used' /\ used' \subseteq Patches /\ q.patch \in used'
  BY DEF IInv, TypeOK, PatchesAreFresh
<1>2. owners' \subseteq Users
  BY DEF IInv, TypeOK, storyVars
<1>. QED
  BY <1>1, <1>2, QuietStep DEF storyVars

LEMMA RequestFailsKeeps ==
  ASSUME IInv, NEW r \in Requests, RequestFails(r)
  PROVE  IInv'
<1>1. owners \subseteq Users /\ alerts \subseteq Patches \X Users
  BY DEF IInv, TypeOK
<1>. QED
  BY <1>1, EndsKeep DEF RequestFails, Proceed, storyVars, newsVars

LEMMA ReadRowKeeps ==
  ASSUME IInv, NEW r \in Requests, ReadRow(r)
  PROVE  IInv'
<1>. DEFINE q == request[r]
            n == [at |-> "write", patch |-> q.patch, by |-> q.by, set |-> q.set,
                  wish |-> q.wish, before |-> q.before, seen |-> row["status"]]
<1>1. q \in Request /\ RequestOK(q) /\ q.at = "read" /\ q # Idle /\ q \in Reading
  BY RequestData DEF ReadRow, IInv, TypeOK, RequestsOK
<1>2. owners \subseteq Users /\ alerts \subseteq Patches \X Users
  BY DEF IInv, TypeOK
<1>3. UNCHANGED <<storyVars, newsVars, used, historyVars>>
  BY DEF ReadRow
<1>4. CASE request' = [request EXCEPT ![r] = Idle]
  BY <1>2, <1>3, <1>4, EndsKeep DEF storyVars, newsVars
<1>5. CASE /\ request' = [request EXCEPT ![r] = n]
           /\ "status" \in DOMAIN q.set => row["status"] = q.before["status"]
  <2>1. n \in Request
    <3>1. row["status"] \in Statuses
      BY RowData DEF IInv, TypeOK
    <3>2. n \in Writing
      BY <1>1, <3>1 DEF Reading, Writing
    <3>. QED
      BY <3>2 DEF Request
  <2>2. RequestOK(n)
    BY <1>1, <1>5 DEF RequestOK, BeforeBatchOK, AfterBatchOK, NewsOK, UntoldOK, MentionsOK
  <2>. QED
    BY <1>1, <1>2, <1>3, <1>5, <2>1, <2>2, GoesOn DEF newsVars
<1>. QED
  BY <1>4, <1>5 DEF ReadRow, Proceed

\* What the batch leaves of the owners were owners, and what it adds are members.
LEMMA OwnersAfterData ==
  ASSUME NEW q
  PROVE  /\ OwnersAfter(q) \subseteq owners \cup members
         /\ UpdatesRow(q) => OwnersAfter(q) = IF q.wish = Keep THEN owners ELSE q.wish
         /\ ~ UpdatesRow(q) => OwnersAfter(q) = owners
BY DEF OwnersAfter, UpdatesRow

LEMMA AdvancedWriting ==
  ASSUME NEW q \in Writing
  PROVE  LET n == [q EXCEPT !.at = "reread"] IN
         /\ n \in Request /\ n # Idle /\ n.at = "reread"
         /\ n.patch = q.patch /\ n.set = q.set /\ n.before = q.before
BY DEF Writing, Request, Idle

\* What a batch that takes effect changes: its own patch made these changes, and
\* they are mixed into the patches that are between their reads.
LEMMA BatchData ==
  ASSUME IInv, NEW r \in Requests, WriteStory(r), UpdatesRow(request[r])
  PROVE  LET q == request[r]
             changed == Differing(q.patch, row, row')
         IN
         /\ q \in Writing /\ q.at = "write" /\ q # Idle /\ RequestOK(q)
         /\ row' = Edited(row, q.set) /\ row' \in Row
         /\ made' = made \cup changed /\ changed \subseteq Change
         /\ request'[r].at = "reread" /\ request' \in [Requests -> Request]
         /\ request'[r] = [q EXCEPT !.at = "reread"]
         /\ \A o \in Requests : o # r => request'[o] = request[o]
         /\ \A p \in Patches : mixed[p] \subseteq mixed'[p]
         /\ mixed'[q.patch] = mixed[q.patch]
         /\ mixed' \in [Patches -> SUBSET Fields]
         /\ \A o \in Requests \ {r}, f \in Fields :
              InWindow(o) /\ row[f] # row'[f] => f \in mixed'[request[o].patch]
<1>. DEFINE q == request[r]
            changed == Differing(q.patch, row, row')
<1>1. q \in Request /\ q.at = "write" /\ RequestOK(q)
  BY DEF WriteStory, IInv, TypeOK, RequestsOK
<1>2. q \in Writing /\ q # Idle /\ q.patch \in Patches /\ q.set \in Edits
  BY <1>1, RequestData DEF Writing
<1>3. row' = Edited(row, q.set) /\ row \in Row /\ row' \in Row
  BY <1>2, EditedIsARow DEF WriteStory, IInv, TypeOK
<1>4. made' = made \cup changed /\ changed \subseteq Change
  BY <1>2, <1>3, DifferingData DEF WriteStory
<1>5. /\ request' = [request EXCEPT ![r] = [q EXCEPT !.at = "reread"]]
      /\ request \in [Requests -> Request]
  BY DEF WriteStory, Advance, Proceed, IInv, TypeOK
<1>6. [q EXCEPT !.at = "reread"] \in Request /\ [q EXCEPT !.at = "reread"].at = "reread"
  BY <1>2, AdvancedWriting
<1>7. /\ request'[r] = [q EXCEPT !.at = "reread"] /\ request'[r].at = "reread"
      /\ request' \in [Requests -> Request]
      /\ \A o \in Requests : o # r => request'[o] = request[o]
  BY <1>5, <1>6
<1>8. mixed' = [p \in Patches |->
                  IF \E o \in Requests \ {r} : InWindow(o) /\ request[o].patch = p
                  THEN mixed[p] \cup {c.field : c \in changed} ELSE mixed[p]]
  BY <1>3 DEF WriteStory
<1>9. \A o \in Requests : InWindow(o) => request[o] # Idle /\ request[o].patch \in Patches
  BY RequestData DEF IInv, TypeOK, InWindow, Idle
<1>10. {c.field : c \in changed} \subseteq Fields
  BY <1>4, ChangeData
<1>11. mixed' \in [Patches -> SUBSET Fields] /\ \A p \in Patches : mixed[p] \subseteq mixed'[p]
  BY <1>8, <1>10 DEF IInv, TypeOK
<1>12. mixed'[q.patch] = mixed[q.patch]
  BY <1>2, <1>8, <1>9 DEF IInv, PatchesAreFresh
<1>13. ASSUME NEW o \in Requests \ {r}, NEW f \in Fields, InWindow(o), row[f] # row'[f]
       PROVE  f \in mixed'[request[o].patch]
  <2>1. Entry(q.patch, f, row[f], row'[f]) \in changed
    BY <1>2, <1>3, <1>13, DifferingData
  <2>2. f \in {c.field : c \in changed}
    BY <2>1 DEF Entry
  <2>. QED
    BY <1>8, <1>9, <1>13, <2>2
<1>. QED
  BY <1>1, <1>2, <1>3, <1>4, <1>7, <1>11, <1>12, <1>13

\* The request whose batch it is.
LEMMA OwnBatch ==
  ASSUME IInv, NEW r \in Requests, WriteStory(r), UpdatesRow(request[r])
  PROVE  RequestOK(request[r])'
<1>. DEFINE q == request[r]
            changed == Differing(q.patch, row, row')
<1>1. /\ q \in Writing /\ q.at = "write" /\ q # Idle /\ RequestOK(q)
      /\ row' = Edited(row, q.set) /\ row' \in Row
      /\ made' = made \cup changed
      /\ request'[r] = [q EXCEPT !.at = "reread"]
      /\ mixed'[q.patch] = mixed[q.patch]
  BY BatchData
<1>2. /\ request'[r].at = "reread" /\ request'[r].patch = q.patch
      /\ request'[r].before = q.before
  BY <1>1, AdvancedWriting
<1>3. row \in Row /\ q.patch \in Patches /\ q.set \in Edits
  BY <1>1 DEF IInv, TypeOK, Writing
<1>4. /\ \A m \in made : m.patch # q.patch
      /\ \A f \in Fields \ mixed[q.patch] : row[f] = q.before[f]
      /\ "status" \in DOMAIN q.set => row["status"] = q.before["status"]
  BY <1>1 DEF RequestOK, BeforeBatchOK, UpdatesRow, StoryUnchanged
<1>5. ASSUME NEW f \in Fields \ mixed[q.patch], row'[f] # q.before[f]
      PROVE  Entry(q.patch, f, q.before[f], row'[f]) \in made'
  BY <1>1, <1>3, <1>4, <1>5, DifferingData
<1>6. ASSUME NEW m \in made', m.patch = q.patch
      PROVE  /\ m.field \in mixed[q.patch]
                  \/ m = Entry(q.patch, m.field, q.before[m.field], row'[m.field])
             /\ m.field = "status" => m.old = q.before["status"]
  <2>1. m \in changed
    BY <1>1, <1>4, <1>6
  <2>2. /\ m.field \in Fields /\ row[m.field] # row'[m.field]
        /\ m = Entry(q.patch, m.field, row[m.field], row'[m.field])
    BY <1>1, <1>3, <2>1, DifferingData
  <2>3. m.old = row[m.field]
    BY <2>2 DEF Entry
  <2>4. m.field \in DOMAIN q.set
    BY <1>1, <1>3, <2>2, EditedIsARow
  <2>. QED
    BY <1>4, <2>2, <2>3, <2>4
<1>7. AfterBatchOK(request[r])'
  BY <1>1, <1>2, <1>5, <1>6 DEF AfterBatchOK
<1>8. UNCHANGED <<told, reached>>
  BY DEF WriteStory, newsVars
<1>9. UntoldOK(request[r])'
  BY <1>1, <1>2, <1>8 DEF RequestOK, UntoldOK
<1>10. MentionsOK(request[r])'
  BY <1>1, <1>2, <1>8 DEF RequestOK, MentionsOK
<1>. QED
  BY <1>2, <1>7, <1>9, <1>10 DEF RequestOK, BeforeBatchOK, NewsOK

\* The requests beside it.
LEMMA OtherBatch ==
  ASSUME IInv, NEW r \in Requests, WriteStory(r), UpdatesRow(request[r]),
         NEW o \in Requests \ {r}
  PROVE  RequestOK(request[o])'
<1>. DEFINE q == request[r]
            x == request[o]
            changed == Differing(q.patch, row, row')
<1>1. /\ q \in Writing /\ q # Idle /\ row' \in Row /\ request'[o] = x
      /\ row' = Edited(row, q.set)
      /\ made' = made \cup changed
      /\ \A p \in Patches : mixed[p] \subseteq mixed'[p]
      /\ \A f \in Fields : InWindow(o) /\ row[f] # row'[f] => f \in mixed'[x.patch]
  BY BatchData
<1>2. x \in Request /\ RequestOK(x) /\ row \in Row /\ q.patch \in Patches /\ q.set \in Edits
  BY <1>1 DEF IInv, TypeOK, RequestsOK, Writing
<1>3. x # Idle => x.patch # q.patch /\ x.patch \in Patches
  BY <1>1, <1>2, RequestData DEF IInv, PatchesAreFresh
<1>4. \A m \in made' : x # Idle /\ m.patch = x.patch => m \in made
  BY <1>1, <1>2, <1>3, DifferingData
<1>5. UNCHANGED <<told, reached>>
  BY DEF WriteStory, newsVars
<1>6. CASE x = Idle
  BY <1>1, <1>6 DEF Idle, RequestOK, BeforeBatchOK, AfterBatchOK, NewsOK, UntoldOK, MentionsOK
<1>7. CASE x # Idle
  <2>1. mixed[x.patch] \subseteq mixed'[x.patch]
    BY <1>1, <1>3, <1>7
  <2>2. BeforeBatchOK(x)'
    BY <1>1, <1>2, <1>4, <1>7, <2>1 DEF RequestOK, BeforeBatchOK, InWindow
  <2>3. AfterBatchOK(request[o])'
    <3>. SUFFICES ASSUME x.at = "reread" PROVE AfterBatchOK(request[o])'
      BY <1>1 DEF AfterBatchOK
    <3>1. /\ \A f \in Fields \ mixed[x.patch] :
               row[f] # x.before[f] => Entry(x.patch, f, x.before[f], row[f]) \in made
          /\ \A m \in made : m.patch = x.patch =>
               /\ m.field \in mixed[x.patch]
                    \/ m = Entry(x.patch, m.field, x.before[m.field], row[m.field])
               /\ m.field = "status" => m.old = x.before["status"]
      BY <1>2 DEF RequestOK, AfterBatchOK
    <3>2. \A f \in Fields \ mixed'[x.patch] : row'[f] = row[f] /\ f \notin mixed[x.patch]
      BY <1>1, <2>1 DEF InWindow
    <3>3. \A m \in made : m.field \in Fields
      BY ChangeData DEF IInv, TypeOK
    <3>4. ASSUME NEW f \in Fields \ mixed'[x.patch], row'[f] # x.before[f]
          PROVE  Entry(x.patch, f, x.before[f], row'[f]) \in made'
      BY <1>1, <3>1, <3>2, <3>4
    <3>5. ASSUME NEW m \in made', m.patch = x.patch
          PROVE  /\ m.field \in mixed'[x.patch]
                      \/ m = Entry(x.patch, m.field, x.before[m.field], row'[m.field])
                 /\ m.field = "status" => m.old = x.before["status"]
      <4>1. m \in made
        BY <1>4, <1>7, <3>5
      <4>. QED
        BY <2>1, <3>1, <3>2, <3>3, <3>5, <4>1
    <3>. QED
      BY <1>1, <3>4, <3>5 DEF AfterBatchOK
  <2>4. NewsOK(request[o])'
    BY <1>1, <1>2, <1>4, <1>7, <2>1 DEF RequestOK, NewsOK
  <2>5. UntoldOK(request[o])'
    BY <1>1, <1>2, <1>5 DEF RequestOK, UntoldOK
  <2>6. MentionsOK(request[o])'
    <3>1. x.patch \in writer' =>
            x.patch \in writer /\ row'["description"] = row["description"]
      BY <1>1, <1>2, <1>3, <1>7, EditedIsARow DEF WriteStory, Fields
    <3>. QED
      BY <1>1, <1>2, <1>5, <3>1 DEF RequestOK, MentionsOK
  <2>. QED
    BY <1>1, <2>2, <2>3, <2>4, <2>5, <2>6 DEF RequestOK, BeforeBatchOK
<1>. QED
  BY <1>6, <1>7

LEMMA WriteStoryKeeps ==
  ASSUME IInv, NEW r \in Requests, WriteStory(r)
  PROVE  IInv'
<1>. DEFINE q == request[r]
            changed == Differing(q.patch, row, row')
<1>1. /\ owners' = OwnersAfter(q) /\ q.at = "write" /\ q \in Writing
      /\ UNCHANGED <<inserting, archived, members, gone, newsVars, used, reached>>
  BY RequestData DEF WriteStory, IInv, TypeOK
<1>2. CASE ~ UpdatesRow(q)
  <2>1. owners' \subseteq Users
    BY <1>1, <1>2, OwnersAfterData DEF IInv, TypeOK
  <2>2. row' = row /\ request' = [request EXCEPT ![r] = Idle] /\ writer' = writer
    BY <1>2 DEF WriteStory, Proceed
  <2>3. Differing(q.patch, row, row) = {}
    BY DEF Differing
  <2>4. made' = made
    BY <1>2, <2>3 DEF WriteStory
  <2>5. mixed' = [p \in Patches |->
                    IF \E o \in Requests \ {r} : InWindow(o) /\ request[o].patch = p
                    THEN mixed[p] \cup {c.field : c \in {}} ELSE mixed[p]]
    BY <1>2, <2>3 DEF WriteStory
  <2>6. mixed' = mixed
    BY <2>5 DEF IInv, TypeOK
  <2>7. alerts' \subseteq Patches \X Users
    BY <1>1 DEF newsVars, IInv, TypeOK
  <2>. QED
    BY <1>1, <2>1, <2>2, <2>4, <2>6, <2>7, EndsKeep DEF newsVars, historyVars
<1>3. CASE UpdatesRow(q)
  <2>1. /\ q # Idle /\ RequestOK(q)
        /\ row' = Edited(row, q.set) /\ row' \in Row
        /\ made' = made \cup changed /\ changed \subseteq Change
        /\ request'[r].at = "reread" /\ request' \in [Requests -> Request]
        /\ request'[r] = [q EXCEPT !.at = "reread"]
        /\ \A o \in Requests : o # r => request'[o] = request[o]
        /\ \A p \in Patches : mixed[p] \subseteq mixed'[p]
        /\ mixed' \in [Patches -> SUBSET Fields]
    BY <1>3, BatchData
  <2>2. /\ q.patch \in Patches /\ q.patch \in used /\ q.set \in Edits /\ row \in Row
        /\ request'[r].patch = q.patch
    BY <1>1, <2>1, AdvancedWriting DEF IInv, TypeOK, PatchesAreFresh, Writing
  <2>3. /\ writer' \in {writer, {q.patch}}
        /\ writer' = {q.patch} \/ row'["description"] = row["description"]
    <3>1. writer' = {q.patch} \/ (writer' = writer /\ "description" \notin DOMAIN q.set)
      BY <1>3 DEF WriteStory
    <3>2. "description" \notin DOMAIN q.set => row'["description"] = row["description"]
      BY <2>1, <2>2, EditedIsARow DEF Fields
    <3>. QED
      BY <3>1, <3>2
  <2>4. OwnersAfter(q) \subseteq Users
    <3>1. OwnersAfter(q) \subseteq owners \cup members
      BY OwnersAfterData
    <3>. QED
      BY <3>1 DEF IInv, TypeOK
  <2>5. TypeOK'
    BY <1>1, <2>1, <2>2, <2>3, <2>4 DEF newsVars, IInv, TypeOK
  <2>6. \A m \in changed : m.patch = q.patch
    BY <2>1, <2>2, DifferingData
  <2>7. PatchesAreFresh'
    <3>1. /\ \A o \in Requests : request'[o] # Idle => request[o] # Idle
          /\ \A o \in Requests : request[o] # Idle => request'[o].patch = request[o].patch
      BY <2>1, <2>2
    <3>2. \A p \in Patches \ used : mixed'[p] = mixed[p]
      BY <1>3 DEF WriteStory, InWindow, IInv, TypeOK, PatchesAreFresh, Idle
    <3>. QED
      BY <1>1, <2>1, <2>2, <2>6, <3>1, <3>2 DEF newsVars, IInv, PatchesAreFresh
  <2>8. RequestsOK'
    BY <1>3, OwnBatch, OtherBatch DEF RequestsOK
  <2>9. EntriesAreTrue'
    <3>1. UNCHANGED told
      BY <1>1 DEF newsVars
    <3>2. \A e \in told : e.patch # q.patch /\ e.patch \in Patches
      BY <1>1, <2>1, ChangeData DEF RequestOK, UntoldOK, IInv, TypeOK
    <3>3. \A e \in told : e.field \in mixed'[e.patch] \/ e \in made'
      BY <2>1, <3>2 DEF IInv, EntriesAreTrue
    <3>4. \A e \in told, m \in made' :
            e.patch = m.patch /\ e.field = "status" /\ m.field = "status" => e.old = m.old
      BY <2>1, <2>6, <3>2 DEF IInv, EntriesAreTrue
    <3>5. ASSUME NEW o \in Requests, request'[o].at \in {"notify", "members", "mention"},
                 NEW m \in made', m.patch = request'[o].patch
          PROVE  m.field \in mixed'[m.patch] \/ m \in told
      <4>0. o # r
        BY <2>1, <3>5
      <4>1. request'[o] = request[o] /\ request[o] # Idle
        BY <2>1, <3>5, <4>0 DEF Idle
      <4>2. m.patch # q.patch
        BY <2>1, <3>5, <4>0, <4>1 DEF IInv, PatchesAreFresh
      <4>3. m \in made /\ m.patch \in Patches
        BY <2>1, <2>6, <4>2, ChangeData DEF IInv, TypeOK
      <4>. QED
        BY <2>1, <3>5, <4>1, <4>3 DEF IInv, EntriesAreTrue
    <3>. QED
      BY <3>1, <3>3, <3>4, <3>5 DEF EntriesAreTrue
  <2>10. NobodyReturns'
    BY <1>1, <2>4 DEF IInv, NobodyReturns
  <2>11. MentionsArriveOnce'
    <3>1. UNCHANGED <<mentioned, reached, gone>>
      BY <1>1 DEF newsVars
    <3>2. CASE writer' = {q.patch}
      <4>1. reached'[q.patch] = {}
        BY <2>1, <3>1 DEF RequestOK, MentionsOK
      <4>. QED
        BY <3>1, <3>2, <4>1 DEF IInv, MentionsArriveOnce
    <3>3. CASE writer' = writer /\ row'["description"] = row["description"]
      BY <3>1, <3>3 DEF IInv, MentionsArriveOnce
    <3>. QED
      BY <2>3, <3>2, <3>3
  <2>12. ChangesDiffer'
    <3>1. \A m \in changed : m.old # m.new
      BY <2>1, <2>2, DifferingData DEF Entry
    <3>. QED
      BY <2>1, <3>1 DEF IInv, ChangesDiffer
  <2>. QED
    BY <2>5, <2>7, <2>8, <2>9, <2>10, <2>11, <2>12 DEF IInv
<1>. QED
  BY <1>2, <1>3

LEMMA ReReadKeeps ==
  ASSUME IInv, NEW r \in Requests, ReRead(r)
  PROVE  IInv'
<1>. DEFINE q == request[r]
            news == Differing(q.patch, q.before, row)
            n == [at |-> "record", patch |-> q.patch, by |-> q.by, set |-> q.set,
                  text |-> row["description"], owners |-> owners \ {q.by}, news |-> news]
<1>1. q.at = "reread" /\ q \in Writing /\ q # Idle /\ RequestOK(q)
  BY RequestData DEF ReRead, IInv, TypeOK, RequestsOK, Idle
<1>2. /\ request' = [request EXCEPT ![r] = n]
      /\ UNCHANGED <<storyVars, newsVars, used, historyVars>>
  BY DEF ReRead, Proceed
<1>3. /\ row \in Row /\ q.before \in Row /\ q.patch \in Patches
      /\ row["description"] \in Texts /\ news \subseteq Change
  BY <1>1, RowData, DifferingData DEF IInv, TypeOK, Writing
<1>4. n \in Request
  <2>1. n \in Telling
    BY <1>1, <1>3 DEF Writing, Telling, IInv, TypeOK
  <2>. QED
    BY <2>1 DEF Request
<1>5. \A e \in news : /\ e.patch = q.patch /\ e.field \in Fields
                      /\ row[e.field] # q.before[e.field]
                      /\ e = Entry(q.patch, e.field, q.before[e.field], row[e.field])
                      /\ e.old = q.before[e.field]
  BY <1>3, DifferingData DEF Entry
<1>6. /\ \A f \in Fields \ mixed[q.patch] :
           row[f] # q.before[f] => Entry(q.patch, f, q.before[f], row[f]) \in made
      /\ \A m \in made : m.patch = q.patch =>
           /\ m.field \in mixed[q.patch]
                \/ m = Entry(q.patch, m.field, q.before[m.field], row[m.field])
           /\ m.field = "status" => m.old = q.before["status"]
  BY <1>1 DEF RequestOK, AfterBatchOK
<1>7. ASSUME NEW m \in made, m.patch = q.patch
      PROVE  m.field \in mixed[q.patch] \/ m \in news
  <2>. SUFFICES ASSUME m.field \notin mixed[q.patch] PROVE m \in news
    OBVIOUS
  <2>1. m \in Change /\ m.field \in Fields
    BY ChangeData DEF IInv, TypeOK
  <2>2. m = Entry(q.patch, m.field, q.before[m.field], row[m.field])
    BY <1>6, <1>7
  <2>3. row[m.field] # q.before[m.field]
    BY <1>1, <2>1, <2>2 DEF IInv, ChangesDiffer, Entry
  <2>. QED
    BY <1>3, <2>1, <2>2, <2>3, DifferingData
<1>8. NewsOK(n)
  BY <1>5, <1>6, <1>7 DEF NewsOK
<1>9. UntoldOK(n) /\ MentionsOK(n)
  BY <1>1 DEF RequestOK, UntoldOK, MentionsOK
<1>10. RequestOK(n)
  BY <1>8, <1>9 DEF RequestOK, BeforeBatchOK, AfterBatchOK
<1>11. alerts' \subseteq Patches \X Users
  BY <1>2 DEF newsVars, IInv, TypeOK
<1>. QED
  BY <1>1, <1>2, <1>4, <1>10, <1>11, GoesOn DEF newsVars

-----------------------------------------------------------------------------
(***************************************************************************)
(* What is told of it.                                                     *)
(***************************************************************************)

LEMMA AdvancedTelling ==
  ASSUME NEW q \in Telling, NEW at \in {"notify", "members"}
  PROVE  LET n == [q EXCEPT !.at = at] IN
         /\ n \in Request /\ n # Idle /\ n.at = at /\ n.patch = q.patch
         /\ n.text = q.text /\ n.set = q.set
<1>. DEFINE n == [q EXCEPT !.at = at]
<1>1. /\ n \in Telling /\ n.at = at /\ n.patch = q.patch
      /\ n.text = q.text /\ n.set = q.set
  BY DEF Telling
<1>. QED
  BY <1>1 DEF Request, Idle

\* All that a request has to know after it recorded its entries.
LEMMA LaterIsOK ==
  ASSUME NEW q, q.at \in {"notify", "members", "mention"}, MentionsOK(q)
  PROVE  RequestOK(q)
BY DEF RequestOK, BeforeBatchOK, AfterBatchOK, NewsOK, UntoldOK

LEMMA RecordActivitiesKeeps ==
  ASSUME IInv, NEW r \in Requests, RecordActivities(r)
  PROVE  IInv'
<1>. DEFINE q == request[r]
            n == [q EXCEPT !.at = "notify"]
<1>1. q.at = "record" /\ q \in Telling /\ q # Idle /\ RequestOK(q)
  BY RequestData DEF RecordActivities, IInv, TypeOK, RequestsOK, Idle
<1>2. /\ n \in Request /\ n # Idle /\ n.at = "notify" /\ n.patch = q.patch
      /\ n.text = q.text
  BY <1>1, AdvancedTelling
<1>3. /\ request' = [request EXCEPT ![r] = n] /\ told' = told \cup q.news
      /\ UNCHANGED <<storyVars, alerts, mentioned, used, historyVars>>
  BY DEF RecordActivities, Advance, Proceed
<1>4. /\ request'[r] = n
      /\ \A o \in Requests : o # r => request'[o] = request[o]
  BY <1>3, OthersData
<1>5. q.news \subseteq Change /\ q.patch \in used /\ q.patch \in Patches
  BY <1>1 DEF Telling, IInv, PatchesAreFresh
<1>6. /\ \A e \in q.news : e.patch = q.patch /\ (e.field \in mixed[q.patch] \/ e \in made)
      /\ \A m \in made : m.patch = q.patch => m.field \in mixed[q.patch] \/ m \in q.news
      /\ \A e \in q.news, m \in made :
           m.patch = q.patch /\ e.field = "status" /\ m.field = "status" => e.old = m.old
  BY <1>1 DEF RequestOK, NewsOK
<1>7. TypeOK'
  BY <1>2, <1>3, <1>5 DEF storyVars, historyVars, IInv, TypeOK
<1>8. PatchesAreFresh'
  BY <1>1, <1>2, <1>3, <1>4, <1>5, <1>6 DEF historyVars, IInv, PatchesAreFresh
<1>9. RequestsOK'
  <2>. SUFFICES ASSUME NEW o \in Requests PROVE RequestOK(request[o])'
    BY DEF RequestsOK
  <2>1. CASE o = r
    <3>1. MentionsOK(n)'
      BY <1>1, <1>2, <1>3 DEF storyVars, historyVars, RequestOK, MentionsOK
    <3>. QED
      BY <1>2, <1>4, <2>1, <3>1
        DEF RequestOK, BeforeBatchOK, AfterBatchOK, NewsOK, UntoldOK
  <2>2. CASE o # r
    <3>1. request'[o] = request[o] /\ RequestOK(request[o])
      BY <1>4, <2>2 DEF IInv, RequestsOK
    <3>2. request[o] # Idle => request[o].patch # q.patch
      BY <1>1, <2>2 DEF IInv, PatchesAreFresh
    <3>3. UntoldOK(request[o])'
      BY <1>3, <1>6, <3>1, <3>2 DEF RequestOK, UntoldOK, Idle
    <3>4. UNCHANGED <<row, made, mixed, writer, reached>>
      BY <1>3 DEF storyVars, historyVars
    <3>5. BeforeBatchOK(request[o])' /\ AfterBatchOK(request[o])'
      BY <3>1, <3>4 DEF RequestOK, BeforeBatchOK, AfterBatchOK
    <3>6. NewsOK(request[o])'
      BY <3>1, <3>4 DEF RequestOK, NewsOK
    <3>7. MentionsOK(request[o])'
      BY <3>1, <3>4 DEF RequestOK, MentionsOK
    <3>. QED
      BY <3>3, <3>5, <3>6, <3>7 DEF RequestOK
  <2>. QED
    BY <2>1, <2>2
<1>10. EntriesAreTrue'
  <2>1. UNCHANGED <<made, mixed>>
    BY <1>3 DEF historyVars
  <2>2. \A e \in told' : e.field \in mixed[e.patch] \/ e \in made
    BY <1>3, <1>6 DEF IInv, EntriesAreTrue
  <2>3. \A e \in told', m \in made :
          e.patch = m.patch /\ e.field = "status" /\ m.field = "status" => e.old = m.old
    BY <1>3, <1>6 DEF IInv, EntriesAreTrue
  <2>4. ASSUME NEW o \in Requests, request'[o].at \in {"notify", "members", "mention"},
               NEW m \in made, m.patch = request'[o].patch
        PROVE  m.field \in mixed[m.patch] \/ m \in told'
    <3>1. CASE o = r
      BY <1>2, <1>3, <1>4, <1>6, <2>4, <3>1
    <3>2. CASE o # r
      BY <1>3, <1>4, <2>4, <3>2 DEF IInv, EntriesAreTrue
    <3>. QED
      BY <3>1, <3>2
  <2>. QED
    BY <2>1, <2>2, <2>3, <2>4 DEF EntriesAreTrue
<1>11. NobodyReturns' /\ ChangesDiffer' /\ MentionsArriveOnce'
  BY <1>3 DEF storyVars, historyVars,
     IInv, NobodyReturns, ChangesDiffer, MentionsArriveOnce
<1>. QED
  BY <1>7, <1>8, <1>9, <1>10, <1>11 DEF IInv

LEMMA NotifyOwnersKeeps ==
  ASSUME IInv, NEW r \in Requests, NotifyOwners(r)
  PROVE  IInv'
<1>. DEFINE q == request[r]
            n == [q EXCEPT !.at = "members"]
<1>1. q.at = "notify" /\ q \in Telling /\ q # Idle /\ RequestOK(q)
  BY RequestData DEF NotifyOwners, IInv, TypeOK, RequestsOK, Idle
<1>2. UNCHANGED <<storyVars, told, mentioned, used, historyVars>>
  BY DEF NotifyOwners
<1>3. alerts' \subseteq Patches \X Users
  BY <1>1 DEF NotifyOwners, IInv, TypeOK, Telling
<1>4. CASE request' = [request EXCEPT ![r] = Idle]
  <2>1. owners' \subseteq Users
    BY <1>2 DEF storyVars, IInv, TypeOK
  <2>. QED
    BY <1>2, <1>3, <1>4, <2>1, EndsKeep DEF storyVars
<1>5. CASE request' = [request EXCEPT ![r] = n]
  <2>1. n \in Request /\ n.at = "members" /\ n.patch = q.patch /\ n.text = q.text /\ n # Idle
    BY <1>1, AdvancedTelling
  <2>2. MentionsOK(n)
    BY <1>1, <2>1 DEF RequestOK, MentionsOK
  <2>3. RequestOK(n)
    BY <2>1, <2>2 DEF RequestOK, BeforeBatchOK, AfterBatchOK, NewsOK, UntoldOK
  <2>4. \A m \in made : m.patch = n.patch => m.field \in mixed[m.patch] \/ m \in told
    BY <1>1, <2>1 DEF IInv, EntriesAreTrue
  <2>. QED
    BY <1>1, <1>2, <1>3, <1>5, <2>1, <2>3, <2>4, GoesOn
<1>. QED
  BY <1>4, <1>5 DEF NotifyOwners, MentionsOrEnds, Advance, Proceed

LEMMA ListMembersKeeps ==
  ASSUME IInv, NEW r \in Requests, ListMembers(r)
  PROVE  IInv'
<1>. DEFINE q == request[r]
            n == [at |-> "mention", patch |-> q.patch, text |-> q.text,
                  listed |-> members \ {q.by}]
<1>1. q.at = "members" /\ q \in Telling /\ q # Idle /\ RequestOK(q)
  BY RequestData DEF ListMembers, IInv, TypeOK, RequestsOK, Idle
<1>2. /\ request' = [request EXCEPT ![r] = n]
      /\ UNCHANGED <<storyVars, newsVars, used, historyVars>>
  BY DEF ListMembers, Proceed
<1>3. n \in Request
  <2>1. n \in Mentioning
    BY <1>1 DEF Telling, Mentioning, IInv, TypeOK
  <2>. QED
    BY <2>1 DEF Request
<1>4. MentionsOK(n)
  BY <1>1 DEF RequestOK, MentionsOK
<1>5. RequestOK(n)
  BY <1>4, LaterIsOK
<1>6. \A m \in made : m.patch = n.patch => m.field \in mixed[m.patch] \/ m \in told
  BY <1>1 DEF IInv, EntriesAreTrue
<1>7. alerts' \subseteq Patches \X Users
  BY <1>2 DEF newsVars, IInv, TypeOK
<1>. QED
  BY <1>1, <1>2, <1>3, <1>5, <1>6, <1>7, GoesOn DEF newsVars

LEMMA SendMentionsKeeps ==
  ASSUME IInv, NEW r \in Requests, SendMentions(r)
  PROVE  IInv'
<1>. DEFINE q == request[r]
            to == {v \in Mentions[q.text] \cap q.listed : ~ IsSent(q.text, v)}
            sent == {[patch |-> q.patch, text |-> q.text, to |-> u] : u \in to}
<1>1. q.at = "mention" /\ q \in Mentioning /\ q # Idle /\ RequestOK(q)
  BY RequestData DEF SendMentions, IInv, TypeOK, RequestsOK, Idle
<1>2. /\ request' = [request EXCEPT ![r] = Idle]
      /\ mentioned' = mentioned \cup sent
      /\ reached' = [reached EXCEPT ![q.patch] = q.listed]
      /\ UNCHANGED <<storyVars, told, alerts, used, made, mixed, writer>>
  BY DEF SendMentions, Proceed
<1>3. /\ request'[r] = Idle
      /\ \A o \in Requests : o # r => request'[o] = request[o]
  BY <1>2, OthersData
<1>4. q.patch \in Patches /\ q.patch \in used /\ q.text \in Texts /\ q.listed \subseteq Users
  BY <1>1 DEF Mentioning, IInv, PatchesAreFresh
<1>5. sent \subseteq [patch : Patches, text : Texts, to : Users]
  BY <1>4
<1>6. TypeOK'
  BY <1>2, <1>4, <1>5, IdleIsOK DEF storyVars, IInv, TypeOK
<1>7. /\ reached'[q.patch] = q.listed
      /\ \A p \in Patches : p # q.patch => reached'[p] = reached[p]
  BY <1>2, <1>4 DEF IInv, TypeOK
<1>8. PatchesAreFresh'
  BY <1>2, <1>3, <1>4, <1>7 DEF IInv, PatchesAreFresh
<1>9. RequestsOK'
  <2>. SUFFICES ASSUME NEW o \in Requests PROVE RequestOK(request[o])'
    BY DEF RequestsOK
  <2>1. CASE o = r \/ request[o] = Idle
    BY <1>3, <2>1 DEF Idle, RequestOK, BeforeBatchOK, AfterBatchOK, NewsOK, UntoldOK, MentionsOK
  <2>2. CASE o # r /\ request[o] # Idle
    <3>1. request'[o] = request[o] /\ RequestOK(request[o])
      BY <1>3, <2>2 DEF IInv, RequestsOK
    <3>2. request[o].patch # q.patch /\ request[o].patch \in Patches
      BY <1>1, <2>2, RequestData DEF IInv, TypeOK, PatchesAreFresh
    <3>3. MentionsOK(request[o])'
      BY <1>2, <1>7, <3>1, <3>2 DEF storyVars, RequestOK, MentionsOK
    <3>. QED
      BY <1>2, <3>1, <3>3 DEF storyVars,
         RequestOK, BeforeBatchOK, AfterBatchOK, NewsOK, UntoldOK
  <2>. QED
    BY <2>1, <2>2
<1>10. EntriesAreTrue'
  BY <1>2, <1>3 DEF Idle, IInv, EntriesAreTrue
<1>11. NobodyReturns' /\ ChangesDiffer'
  BY <1>2 DEF storyVars, IInv, NobodyReturns, ChangesDiffer
<1>12. MentionsArriveOnce'
  <2>1. ASSUME NEW p \in writer,
               NEW u \in (Mentions[row["description"]] \cap reached'[p]) \ gone
        PROVE  \E x \in mentioned' : x.text = row["description"] /\ x.to = u
    <3>1. CASE p = q.patch
      <4>1. q.text = row["description"]
        BY <1>1, <3>1 DEF RequestOK, MentionsOK
      <4>2. u \in Mentions[q.text] \cap q.listed
        BY <1>7, <2>1, <3>1, <4>1
      <4>3. CASE IsSent(q.text, u)
        BY <1>2, <4>1, <4>3 DEF IsSent
      <4>4. CASE ~ IsSent(q.text, u)
        <5>1. [patch |-> q.patch, text |-> q.text, to |-> u] \in mentioned'
          BY <1>2, <4>2, <4>4
        <5>. QED
          BY <4>1, <5>1
      <4>. QED
        BY <4>3, <4>4
    <3>2. CASE p # q.patch
      <4>1. u \in (Mentions[row["description"]] \cap reached[p]) \ gone
        BY <1>7, <2>1, <3>2 DEF IInv, TypeOK
      <4>2. \E x \in mentioned : x.text = row["description"] /\ x.to = u
        BY <4>1 DEF IInv, MentionsArriveOnce
      <4>. QED
        BY <1>2, <4>2
    <3>. QED
      BY <3>1, <3>2
  <2>2. \A x \in sent : /\ x.patch = q.patch /\ x.text = q.text /\ ~ IsSent(q.text, x.to)
                        /\ x = [patch |-> q.patch, text |-> q.text, to |-> x.to]
    OBVIOUS
  <2>3. ASSUME NEW n \in mentioned', NEW x \in mentioned', n.text = x.text, n.to = x.to
        PROVE  n = x
    <3>1. CASE n \in mentioned /\ x \in mentioned
      BY <2>3, <3>1 DEF IInv, MentionsArriveOnce
    <3>2. CASE n \in sent /\ x \in sent
      BY <2>2, <2>3, <3>2
    <3>3. CASE (n \in mentioned /\ x \in sent) \/ (n \in sent /\ x \in mentioned)
      BY <2>2, <2>3, <3>3 DEF IsSent
    <3>. QED
      BY <1>2, <3>1, <3>2, <3>3
  <2>. QED
    BY <1>2, <2>1, <2>3 DEF storyVars, MentionsArriveOnce
<1>. QED
  BY <1>6, <1>8, <1>9, <1>10, <1>11, <1>12 DEF IInv

-----------------------------------------------------------------------------
(***************************************************************************)
(* The rest of the system.                                                 *)
(***************************************************************************)

\* A step beside the requests leaves what they know and what is recorded.
LEMMA BesideRequests ==
  ASSUME IInv, UNCHANGED <<row, told, request, used, historyVars>>
  PROVE  PatchesAreFresh' /\ RequestsOK' /\ EntriesAreTrue' /\ ChangesDiffer'
<1>1. UNCHANGED <<made, mixed, writer, reached>>
  BY DEF historyVars
<1>2. PatchesAreFresh' /\ EntriesAreTrue' /\ ChangesDiffer'
  BY <1>1 DEF IInv, PatchesAreFresh, EntriesAreTrue, ChangesDiffer
<1>3. ASSUME NEW o \in Requests PROVE RequestOK(request[o])'
  <2>1. RequestOK(request[o])
    BY DEF IInv, RequestsOK
  <2>. QED
    BY <1>1, <2>1 DEF RequestOK, BeforeBatchOK, AfterBatchOK, NewsOK, UntoldOK, MentionsOK
<1>. QED
  BY <1>2, <1>3 DEF RequestsOK

LEMMA InsertOwnersKeeps ==
  ASSUME IInv, InsertOwners \/ InsertOwnersFails
  PROVE  IInv'
<1>1. /\ owners' \in {owners, owners \cup inserting} /\ inserting' = {}
      /\ UNCHANGED <<row, archived, members, gone, newsVars, request, used, historyVars>>
  BY DEF InsertOwners, InsertOwnersFails
<1>2. TypeOK' /\ NobodyReturns' /\ MentionsArriveOnce'
  BY <1>1 DEF newsVars, historyVars, IInv, TypeOK, NobodyReturns, MentionsArriveOnce
<1>. QED
  BY <1>1, <1>2, BesideRequests DEF newsVars, IInv

LEMMA DeleteAccountKeeps ==
  ASSUME IInv, NEW u \in Users, DeleteAccount(u)
  PROVE  IInv'
<1>1. /\ members' = members \ {u} /\ gone' = gone \cup {u} /\ owners' = owners \ {u}
      /\ alerts' = {n \in alerts : n[2] # u}
      /\ mentioned' = {n \in mentioned : n.to # u}
      /\ UNCHANGED <<row, inserting, archived, told, request, used, historyVars>>
  BY DEF DeleteAccount
<1>2. TypeOK'
  BY <1>1 DEF historyVars, IInv, TypeOK
<1>3. NobodyReturns'
  BY <1>1 DEF IInv, NobodyReturns
<1>4. MentionsArriveOnce'
  <2>1. UNCHANGED <<row, writer, reached>>
    BY <1>1 DEF historyVars
  <2>2. ASSUME NEW p \in writer, NEW v \in (Mentions[row["description"]] \cap reached[p]) \ gone'
        PROVE  \E x \in mentioned' : x.text = row["description"] /\ x.to = v
    <3>1. v # u /\ v \notin gone
      BY <1>1, <2>2
    <3>2. PICK x \in mentioned : x.text = row["description"] /\ x.to = v
      BY <2>2, <3>1 DEF IInv, MentionsArriveOnce
    <3>. QED
      BY <1>1, <3>1, <3>2
  <2>3. \A n, x \in mentioned' : n.text = x.text /\ n.to = x.to => n = x
    BY <1>1 DEF IInv, MentionsArriveOnce
  <2>. QED
    BY <2>1, <2>2, <2>3 DEF MentionsArriveOnce
<1>. QED
  BY <1>1, <1>2, <1>3, <1>4, BesideRequests DEF IInv

LEMMA MemberJoinsKeeps ==
  ASSUME IInv, NEW u \in Users, MemberJoins(u)
  PROVE  IInv'
<1>1. /\ u \notin members \cup gone /\ members' = members \cup {u}
      /\ UNCHANGED <<row, owners, inserting, archived, gone, newsVars, request, used, historyVars>>
  BY DEF MemberJoins
<1>2. TypeOK' /\ NobodyReturns' /\ MentionsArriveOnce'
  BY <1>1 DEF newsVars, historyVars,
     IInv, TypeOK, NobodyReturns, MentionsArriveOnce
<1>. QED
  BY <1>1, <1>2, BesideRequests DEF newsVars, IInv

LEMMA SetArchivedKeeps ==
  ASSUME IInv, SetArchived
  PROVE  IInv'
<1>1. /\ archived' = ~ archived
      /\ UNCHANGED <<row, owners, inserting, members, gone, newsVars, request, used, historyVars>>
  BY DEF SetArchived
<1>2. TypeOK' /\ NobodyReturns' /\ MentionsArriveOnce'
  BY <1>1 DEF newsVars, historyVars,
     IInv, TypeOK, NobodyReturns, MentionsArriveOnce
<1>. QED
  BY <1>1, <1>2, BesideRequests DEF newsVars, IInv

-----------------------------------------------------------------------------
(***************************************************************************)
(* The theorems.                                                           *)
(***************************************************************************)

LEMMA InitHolds == Init => IInv
<1>. SUFFICES ASSUME Init PROVE IInv
  OBVIOUS
<1>1. TypeOK
  BY IdleIsOK DEF Init, TypeOK
<1>2. PatchesAreFresh /\ NobodyReturns /\ ChangesDiffer
  BY DEF Init, PatchesAreFresh, NobodyReturns, ChangesDiffer
<1>3. RequestsOK
  BY IdleIsOK DEF Init, RequestsOK
<1>4. EntriesAreTrue /\ MentionsArriveOnce
  BY DEF Init, EntriesAreTrue, MentionsArriveOnce
<1>. QED
  BY <1>1, <1>2, <1>3, <1>4 DEF IInv

LEMMA NextKeeps == IInv /\ [Next]_vars => IInv'
<1>. SUFFICES ASSUME IInv, [Next]_vars PROVE IInv'
  OBVIOUS
<1>1. ASSUME NEW r \in Requests, RequestStep(r) PROVE IInv'
  <2>1. CASE \E p \in Patches, u \in members, set \in Edits, wish \in Wishes \cup {Keep} :
               UpdateStory(r, p, u, set, wish)
    BY <2>1, UpdateStoryKeeps
  <2>2. CASE ReadRow(r) \/ WriteStory(r) \/ ReRead(r)
    BY <2>2, ReadRowKeeps, WriteStoryKeeps, ReReadKeeps
  <2>3. CASE RecordActivities(r) \/ NotifyOwners(r) \/ ListMembers(r) \/ SendMentions(r)
    BY <2>3, RecordActivitiesKeeps, NotifyOwnersKeeps, ListMembersKeeps, SendMentionsKeeps
  <2>4. CASE RequestFails(r)
    BY <2>4, RequestFailsKeeps
  <2>. QED
    BY <1>1, <2>1, <2>2, <2>3, <2>4 DEF RequestStep
<1>2. CASE \E u \in Users : DeleteAccount(u) \/ MemberJoins(u)
  BY <1>2, DeleteAccountKeeps, MemberJoinsKeeps
<1>3. CASE SetArchived
  BY <1>3, SetArchivedKeeps
<1>4. CASE InsertOwners \/ InsertOwnersFails
  BY <1>4, InsertOwnersKeeps
<1>5. CASE UNCHANGED vars
  <2>1. UNCHANGED <<row, told, request, used, historyVars>>
    BY <1>5 DEF vars, historyVars
  <2>2. TypeOK' /\ NobodyReturns' /\ MentionsArriveOnce'
    BY <1>5 DEF vars, IInv, TypeOK, NobodyReturns, MentionsArriveOnce
  <2>. QED
    BY <2>1, <2>2, BesideRequests DEF IInv
<1>. QED
  BY <1>1, <1>2, <1>3, <1>4, <1>5 DEF Next

\* Every reachable state of an update has the invariant.
THEOREM Invariance == Spec => []IInv
BY InitHolds, NextKeeps, PTL DEF Spec

\* The story, its owners and its project, what is told, and the requests in flight
\* are of the types the tables and the calls of updateStory give them.
THEOREM TypeCorrect == Spec => []TypeOK
<1>1. IInv => TypeOK
  BY DEF IInv
<1>. QED
  BY <1>1, Invariance, PTL

\* Whatever else runs between the two reads of a PATCH, its entries are what it did but
\* for the fields others changed meanwhile, none of the rest is missing, and one
\* of the status starts from the status it replaced.
THEOREM EntriesStayTrue == Spec => []EntriesAreTrue
<1>1. IInv => EntriesAreTrue
  BY DEF IInv
<1>. QED
  BY <1>1, Invariance, PTL

\* Whoever the present description mentions and its PATCH reached has exactly one
\* notice of it, however many PATCHes sent the same text or died.
THEOREM MentionsStayOnce == Spec => []MentionsArriveOnce
<1>1. IInv => MentionsArriveOnce
  BY DEF IInv
<1>. QED
  BY <1>1, Invariance, PTL

\* A step that adds an owner adds members, or those that a creation has checked.
LEMMA StepAddsMembers ==
  ASSUME [Next]_vars
  PROVE  owners' \ owners \subseteq IF inserting' = inserting THEN members ELSE inserting
<1>1. ASSUME NEW r \in Requests, RequestStep(r)
      PROVE  owners' \subseteq owners \cup members /\ inserting' = inserting
  <2>1. CASE WriteStory(r)
    BY <2>1, OwnersAfterData DEF WriteStory
  <2>2. CASE ~ WriteStory(r)
    BY <1>1, <2>2 DEF RequestStep, UpdateStory, ReadRow, ReRead, RecordActivities,
       NotifyOwners, ListMembers, SendMentions, RequestFails, storyVars
  <2>. QED
    BY <2>1, <2>2
<1>2. ASSUME NEW u \in Users, DeleteAccount(u) \/ MemberJoins(u)
      PROVE  owners' \subseteq owners
  BY <1>2 DEF DeleteAccount, MemberJoins
<1>3. CASE InsertOwners
  BY <1>3 DEF InsertOwners
<1>4. CASE InsertOwnersFails \/ SetArchived \/ UNCHANGED vars
  BY <1>4 DEF InsertOwnersFails, SetArchived, vars
<1>. QED
  BY <1>1, <1>2, <1>3, <1>4 DEF Next

\* No step but the insert of a creation makes anybody an owner who is no member as it
\* is taken, whatever was checked and whoever left before it.
THEOREM OwnersComeFromMembers == Spec => OnlyMembersBecomeOwners
<1>1. [Next]_vars =>
        [owners' \ owners \subseteq IF inserting' = inserting THEN members ELSE inserting]_vars
  BY StepAddsMembers
<1>. QED
  BY <1>1, PTL DEF Spec, OnlyMembersBecomeOwners

\* A step that changes the row or the owners is a batch that does all of its PATCH,
\* the insert of a creation, or the deletion of an account.
LEMMA StepIsWhole ==
  ASSUME IInv, [Next]_vars, row' # row \/ owners' # owners
  PROVE  \/ \E u \in gone' \ gone : row' = row /\ owners' = owners \ {u}
         \/ inserting' # inserting /\ row' = row /\ owners' = owners \cup inserting
         \/ \E r \in Requests :
              LET q == request[r] IN
              /\ q.at = "write" /\ ~ archived
              /\ row' = Edited(row, q.set)
              /\ owners' = IF q.wish = Keep THEN owners ELSE q.wish
<1>1. ASSUME NEW r \in Requests, WriteStory(r)
      PROVE  LET q == request[r] IN
             /\ q.at = "write" /\ ~ archived
             /\ row' = Edited(row, q.set)
             /\ owners' = IF q.wish = Keep THEN owners ELSE q.wish
  <2>1. UpdatesRow(request[r])
    BY <1>1, OwnersAfterData DEF WriteStory
  <2>. QED
    BY <1>1, <2>1, OwnersAfterData DEF WriteStory, UpdatesRow, StoryUnchanged
<1>2. ASSUME NEW u \in Users, DeleteAccount(u)
      PROVE  u \in gone' \ gone /\ row' = row /\ owners' = owners \ {u}
  BY <1>2 DEF DeleteAccount, IInv, NobodyReturns
<1>3. ASSUME NEW r \in Requests, RequestStep(r)
      PROVE  WriteStory(r)
  BY <1>3 DEF RequestStep, UpdateStory, ReadRow, ReRead, RecordActivities, NotifyOwners,
     ListMembers, SendMentions, RequestFails, storyVars
<1>4. ASSUME NEW u \in Users, DeleteAccount(u) \/ MemberJoins(u)
      PROVE  DeleteAccount(u)
  BY <1>4 DEF MemberJoins
<1>5. CASE InsertOwners \/ InsertOwnersFails
  BY <1>5 DEF InsertOwners, InsertOwnersFails
<1>6. Next /\ ~ SetArchived
  BY DEF vars, SetArchived
<1>. QED
  BY <1>1, <1>2, <1>3, <1>4, <1>5, <1>6 DEF Next

\* Fields and owners of a PATCH change together or not at all, never of an archived
\* story.  Without one, only the deletion of an account takes an owner away, and only
\* the creation of the story adds any.
THEOREM EditsStayWhole == Spec => EditsApplyWhole
<1>1. IInv /\ [Next]_vars =>
        [row' # row \/ owners' # owners =>
           \/ \E u \in gone' \ gone : row' = row /\ owners' = owners \ {u}
           \/ inserting' # inserting /\ row' = row /\ owners' = owners \cup inserting
           \/ \E r \in Requests :
                LET q == request[r] IN
                /\ q.at = "write" /\ ~ archived
                /\ row' = Edited(row, q.set)
                /\ owners' = IF q.wish = Keep THEN owners ELSE q.wish]_vars
  BY StepIsWhole
<1>. QED
  BY <1>1, Invariance, PTL DEF Spec, EditsApplyWhole
=============================================================================
