--------------------------- MODULE StoryOrderProofs ---------------------------
(***************************************************************************)
(* Machine-checked proofs about StoryOrder: numbers, positions and order   *)
(* under any number of requests, stories and crashes.                      *)
(***************************************************************************)
EXTENDS StoryOrder, FiniteSetTheorems, TLAPS

(***************************************************************************)
(* The inductive invariant.                                                *)
(***************************************************************************)

HasId == {"record", "assign", "find", "remove", "close", "done"}

\* Requests know ids that were handed out; a deleted row is gone for good.
IdOK(q) ==
  /\ q.at \in HasId => q.id <= inserted
  /\ q.at = "close" => row[q.id] = Absent
  /\ q.at = "done" /\ ~q.ok => row[q.id] = Absent

\* A creation's number is one more than some story's; as long as nobody took
\* it, it is above all of them, and the room it made is still there.
CreatingOK(q) ==
  q.at \in {"shift", "insert"} =>
    /\ q.number = 1 \/ \E i \in Stories : row[i].number = q.number - 1
    /\ NumberIsFree(q.number) => \A i \in Stories : row[i].number < q.number
    /\ q.at = "insert" /\ NumberIsFree(q.number) =>
         \A i \in Stories : MakesRoom(i, q.panel) => row[i].position > 1

\* A deletion knows the position of its story, and closes a gap no story is in.
DeletingOK(q) ==
  /\ q.at = "remove" => q.id \in Stories /\ row[q.id].position = q.position
  /\ q.at = "close" => \A i \in Stories : row[i].position # q.position

\* The position story i has after the move q.
Slot(q, i) == IF i \in DOMAIN q.slots THEN q.slots[i] ELSE row[i].position

\* A reorder hands out the positions its stories have, each of them once.
MovingOK(q) ==
  q.at = "move" =>
    /\ q.listed \subseteq Stories /\ DOMAIN q.slots \subseteq q.listed
    /\ \A i \in q.listed : \E j \in q.listed : Slot(q, i) = row[j].position
    /\ \A i, j \in q.listed : /\ row[i].icebox = row[j].icebox
                              /\ Slot(q, i) = Slot(q, j) => i = j

SafeOK(q) == CreatingOK(q) /\ DeletingOK(q) /\ MovingOK(q)

\* Whoever renumbers does so alone.
Alone(r) == \A q \in Requests \ {r} : ~Creating(q) /\ ~Renumbering(q)

IdInv ==
  /\ \A i \in Stories : i <= inserted
  /\ \A r \in Requests : IdOK(request[r])

SafeInv ==
  ~tangled => \A r \in Requests : SafeOK(request[r]) /\ (Renumbering(r) => Alone(r))

IInv == TypeOK /\ IdInv /\ SafeInv /\ PanelOrderIsStrict

-----------------------------------------------------------------------------
(* The data.                                                               *)

LEMMA IdleAt == Idle.at = "idle" /\ Idle \in Request
BY DEF Idle, Request

\* The shapes of a request, by where it is.
LEMMA Shape ==
  ASSUME NEW q \in Request
  PROVE  /\ q.at \in {"idle", "shift", "insert", "record", "assign", "find", "remove", "close",
                      "move", "done"}
         /\ q.at \in {"shift", "insert"} =>
              q \in [at : {"shift", "insert"}, panel : Panels, number : 1..MaxStories]
         /\ q.at = "record" => q \in [at : {"record"}, panel : Panels, id : Ids]
         /\ q.at = "assign" => q \in [at : {"assign"}, id : Ids]
         /\ q.at = "find" => q \in [at : {"find"}, id : Ids, undo : BOOLEAN]
         /\ q.at \in {"remove", "close"} =>
              q \in [at : {"remove", "close"}, id : Ids, position : 1..MaxPosition, undo : BOOLEAN]
         /\ q.at = "move" =>
              /\ q.listed \in SUBSET Ids
              /\ q.slots \in [DOMAIN q.slots -> 1..MaxPosition] /\ DOMAIN q.slots \subseteq Ids
         /\ q.at = "done" => q \in [at : {"done"}, id : Ids, ok : BOOLEAN]
<1>1. CASE q = Idle
  BY <1>1 DEF Idle
<1>2. CASE q \in [at : {"move"}, listed : SUBSET Ids,
                  slots : UNION {[S -> 1..MaxPosition] : S \in SUBSET Ids}]
  BY <1>2
<1>. QED
  BY <1>1, <1>2 DEF Request

LEMMA RowType ==
  ASSUME TypeOK, NEW i \in Stories
  PROVE  /\ i \in Ids /\ i \in Nat /\ row[i] \in Row
         /\ row[i].number \in 1..MaxStories /\ row[i].number \in Nat
         /\ row[i].position \in 1..MaxPosition /\ row[i].position \in Nat
         /\ row[i].icebox \in BOOLEAN
BY OrderAssumption DEF Stories, TypeOK, Row, Ids

LEMMA IsRow == ASSUME NEW x \in Row PROVE x # Absent
BY OrderAssumption DEF Row

\* A step moves one request; the others must stand what it does to the rows.
LEMMA RequestMoves ==
  ASSUME IInv, NEW r \in Requests, NEW q \in Request, Proceed(r, q),
         row' \in [Ids -> Row \cup {Absent}], inserted' \in 0..MaxStories, inserted <= inserted',
         tangled' \in BOOLEAN, tangled => tangled',
         \A i \in Stories' : i <= inserted',
         IdOK(q)', \A i \in Ids : i <= inserted /\ row[i] = Absent => row'[i] = Absent,
         ~tangled' => SafeOK(q)',
         \A o \in Requests \ {r}, p \in Request :
           p = request[o] /\ ~tangled' /\ SafeOK(p) => SafeOK(p)',
         ~tangled' /\ q.at \in {"remove", "close", "move"} =>
           \A o \in Requests \ {r} : ~Creating(o) /\ ~Renumbering(o),
         ~tangled' /\ q.at \in {"shift", "insert"} =>
           \A o \in Requests \ {r} : ~Renumbering(o)
  PROVE  TypeOK' /\ IdInv' /\ SafeInv'
<1>1. /\ request \in [Requests -> Request] /\ request' \in [Requests -> Request]
      /\ request'[r] = q /\ \A o \in Requests \ {r} : request'[o] = request[o]
  BY DEF IInv, TypeOK, Proceed
<1>2. TypeOK'
  BY <1>1 DEF TypeOK
<1>3. ASSUME NEW o \in Requests, o # r PROVE IdOK(request[o])'
  <2>1. PICK p \in Request : p = request[o] /\ IdOK(p)
    BY <1>1 DEF IInv, IdInv
  <2>2. p.at \in HasId => p.id \in Ids
    BY <2>1, Shape DEF HasId
  <2>3. IdOK(p)'
    BY <2>1, <2>2, OrderAssumption DEF IdOK, HasId, Ids, IInv, TypeOK
  <2>. QED
    BY <1>1, <1>3, <2>1, <2>3
<1>4. IdOK(request[r])'
  BY <1>1
<1>5. IdInv'
  BY <1>3, <1>4 DEF IdInv
<1>6. ASSUME ~tangled', NEW o \in Requests PROVE SafeOK(request[o])'
  <2>1. CASE o = r
    BY <1>1, <1>6, <2>1
  <2>2. CASE o # r
    <3>1. PICK p \in Request : p = request[o] /\ SafeOK(p)
      BY <1>1, <1>6 DEF IInv, SafeInv
    <3>2. SafeOK(p)' /\ request'[o] = p
      BY <1>1, <1>6, <2>2, <3>1
    <3>. QED
      BY <3>2
  <2>. QED
    BY <2>1, <2>2
<1>7. ASSUME ~tangled', NEW o \in Requests, Renumbering(o)' PROVE Alone(o)'
  <2>1. CASE o = r
    BY <1>1, <1>7, <2>1 DEF Alone, Creating, Renumbering
  <2>2. CASE o # r
    <3>1. Renumbering(o) /\ Alone(o)
      BY <1>1, <1>7, <2>2 DEF IInv, SafeInv, Renumbering
    <3>. QED
      BY <1>1, <1>7, <2>2, <3>1 DEF Alone, Creating, Renumbering
  <2>. QED
    BY <2>1, <2>2
<1>8. SafeInv'
  BY <1>6, <1>7 DEF SafeInv
<1>. QED
  BY <1>2, <1>5, <1>8

\* A step that moves a request and writes no row.
LEMMA NothingWritten ==
  ASSUME IInv, NEW r \in Requests, NEW q \in Request, Proceed(r, q), UNCHANGED <<row, inserted>>,
         tangled' \in BOOLEAN, tangled => tangled', IdOK(q), ~tangled' => SafeOK(q),
         ~tangled' /\ q.at \in {"remove", "close", "move"} =>
           \A o \in Requests \ {r} : ~Creating(o) /\ ~Renumbering(o),
         ~tangled' /\ q.at \in {"shift", "insert"} =>
           \A o \in Requests \ {r} : ~Renumbering(o)
  PROVE  IInv'
<1>1. /\ row' \in [Ids -> Row \cup {Absent}] /\ inserted' \in 0..MaxStories /\ inserted <= inserted'
      /\ \A i \in Stories' : i <= inserted'
  BY OrderAssumption DEF IInv, TypeOK, IdInv, Stories
<1>2. IdOK(q)'
  BY DEF IdOK
<1>3. \A p \in Request : SafeOK(p)' <=> SafeOK(p)
  BY DEF SafeOK, CreatingOK, DeletingOK, MovingOK, Slot, Stories, NumberIsFree, MakesRoom
<1>4. TypeOK' /\ IdInv' /\ SafeInv'
  BY <1>1, <1>2, <1>3, RequestMoves
<1>5. PanelOrderIsStrict'
  BY DEF IInv, PanelOrderIsStrict, InPanel, Stories
<1>. QED
  BY <1>4, <1>5 DEF IInv

THEOREM InitInv == Init => IInv
<1>. SUFFICES ASSUME Init PROVE IInv
  OBVIOUS
<1>1. \A r \in Requests : request[r].at = "idle" /\ request[r] \in Request
  BY IdleAt DEF Init
<1>2. Stories = {} /\ row \in [Ids -> Row \cup {Absent}] /\ inserted \in 0..MaxStories
  BY OrderAssumption DEF Init, Stories
<1>3. TypeOK
  BY <1>1, <1>2 DEF Init, TypeOK
<1>4. IdInv
  BY <1>1, <1>2 DEF IdInv, IdOK, HasId
<1>5. SafeInv
  BY <1>1 DEF SafeInv, SafeOK, CreatingOK, DeletingOK, MovingOK, Renumbering
<1>6. PanelOrderIsStrict
  BY <1>2 DEF PanelOrderIsStrict, InPanel
<1>. QED
  BY <1>3, <1>4, <1>5, <1>6 DEF IInv

-----------------------------------------------------------------------------
(* The steps that read.                                                    *)

LEMMA ReadMaxNumberKeeps ==
  ASSUME IInv, NEW r \in Requests, NEW panel \in Panels, ReadMaxNumber(r, panel) PROVE IInv'
<1>1. PICK n \in 1..MaxStories :
        NextNumber(n) /\ Proceed(r, [at |-> "shift", panel |-> panel, number |-> n])
  BY DEF ReadMaxNumber
<1>2. PICK q \in Request : q = [at |-> "shift", panel |-> panel, number |-> n]
  BY DEF Request
<1>3. q.at = "shift" /\ q.number = n /\ q.panel = panel
  BY <1>2
<1>4. IdOK(q) /\ SafeOK(q)
  BY <1>1, <1>3 DEF IdOK, HasId, SafeOK, CreatingOK, DeletingOK, MovingOK, NextNumber
<1>5. /\ UNCHANGED <<row, inserted>> /\ tangled' = (tangled \/ MeetsRenumbering(r))
  BY DEF ReadMaxNumber, Tangle
<1>6. ~tangled' => \A o \in Requests \ {r} : ~Renumbering(o)
  BY <1>5 DEF MeetsRenumbering
<1>7. tangled' \in BOOLEAN /\ (tangled => tangled')
  BY <1>5 DEF IInv, TypeOK, MeetsRenumbering
<1>. QED
  BY <1>1, <1>2, <1>3, <1>4, <1>5, <1>6, <1>7, NothingWritten

\* Requests that are not between a read and a write of positions.
LEMMA QuietKeeps ==
  ASSUME IInv, NEW r \in Requests, NEW q \in Request, Proceed(r, q),
         q.at \in {"idle", "record", "assign", "find", "done"}, IdOK(q),
         UNCHANGED <<row, inserted, tangled>>
  PROVE  IInv'
<1>1. SafeOK(q)
  BY DEF SafeOK, CreatingOK, DeletingOK, MovingOK
<1>2. tangled' \in BOOLEAN
  BY DEF IInv, TypeOK
<1>. QED
  BY <1>1, <1>2, NothingWritten

LEMMA RecordCreatedKeeps == ASSUME IInv, NEW r \in Requests, RecordCreated(r) PROVE IInv'
<1>1. /\ request[r].at = "record" /\ request[r] \in Request /\ IdOK(request[r])
  BY DEF RecordCreated, IInv, TypeOK, IdInv
<1>2. request[r].id \in Ids /\ request[r].id <= inserted
  BY <1>1, Shape DEF IdOK, HasId
<1>3. PICK q \in Request : q = [at |-> "assign", id |-> request[r].id]
  BY <1>2 DEF Request
<1>4. q.at = "assign" /\ IdOK(q)
  BY <1>2, <1>3 DEF IdOK, HasId
<1>5. IdOK(Idle)
  BY IdleAt DEF IdOK, HasId
<1>6. Proceed(r, q) \/ Proceed(r, Idle)
  BY <1>3 DEF RecordCreated
<1>. QED
  BY <1>3, <1>4, <1>5, <1>6, IdleAt, QuietKeeps DEF RecordCreated

LEMMA AssignStoryFailsKeeps == ASSUME IInv, NEW r \in Requests, AssignStoryFails(r) PROVE IInv'
<1>1. /\ request[r].at = "assign" /\ request[r] \in Request /\ IdOK(request[r])
  BY DEF AssignStoryFails, IInv, TypeOK, IdInv
<1>2. request[r].id \in Ids /\ request[r].id <= inserted
  BY <1>1, Shape DEF IdOK, HasId
<1>3. PICK q \in Request : q = [at |-> "find", id |-> request[r].id, undo |-> TRUE]
  BY <1>2 DEF Request
<1>4. q.at = "find" /\ IdOK(q)
  BY <1>2, <1>3 DEF IdOK, HasId
<1>. QED
  BY <1>3, <1>4, QuietKeeps DEF AssignStoryFails

LEMMA DeleteStoryKeeps ==
  ASSUME IInv, NEW r \in Requests, NEW i \in Ids, DeleteStory(r, i) PROVE IInv'
<1>1. PICK q \in Request : q = [at |-> "find", id |-> i, undo |-> FALSE]
  BY DEF Request
<1>2. q.at = "find" /\ IdOK(q)
  BY <1>1 DEF IdOK, HasId, DeleteStory, IInv, IdInv
<1>. QED
  BY <1>1, <1>2, QuietKeeps DEF DeleteStory

LEMMA RequestFailsKeeps == ASSUME IInv, NEW r \in Requests, RequestFails(r) PROVE IInv'
BY IdleAt, QuietKeeps DEF RequestFails, IdOK, HasId

LEMMA FindPositionKeeps == ASSUME IInv, NEW r \in Requests, FindPosition(r) PROVE IInv'
<1>1. /\ request[r].at = "find" /\ request[r] \in Request /\ IdOK(request[r])
      /\ request[r].id \in Stories
  BY DEF FindPosition, IInv, TypeOK, IdInv
<1>2. request[r].id \in Ids /\ request[r].id <= inserted /\ request[r].undo \in BOOLEAN
  BY <1>1, Shape DEF IdOK, HasId
<1>3. row[request[r].id].position \in 1..MaxPosition
  BY <1>1, RowType DEF IInv
<1>4. PICK q \in Request : q = [at |-> "remove", id |-> request[r].id,
                                position |-> row[request[r].id].position, undo |-> request[r].undo]
  BY <1>2, <1>3 DEF Request
<1>5. q.at = "remove" /\ q.id = request[r].id /\ q.position = row[request[r].id].position
  BY <1>4
<1>6. IdOK(q) /\ SafeOK(q)
  BY <1>1, <1>2, <1>5 DEF IdOK, HasId, SafeOK, CreatingOK, DeletingOK, MovingOK
<1>7. /\ UNCHANGED <<row, inserted>> /\ Proceed(r, q)
      /\ tangled' = (tangled \/ (MeetsCreation(r) \/ MeetsRenumbering(r)))
  BY <1>4 DEF FindPosition, Tangle
<1>8. ~tangled' => \A o \in Requests \ {r} : ~Creating(o) /\ ~Renumbering(o)
  BY <1>7 DEF MeetsCreation, MeetsRenumbering
<1>9. tangled' \in BOOLEAN /\ (tangled => tangled')
  BY <1>7 DEF IInv, TypeOK, MeetsCreation, MeetsRenumbering
<1>. QED
  BY <1>5, <1>6, <1>7, <1>8, <1>9, NothingWritten

\* The slots are the positions that were read, each as often as it was read.
LEMMA ReadOrderKeeps ==
  ASSUME IInv, NEW r \in Requests, NEW S \in SUBSET Ids, ReadOrder(r, S) PROVE IInv'
<1>1. PICK slots \in [S -> {row[i].position : i \in S}] :
        LET moved == {i \in S : slots[i] # row[i].position} IN
        /\ Permuted(slots, S)
        /\ Proceed(r, [at |-> "move", listed |-> S, slots |-> [i \in moved |-> slots[i]]])
  BY DEF ReadOrder
<1>. DEFINE moved == {i \in S : slots[i] # row[i].position}
<1>2. S \subseteq Stories /\ UNCHANGED <<row, inserted>>
      /\ tangled' = (tangled \/ (MeetsCreation(r) \/ MeetsRenumbering(r)
                                 \/ \E i, j \in S : row[i].icebox # row[j].icebox))
  BY DEF ReadOrder, Tangle
<1>3. \A i \in S : slots[i] \in 1..MaxPosition
  BY <1>1, <1>2, RowType DEF IInv
<1>4. PICK q \in Request : q = [at |-> "move", listed |-> S, slots |-> [i \in moved |-> slots[i]]]
  <2>1. moved \in SUBSET Ids /\ [i \in moved |-> slots[i]] \in [moved -> 1..MaxPosition]
    BY <1>3
  <2>. HIDE DEF moved
  <2>. QED
    BY <2>1 DEF Request
<1>5. q.at = "move" /\ q.listed = S /\ DOMAIN q.slots = moved /\ \A i \in moved : q.slots[i] = slots[i]
  BY <1>4
<1>6. \A i \in S : Slot(q, i) = slots[i]
  BY <1>5 DEF Slot
<1>7. ASSUME ~tangled', NEW i \in S, NEW j \in S, slots[i] = slots[j] PROVE i = j
  <2>. DEFINE p == slots[i]
              G == {x \in S : slots[x] = p}
              H == {x \in S : row[x].position = p}
  <2>1. PICK k \in S : p = row[k].position
    BY <1>1
  <2>2. \A x \in S : row[x].position = p => x = k
    <3>1. ~tangled /\ \A x \in S : row[x].icebox = row[k].icebox
      BY <1>2, <1>7
    <3>2. row[k].icebox \in BOOLEAN
      BY <1>2, RowType DEF IInv
    <3>. QED
      BY <1>2, <2>1, <3>1, <3>2 DEF IInv, PanelOrderIsStrict, InPanel
  <2>3. H = {k}
    BY <2>1, <2>2
  <2>4. Cardinality(H) = 1
    BY <2>3, FS_Singleton
  <2>5. Cardinality(G) = 1
    BY <1>1, <1>3, <2>4 DEF Permuted
  <2>6. IsFiniteSet(G)
    <3>1. IsFiniteSet(Ids)
      BY OrderAssumption, FS_Interval DEF Ids
    <3>. QED
      BY <3>1, FS_Subset
  <2>7. \E x : G = {x}
    BY <2>5, <2>6, FS_Singleton
  <2>8. i \in G /\ j \in G
    BY <1>7
  <2>. QED
    BY <2>7, <2>8
<1>8. ~tangled' => SafeOK(q)
  <2>. SUFFICES ASSUME ~tangled' PROVE MovingOK(q)
    BY <1>5 DEF SafeOK, CreatingOK, DeletingOK
  <2>1. \A i \in S : \E j \in S : Slot(q, i) = row[j].position
    BY <1>1, <1>6
  <2>2. ASSUME NEW i \in S, NEW j \in S
        PROVE  row[i].icebox = row[j].icebox /\ (Slot(q, i) = Slot(q, j) => i = j)
    <3>1. row[i].icebox = row[j].icebox
      BY <1>2
    <3>2. Slot(q, i) = Slot(q, j) => i = j
      BY <1>6, <1>7
    <3>. QED
      BY <3>1, <3>2
  <2>. QED
    BY <1>2, <1>5, <2>1, <2>2 DEF MovingOK
<1>9. IdOK(q)
  BY <1>5 DEF IdOK, HasId
<1>10. ~tangled' => \A o \in Requests \ {r} : ~Creating(o) /\ ~Renumbering(o)
  BY <1>2 DEF MeetsCreation, MeetsRenumbering
<1>11. tangled' \in BOOLEAN /\ (tangled => tangled')
  BY <1>2 DEF IInv, TypeOK, MeetsCreation, MeetsRenumbering
<1>. QED
  BY <1>1, <1>2, <1>4, <1>5, <1>8, <1>9, <1>10, <1>11, NothingWritten

-----------------------------------------------------------------------------
(* The steps that write rows.                                              *)

\* A step that moves no request.
LEMMA RowsMove ==
  ASSUME IInv, UNCHANGED <<request, inserted>>, row' \in [Ids -> Row \cup {Absent}],
         Stories' = Stories, tangled' \in BOOLEAN, tangled => tangled',
         \A o \in Requests, p \in Request :
           p = request[o] /\ ~tangled' /\ SafeOK(p) => SafeOK(p)'
  PROVE  TypeOK' /\ IdInv' /\ SafeInv'
<1>1. request \in [Requests -> Request]
  BY DEF IInv, TypeOK
<1>2. TypeOK'
  BY DEF IInv, TypeOK
<1>3. ASSUME NEW o \in Requests PROVE IdOK(request[o])'
  <2>1. PICK p \in Request : p = request[o] /\ IdOK(p)
    BY <1>1 DEF IInv, IdInv
  <2>2. \A i \in Ids : row[i] = Absent => row'[i] = Absent
    BY DEF Stories
  <2>3. p.at \in HasId => p.id \in Ids
    BY Shape DEF HasId
  <2>4. IdOK(p)'
    BY <2>1, <2>2, <2>3 DEF IdOK, HasId
  <2>. QED
    BY <2>1, <2>4
<1>4. ASSUME ~tangled', NEW o \in Requests PROVE SafeOK(request[o])'
  <2>1. PICK p \in Request : p = request[o] /\ SafeOK(p)
    BY <1>1, <1>4 DEF IInv, SafeInv
  <2>2. SafeOK(p)'
    BY <1>4, <2>1
  <2>. QED
    BY <2>1, <2>2
<1>5. SafeInv'
  BY <1>4 DEF IInv, SafeInv, Alone, Creating, Renumbering
<1>. QED
  BY <1>2, <1>3, <1>5 DEF IInv, IdInv

\* What a request needs of the rows.
LEMMA RowsKept ==
  ASSUME TypeOK, Stories' = Stories, NEW p \in Request, SafeOK(p),
         \A i \in Stories : row'[i].number = row[i].number /\ row'[i].position = row[i].position,
         \/ \A i \in Stories : row'[i].icebox = row[i].icebox
         \/ p.at \notin {"shift", "insert", "move"}
  PROVE  SafeOK(p)'
<1>1. CreatingOK(p)'
  BY DEF SafeOK, CreatingOK, NumberIsFree, MakesRoom
<1>2. DeletingOK(p)'
  BY DEF SafeOK, DeletingOK
<1>3. MovingOK(p)'
  BY DEF SafeOK, MovingOK, Slot
<1>. QED
  BY <1>1, <1>2, <1>3 DEF SafeOK

LEMMA SetArchivedKeeps == ASSUME IInv, NEW i \in Ids, SetArchived(i) PROVE IInv'
<1>1. /\ i \in Stories /\ row' = [row EXCEPT ![i] = [row[i] EXCEPT !.archived = ~@]]
      /\ UNCHANGED <<inserted, request, tangled>>
  BY DEF SetArchived
<1>2. row[i] \in Row /\ row \in [Ids -> Row \cup {Absent}]
  BY <1>1, RowType DEF IInv, TypeOK
<1>3. row'[i] = [row[i] EXCEPT !.archived = ~@] /\ \A j \in Ids \ {i} : row'[j] = row[j]
  BY <1>1, <1>2
<1>4. row'[i] \in Row /\ row'[i].number = row[i].number /\ row'[i].position = row[i].position
      /\ row'[i].icebox = row[i].icebox
  BY <1>2, <1>3 DEF Row
<1>5. row' \in [Ids -> Row \cup {Absent}]
  BY <1>1, <1>2, <1>4
<1>6. Stories' = Stories
  BY <1>1, <1>3, <1>4, IsRow DEF Stories
<1>7. \A j \in Stories : row'[j].number = row[j].number /\ row'[j].position = row[j].position
                         /\ row'[j].icebox = row[j].icebox
  BY <1>3, <1>4 DEF Stories
<1>8. TypeOK' /\ IdInv' /\ SafeInv'
  BY <1>1, <1>5, <1>6, <1>7, RowsMove, RowsKept DEF IInv, TypeOK
<1>9. PanelOrderIsStrict'
  BY <1>1, <1>6, <1>7 DEF IInv, PanelOrderIsStrict, InPanel
<1>. QED
  BY <1>8, <1>9 DEF IInv

\* A story changes panel without tangling anything: nobody counts on the panel
\* it leaves or enters, and its position is free there.
LEMMA PanelChanges ==
  ASSUME IInv, NEW i \in Stories, NEW icebox \in BOOLEAN,
         row' = [row EXCEPT ![i] = [row[i] EXCEPT !.icebox = icebox]],
         ~tangled', tangled => tangled', row[i].icebox # icebox => ~LandsBadly(i)
  PROVE  PanelOrderIsStrict'
<1>1. row[i] \in Row /\ row \in [Ids -> Row \cup {Absent}] /\ i \in Ids
  BY RowType DEF IInv, TypeOK
<1>2. row'[i] = [row[i] EXCEPT !.icebox = icebox] /\ \A j \in Ids \ {i} : row'[j] = row[j]
  BY <1>1
<1>3. row'[i] \in Row /\ row'[i].position = row[i].position /\ row'[i].icebox = icebox
  BY <1>1, <1>2 DEF Row
<1>4. Stories' = Stories
  BY <1>1, <1>2, <1>3, IsRow DEF Stories
<1>5. \A j \in Stories \ {i} : row'[j] = row[j]
  BY <1>2 DEF Stories
<1>6. ASSUME NEW j \in Stories, j # i, row[j].icebox = icebox
      PROVE  row[j].position # row[i].position
  <2>1. CASE row[i].icebox = icebox
    BY <1>6, <2>1 DEF IInv, PanelOrderIsStrict, InPanel
  <2>2. CASE row[i].icebox # icebox
    <3>1. row[i].icebox \in BOOLEAN /\ icebox = ~row[i].icebox
      BY <2>2, RowType DEF IInv
    <3>2. j \in InPanel(~row[i].icebox)
      BY <1>6, <3>1 DEF InPanel
    <3>. QED
      BY <2>2, <3>2 DEF LandsBadly
  <2>. QED
    BY <2>1, <2>2
<1>7. ASSUME NEW b \in BOOLEAN, NEW x \in InPanel(b)', NEW y \in InPanel(b)',
             row'[x].position = row'[y].position
      PROVE  x = y
  <2>1. x \in Stories /\ y \in Stories /\ row'[x].icebox = b /\ row'[y].icebox = b
    BY <1>4, <1>7 DEF InPanel
  <2>2. CASE x # i /\ y # i
    BY <1>5, <1>7, <2>1, <2>2 DEF IInv, PanelOrderIsStrict, InPanel
  <2>3. CASE x = i /\ y # i
    BY <1>3, <1>5, <1>6, <1>7, <2>1, <2>3
  <2>4. CASE y = i /\ x # i
    BY <1>3, <1>5, <1>6, <1>7, <2>1, <2>4
  <2>. QED
    BY <2>2, <2>3, <2>4
<1>. QED
  BY <1>7 DEF PanelOrderIsStrict

LEMMA PanelRows ==
  ASSUME IInv, NEW i \in Stories, NEW icebox \in BOOLEAN,
         row' = [row EXCEPT ![i] = [row[i] EXCEPT !.icebox = icebox]]
  PROVE  /\ row' \in [Ids -> Row \cup {Absent}] /\ Stories' = Stories
         /\ \A j \in Ids : row[j] = Absent => row'[j] = Absent
         /\ \A j \in Stories : row'[j].number = row[j].number
                               /\ row'[j].position = row[j].position
         /\ row[i].icebox = icebox => \A j \in Stories : row'[j].icebox = row[j].icebox
<1>1. row[i] \in Row /\ row \in [Ids -> Row \cup {Absent}] /\ i \in Ids
  BY RowType DEF IInv, TypeOK
<1>2. row'[i] = [row[i] EXCEPT !.icebox = icebox] /\ \A j \in Ids \ {i} : row'[j] = row[j]
  BY <1>1
<1>3. row'[i] \in Row /\ row'[i].position = row[i].position /\ row'[i].icebox = icebox
      /\ row'[i].number = row[i].number
  BY <1>1, <1>2 DEF Row
<1>4. Stories' = Stories
  BY <1>1, <1>2, <1>3, IsRow DEF Stories
<1>5. row' \in [Ids -> Row \cup {Absent}]
  BY <1>1, <1>3
<1>. QED
  BY <1>2, <1>3, <1>4, <1>5 DEF Stories

LEMMA ChangePanelKeeps == ASSUME IInv, NEW i \in Ids, ChangePanel(i) PROVE IInv'
<1>1. i \in Stories /\ UNCHANGED <<inserted, request>> /\ tangled' = (tangled \/ LandsBadly(i))
  BY DEF ChangePanel, Tangle
<1>2. PICK icebox \in BOOLEAN : icebox = ~row[i].icebox
  OBVIOUS
<1>3. row' = [row EXCEPT ![i] = [row[i] EXCEPT !.icebox = icebox]]
  BY <1>2 DEF ChangePanel
<1>4. tangled' \in BOOLEAN /\ (tangled => tangled')
  BY <1>1 DEF IInv, TypeOK, LandsBadly
<1>5. ASSUME NEW o \in Requests, NEW p \in Request, p = request[o], ~tangled', SafeOK(p)
      PROVE  SafeOK(p)'
  <2>1. p.at \notin {"shift", "insert", "move"}
    BY <1>1, <1>5 DEF LandsBadly, Creating
  <2>. QED
    BY <1>1, <1>3, <1>5, <2>1, PanelRows, RowsKept DEF IInv
<1>6. TypeOK' /\ IdInv' /\ SafeInv'
  BY <1>1, <1>3, <1>4, <1>5, PanelRows, RowsMove
<1>7. PanelOrderIsStrict'
  <2>1. CASE tangled'
    BY <2>1 DEF PanelOrderIsStrict
  <2>2. CASE ~tangled'
    BY <1>1, <1>3, <1>4, <2>2, PanelChanges
  <2>. QED
    BY <2>1, <2>2
<1>. QED
  BY <1>6, <1>7 DEF IInv

\* A story goes to the top: what it does to the rows.
LEMMA TopRows ==
  ASSUME IInv, NEW i \in Ids, MoveToTop(i)
  PROVE  /\ i \in Stories /\ row' \in [Ids -> Row \cup {Absent}] /\ Stories' = Stories
         /\ row'[i].position = 1 /\ row'[i].icebox = FALSE /\ row[i].icebox = TRUE
         /\ row'[i].number = row[i].number
         /\ \A j \in Stories : j # i =>
              /\ row'[j].number = row[j].number /\ row'[j].icebox = row[j].icebox
              /\ row'[j].position = row[j].position + 1
<1>1. i \in Stories /\ row[i].icebox /\ \A j \in Stories \ {i} : row[j].position < MaxPosition
  BY DEF MoveToTop
<1>2. row' = [j \in Ids |->
        IF j = i THEN [row[j] EXCEPT !.icebox = FALSE, !.position = 1]
        ELSE IF j \in Stories THEN [row[j] EXCEPT !.position = row[j].position + 1]
        ELSE row[j]]
  BY DEF MoveToTop
<1>3. row[i] \in Row /\ row \in [Ids -> Row \cup {Absent}] /\ row[i].icebox = TRUE
  BY <1>1, RowType DEF IInv, TypeOK
<1>4. row'[i] = [row[i] EXCEPT !.icebox = FALSE, !.position = 1]
  BY <1>2
<1>5. /\ row'[i] \in Row /\ row'[i].position = 1 /\ row'[i].icebox = FALSE
      /\ row'[i].number = row[i].number
  <2>1. 1 \in 1..MaxPosition
    BY OrderAssumption
  <2>. QED
    BY <1>3, <1>4, <2>1 DEF Row
<1>6. ASSUME NEW j \in Stories, j # i
      PROVE  /\ row'[j] \in Row /\ row'[j].position = row[j].position + 1
             /\ row'[j].number = row[j].number /\ row'[j].icebox = row[j].icebox
  <2>1. row[j] \in Row /\ j \in Ids /\ row[j].position \in Nat /\ row[j].position < MaxPosition
    BY <1>1, <1>6, RowType DEF IInv
  <2>2. row'[j] = [row[j] EXCEPT !.position = row[j].position + 1]
    BY <1>2, <1>6, <2>1
  <2>3. row[j].position + 1 \in 1..MaxPosition
    BY <2>1, OrderAssumption
  <2>. QED
    BY <2>1, <2>2, <2>3 DEF Row
<1>7. ASSUME NEW j \in Ids, j \notin Stories PROVE row'[j] = row[j] /\ row[j] = Absent
  BY <1>1, <1>2, <1>7 DEF Stories
<1>8. row' \in [Ids -> Row \cup {Absent}]
  <2>1. \A j \in Ids : row'[j] \in Row \cup {Absent}
    BY <1>5, <1>6, <1>7
  <2>. QED
    BY <1>2, <2>1
<1>9. Stories' = Stories
  <2>1. \A j \in Ids : j \in Stories => row'[j] # Absent
    BY <1>5, <1>6, IsRow
  <2>. QED
    BY <1>7, <2>1 DEF Stories
<1>. QED
  BY <1>1, <1>3, <1>5, <1>6, <1>8, <1>9

\* Whoever counts on positions has taken others than the top.
LEMMA MoveToTopKeeps == ASSUME IInv, NEW i \in Ids, MoveToTop(i) PROVE IInv'
<1>1. UNCHANGED <<inserted, request>> /\ tangled' = (tangled \/ TopIsTaken)
  BY DEF MoveToTop, Tangle
<1>2. tangled' \in BOOLEAN /\ (tangled => tangled')
  BY <1>1 DEF IInv, TypeOK, TopIsTaken
<1>3. ASSUME NEW o \in Requests, NEW p \in Request, p = request[o], ~tangled', SafeOK(p)
      PROVE  SafeOK(p)'
  <2>1. p.at \notin {"remove", "close", "move"} /\ (p.at = "insert" => p.panel = "icebox")
    BY <1>1, <1>3 DEF TopIsTaken, Renumbering
  <2>2. CreatingOK(p)'
    <3>1. \A j \in Stories : row'[j].number = row[j].number
      BY TopRows
    <3>2. ASSUME p.at = "insert", NumberIsFree(p.number), NEW j \in Stories,
                 MakesRoom(j, p.panel)'
          PROVE  row'[j].position > 1
      <4>1. j # i
        BY <2>1, <3>2, TopRows DEF MakesRoom
      <4>2. row'[j].position = row[j].position + 1 /\ row[j].position \in 1..MaxPosition
        BY <3>2, <4>1, TopRows, RowType DEF IInv
      <4>. QED
        BY <4>2, OrderAssumption
    <3>3. Stories' = Stories
      BY TopRows
    <3>. QED
      BY <1>3, <3>1, <3>2, <3>3 DEF SafeOK, CreatingOK, NumberIsFree
  <2>. QED
    BY <2>1, <2>2 DEF SafeOK, DeletingOK, MovingOK
<1>4. TypeOK' /\ IdInv' /\ SafeInv'
  BY <1>1, <1>2, <1>3, TopRows, RowsMove
<1>5. ASSUME ~tangled', NEW b \in BOOLEAN, NEW x \in InPanel(b)', NEW y \in InPanel(b)',
             row'[x].position = row'[y].position
      PROVE  x = y
  <2>1. x \in Stories /\ y \in Stories /\ row'[x].icebox = b /\ row'[y].icebox = b
    BY <1>5, TopRows DEF InPanel
  <2>2. row[x].position \in 1..MaxPosition /\ row[y].position \in 1..MaxPosition
    BY <2>1, RowType DEF IInv
  <2>3. CASE x # i /\ y # i
    <3>1. /\ row[x].icebox = b /\ row[y].icebox = b
          /\ row[x].position + 1 = row[y].position + 1
      BY <1>5, <2>1, <2>3, TopRows
    <3>2. row[x].position = row[y].position
      BY <2>2, <3>1
    <3>. QED
      BY <1>2, <1>5, <2>1, <3>1, <3>2 DEF IInv, PanelOrderIsStrict, InPanel
  <2>4. ASSUME NEW j \in Stories, j # i PROVE row'[j].position # row'[i].position
    <3>1. row'[j].position = row[j].position + 1 /\ row'[i].position = 1
      BY <2>4, TopRows
    <3>2. row[j].position \in 1..MaxPosition
      BY <2>4, RowType DEF IInv
    <3>. QED
      BY <3>1, <3>2, OrderAssumption
  <2>5. CASE x = i \/ y = i
    BY <1>5, <2>1, <2>4, <2>5
  <2>. QED
    BY <2>3, <2>5
<1>6. PanelOrderIsStrict'
  BY <1>5 DEF PanelOrderIsStrict
<1>. QED
  BY <1>4, <1>6 DEF IInv

LEMMA AssignStoryKeeps == ASSUME IInv, NEW r \in Requests, AssignStory(r) PROVE IInv'
<1>1. PICK i \in Ids : i = request[r].id
  BY Shape DEF AssignStory, IInv, TypeOK
<1>2. /\ i \in Stories /\ UNCHANGED inserted /\ request[r].at = "assign"
      /\ tangled' = (tangled \/ (row[i].icebox /\ LandsBadly(i)))
      /\ Proceed(r, [at |-> "done", id |-> i, ok |-> TRUE])
      /\ row' = [row EXCEPT ![i] = [row[i] EXCEPT !.icebox = FALSE]]
  BY <1>1 DEF AssignStory, Tangle
<1>3. row[i].icebox \in BOOLEAN /\ i <= inserted
  BY <1>2, RowType DEF IInv, IdInv
<1>4. tangled' \in BOOLEAN /\ (tangled => tangled')
  BY <1>2, <1>3 DEF IInv, TypeOK, LandsBadly
<1>5. PICK q \in Request : q = [at |-> "done", id |-> i, ok |-> TRUE]
  BY DEF Request
<1>6. q.at = "done" /\ q.id = i /\ q.ok = TRUE
  BY <1>5
<1>7. IdOK(q)' /\ SafeOK(q)'
  BY <1>2, <1>3, <1>6 DEF IdOK, HasId, SafeOK, CreatingOK, DeletingOK, MovingOK
<1>8. ASSUME NEW o \in Requests, NEW p \in Request, p = request[o], ~tangled', SafeOK(p)
      PROVE  SafeOK(p)'
  <2>1. row[i].icebox => p.at \notin {"shift", "insert", "move"}
    BY <1>2, <1>8 DEF LandsBadly, Creating
  <2>2. CASE row[i].icebox
    BY <1>2, <1>8, <2>1, <2>2, PanelRows, RowsKept DEF IInv
  <2>3. CASE row[i].icebox = FALSE
    BY <1>2, <1>8, <2>3, PanelRows, RowsKept DEF IInv
  <2>. QED
    BY <1>3, <2>2, <2>3
<1>9. TypeOK' /\ IdInv' /\ SafeInv'
  <2>1. /\ row' \in [Ids -> Row \cup {Absent}] /\ Stories' = Stories
        /\ \A j \in Ids : row[j] = Absent => row'[j] = Absent
    BY <1>2, PanelRows
  <2>2. inserted' \in 0..MaxStories /\ inserted <= inserted' /\ \A j \in Stories' : j <= inserted'
    BY <1>2, <2>1, OrderAssumption DEF IInv, TypeOK, IdInv
  <2>. QED
    BY <1>2, <1>4, <1>5, <1>6, <1>7, <1>8, <2>1, <2>2, RequestMoves
<1>10. PanelOrderIsStrict'
  <2>1. CASE tangled'
    BY <2>1 DEF PanelOrderIsStrict
  <2>2. CASE ~tangled'
    <3>1. row[i].icebox # FALSE => ~LandsBadly(i)
      BY <1>2, <1>3, <2>2
    <3>. QED
      BY <1>2, <1>4, <2>2, <3>1, PanelChanges
  <2>. QED
    BY <2>1, <2>2
<1>. QED
  BY <1>9, <1>10 DEF IInv

\* Nobody else counts on positions while one renumbers alone.
LEMMA AloneIsSafe ==
  ASSUME NEW r \in Requests, Alone(r), NEW o \in Requests \ {r}, NEW p, p = request[o]
  PROVE  SafeOK(p)'
BY DEF Alone, Creating, Renumbering, SafeOK, CreatingOK, DeletingOK, MovingOK

\* While a creation is under way, the others do not renumber.
LEMMA CreatorsMeetNoRenumbering ==
  ASSUME IInv, ~tangled, NEW r \in Requests, Creating(r), NEW o \in Requests \ {r}
  PROVE  ~Renumbering(o)
BY DEF IInv, SafeInv, Alone

LEMMA ShiftPositionsKeeps == ASSUME IInv, NEW r \in Requests, ShiftPositions(r) PROVE IInv'
<1>1. PICK c \in Request : c = request[r] /\ c.at = "shift" /\ IdOK(c)
  BY DEF ShiftPositions, IInv, TypeOK, IdInv
<1>2. c \in [at : {"shift", "insert"}, panel : Panels, number : 1..MaxStories]
  BY <1>1, Shape
<1>. DEFINE moved == {i \in Stories : MakesRoom(i, c.panel)}
<1>3. /\ \A i \in moved : row[i].position < MaxPosition
      /\ row' = [i \in Ids |-> IF i \in moved THEN [row[i] EXCEPT !.position = @ + 1] ELSE row[i]]
      /\ Proceed(r, [c EXCEPT !.at = "insert"]) /\ UNCHANGED <<inserted, tangled>>
  BY <1>1 DEF ShiftPositions
<1>4. PICK q \in Request : q = [c EXCEPT !.at = "insert"]
  BY <1>2 DEF Request
<1>5. q.at = "insert" /\ q.panel = c.panel /\ q.number = c.number
  BY <1>2, <1>4
<1>6. \A i \in Ids \ moved : row'[i] = row[i]
  BY <1>3
<1>7. ASSUME NEW i \in moved
      PROVE  /\ row'[i] \in Row /\ row'[i].position = row[i].position + 1
             /\ row'[i].number = row[i].number /\ row'[i].icebox = row[i].icebox
  <2>1. row[i] \in Row /\ i \in Ids /\ row[i].position + 1 \in 1..MaxPosition
    BY <1>3, RowType, OrderAssumption DEF IInv
  <2>2. row'[i] = [row[i] EXCEPT !.position = @ + 1]
    BY <1>3, <2>1
  <2>. QED
    BY <2>1, <2>2 DEF Row
<1>8. row' \in [Ids -> Row \cup {Absent}]
  BY <1>3, <1>6, <1>7 DEF IInv, TypeOK
<1>9. Stories' = Stories
  BY <1>6, <1>7, IsRow DEF Stories
<1>10. \A i \in Stories : /\ row'[i].number = row[i].number /\ row'[i].icebox = row[i].icebox
                          /\ row'[i].position = IF i \in moved THEN row[i].position + 1
                                                ELSE row[i].position
  BY <1>6, <1>7 DEF Stories
<1>11. \A i \in Stories : row[i].position \in Nat /\ row[i].position >= 1
  BY RowType DEF IInv
<1>12. IdOK(q)'
  BY <1>5 DEF IdOK, HasId
<1>13. ASSUME ~tangled PROVE SafeOK(q)'
  <2>1. CreatingOK(c)
    BY <1>1, <1>13 DEF IInv, SafeInv, SafeOK
  <2>2. \A i \in Stories : MakesRoom(i, q.panel)' => row'[i].position > 1
    BY <1>5, <1>10, <1>11 DEF MakesRoom
  <2>3. CreatingOK(q)'
    BY <1>1, <1>5, <1>9, <1>10, <2>1, <2>2 DEF CreatingOK, NumberIsFree
  <2>. QED
    BY <1>5, <2>3 DEF SafeOK, DeletingOK, MovingOK
<1>14. ASSUME ~tangled, NEW o \in Requests \ {r}, NEW p \in Request, p = request[o], SafeOK(p)
       PROVE  SafeOK(p)'
  <2>1. p.at \notin {"remove", "close", "move"}
    BY <1>1, <1>14, CreatorsMeetNoRenumbering DEF Creating, Renumbering
  <2>2. ASSUME p.at = "insert", NumberIsFree(p.number)', NEW i \in Stories, MakesRoom(i, p.panel)'
        PROVE  row'[i].position > 1
    <3>1. NumberIsFree(p.number) /\ MakesRoom(i, p.panel)
      BY <1>9, <1>10, <2>2 DEF NumberIsFree, MakesRoom
    <3>2. row[i].position > 1
      BY <1>14, <2>2, <3>1 DEF SafeOK, CreatingOK
    <3>. QED
      BY <1>10, <1>11, <3>2
  <2>3. CreatingOK(p)'
    BY <1>9, <1>10, <1>14, <2>2 DEF SafeOK, CreatingOK, NumberIsFree
  <2>. QED
    BY <2>1, <2>3 DEF SafeOK, DeletingOK, MovingOK
<1>15. ~tangled => \A o \in Requests \ {r} : ~Renumbering(o)
  BY <1>1, CreatorsMeetNoRenumbering DEF Creating
<1>16. TypeOK' /\ IdInv' /\ SafeInv'
  <2>1. inserted' \in 0..MaxStories /\ inserted <= inserted' /\ tangled' \in BOOLEAN
        /\ \A i \in Stories' : i <= inserted'
    BY <1>3, <1>9, OrderAssumption DEF IInv, TypeOK, IdInv
  <2>2. \A i \in Ids : row[i] = Absent => row'[i] = Absent
    BY <1>6 DEF Stories
  <2>. QED
    BY <1>3, <1>4, <1>5, <1>8, <1>12, <1>13, <1>14, <1>15, <2>1, <2>2, RequestMoves
<1>17. ASSUME ~tangled, NEW b \in BOOLEAN, NEW x \in InPanel(b)', NEW y \in InPanel(b)',
              row'[x].position = row'[y].position
       PROVE  x = y
  <2>1. x \in Stories /\ y \in Stories /\ row[x].icebox = b /\ row[y].icebox = b
    BY <1>9, <1>10, <1>17 DEF InPanel
  <2>2. x \in moved <=> y \in moved
    BY <2>1 DEF MakesRoom
  <2>3. row[x].position = row[y].position
    BY <1>10, <1>11, <1>17, <2>1, <2>2
  <2>. QED
    BY <1>17, <2>1, <2>3 DEF IInv, PanelOrderIsStrict, InPanel
<1>18. PanelOrderIsStrict'
  BY <1>3, <1>17 DEF PanelOrderIsStrict
<1>. QED
  BY <1>16, <1>18 DEF IInv

\* The number above all others belongs to one creation only: when it is taken,
\* the numbers of the others are taken too, or not free any more.
LEMMA InsertStoryKeeps == ASSUME IInv, NEW r \in Requests, InsertStory(r) PROVE IInv'
<1>1. PICK c \in Request : c = request[r] /\ c.at = "insert" /\ IdOK(c)
  BY DEF InsertStory, IInv, TypeOK, IdInv
<1>2. c.panel \in Panels /\ c.number \in 1..MaxStories
  BY <1>1, Shape
<1>3. PICK n \in Ids : n = inserted + 1
  BY OrderAssumption DEF InsertStory, Ids, IInv, TypeOK
<1>4. PICK new \in Row : new = [number |-> c.number, position |-> 1, icebox |-> c.panel = "icebox",
                                archived |-> FALSE]
  <2>1. PICK b \in BOOLEAN : b = (c.panel = "icebox")
    OBVIOUS
  <2>2. 1 \in 1..MaxPosition
    BY OrderAssumption
  <2>3. [number |-> c.number, position |-> 1, icebox |-> b, archived |-> FALSE] \in Row
    BY <1>2, <2>2 DEF Row
  <2>. QED
    BY <2>1, <2>3
<1>5. new.number = c.number /\ new.position = 1 /\ new.icebox = (c.panel = "icebox")
  BY <1>4
<1>6. PICK q \in Request : q = [at |-> "record", panel |-> c.panel, id |-> n]
  BY <1>2 DEF Request
<1>7. q.at = "record" /\ q.id = n
  BY <1>6
<1>8. /\ NumberIsFree(c.number) /\ inserted < MaxStories /\ inserted' = inserted + 1
      /\ row' = [row EXCEPT ![n] = new] /\ Proceed(r, q) /\ UNCHANGED tangled
  BY <1>1, <1>3, <1>4, <1>6 DEF InsertStory
<1>9. n \notin Stories /\ inserted \in Nat
  BY <1>3, OrderAssumption DEF IInv, IdInv, TypeOK
<1>10. row'[n] = new /\ \A i \in Ids \ {n} : row'[i] = row[i]
  BY <1>8 DEF IInv, TypeOK
<1>11. Stories' = Stories \cup {n} /\ row' \in [Ids -> Row \cup {Absent}]
  <2>1. Stories' = Stories \cup {n}
    BY <1>10, IsRow DEF Stories
  <2>. QED
    BY <1>8, <2>1 DEF IInv, TypeOK
<1>12. \A i \in Stories : row'[i] = row[i] /\ i # n
  BY <1>9, <1>10 DEF Stories
<1>13. IdOK(q)' /\ SafeOK(q)'
  BY <1>3, <1>7, <1>8 DEF IdOK, HasId, SafeOK, CreatingOK, DeletingOK, MovingOK
<1>14. ASSUME ~tangled
       PROVE  /\ c.number = 1 \/ \E i \in Stories : row[i].number = c.number - 1
              /\ \A i \in Stories : row[i].number < c.number
              /\ \A i \in Stories : MakesRoom(i, c.panel) => row[i].position > 1
  BY <1>1, <1>8, <1>14 DEF IInv, SafeInv, SafeOK, CreatingOK
<1>15. ASSUME ~tangled, NEW o \in Requests \ {r}, NEW p \in Request, p = request[o], SafeOK(p)
       PROVE  SafeOK(p)'
  <2>1. p.at \notin {"remove", "close", "move"}
    BY <1>1, <1>15, CreatorsMeetNoRenumbering DEF Creating, Renumbering
  <2>2. CASE p.at \notin {"shift", "insert"}
    BY <2>1, <2>2 DEF SafeOK, CreatingOK, DeletingOK, MovingOK
  <2>3. CASE p.at \in {"shift", "insert"}
    <3>1. p.number \in Nat /\ c.number \in Nat /\ \A i \in Stories : row[i].number \in Nat
      BY <1>2, <2>3, Shape, RowType, OrderAssumption DEF IInv
    <3>2. /\ p.number = 1 \/ \E i \in Stories : row[i].number = p.number - 1
          /\ NumberIsFree(p.number) => \A i \in Stories : row[i].number < p.number
      BY <1>15, <2>3 DEF SafeOK, CreatingOK
    <3>3. ~NumberIsFree(p.number)'
      <4>. SUFFICES ASSUME NumberIsFree(p.number)' PROVE FALSE
        OBVIOUS
      <4>1. NumberIsFree(p.number) /\ p.number # c.number
        BY <1>5, <1>10, <1>11, <1>12 DEF NumberIsFree
      <4>2. p.number >= 1 /\ c.number >= 1
        BY <1>2, <2>3, Shape
      <4>3. CASE p.number < c.number
        BY <1>14, <1>15, <3>1, <3>2, <4>1, <4>2, <4>3
      <4>4. CASE p.number > c.number
        BY <1>14, <1>15, <3>1, <3>2, <4>1, <4>2, <4>4
      <4>. QED
        BY <3>1, <4>1, <4>3, <4>4
    <3>4. p.number = 1 \/ \E i \in Stories' : row'[i].number = p.number - 1
      BY <1>11, <1>12, <3>2
    <3>5. CreatingOK(p)'
      BY <3>3, <3>4 DEF CreatingOK
    <3>. QED
      BY <2>1, <3>5 DEF SafeOK, DeletingOK, MovingOK
  <2>. QED
    BY <2>2, <2>3
<1>16. TypeOK' /\ IdInv' /\ SafeInv'
  <2>1. inserted' \in 0..MaxStories /\ inserted <= inserted' /\ tangled' \in BOOLEAN
    BY <1>8, <1>9, OrderAssumption DEF IInv, TypeOK
  <2>2. \A i \in Stories' : i <= inserted'
    BY <1>3, <1>8, <1>9, <1>11, RowType DEF IInv, IdInv
  <2>3. \A i \in Ids : i <= inserted /\ row[i] = Absent => row'[i] = Absent
    BY <1>3, <1>9, <1>10 DEF Ids
  <2>. QED
    BY <1>7, <1>8, <1>11, <1>13, <1>15, <2>1, <2>2, <2>3, RequestMoves
<1>17. ASSUME ~tangled, NEW i \in Stories, row[i].icebox = new.icebox PROVE row[i].position > 1
  BY <1>2, <1>5, <1>14, <1>17 DEF MakesRoom
<1>18. ASSUME ~tangled, NEW b \in BOOLEAN, NEW x \in InPanel(b)', NEW y \in InPanel(b)',
              row'[x].position = row'[y].position
       PROVE  x = y
  <2>1. x \in Stories \cup {n} /\ y \in Stories \cup {n} /\ row'[x].icebox = b /\ row'[y].icebox = b
    BY <1>11, <1>18 DEF InPanel
  <2>2. CASE x \in Stories /\ y \in Stories
    BY <1>12, <1>18, <2>1, <2>2 DEF IInv, PanelOrderIsStrict, InPanel
  <2>3. CASE x = n /\ y \in Stories
    BY <1>5, <1>10, <1>12, <1>17, <1>18, <2>1, <2>3, RowType DEF IInv
  <2>4. CASE y = n /\ x \in Stories
    BY <1>5, <1>10, <1>12, <1>17, <1>18, <2>1, <2>4, RowType DEF IInv
  <2>. QED
    BY <2>1, <2>2, <2>3, <2>4
<1>19. PanelOrderIsStrict'
  BY <1>8, <1>18 DEF PanelOrderIsStrict
<1>. QED
  BY <1>16, <1>19 DEF IInv

LEMMA RemoveRowKeeps == ASSUME IInv, NEW r \in Requests, RemoveRow(r) PROVE IInv'
<1>1. PICK c \in Request : c = request[r] /\ c.at = "remove" /\ IdOK(c)
  BY DEF RemoveRow, IInv, TypeOK, IdInv
<1>2. PICK i \in Ids : i = c.id
  BY <1>1, Shape
<1>3. c \in [at : {"remove", "close"}, id : Ids, position : 1..MaxPosition, undo : BOOLEAN]
  BY <1>1, Shape
<1>4. PICK q \in Request : q = [c EXCEPT !.at = "close"]
  BY <1>3 DEF Request
<1>5. q.at = "close" /\ q.id = i /\ q.position = c.position
  BY <1>2, <1>3, <1>4
<1>6. /\ row' = [row EXCEPT ![i] = Absent] /\ Proceed(r, q) /\ UNCHANGED inserted
      /\ tangled' = (tangled \/ (i \in Stories /\ \E j \in Stories \ {i} :
                                   row[j].position = row[i].position))
  BY <1>1, <1>2, <1>4 DEF RemoveRow, Tangle
<1>7. row'[i] = Absent /\ \A j \in Ids \ {i} : row'[j] = row[j]
  BY <1>6 DEF IInv, TypeOK
<1>8. Stories' = Stories \ {i} /\ row' \in [Ids -> Row \cup {Absent}]
  <2>1. Stories' = Stories \ {i}
    BY <1>7 DEF Stories
  <2>. QED
    BY <1>6, <2>1 DEF IInv, TypeOK
<1>9. tangled' \in BOOLEAN /\ (tangled => tangled')
  BY <1>6 DEF IInv, TypeOK
<1>10. IdOK(q)'
  BY <1>1, <1>2, <1>5, <1>6, <1>7 DEF IdOK, HasId
<1>11. ASSUME ~tangled' PROVE SafeOK(q)' /\ Alone(r)
  <2>1. DeletingOK(c) /\ Alone(r)
    BY <1>1, <1>9, <1>11 DEF IInv, SafeInv, SafeOK, Renumbering
  <2>2. i \in Stories /\ row[i].position = c.position
    BY <1>1, <1>2, <2>1 DEF DeletingOK
  <2>3. \A j \in Stories' : row'[j].position # q.position
    BY <1>5, <1>6, <1>7, <1>8, <1>11, <2>2 DEF Stories
  <2>. QED
    BY <1>5, <2>1, <2>3 DEF SafeOK, CreatingOK, DeletingOK, MovingOK
<1>12. TypeOK' /\ IdInv' /\ SafeInv'
  <2>1. inserted' \in 0..MaxStories /\ inserted <= inserted' /\ \A j \in Stories' : j <= inserted'
    BY <1>6, <1>8, OrderAssumption DEF IInv, TypeOK, IdInv
  <2>2. \A j \in Ids : row[j] = Absent => row'[j] = Absent
    BY <1>7
  <2>3. ~tangled' => \A o \in Requests \ {r} : ~Creating(o) /\ ~Renumbering(o)
    BY <1>11 DEF Alone
  <2>4. \A o \in Requests \ {r}, p \in Request : p = request[o] /\ ~tangled' => SafeOK(p)'
    BY <1>11, AloneIsSafe
  <2>. QED
    BY <1>5, <1>6, <1>8, <1>9, <1>10, <1>11, <2>1, <2>2, <2>3, <2>4, RequestMoves
<1>13. PanelOrderIsStrict'
  BY <1>7, <1>8, <1>9 DEF IInv, PanelOrderIsStrict, InPanel, Stories
<1>. QED
  BY <1>12, <1>13 DEF IInv

LEMMA CloseGapKeeps == ASSUME IInv, NEW r \in Requests, CloseGap(r) PROVE IInv'
<1>1. PICK c \in Request : c = request[r] /\ c.at = "close" /\ IdOK(c)
  BY DEF CloseGap, IInv, TypeOK, IdInv
<1>2. c.id \in Ids /\ c.position \in Nat /\ c.position >= 1
  BY <1>1, Shape, OrderAssumption
<1>. DEFINE moved == {i \in Stories : MovesUp(i, c.position)}
<1>3. /\ row' = [i \in Ids |-> IF i \in moved THEN [row[i] EXCEPT !.position = @ - 1] ELSE row[i]]
      /\ UNCHANGED <<inserted, tangled>>
      /\ \/ Proceed(r, [at |-> "done", id |-> c.id, ok |-> FALSE])
         \/ Proceed(r, Idle)
  BY <1>1 DEF CloseGap
<1>4. PICK q \in Request : Proceed(r, q) /\ (q = [at |-> "done", id |-> c.id, ok |-> FALSE] \/ q = Idle)
  <2>1. [at |-> "done", id |-> c.id, ok |-> FALSE] \in Request
    BY <1>2 DEF Request
  <2>. QED
    BY <1>3, <2>1, IdleAt
<1>5. q.at = "idle" \/ (q.at = "done" /\ q.id = c.id /\ q.ok = FALSE)
  BY <1>4, IdleAt
<1>6. \A i \in Ids \ moved : row'[i] = row[i]
  BY <1>3
<1>7. ASSUME NEW i \in moved
      PROVE  /\ row'[i] \in Row /\ row'[i].position = row[i].position - 1
             /\ row'[i].number = row[i].number /\ row'[i].icebox = row[i].icebox
  <2>1. row[i] \in Row /\ i \in Ids /\ row[i].position - 1 \in 1..MaxPosition
    BY <1>2, RowType, OrderAssumption DEF IInv, MovesUp
  <2>2. row'[i] = [row[i] EXCEPT !.position = @ - 1]
    BY <1>3, <2>1
  <2>. QED
    BY <2>1, <2>2 DEF Row
<1>8. Stories' = Stories
  BY <1>6, <1>7, IsRow DEF Stories
<1>9. row' \in [Ids -> Row \cup {Absent}]
  BY <1>3, <1>6, <1>7 DEF IInv, TypeOK
<1>10. \A i \in Stories : /\ row'[i].icebox = row[i].icebox
                          /\ row'[i].position = IF row[i].position > c.position
                                                THEN row[i].position - 1 ELSE row[i].position
  BY <1>6, <1>7 DEF Stories, MovesUp
<1>11. IdOK(q)'
  <2>1. row[c.id] = Absent /\ c.id <= inserted
    BY <1>1 DEF IdOK, HasId
  <2>2. row'[c.id] = Absent
    BY <1>2, <1>6, <2>1 DEF Stories
  <2>. QED
    BY <1>3, <1>5, <2>1, <2>2 DEF IdOK, HasId
<1>12. SafeOK(q)'
  BY <1>5 DEF SafeOK, CreatingOK, DeletingOK, MovingOK
<1>13. ASSUME ~tangled PROVE Alone(r) /\ \A i \in Stories : row[i].position # c.position
  BY <1>1, <1>13 DEF IInv, SafeInv, SafeOK, DeletingOK, Renumbering
<1>14. TypeOK' /\ IdInv' /\ SafeInv'
  <2>1. inserted' \in 0..MaxStories /\ inserted <= inserted' /\ tangled' \in BOOLEAN
        /\ \A j \in Stories' : j <= inserted'
    BY <1>3, <1>8, OrderAssumption DEF IInv, TypeOK, IdInv
  <2>2. \A j \in Ids : row[j] = Absent => row'[j] = Absent
    BY <1>6 DEF Stories
  <2>3. \A o \in Requests \ {r}, p \in Request : p = request[o] /\ ~tangled' => SafeOK(p)'
    BY <1>3, <1>13, AloneIsSafe
  <2>. QED
    BY <1>3, <1>4, <1>5, <1>9, <1>11, <1>12, <2>1, <2>2, <2>3, RequestMoves
<1>15. ASSUME ~tangled, NEW b \in BOOLEAN, NEW x \in InPanel(b)', NEW y \in InPanel(b)',
              row'[x].position = row'[y].position
       PROVE  x = y
  <2>1. x \in Stories /\ y \in Stories /\ row[x].icebox = b /\ row[y].icebox = b
    BY <1>8, <1>10, <1>15 DEF InPanel
  <2>2. row[x].position = row[y].position
    BY <1>2, <1>10, <1>13, <1>15, <2>1, RowType DEF IInv
  <2>. QED
    BY <1>15, <2>1, <2>2 DEF IInv, PanelOrderIsStrict, InPanel
<1>16. PanelOrderIsStrict'
  BY <1>3, <1>15 DEF PanelOrderIsStrict
<1>. QED
  BY <1>14, <1>16 DEF IInv

LEMMA MoveStoriesKeeps == ASSUME IInv, NEW r \in Requests, MoveStories(r) PROVE IInv'
<1>1. PICK c \in Request : c = request[r] /\ c.at = "move"
  BY DEF MoveStories, IInv, TypeOK
<1>2. /\ DOMAIN c.slots \subseteq Stories /\ UNCHANGED <<inserted, tangled>> /\ Proceed(r, Idle)
      /\ row' = [i \in Ids |-> IF i \in DOMAIN c.slots
                               THEN [row[i] EXCEPT !.position = c.slots[i]] ELSE row[i]]
  BY <1>1 DEF MoveStories
<1>3. c.slots \in [DOMAIN c.slots -> 1..MaxPosition] /\ DOMAIN c.slots \subseteq Ids
  BY <1>1, Shape
<1>4. \A i \in Ids \ DOMAIN c.slots : row'[i] = row[i]
  BY <1>2
<1>5. ASSUME NEW i \in DOMAIN c.slots
      PROVE  /\ row'[i] \in Row /\ row'[i].position = c.slots[i] /\ row'[i].icebox = row[i].icebox
  <2>1. row[i] \in Row /\ i \in Ids /\ c.slots[i] \in 1..MaxPosition
    BY <1>2, <1>3, RowType DEF IInv
  <2>2. row'[i] = [row[i] EXCEPT !.position = c.slots[i]]
    BY <1>2, <2>1
  <2>. QED
    BY <2>1, <2>2 DEF Row
<1>6. Stories' = Stories /\ row' \in [Ids -> Row \cup {Absent}]
  <2>1. Stories' = Stories
    BY <1>2, <1>4, <1>5, IsRow DEF Stories
  <2>. QED
    BY <1>2, <1>4, <1>5, <2>1 DEF IInv, TypeOK
<1>7. \A i \in Stories : row'[i].icebox = row[i].icebox /\ row'[i].position = Slot(c, i)
  BY <1>4, <1>5 DEF Stories, Slot
<1>8. IdOK(Idle)' /\ SafeOK(Idle)'
  BY IdleAt DEF IdOK, HasId, SafeOK, CreatingOK, DeletingOK, MovingOK
<1>9. ASSUME ~tangled PROVE Alone(r) /\ MovingOK(c)
  BY <1>1, <1>9 DEF IInv, SafeInv, SafeOK, Renumbering
<1>10. TypeOK' /\ IdInv' /\ SafeInv'
  <2>1. inserted' \in 0..MaxStories /\ inserted <= inserted' /\ tangled' \in BOOLEAN
        /\ \A j \in Stories' : j <= inserted'
    BY <1>2, <1>6, OrderAssumption DEF IInv, TypeOK, IdInv
  <2>2. \A j \in Ids : row[j] = Absent => row'[j] = Absent
    BY <1>2, <1>4 DEF Stories
  <2>3. \A o \in Requests \ {r}, p \in Request : p = request[o] /\ ~tangled' => SafeOK(p)'
    BY <1>2, <1>9, AloneIsSafe
  <2>. QED
    BY <1>2, <1>6, <1>8, <2>1, <2>2, <2>3, IdleAt, RequestMoves
<1>11. ASSUME ~tangled, NEW x \in c.listed, NEW y \in Stories \ c.listed, row[x].icebox = row[y].icebox
       PROVE  Slot(c, x) # Slot(c, y)
  <2>1. PICK z \in c.listed : Slot(c, x) = row[z].position
    BY <1>1, <1>9, <1>11 DEF MovingOK
  <2>2. row[z].icebox = row[y].icebox /\ z \in Stories /\ z # y
    BY <1>1, <1>9, <1>11 DEF MovingOK
  <2>3. Slot(c, y) = row[y].position
    BY <1>1, <1>9, <1>11 DEF MovingOK, Slot
  <2>4. row[y].icebox \in BOOLEAN
    BY RowType DEF IInv
  <2>. QED
    BY <1>11, <2>1, <2>2, <2>3, <2>4 DEF IInv, PanelOrderIsStrict, InPanel
<1>12. ASSUME ~tangled, NEW b \in BOOLEAN, NEW x \in InPanel(b)', NEW y \in InPanel(b)',
              row'[x].position = row'[y].position
       PROVE  x = y
  <2>1. x \in Stories /\ y \in Stories /\ row[x].icebox = b /\ row[y].icebox = b
        /\ Slot(c, x) = Slot(c, y)
    BY <1>6, <1>7, <1>12 DEF InPanel
  <2>2. CASE x \in c.listed /\ y \in c.listed
    BY <1>1, <1>9, <1>12, <2>1, <2>2 DEF MovingOK
  <2>3. CASE x \in c.listed /\ y \notin c.listed
    BY <1>11, <1>12, <2>1, <2>3
  <2>4. CASE x \notin c.listed /\ y \in c.listed
    BY <1>11, <1>12, <2>1, <2>4
  <2>5. CASE x \notin c.listed /\ y \notin c.listed
    <3>1. Slot(c, x) = row[x].position /\ Slot(c, y) = row[y].position
      BY <1>1, <1>9, <1>12, <2>5 DEF MovingOK, Slot
    <3>. QED
      BY <1>12, <2>1, <3>1 DEF IInv, PanelOrderIsStrict, InPanel
  <2>. QED
    BY <2>2, <2>3, <2>4, <2>5
<1>13. PanelOrderIsStrict'
  BY <1>2, <1>12 DEF PanelOrderIsStrict
<1>. QED
  BY <1>10, <1>13 DEF IInv

-----------------------------------------------------------------------------

THEOREM NextInv == IInv /\ [OrderNext]_orderVars => IInv'
<1>. SUFFICES ASSUME IInv, [OrderNext]_orderVars PROVE IInv'
  OBVIOUS
<1>1. ASSUME NEW r \in Requests, RequestStep(r) PROVE IInv'
  <2>1. ASSUME NEW panel \in Panels, ReadMaxNumber(r, panel) PROVE IInv'
    BY <2>1, ReadMaxNumberKeeps
  <2>2. CASE ShiftPositions(r)
    BY <2>2, ShiftPositionsKeeps
  <2>3. CASE InsertStory(r)
    BY <2>3, InsertStoryKeeps
  <2>4. CASE RecordCreated(r)
    BY <2>4, RecordCreatedKeeps
  <2>5. CASE AssignStory(r)
    BY <2>5, AssignStoryKeeps
  <2>6. CASE AssignStoryFails(r)
    BY <2>6, AssignStoryFailsKeeps
  <2>7. ASSUME NEW i \in Ids, DeleteStory(r, i) PROVE IInv'
    BY <2>7, DeleteStoryKeeps
  <2>8. CASE FindPosition(r)
    BY <2>8, FindPositionKeeps
  <2>9. CASE RemoveRow(r)
    BY <2>9, RemoveRowKeeps
  <2>10. CASE CloseGap(r)
    BY <2>10, CloseGapKeeps
  <2>11. ASSUME NEW S \in SUBSET Ids, ReadOrder(r, S) PROVE IInv'
    BY <2>11, ReadOrderKeeps
  <2>12. CASE MoveStories(r)
    BY <2>12, MoveStoriesKeeps
  <2>13. CASE RequestFails(r)
    BY <2>13, RequestFailsKeeps
  <2>. QED
    BY <1>1, <2>1, <2>2, <2>3, <2>4, <2>5, <2>6, <2>7, <2>8, <2>9, <2>10, <2>11, <2>12, <2>13
       DEF RequestStep
<1>2. ASSUME NEW i \in Ids, ChangePanel(i) \/ MoveToTop(i) \/ SetArchived(i) PROVE IInv'
  BY <1>2, ChangePanelKeeps, MoveToTopKeeps, SetArchivedKeeps
<1>3. CASE UNCHANGED orderVars
  <2>1. UNCHANGED <<row, inserted, request, tangled>> /\ Stories' = Stories
        /\ row' \in [Ids -> Row \cup {Absent}] /\ tangled' \in BOOLEAN /\ (tangled => tangled')
    BY <1>3 DEF orderVars, Stories, IInv, TypeOK
  <2>2. \A p \in Request : SafeOK(p) => SafeOK(p)'
    BY <2>1, RowsKept DEF IInv
  <2>3. TypeOK' /\ IdInv' /\ SafeInv'
    BY <2>1, <2>2, RowsMove
  <2>. QED
    BY <2>1, <2>3 DEF IInv, PanelOrderIsStrict, InPanel
<1>. QED
  BY <1>1, <1>2, <1>3 DEF OrderNext

\* The invariant holds in every reachable state.
THEOREM Invariance == OrderSpec => []IInv
<1>. QED
  BY InitInv, NextInv, PTL DEF OrderSpec

\* Rows and requests keep their types; in particular closing a gap never makes
\* a position zero.
THEOREM TypeCorrect == OrderSpec => []TypeOK
<1>1. IInv => TypeOK
  BY DEF IInv
<1>. QED
  BY <1>1, Invariance, PTL

\* Outside of what `tangled` names, the positions of a panel are distinct, for
\* any number of requests that may die anywhere and of moves to the top.
THEOREM OrderIsStrict == OrderSpec => []PanelOrderIsStrict
<1>1. IInv => PanelOrderIsStrict
  BY DEF IInv
<1>. QED
  BY <1>1, Invariance, PTL

\* A refused creation has taken its story back.
THEOREM RefusalsLeaveNothing == OrderSpec => []RefusedCreationsLeaveNothing
<1>1. IInv => RefusedCreationsLeaveNothing
  BY DEF IInv, IdInv, IdOK, RefusedCreationsLeaveNothing
<1>. QED
  BY <1>1, Invariance, PTL

-----------------------------------------------------------------------------
(* The order of a panel.                                                   *)

\* The rows' positions move together.
OrderKept ==
  \A i, j \in Stories :
    /\ row'[i] # Absent /\ row'[j] # Absent
    /\ row[i].icebox = row[j].icebox
    /\ row'[i].icebox = row[i].icebox /\ row'[j].icebox = row[j].icebox
    => (Before(row, i, j) <=> Before(row', i, j))

LEMMA SamePositions ==
  ASSUME IInv, \A i \in Stories : row'[i] # Absent => row'[i].position = row[i].position
  PROVE  OrderKept
BY DEF OrderKept, Before

LEMMA ShiftKeepsOrder == ASSUME IInv, NEW r \in Requests, ShiftPositions(r) PROVE OrderKept
<1>1. \A i \in Stories : row[i] \in Row /\ row[i].position \in Nat /\ i \in Ids
  BY RowType DEF IInv
<1>2. \A i \in Stories : row'[i].position = IF MakesRoom(i, request[r].panel)
                                            THEN row[i].position + 1 ELSE row[i].position
  BY <1>1 DEF ShiftPositions, Row
<1>3. ASSUME NEW i \in Stories, NEW j \in Stories, row[i].icebox = row[j].icebox
      PROVE  Before(row, i, j) <=> Before(row', i, j)
  <2>1. MakesRoom(i, request[r].panel) <=> MakesRoom(j, request[r].panel)
    BY <1>3 DEF MakesRoom
  <2>. QED
    BY <1>1, <1>2, <2>1 DEF Before
<1>. QED
  BY <1>3 DEF OrderKept

LEMMA GapKeepsOrder ==
  ASSUME IInv, ~tangled, NEW r \in Requests, CloseGap(r) PROVE OrderKept
<1>1. PICK p \in Nat : p = request[r].position /\ request[r].at = "close"
  <2>1. request[r] \in Request /\ request[r].at = "close"
    BY DEF CloseGap, IInv, TypeOK
  <2>2. request[r].position \in 1..MaxPosition
    BY <2>1, Shape
  <2>. QED
    BY <2>1, <2>2, OrderAssumption
<1>2. \A i \in Stories : row[i] \in Row /\ row[i].position \in Nat /\ i \in Ids
  BY RowType DEF IInv
<1>3. \A i \in Stories : row'[i].position = IF row[i].position > p
                                            THEN row[i].position - 1 ELSE row[i].position
  BY <1>1, <1>2 DEF CloseGap, MovesUp, Row
<1>4. \A i \in Stories : row[i].position # p
  BY <1>1 DEF IInv, SafeInv, SafeOK, DeletingOK
<1>5. ASSUME NEW i \in Stories, NEW j \in Stories PROVE Before(row, i, j) <=> Before(row', i, j)
  BY <1>1, <1>2, <1>3, <1>4 DEF Before
<1>. QED
  BY <1>5 DEF OrderKept

LEMMA TopKeepsOrder == ASSUME IInv, NEW i \in Ids, MoveToTop(i) PROVE OrderKept
<1>1. ASSUME NEW x \in Stories, NEW y \in Stories, x # i, y # i
      PROVE  Before(row, x, y) <=> Before(row', x, y)
  <2>1. /\ row'[x].position = row[x].position + 1 /\ row'[y].position = row[y].position + 1
        /\ row[x].position \in Nat /\ row[y].position \in Nat
    BY <1>1, TopRows, RowType DEF IInv
  <2>. QED
    BY <2>1 DEF Before
<1>2. row'[i].icebox # row[i].icebox
  BY TopRows
<1>. QED
  BY <1>1, <1>2 DEF OrderKept

\* Nothing but a reorder changes the order of two stories that stay in a panel,
\* outside of what `tangled` names.
THEOREM OrderIsKept == OrderSpec => OnlyReordersReorder
<1>. DEFINE Reorders == \E r \in Requests : request[r].at = "move" /\ request'[r] = Idle
<1>1. ASSUME IInv, [OrderNext]_orderVars PROVE tangled' \/ Reorders \/ OrderKept
  <2>1. ASSUME NEW r \in Requests, RequestStep(r), ~tangled', ~Reorders PROVE OrderKept
    <3>1. CASE UNCHANGED row
      BY <1>1, <3>1, SamePositions
    <3>2. CASE ShiftPositions(r)
      BY <1>1, <3>2, ShiftKeepsOrder
    <3>3. CASE InsertStory(r)
      <4>1. \A i \in Stories : row'[i] = row[i]
        BY <1>1, <3>3, OrderAssumption DEF InsertStory, IInv, IdInv, TypeOK, Stories
      <4>. QED
        BY <1>1, <4>1, SamePositions
    <3>4. CASE AssignStory(r)
      <4>1. PICK i \in Stories : row' = [row EXCEPT ![i] = [row[i] EXCEPT !.icebox = FALSE]]
        BY <3>4 DEF AssignStory
      <4>. QED
        BY <1>1, <4>1, PanelRows, SamePositions
    <3>5. CASE RemoveRow(r)
      <4>1. \A i \in Stories : row'[i] # Absent => row'[i] = row[i]
        BY <1>1, <3>5 DEF RemoveRow, IInv, TypeOK, Stories
      <4>. QED
        BY <1>1, <4>1, SamePositions
    <3>6. CASE CloseGap(r)
      BY <1>1, <2>1, <3>6, GapKeepsOrder DEF CloseGap
    <3>7. CASE MoveStories(r)
      <4>1. request[r].at = "move" /\ request'[r] = Idle
        BY <1>1, <3>7 DEF MoveStories, Proceed, IInv, TypeOK
      <4>. QED
        BY <2>1, <4>1
    <3>. QED
      BY <2>1, <3>1, <3>2, <3>3, <3>4, <3>5, <3>6, <3>7
         DEF RequestStep, ReadMaxNumber, RecordCreated, AssignStoryFails, DeleteStory,
             FindPosition, ReadOrder, RequestFails
  <2>2. ASSUME NEW i \in Ids, ChangePanel(i) PROVE OrderKept
    <3>1. PICK b \in BOOLEAN : i \in Stories /\ b = ~row[i].icebox
      BY <2>2 DEF ChangePanel
    <3>2. row' = [row EXCEPT ![i] = [row[i] EXCEPT !.icebox = b]]
      BY <2>2, <3>1 DEF ChangePanel
    <3>. QED
      BY <1>1, <3>1, <3>2, PanelRows, SamePositions
  <2>3. ASSUME NEW i \in Ids, SetArchived(i) PROVE OrderKept
    <3>1. row[i] \in Row /\ row \in [Ids -> Row \cup {Absent}]
      BY <1>1, <2>3, RowType DEF SetArchived, IInv, TypeOK
    <3>2. row'[i].position = row[i].position /\ \A j \in Ids \ {i} : row'[j] = row[j]
      BY <2>3, <3>1 DEF SetArchived, Row
    <3>. QED
      BY <1>1, <3>2, SamePositions DEF Stories
  <2>4. CASE UNCHANGED orderVars
    BY <1>1, <2>4, SamePositions DEF orderVars
  <2>5. ASSUME NEW i \in Ids, MoveToTop(i) PROVE OrderKept
    BY <1>1, <2>5, TopKeepsOrder
  <2>. QED
    BY <1>1, <2>1, <2>2, <2>3, <2>4, <2>5 DEF OrderNext
<1>2. IInv /\ [OrderNext]_orderVars =>
        [\/ tangled'
         \/ \E r \in Requests : request[r].at = "move" /\ request'[r] = Idle
         \/ \A i, j \in Stories :
              /\ row'[i] # Absent /\ row'[j] # Absent
              /\ row[i].icebox = row[j].icebox
              /\ row'[i].icebox = row[i].icebox /\ row'[j].icebox = row[j].icebox
              => (Before(row, i, j) <=> Before(row', i, j))]_orderVars
  BY <1>1 DEF OrderKept
<1>. QED
  BY <1>2, Invariance, PTL DEF OrderSpec, OnlyReordersReorder
=============================================================================
