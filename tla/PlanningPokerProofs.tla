------------------------- MODULE PlanningPokerProofs -------------------------
(***************************************************************************)
(* Machine-checked proofs about PlanningPoker, for any members, stories,   *)
(* point scale and number of requests and sessions.                        *)
(***************************************************************************)
EXTENDS PlanningPoker, TLAPS

(***************************************************************************)
(* The inductive invariant.                                                *)
(***************************************************************************)

\* What a request keeps of the session it read: it was opened, a vote read it
\* open, and a new session asked to replace it if it was.
RequestOK(q) ==
  /\ q # Idle => IdsOf(q.session) \subseteq 1..opened
  /\ q.at = "vote" => q.session.status = "Open"
  /\ q.at = "start" => (IsOpen(q.session) => q.replaceActive)

RequestInv == \A r \in Requests : RequestOK(request[r])

\* Nothing is known of the sessions to come.
FutureInv ==
  /\ IdsOf(activeSession) \subseteq 1..opened
  /\ ended \subseteq 1..opened
  /\ \A i \in (1..MaxSessions) \ (1..opened) : cast[i] = NoVotes /\ shown[i] = {}

IInv ==
  /\ TypeOK
  /\ RequestInv
  /\ FutureInv
  /\ VotesAreCounted
  /\ VotesAreBlind
  /\ SessionsEndOnPurpose
  /\ ScreensAreCurrent

-----------------------------------------------------------------------------
(***************************************************************************)
(* Data.                                                                   *)
(***************************************************************************)

LEMMA RequestData ==
  ASSUME NEW q \in Request
  PROVE  /\ q.at = "start" => /\ q.session \in Session \cup {None} /\ q.story \in Stories
                              /\ q.replaceActive \in BOOLEAN
         /\ q.at = "vote" => q.session \in Session /\ q.user \in Users /\ q.point \in Points
         /\ q.at \in {"apply", "drop"} => q.session \in Session
         /\ q.at \in {"start", "vote", "apply", "drop"} => q # Idle
         /\ q.at = "apply" => [q EXCEPT !.at = "drop"] \in Request
BY DEF Request, Idle

LEMMA SessionData ==
  ASSUME NEW s \in Session
  PROVE  /\ s.id \in 1..MaxSessions /\ s.story \in Stories /\ s.status \in {"Open", "Revealed"}
         /\ s.votes \in Votes
         /\ s # None
         /\ IdsOf(s) = {s.id}
         /\ IsOpen(s) <=> s.status = "Open"
         /\ [s EXCEPT !.status = "Revealed"] \in Session
         /\ [s EXCEPT !.status = "Open", !.votes = NoVotes] \in Session
BY PokerAssumption DEF Session, IdsOf, IsOpen, Votes, NoVotes

LEMMA NoVotesTyped == NoVotes \in Votes
BY DEF NoVotes, Votes

LEMMA SentTyped ==
  ASSUME NEW s \in Session \cup {None}
  PROVE  Sent(s) \in [connected : {TRUE}, session : Payload]
<1>1. CASE s = None
  BY <1>1 DEF Sent, SessionResponse, Payload
<1>2. CASE s # None
  <2>1. s \in Session
    BY <1>2
  <2>2. SessionResponse(s) \in
          [id : 1..MaxSessions, status : {"Open", "Revealed"}, voted : SUBSET Users, points : Votes]
    BY <1>2, <2>1, SessionData, NoVotesTyped DEF SessionResponse
  <2>. QED
    BY <2>2 DEF Sent, Payload
<1>. QED
  BY <1>1, <1>2

\* A reply about an open session tells no points.
LEMMA TellData ==
  ASSUME NEW s \in Session \cup {None}, shown \in [1..MaxSessions -> SUBSET Users]
  PROVE  /\ Tell(s) \in [1..MaxSessions -> SUBSET Users]
         /\ IsOpen(s) => Tell(s) = shown
         /\ \A i \in 1..MaxSessions : i \notin IdsOf(s) => Tell(s)[i] = shown[i]
<1>1. CASE s = None
  BY <1>1 DEF Tell, IsOpen
<1>2. CASE s # None
  <2>1. s \in Session /\ s.id \in 1..MaxSessions /\ IdsOf(s) = {s.id}
    BY <1>2, SessionData
  <2>2. Tell(s) = [shown EXCEPT ![s.id] = @ \cup Told(s)] /\ Told(s) \subseteq Users
    BY <1>2 DEF Tell, Told
  <2>3. IsOpen(s) => Told(s) = {}
    BY <1>2 DEF Told, SessionResponse, NoVotes
  <2>. QED
    BY <2>1, <2>2, <2>3
<1>. QED
  BY <1>1, <1>2

\* A broadcast leaves every screen at the session it is about.
LEMMA Broadcast ==
  ASSUME TypeOK, NEW s \in Session \cup {None}, BroadcastSession(s)
  PROVE  /\ screen' \in [Users -> [connected : {FALSE}] \cup [connected : {TRUE}, session : Payload]]
         /\ \A u \in Users : screen'[u].connected => screen'[u] = Sent(s)
<1>1. Sent(s) \in [connected : {TRUE}, session : Payload]
  BY SentTyped
<1>. QED
  BY <1>1 DEF TypeOK, BroadcastSession

-----------------------------------------------------------------------------
(***************************************************************************)
(* The initial states and the steps.                                       *)
(***************************************************************************)

LEMMA InitOK == Init => IInv
<1>. SUFFICES ASSUME Init PROVE IInv
  OBVIOUS
<1>1. TypeOK
  BY PokerAssumption, NoVotesTyped DEF Init, TypeOK, Request, Idle
<1>. QED
  BY <1>1, PokerAssumption
  DEF Init, IInv, RequestInv, RequestOK, FutureInv, IdsOf, IsOpen, VotesAreCounted, VotesAreBlind,
      SessionsEndOnPurpose, ScreensAreCurrent, Idle

\* What a request waits for changes nothing but the request.
LEMMA WaitKeeps ==
  ASSUME IInv, UNCHANGED <<activeSession, opened, screen, history>>,
         NEW r \in Requests, NEW q \in Request, RequestOK(q),
         request' = [request EXCEPT ![r] = q]
  PROVE  IInv'
<1>1. TypeOK'
  BY DEF IInv, TypeOK, history
<1>2. RequestInv'
  BY DEF IInv, TypeOK, RequestInv, RequestOK
<1>. QED
  BY <1>1, <1>2
  DEF IInv, FutureInv, VotesAreCounted, VotesAreBlind, SessionsEndOnPurpose, ScreensAreCurrent,
      history, Sent, SessionResponse, IsOpen, IdsOf, NoVotes

LEMMA IdleOK == Idle \in Request /\ RequestOK(Idle)
BY DEF Request, RequestOK, Idle

LEMMA StartSessionKeeps ==
  ASSUME IInv, NEW r \in Requests, NEW s \in Stories, NEW b \in BOOLEAN, StartSession(r, s, b)
  PROVE  IInv'
<1>. DEFINE q == [at |-> "start", session |-> activeSession, story |-> s, replaceActive |-> b]
<1>1. q \in Request
  BY DEF IInv, TypeOK, Request
<1>2. RequestOK(q)
  BY DEF IInv, FutureInv, RequestOK, StartSession, MayOpen
<1>. QED
  BY <1>1, <1>2, WaitKeeps DEF StartSession, Await

LEMMA VoteKeeps ==
  ASSUME IInv, NEW r \in Requests, NEW u \in Users, NEW p \in Points, Vote(r, u, p)
  PROVE  IInv'
<1>. DEFINE q == [at |-> "vote", session |-> activeSession, user |-> u, point |-> p]
<1>1. q \in Request
  BY DEF IInv, TypeOK, Request, Vote, IsOpen
<1>2. RequestOK(q)
  BY DEF IInv, FutureInv, RequestOK, Vote, IsOpen
<1>. QED
  BY <1>1, <1>2, WaitKeeps DEF Vote, Await

LEMMA ApplyKeeps ==
  ASSUME IInv, NEW r \in Requests, Apply(r)
  PROVE  IInv'
<1>. DEFINE q == [at |-> "apply", session |-> activeSession]
<1>1. q \in Request
  BY DEF IInv, TypeOK, Request, Apply
<1>2. RequestOK(q)
  BY DEF IInv, FutureInv, RequestOK, Apply
<1>. QED
  BY <1>1, <1>2, WaitKeeps DEF Apply, Await

LEMMA UpdateStoryKeeps ==
  ASSUME IInv, NEW r \in Requests, UpdateStory(r)
  PROVE  IInv'
<1>. DEFINE q == [request[r] EXCEPT !.at = "drop"]
<1>1. request[r] \in Request /\ request[r].at = "apply"
  BY DEF IInv, TypeOK, UpdateStory
<1>2. q \in Request
  BY <1>1, RequestData
<1>3. RequestOK(q)
  <2>1. request[r].session \in Session /\ request[r] # Idle
    BY <1>1, RequestData
  <2>2. q.session = request[r].session /\ q.at = "drop"
    BY <1>1 DEF Request, Idle
  <2>. QED
    BY <2>1, <2>2 DEF IInv, RequestInv, RequestOK
<1>. QED
  BY <1>2, <1>3, WaitKeeps DEF UpdateStory

LEMMA RequestFailsKeeps ==
  ASSUME IInv, NEW r \in Requests, RequestFails(r)
  PROVE  IInv'
BY IdleOK, WaitKeeps DEF RequestFails, Answer

-----------------------------------------------------------------------------
(* Steps that write the session.                                           *)

\* What a step that stores a session has to show.
LEMMA StoreKeeps ==
  ASSUME IInv, NEW next \in Session \cup {None}, SetActiveSession(next),
         opened' \in 0..MaxSessions, opened <= opened',
         request' \in [Requests -> Request], RequestInv',
         cast' \in [1..MaxSessions -> Votes], shown' \in [1..MaxSessions -> SUBSET Users],
         ended' \subseteq 1..opened', overwritten' \subseteq 1..MaxSessions,
         IdsOf(next) \subseteq 1..opened',
         \A i \in (1..MaxSessions) \ (1..opened') : cast'[i] = NoVotes /\ shown'[i] = {},
         next # None /\ next.id \notin overwritten' => next.votes = cast'[next.id],
         IsOpen(next) /\ next.id \notin overwritten' => shown'[next.id] = {},
         \A i \in (1..opened') \ overwritten' : i \in ended' <=> i \notin IdsOf(next)
  PROVE  IInv'
<1>1. activeSession' = next
  BY DEF SetActiveSession
<1>2. /\ screen' \in [Users -> [connected : {FALSE}] \cup [connected : {TRUE}, session : Payload]]
      /\ \A u \in Users : screen'[u].connected => screen'[u] = Sent(next)
  BY Broadcast DEF SetActiveSession, IInv
<1>3. TypeOK'
  <2>1. ended' \subseteq 1..MaxSessions
    BY PokerAssumption
  <2>. QED
    BY <1>1, <1>2, <2>1 DEF TypeOK
<1>4. FutureInv' /\ VotesAreCounted' /\ VotesAreBlind' /\ SessionsEndOnPurpose'
  BY <1>1 DEF FutureInv, VotesAreCounted, VotesAreBlind, SessionsEndOnPurpose, IsOpen, IdsOf, NoVotes
<1>5. ScreensAreCurrent'
  BY <1>1, <1>2 DEF ScreensAreCurrent, Sent, SessionResponse, IsOpen, NoVotes
<1>. QED
  BY <1>3, <1>4, <1>5 DEF IInv

\* Answering a request leaves the others what they rely on.
LEMMA AnswerKeeps ==
  ASSUME IInv, NEW r \in Requests, Answer(r), opened' \in 0..MaxSessions, opened <= opened'
  PROVE  request' \in [Requests -> Request] /\ RequestInv'
<1>1. request' \in [Requests -> Request]
  BY IdleOK DEF Answer, IInv, TypeOK
<1>2. ASSUME NEW o \in Requests
      PROVE  RequestOK(request[o])'
  <2>1. CASE request'[o] = Idle
    BY <2>1 DEF RequestOK, Idle
  <2>2. CASE request'[o] = request[o]
    BY <2>2 DEF IInv, TypeOK, RequestInv, RequestOK, IdsOf, IsOpen
  <2>. QED
    BY <2>1, <2>2 DEF Answer, IInv, TypeOK
<1>. QED
  BY <1>1, <1>2 DEF RequestInv

LEMMA OpenSessionKeeps ==
  ASSUME IInv, NEW r \in Requests, OpenSession(r)
  PROVE  IInv'
<1>. DEFINE q == request[r]
            next == [id |-> opened + 1, story |-> q.story, status |-> "Open", votes |-> NoVotes]
            over == activeSession = q.session /\ (IsOpen(q.session) => q.replaceActive)
            ids == IF over THEN IdsOf(q.session) ELSE {}
<1>1. /\ q \in Request /\ q.at = "start" /\ q # Idle
      /\ q.session \in Session \cup {None} /\ q.story \in Stories
      /\ IdsOf(q.session) \subseteq 1..opened
      /\ IsOpen(q.session) => q.replaceActive
  <2>1. q \in Request /\ q.at = "start"
    BY DEF IInv, TypeOK, OpenSession
  <2>2. RequestOK(q)
    BY DEF IInv, RequestInv
  <2>. QED
    BY <2>1, <2>2, RequestData DEF RequestOK
<1>2. /\ opened \in 0..MaxSessions /\ opened < MaxSessions /\ opened' = opened + 1
      /\ opened' \in 0..MaxSessions /\ MaxSessions \in Nat
  BY PokerAssumption DEF IInv, TypeOK, OpenSession
<1>3. next \in Session /\ IdsOf(next) = {opened + 1} /\ next # None /\ next.id = opened + 1
  <2>1. next \in Session
    BY <1>1, <1>2, NoVotesTyped DEF Session
  <2>. QED
    BY <2>1, SessionData
<1>4. /\ SetActiveSession(next) /\ Answer(r)
      /\ overwritten' = overwritten \cup (IF activeSession = q.session THEN {} ELSE IdsOf(activeSession))
      /\ ended' = ended \cup ids
      /\ cast' = [i \in 1..MaxSessions |-> IF i \in ids THEN NoVotes ELSE cast[i]]
      /\ shown' = [i \in 1..MaxSessions |-> IF i \in ids THEN {} ELSE shown[i]]
  BY DEF OpenSession, Overwrites, End, IdsOf
<1>5. ids \subseteq 1..opened
  BY <1>1
<1>6. /\ cast' \in [1..MaxSessions -> Votes] /\ shown' \in [1..MaxSessions -> SUBSET Users]
      /\ ended' \subseteq 1..opened' /\ overwritten' \subseteq 1..MaxSessions
  <2>. HIDE DEF ids
  <2>1. cast' \in [1..MaxSessions -> Votes] /\ shown' \in [1..MaxSessions -> SUBSET Users]
    BY <1>4, NoVotesTyped DEF IInv, TypeOK
  <2>2. 1..opened \subseteq 1..opened' /\ 1..opened \subseteq 1..MaxSessions
    BY <1>2
  <2>3. ended' \subseteq 1..opened'
    BY <1>4, <1>5, <2>2 DEF IInv, FutureInv
  <2>4. overwritten' \subseteq 1..MaxSessions
    BY <1>4, <2>2 DEF IInv, TypeOK, FutureInv
  <2>. QED
    BY <2>1, <2>3, <2>4
<1>7. \A i \in (1..MaxSessions) \ (1..opened) : cast'[i] = NoVotes /\ shown'[i] = {}
  BY <1>4 DEF IInv, FutureInv
<1>8. opened + 1 \in (1..MaxSessions) \ (1..opened)
  BY <1>2
<1>9. ASSUME NEW i \in (1..opened') \ overwritten'
      PROVE  i \in ended' <=> i \notin IdsOf(next)
  <2>1. CASE i = opened + 1
    BY <2>1, <1>2, <1>3, <1>4, <1>5 DEF IInv, FutureInv
  <2>2. CASE i # opened + 1
    <3>1. i \in (1..opened) \ overwritten
      BY <2>2, <1>2, <1>4
    <3>2. i \in ended \/ i \in IdsOf(activeSession)
      BY <3>1 DEF IInv, SessionsEndOnPurpose
    <3>3. i \in ended'
      BY <3>2, <1>1, <1>4
    <3>. QED
      BY <2>2, <3>3, <1>3
  <2>. QED
    BY <2>1, <2>2
<1>10. request' \in [Requests -> Request] /\ RequestInv'
  BY <1>2, <1>4, AnswerKeeps
<1>. HIDE DEF next
<1>11. next.votes = NoVotes
  BY DEF next
<1>. QED
  BY <1>2, <1>3, <1>4, <1>6, <1>7, <1>8, <1>9, <1>10, <1>11, StoreKeeps

LEMMA CastVoteKeeps ==
  ASSUME IInv, NEW r \in Requests, CastVote(r)
  PROVE  IInv'
<1>. DEFINE q == request[r]
            s == q.session
            next == [s EXCEPT !.votes = WithVote(@, q.user, q.point)]
<1>1. /\ q \in Request /\ q.at = "vote"
      /\ s \in Session /\ q.user \in Users /\ q.point \in Points
      /\ s.id \in 1..opened /\ IsOpen(s)
  <2>1. q \in Request /\ q.at = "vote"
    BY DEF IInv, TypeOK, CastVote
  <2>2. RequestOK(q)
    BY DEF IInv, RequestInv
  <2>. QED
    BY <2>1, <2>2, RequestData, SessionData DEF RequestOK
<1>2. /\ next \in Session /\ next.id = s.id /\ next.status = "Open" /\ IsOpen(next)
      /\ next.votes = [s.votes EXCEPT ![q.user] = q.point]
      /\ IdsOf(next) = {s.id} /\ next # None /\ IdsOf(s) = {s.id}
  <2>1. next \in Session /\ next.id = s.id /\ next.status = s.status
        /\ next.votes = [s.votes EXCEPT ![q.user] = q.point]
    BY <1>1 DEF Session, Votes, WithVote
  <2>. QED
    BY <1>1, <2>1, SessionData
<1>3. /\ SetActiveSession(next) /\ Answer(r)
      /\ overwritten' = overwritten \cup
           (IF activeSession = s THEN {} ELSE IdsOf(activeSession) \cup {s.id})
      /\ cast' = [cast EXCEPT ![s.id][q.user] = q.point]
      /\ shown' = [Tell(next) EXCEPT ![s.id] = @ \ {q.user}]
      /\ opened' = opened /\ ended' = ended
  BY <1>2 DEF CastVote, Overwrites
<1>. HIDE DEF next, s, q
<1>4. /\ opened \in 0..MaxSessions /\ MaxSessions \in Nat /\ s.id \in 1..MaxSessions
      /\ IdsOf(activeSession) \subseteq 1..MaxSessions
  BY <1>1, PokerAssumption DEF IInv, TypeOK, FutureInv
<1>5. /\ Tell(next) = shown
      /\ shown \in [1..MaxSessions -> SUBSET Users]
  BY <1>2, TellData DEF IInv, TypeOK
<1>6. /\ cast' \in [1..MaxSessions -> Votes] /\ shown' \in [1..MaxSessions -> SUBSET Users]
      /\ ended' \subseteq 1..opened' /\ overwritten' \subseteq 1..MaxSessions
  BY <1>1, <1>3, <1>4, <1>5 DEF IInv, TypeOK, FutureInv, Votes
<1>7. \A i \in (1..MaxSessions) \ (1..opened') : cast'[i] = NoVotes /\ shown'[i] = {}
  BY <1>1, <1>3, <1>5 DEF IInv, TypeOK, FutureInv
<1>8. next.id \notin overwritten' => next.votes = cast'[next.id]
  BY <1>1, <1>2, <1>3, <1>4, SessionData DEF IInv, TypeOK, VotesAreCounted, Votes
<1>9. next.id \notin overwritten' => shown'[next.id] = {}
  BY <1>1, <1>2, <1>3, <1>4, <1>5 DEF IInv, TypeOK, VotesAreBlind
<1>10. \A i \in (1..opened') \ overwritten' : i \in ended' <=> i \notin IdsOf(next)
  BY <1>2, <1>3 DEF IInv, SessionsEndOnPurpose
<1>11. request' \in [Requests -> Request] /\ RequestInv'
  BY <1>3, <1>4, AnswerKeeps
<1>12. opened' \in 0..MaxSessions /\ opened <= opened' /\ IdsOf(next) \subseteq 1..opened'
  BY <1>1, <1>2, <1>3, <1>4
<1>. QED
  BY <1>2, <1>3, <1>6, <1>7, <1>8, <1>9, <1>10, <1>11, <1>12, StoreKeeps

\* The requests in flight when a step leaves them alone.
LEMMA RequestsStay ==
  ASSUME IInv, request' = request, opened' = opened
  PROVE  request' \in [Requests -> Request] /\ RequestInv'
BY DEF IInv, TypeOK, RequestInv, RequestOK, IdsOf, IsOpen

LEMMA ActiveData ==
  ASSUME IInv, activeSession # None
  PROVE  /\ activeSession \in Session /\ activeSession.id \in 1..opened
         /\ IdsOf(activeSession) = {activeSession.id}
         /\ activeSession.id \in 1..MaxSessions /\ opened \in 0..MaxSessions
         /\ overwritten \subseteq 1..MaxSessions /\ MaxSessions \in Nat
         /\ ended \subseteq 1..opened
         /\ cast \in [1..MaxSessions -> Votes] /\ shown \in [1..MaxSessions -> SUBSET Users]
BY SessionData, PokerAssumption DEF IInv, TypeOK, FutureInv

LEMMA RevealKeeps ==
  ASSUME IInv, Reveal
  PROVE  IInv'
<1>. DEFINE s == activeSession
            next == [s EXCEPT !.status = "Revealed"]
<1>1. s # None
  BY DEF Reveal, IsOpen
<1>2. /\ next \in Session /\ next.id = s.id /\ ~IsOpen(next) /\ next.votes = s.votes
      /\ IdsOf(next) = {s.id} /\ next # None
  <2>1. next \in Session /\ next.id = s.id /\ next.status = "Revealed" /\ next.votes = s.votes
    BY <1>1, ActiveData, SessionData DEF Session
  <2>. QED
    BY <2>1, SessionData
<1>3. SetActiveSession(next) /\ shown' = Tell(next)
      /\ UNCHANGED <<opened, request, cast, ended, overwritten>>
  BY DEF Reveal
<1>. HIDE DEF next
<1>4. /\ shown' \in [1..MaxSessions -> SUBSET Users]
      /\ \A i \in 1..MaxSessions : i # s.id => shown'[i] = shown[i]
  BY <1>1, <1>2, <1>3, ActiveData, TellData
<1>5. \A i \in (1..MaxSessions) \ (1..opened') : cast'[i] = NoVotes /\ shown'[i] = {}
  BY <1>1, <1>3, <1>4, ActiveData DEF IInv, FutureInv
<1>6. next.id \notin overwritten' => next.votes = cast'[next.id]
  BY <1>1, <1>2, <1>3 DEF IInv, VotesAreCounted
<1>7. \A i \in (1..opened') \ overwritten' : i \in ended' <=> i \notin IdsOf(next)
  BY <1>1, <1>2, <1>3, ActiveData DEF IInv, SessionsEndOnPurpose
<1>. QED
  BY <1>1, <1>2, <1>3, <1>4, <1>5, <1>6, <1>7, ActiveData, RequestsStay, StoreKeeps

LEMMA ResetKeeps ==
  ASSUME IInv, Reset
  PROVE  IInv'
<1>. DEFINE s == activeSession
            next == [s EXCEPT !.status = "Open", !.votes = NoVotes]
<1>1. s # None
  BY DEF Reset
<1>2. /\ next \in Session /\ next.id = s.id /\ next.votes = NoVotes
      /\ IdsOf(next) = {s.id} /\ next # None
  <2>1. next \in Session /\ next.id = s.id /\ next.votes = NoVotes
    BY <1>1, ActiveData, SessionData DEF Session
  <2>. QED
    BY <2>1, SessionData
<1>3. /\ SetActiveSession(next)
      /\ cast' = [cast EXCEPT ![s.id] = NoVotes]
      /\ shown' = [shown EXCEPT ![s.id] = {}]
      /\ UNCHANGED <<opened, request, ended, overwritten>>
  <2>1. {u \in shown[s.id] : NoVotes[u] # None} = {}
    BY <1>1, ActiveData DEF NoVotes
  <2>. QED
    BY <2>1 DEF Reset, ResetVotes
<1>. HIDE DEF next
<1>4. /\ cast' \in [1..MaxSessions -> Votes] /\ shown' \in [1..MaxSessions -> SUBSET Users]
      /\ cast'[s.id] = NoVotes /\ shown'[s.id] = {}
      /\ \A i \in 1..MaxSessions : i # s.id => cast'[i] = cast[i] /\ shown'[i] = shown[i]
  BY <1>1, <1>3, ActiveData, NoVotesTyped
<1>5. \A i \in (1..MaxSessions) \ (1..opened') : cast'[i] = NoVotes /\ shown'[i] = {}
  BY <1>1, <1>3, <1>4, ActiveData DEF IInv, FutureInv
<1>6. \A i \in (1..opened') \ overwritten' : i \in ended' <=> i \notin IdsOf(next)
  BY <1>1, <1>2, <1>3, ActiveData DEF IInv, SessionsEndOnPurpose
<1>. QED
  BY <1>1, <1>2, <1>3, <1>4, <1>5, <1>6, ActiveData, RequestsStay, StoreKeeps

\* A step that removes the session: `ids` are the sessions it ends.
LEMMA RemovalKeeps ==
  ASSUME IInv, SetActiveSession(None), UNCHANGED opened,
         request' \in [Requests -> Request], RequestInv',
         NEW ids \in SUBSET (1..opened), End(ids),
         overwritten \subseteq overwritten', overwritten' \subseteq 1..MaxSessions,
         IdsOf(activeSession) \subseteq ids \cup overwritten'
  PROVE  IInv'
<1>1. /\ ended' = ended \cup ids
      /\ cast' = [i \in 1..MaxSessions |-> IF i \in ids THEN NoVotes ELSE cast[i]]
      /\ shown' = [i \in 1..MaxSessions |-> IF i \in ids THEN {} ELSE shown[i]]
  BY DEF End
<1>2. /\ cast' \in [1..MaxSessions -> Votes] /\ shown' \in [1..MaxSessions -> SUBSET Users]
      /\ ended' \subseteq 1..opened' /\ opened' \in 0..MaxSessions /\ opened <= opened'
  BY <1>1, NoVotesTyped, PokerAssumption DEF IInv, TypeOK, FutureInv
<1>3. \A i \in (1..MaxSessions) \ (1..opened') : cast'[i] = NoVotes /\ shown'[i] = {}
  BY <1>1 DEF IInv, FutureInv
<1>4. IdsOf(None) = {} /\ ~IsOpen(None)
  BY DEF IdsOf, IsOpen
<1>5. \A i \in (1..opened') \ overwritten' : i \in ended' <=> i \notin IdsOf(None)
  BY <1>1, <1>4 DEF IInv, SessionsEndOnPurpose
<1>. QED
  BY <1>2, <1>3, <1>4, <1>5, StoreKeeps

LEMMA CloseKeeps ==
  ASSUME IInv, Close
  PROVE  IInv'
<1>1. activeSession # None
  BY DEF Close
<1>. QED
  BY <1>1, ActiveData, RequestsStay, RemovalKeeps DEF Close

LEMMA DropSessionKeeps ==
  ASSUME IInv, NEW r \in Requests, DropSession(r)
  PROVE  IInv'
<1>. DEFINE s == request[r].session
<1>1. s \in Session /\ s.id \in 1..opened /\ IdsOf(s) = {s.id}
  <2>1. request[r] \in Request /\ request[r].at = "drop"
    BY DEF IInv, TypeOK, DropSession
  <2>2. RequestOK(request[r])
    BY DEF IInv, RequestInv
  <2>. QED
    BY <2>1, <2>2, RequestData, SessionData DEF RequestOK
<1>2. /\ SetActiveSession(None) /\ Answer(r) /\ End({s.id}) /\ opened' = opened
      /\ overwritten' = overwritten \cup (IF activeSession = s THEN {} ELSE IdsOf(activeSession))
  BY DEF DropSession, Overwrites, IdsOf
<1>3. /\ IdsOf(activeSession) \subseteq 1..MaxSessions /\ overwritten \subseteq 1..MaxSessions
      /\ opened \in 0..MaxSessions /\ opened <= opened'
  BY <1>2, PokerAssumption DEF IInv, TypeOK, FutureInv
<1>4. request' \in [Requests -> Request] /\ RequestInv'
  BY <1>2, <1>3, AnswerKeeps
<1>. QED
  BY <1>1, <1>2, <1>3, <1>4, RemovalKeeps

-----------------------------------------------------------------------------
(* Steps that leave the session alone.                                     *)

\* Readers: somebody may see a reply, and screens may be refreshed.
LEMMA ReadKeeps ==
  ASSUME IInv, UNCHANGED <<activeSession, opened, cast, ended, overwritten>>,
         request' \in [Requests -> Request], RequestInv',
         shown' \in {shown, Tell(activeSession)},
         screen' \in [Users -> [connected : {FALSE}] \cup [connected : {TRUE}, session : Payload]],
         \A u \in Users : screen'[u].connected => screen'[u] = Sent(activeSession)
  PROVE  IInv'
<1>1. /\ shown' \in [1..MaxSessions -> SUBSET Users]
      /\ IsOpen(activeSession) => shown' = shown
      /\ \A i \in 1..MaxSessions : i \notin IdsOf(activeSession) => shown'[i] = shown[i]
  BY TellData DEF IInv, TypeOK
<1>2. TypeOK'
  BY <1>1 DEF IInv, TypeOK
<1>3. FutureInv'
  BY <1>1 DEF IInv, FutureInv, IdsOf, NoVotes
<1>4. VotesAreCounted' /\ VotesAreBlind' /\ SessionsEndOnPurpose' /\ ScreensAreCurrent'
  BY <1>1 DEF IInv, VotesAreCounted, VotesAreBlind, SessionsEndOnPurpose, ScreensAreCurrent,
              IsOpen, IdsOf, Sent, SessionResponse, NoVotes
<1>. QED
  BY <1>2, <1>3, <1>4 DEF IInv

LEMMA GetSessionKeeps ==
  ASSUME IInv, GetSession
  PROVE  IInv'
<1>1. /\ UNCHANGED <<activeSession, opened, screen, request, cast, ended, overwritten>>
      /\ shown' = Tell(activeSession)
  BY DEF GetSession
<1>2. /\ screen' \in [Users -> [connected : {FALSE}] \cup [connected : {TRUE}, session : Payload]]
      /\ \A u \in Users : screen'[u].connected => screen'[u] = Sent(activeSession)
  BY <1>1 DEF IInv, TypeOK, ScreensAreCurrent
<1>. QED
  BY <1>1, <1>2, RequestsStay, ReadKeeps

LEMMA ConnectKeeps ==
  ASSUME IInv, NEW u \in Users, Connect(u)
  PROVE  IInv'
<1>1. Sent(activeSession) \in [connected : {TRUE}, session : Payload]
  BY SentTyped DEF IInv, TypeOK
<1>2. /\ screen' \in [Users -> [connected : {FALSE}] \cup [connected : {TRUE}, session : Payload]]
      /\ \A v \in Users : screen'[v].connected => screen'[v] = Sent(activeSession)
  BY <1>1 DEF Connect, IInv, TypeOK
<1>. QED
  BY <1>2, RequestsStay, ReadKeeps DEF Connect

LEMMA DisconnectKeeps ==
  ASSUME IInv, NEW u \in Users, Disconnect(u)
  PROVE  IInv'
<1>1. Sent(activeSession) \in [connected : {TRUE}, session : Payload]
  BY SentTyped DEF IInv, TypeOK
<1>2. /\ screen' \in [Users -> [connected : {FALSE}] \cup [connected : {TRUE}, session : Payload]]
      /\ \A v \in Users : screen'[v].connected => screen'[v] = Sent(activeSession)
  BY <1>1 DEF Disconnect, IInv, TypeOK
<1>. QED
  BY <1>2, RequestsStay, ReadKeeps DEF Disconnect

LEMMA RestartKeeps ==
  ASSUME IInv, Restart
  PROVE  IInv'
<1>1. request' \in [Requests -> Request] /\ RequestInv'
  BY IdleOK DEF Restart, RequestInv, RequestOK, Idle
<1>2. /\ screen' \in [Users -> [connected : {FALSE}] \cup [connected : {TRUE}, session : Payload]]
      /\ \A v \in Users : screen'[v].connected => screen'[v] = Sent(activeSession)
  BY DEF Restart
<1>. QED
  BY <1>1, <1>2, ReadKeeps DEF Restart, history

-----------------------------------------------------------------------------
(***************************************************************************)
(* The theorems.                                                           *)
(***************************************************************************)

LEMMA StepKeeps == IInv /\ [Next]_vars => IInv'
<1>. SUFFICES ASSUME IInv, [Next]_vars PROVE IInv'
  OBVIOUS
<1>1. CASE UNCHANGED vars
  <2>1. UNCHANGED <<activeSession, opened, screen, request, cast, shown, ended, overwritten>>
    BY <1>1 DEF vars
  <2>2. /\ screen' \in [Users -> [connected : {FALSE}] \cup [connected : {TRUE}, session : Payload]]
        /\ \A u \in Users : screen'[u].connected => screen'[u] = Sent(activeSession)
    BY <2>1 DEF IInv, TypeOK, ScreensAreCurrent
  <2>. QED
    BY <2>1, <2>2, RequestsStay, ReadKeeps
<1>2. CASE Next
  BY <1>2, StartSessionKeeps, OpenSessionKeeps, VoteKeeps, CastVoteKeeps, ApplyKeeps,
     UpdateStoryKeeps, DropSessionKeeps, RequestFailsKeeps, RevealKeeps, ResetKeeps, CloseKeeps,
     GetSessionKeeps, RestartKeeps, ConnectKeeps, DisconnectKeeps
  DEF Next
<1>. QED
  BY <1>1, <1>2

\* The inductive invariant of the planning poker object: what is stored agrees
\* with what the members were told, whatever requests read it before.
THEOREM Invariance == Spec => []IInv
BY InitOK, StepKeeps, PTL DEF Spec

\* The session, the screens and the requests keep their types.
THEOREM TypeCorrect == Spec => []TypeOK
<1>1. IInv => TypeOK
  BY DEF IInv
<1>. QED
  BY <1>1, Invariance, PTL

\* A vote a member was told is counted stays counted, unless a request writes
\* the session back from an older copy.
THEOREM VotesStayCounted == Spec => []VotesAreCounted
<1>1. IInv => VotesAreCounted
  BY DEF IInv
<1>. QED
  BY <1>1, Invariance, PTL

\* Nobody sees a point of a session that still takes votes.
THEOREM VotesStayBlind == Spec => []VotesAreBlind
<1>1. IInv => VotesAreBlind
  BY DEF IInv
<1>. QED
  BY <1>1, Invariance, PTL

\* Sessions end because somebody closes, applies or replaces them, and do not
\* come back.
THEOREM SessionsEnd == Spec => []SessionsEndOnPurpose
<1>1. IInv => SessionsEndOnPurpose
  BY DEF IInv
<1>. QED
  BY <1>1, Invariance, PTL

\* Every connected client looks at the session that is stored.
THEOREM ScreensStayCurrent == Spec => []ScreensAreCurrent
<1>1. IInv => ScreensAreCurrent
  BY DEF IInv
<1>. QED
  BY <1>1, Invariance, PTL

=============================================================================
