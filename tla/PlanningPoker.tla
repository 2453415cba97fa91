---------------------------- MODULE PlanningPoker ----------------------------
(***************************************************************************)
(* PlanningPokerDO: the estimation session of a project, kept in a Durable *)
(* Object.  The object runs one request at a time except at an await that  *)
(* is not one of its storage: reading a request's body and calling D1 let  *)
(* other requests in.  A step is what runs between two such awaits, so the *)
(* session a request works on is the one it read when it arrived.          *)
(* Votes are kept without their times.  The stories are the rest of the    *)
(* system's: whether D1 finds and accepts one is left open, and an agreed  *)
(* point is a PATCH like any other (StoryLifecycle).                       *)
(***************************************************************************)
EXTENDS Naturals

CONSTANTS
  Users,        \* members of the project
  Stories,      \* its stories
  Points,       \* its point scale
  Requests,     \* requests in flight at once
  None,         \* no session, no vote, no estimate, no socket
  MaxSessions   \* bound on the sessions opened

VARIABLES
  activeSession, \* the storage key of that name
  opened,        \* sessions opened so far, which is where their ids come from
  screen,        \* what each connected participant was sent last
  request,       \* the requests in flight
  cast,          \* history: the last vote each user was told is in a session
  shown,         \* history: users whose vote in a session somebody has seen,
                 \* both until the session ends
  ended,         \* history: sessions closed, applied or replaced
  overwritten    \* history: sessions hit by a write based on an older session

vars == <<activeSession, opened, screen, request, cast, shown, ended, overwritten>>

history == <<cast, shown, ended, overwritten>>

Votes == [Users -> Points \cup {None}]

NoVotes == [u \in Users |-> None]

Session ==
  [id : 1..MaxSessions, story : Stories, status : {"Open", "Revealed"}, votes : Votes]

ASSUME PokerAssumption ==
  /\ MaxSessions \in Nat
  /\ None \notin Points
  /\ None \notin Session

Idle == [at |-> "idle"]

\* "start", "vote" and "apply" have read the session and await their body or
\* D1; "drop" has written the estimate.
Request ==
  {Idle}
    \cup [at : {"start"}, session : Session \cup {None}, story : Stories, replaceActive : BOOLEAN]
    \cup [at : {"vote"}, session : Session, user : Users, point : Points]
    \cup [at : {"apply", "drop"}, session : Session]

Init ==
  /\ activeSession = None
  /\ opened = 0
  /\ screen = [u \in Users |-> [connected |-> FALSE]]
  /\ request = [r \in Requests |-> Idle]
  /\ cast = [i \in 1..MaxSessions |-> NoVotes]
  /\ shown = [i \in 1..MaxSessions |-> {}]
  /\ ended = {}
  /\ overwritten = {}

-----------------------------------------------------------------------------

IsOpen(session) == session # None /\ session.status = "Open"

\* Fault: the points of an open session are sent along.
SessionResponseFault(session) ==
  IF session = None THEN None
  ELSE [id |-> session.id, status |-> session.status,
        voted |-> {u \in Users : session.votes[u] # None}, points |-> session.votes]

SessionResponse(session) ==
  IF session = None THEN None
  ELSE [id |-> session.id, status |-> session.status,
        voted |-> {u \in Users : session.votes[u] # None},
        points |-> IF IsOpen(session) THEN NoVotes ELSE session.votes]

Sent(session) == [connected |-> TRUE, session |-> SessionResponse(session)]

BroadcastSession(session) ==
  screen' = [u \in Users |-> IF screen[u].connected THEN Sent(session) ELSE screen[u]]

\* Whose points a reply tells.
Told(session) == {u \in Users : SessionResponse(session).points[u] # None}

\* The replies carry the session even when nobody is connected.
Tell(session) ==
  IF session = None THEN shown ELSE [shown EXCEPT ![session.id] = @ \cup Told(session)]

IdsOf(session) == IF session = None THEN {} ELSE {session.id}

\* What is lost when `written` replaces a session that is not the one `read`.
Overwrites(read, written) ==
  overwritten' = overwritten \cup
    (IF activeSession = read THEN {} ELSE IdsOf(activeSession) \cup IdsOf(written))

\* What was known of sessions that are over does not matter any more.
End(ids) ==
  /\ ended' = ended \cup ids
  /\ cast' = [i \in 1..MaxSessions |-> IF i \in ids THEN NoVotes ELSE cast[i]]
  /\ shown' = [i \in 1..MaxSessions |-> IF i \in ids THEN {} ELSE shown[i]]

SetActiveSession(session) ==
  /\ activeSession' = session
  /\ BroadcastSession(session)

Await(r, q) == request[r] = Idle /\ request' = [request EXCEPT ![r] = q]

Answer(r) == request' = [request EXCEPT ![r] = Idle]

-----------------------------------------------------------------------------
(* POST /sessions.                                                         *)

\* Fault: another story's open session is not looked at.
MayOpenFault(current, s, replaceActive) ==
  ~(IsOpen(current) /\ current.story = s)

MayOpen(current, s, replaceActive) ==
  IsOpen(current) => current.story # s /\ replaceActive

\* Whether the session may open is decided after D1 has answered, but from
\* what was read here: a request that may not only answers.
StartSession(r, s, replaceActive) ==
  /\ MayOpen(activeSession, s, replaceActive)
  /\ Await(r, [at |-> "start", session |-> activeSession, story |-> s,
               replaceActive |-> replaceActive])
  /\ UNCHANGED <<activeSession, opened, screen, history>>

\* The story was found; a new session takes the place of the one that is stored.
OpenSession(r) ==
  LET q == request[r]
      next == [id |-> opened + 1, story |-> q.story, status |-> "Open", votes |-> NoVotes]
  IN
  /\ q.at = "start"
  /\ opened < MaxSessions
  /\ opened' = opened + 1
  /\ SetActiveSession(next)
  /\ Answer(r)
  /\ Overwrites(q.session, None)
  /\ End(IF activeSession = q.session /\ (IsOpen(q.session) => q.replaceActive)
         THEN IdsOf(q.session) ELSE {})

-----------------------------------------------------------------------------
(* Votes, reveal, reset, close.                                            *)

Vote(r, u, p) ==
  /\ IsOpen(activeSession)
  /\ Await(r, [at |-> "vote", session |-> activeSession, user |-> u, point |-> p])
  /\ UNCHANGED <<activeSession, opened, screen, history>>

WithVote(votes, u, p) == [votes EXCEPT ![u] = p]

\* The body has arrived; what is written is the session as it was before.
CastVote(r) ==
  LET q == request[r]
      next == [q.session EXCEPT !.votes = WithVote(@, q.user, q.point)]
  IN
  /\ q.at = "vote"
  /\ SetActiveSession(next)
  /\ Answer(r)
  /\ Overwrites(q.session, next)
  /\ cast' = [cast EXCEPT ![q.session.id][q.user] = q.point]
  /\ shown' = [Tell(next) EXCEPT ![q.session.id] = @ \ {q.user}]
  /\ UNCHANGED <<opened, ended>>

Reveal ==
  LET next == [activeSession EXCEPT !.status = "Revealed"] IN
  /\ IsOpen(activeSession)
  /\ SetActiveSession(next)
  /\ shown' = Tell(next)
  /\ UNCHANGED <<opened, request, cast, ended, overwritten>>

\* Fault: the votes survive a reset.
ResetVotesFault(session) == session.votes

ResetVotes(session) == NoVotes

Reset ==
  /\ activeSession # None /\ activeSession.status = "Revealed"
  /\ SetActiveSession([activeSession EXCEPT !.status = "Open",
                                            !.votes = ResetVotes(activeSession)])
  /\ cast' = [cast EXCEPT ![activeSession.id] = NoVotes]
  /\ shown' = [shown EXCEPT ![activeSession.id] =
                 {u \in @ : ResetVotes(activeSession)[u] # None}]
  /\ UNCHANGED <<opened, request, ended, overwritten>>

Close ==
  /\ activeSession # None
  /\ SetActiveSession(None)
  /\ End({activeSession.id})
  /\ UNCHANGED <<opened, request, overwritten>>

-----------------------------------------------------------------------------
(* POST /sessions/:id/apply.                                               *)

Apply(r) ==
  /\ activeSession # None /\ activeSession.status = "Revealed"
  /\ Await(r, [at |-> "apply", session |-> activeSession])
  /\ UNCHANGED <<activeSession, opened, screen, history>>

\* updateStory wrote the agreed point; when it refuses, RequestFails.
UpdateStory(r) ==
  /\ request[r].at = "apply"
  /\ request' = [request EXCEPT ![r].at = "drop"]
  /\ UNCHANGED <<activeSession, opened, screen, history>>

\* Whatever session is stored by now is dropped.
DropSession(r) ==
  /\ request[r].at = "drop"
  /\ SetActiveSession(None)
  /\ Answer(r)
  /\ Overwrites(request[r].session, None)
  /\ End({request[r].session.id})
  /\ UNCHANGED opened

-----------------------------------------------------------------------------
(* Readers and failures.                                                   *)

GetSession ==
  /\ activeSession # None
  /\ shown' = Tell(activeSession)
  /\ UNCHANGED <<activeSession, opened, screen, request, cast, ended, overwritten>>

Connect(u) ==
  /\ ~screen[u].connected
  /\ screen' = [v \in Users |->
       IF v = u \/ screen[v].connected THEN Sent(activeSession) ELSE screen[v]]
  /\ shown' = Tell(activeSession)
  /\ UNCHANGED <<activeSession, opened, request, cast, ended, overwritten>>

Disconnect(u) ==
  /\ screen[u].connected
  /\ screen' = [v \in Users |->
       IF v = u THEN [connected |-> FALSE]
       ELSE IF screen[v].connected THEN Sent(activeSession) ELSE screen[v]]
  /\ shown' = IF \E v \in Users \ {u} : screen[v].connected THEN Tell(activeSession) ELSE shown
  /\ UNCHANGED <<activeSession, opened, request, cast, ended, overwritten>>

\* A bad body, a story or project that is gone or archived, a D1 error.
RequestFails(r) ==
  /\ request[r] # Idle
  /\ Answer(r)
  /\ UNCHANGED <<activeSession, opened, screen, history>>

\* The object is evicted: its requests and sockets are gone, its storage stays.
Restart ==
  /\ request' = [r \in Requests |-> Idle]
  /\ screen' = [u \in Users |-> [connected |-> FALSE]]
  /\ UNCHANGED <<activeSession, opened, history>>

Next ==
  \/ \E r \in Requests, s \in Stories, replaceActive \in BOOLEAN :
       StartSession(r, s, replaceActive)
  \/ \E r \in Requests : OpenSession(r)
  \/ \E r \in Requests, u \in Users, p \in Points : Vote(r, u, p)
  \/ \E r \in Requests : CastVote(r) \/ Apply(r) \/ UpdateStory(r) \/ DropSession(r) \/ RequestFails(r)
  \/ Reveal \/ Reset \/ Close \/ GetSession \/ Restart
  \/ \E u \in Users : Connect(u) \/ Disconnect(u)

Spec == Init /\ [][Next]_vars

-----------------------------------------------------------------------------

\* What a screen can hold.
Payload ==
  {None} \cup
    [id : 1..MaxSessions, status : {"Open", "Revealed"}, voted : SUBSET Users, points : Votes]

\* What storage, the sockets and the requests in flight of the object may hold.
TypeOK ==
  /\ activeSession \in Session \cup {None}
  /\ opened \in 0..MaxSessions
  /\ screen \in [Users -> [connected : {FALSE}] \cup [connected : {TRUE}, session : Payload]]
  /\ request \in [Requests -> Request]
  /\ cast \in [1..MaxSessions -> Votes]
  /\ shown \in [1..MaxSessions -> SUBSET Users]
  /\ ended \subseteq 1..MaxSessions
  /\ overwritten \subseteq 1..MaxSessions

\* A session holds exactly the last vote each user was told is in it, unless a
\* request wrote it back from an older copy (durable-objects/planning-poker-do.ts:308).
VotesAreCounted ==
  activeSession # None /\ activeSession.id \notin overwritten
    => activeSession.votes = cast[activeSession.id]

\* While a session takes votes nobody has seen a point of it: not before the
\* reveal, and not from before a reset.  A vote written back over a reveal is
\* the exception.
VotesAreBlind ==
  IsOpen(activeSession) /\ activeSession.id \notin overwritten
    => shown[activeSession.id] = {}

\* A session that was closed, applied or replaced does not come back, and one
\* that was not is still there, unless a request wrote from an older copy: that
\* is how a late vote brings one back and how apply drops another's
\* (planning-poker-do.ts:396).
SessionsEndOnPurpose ==
  \A i \in (1..opened) \ overwritten :
    i \in ended <=> i \notin IdsOf(activeSession)

\* What the clients were sent last is the session that is stored, whichever
\* request changed it and in whichever order they overlapped.
ScreensAreCurrent ==
  \A u \in Users : screen[u].connected => screen[u] = Sent(activeSession)
=============================================================================
