----------------------------- MODULE ProjectProofs -----------------------------
(***************************************************************************)
(* Machine-checked proofs about a project: who belongs to it (Membership), *)
(* for any users, projects, invitations, requests and limits, and its      *)
(* iterations (Iterations), for any stories, PATCHes and calendar.         *)
(***************************************************************************)
EXTENDS Membership, Iterations, FiniteSetTheorems, WellFoundedInduction, TLAPS

(***************************************************************************)
(* Membership: the inductive invariant.                                    *)
(***************************************************************************)

Creates(q, u) == q.at \in {"insert project", "insert owner"} /\ q.user = u

Owned(u) == {p \in Projects : role[p][u] = "owner"}

NewRow(row) ==
  /\ row.status = "pending" /\ ~row.expired /\ row.acceptedBy = None
  /\ row.kind = "link" <=> row.target = None

\* What is left, when a request writes, of what its check saw.
RequestOK(q) ==
  /\ q # Idle => q.user \in account \cup outlived
  /\ \A u \in Users : Creates(q, u) => 0 < Limit[u]
  /\ q.at = "insert invitation" => NewRow(q.row)
  /\ q.at \in {"join", "mark accepted"} =>
       /\ q.invitation \in sent
       /\ invitation[q.invitation] # None => invitation[q.invitation].target = q.user
  /\ q.at = "accept link" =>
       /\ q.invitation \in sent
       /\ invitation[q.invitation] # None => invitation[q.invitation].target = None
  /\ q.at = "delete account" => \A p \in Projects : q.owners[p] # {q.user}

RequestInv == \A r \in Requests : RequestOK(request[r])

\* An invitation that may still be used let nobody in; one to a person never
\* lets anybody in as a link does.
InvitationOK(i, row) ==
  /\ row.project \in projects
  /\ row.kind = "link" <=> row.target = None
  /\ row.target # None => admitted[i] = {}
  /\ row.status = "pending" /\ ~row.expired => admitted[i] = {}

InvitationInv ==
  \A i \in Invitations :
    /\ i \notin sent => invitation[i] = None /\ admitted[i] = {}
    /\ invitation[i] # None => InvitationOK(i, invitation[i])

\* Who never created two projects at once has room for the one under way.
PlanInv ==
  /\ IsFiniteSet(created)
  /\ \A u \in Users \ overlapped : \A r, s \in Requests :
       Creates(request[r], u) /\ Creates(request[s], u) => r = s
  /\ \A u \in Users \ (promoted \cup overlapped) : \A r \in Requests :
       Creates(request[r], u) => CountOwnedProjects(u) < Limit[u]

IInv ==
  /\ TypeOK
  /\ RequestInv
  /\ InvitationInv
  /\ PlanInv
  /\ OwnersLeaveOnPurpose
  /\ LimitIsKept
  /\ LinksAdmitOne
  /\ MembersHaveAccounts

-----------------------------------------------------------------------------
(***************************************************************************)
(* Data.                                                                   *)
(***************************************************************************)

LEMMA IdleAt == Idle.at = "idle"
BY DEF Idle

LEMMA RequestData ==
  ASSUME NEW q \in Request
  PROVE  /\ q # Idle => q.user \in Users
         /\ q.at = "idle" <=> q = Idle
         /\ q.at = "insert owner" => q.project \in Projects
         /\ q.at = "insert invitation" => q.row \in Invitation
         /\ q.at \in {"revoke", "join", "mark accepted", "accept link"} =>
              q.invitation \in Invitations
         /\ q.at \in {"join", "update role"} => q.project \in Projects /\ q.role \in Roles
         /\ q.at = "update role" => q.target \in Users
         /\ q.at = "delete project" => q.project \in Projects
         /\ q.at = "delete account" => q.owners \in [Projects -> SUBSET Users]
<1>1. CASE q \in [at : {"insert project"}, user : Users]
  BY <1>1, IdleAt
<1>2. CASE q \in [at : {"insert owner"}, user : Users, project : Projects]
  BY <1>2, IdleAt
<1>3. CASE q \in [at : {"insert invitation"}, user : Users, row : Invitation]
  BY <1>3, IdleAt
<1>4. CASE q \in [at : {"revoke"}, user : Users, invitation : Invitations]
  BY <1>4, IdleAt
<1>5. CASE q \in [at : {"join"}, user : Users, invitation : Invitations, project : Projects, role : Roles]
  BY <1>5, IdleAt
<1>6. CASE q \in [at : {"mark accepted"}, user : Users, invitation : Invitations]
  BY <1>6, IdleAt
<1>7. CASE q \in [at : {"create profile"}, user : Users]
  BY <1>7, IdleAt
<1>8. CASE q \in [at : {"accept link"}, user : Users, invitation : Invitations]
  BY <1>8, IdleAt
<1>9. CASE q \in [at : {"update role"}, user : Users, project : Projects, target : Users, role : Roles]
  BY <1>9, IdleAt
<1>10. CASE q \in [at : {"delete project"}, user : Users, project : Projects]
  BY <1>10, IdleAt
<1>11. CASE q \in [at : {"delete account"}, user : Users, owners : [Projects -> SUBSET Users]]
  BY <1>11, IdleAt
<1>12. CASE q = Idle
  BY <1>12, IdleAt
<1>. QED
  BY <1>1, <1>2, <1>3, <1>4, <1>5, <1>6, <1>7, <1>8, <1>9, <1>10, <1>11, <1>12, Zenon DEF Request

LEMMA InvitationData ==
  ASSUME NEW row \in Invitation
  PROVE  /\ row # None
         /\ row.kind \in Kinds /\ row.role \in Roles /\ row.project \in Projects
         /\ row.inviter \in Users /\ row.target \in Users \cup {None}
         /\ row.status \in {"pending", "accepted", "cancelled"}
         /\ row.expired \in BOOLEAN /\ row.acceptedBy \in Users \cup {None}
BY MembershipAssumption DEF Invitation

LEMMA InvitationUpdates ==
  ASSUME NEW row \in Invitation, NEW u \in Users
  PROVE  /\ Accepted(row, u) \in Invitation
         /\ Accepted(row, u).status = "accepted" /\ Accepted(row, u).acceptedBy = u
         /\ Accepted(row, u).target = row.target /\ Accepted(row, u).kind = row.kind
         /\ Accepted(row, u).project = row.project
BY DEF Invitation, Accepted

\* What revoking and expiring leave as it was.
LEMMA InvitationEnds ==
  ASSUME NEW row \in Invitation, NEW next,
         \/ next = [row EXCEPT !.status = "cancelled"]
         \/ next = [row EXCEPT !.expired = TRUE]
  PROVE  /\ next \in Invitation
         /\ next.target = row.target /\ next.kind = row.kind /\ next.project = row.project
         /\ next.acceptedBy = row.acceptedBy
         /\ next.status \in {row.status, "cancelled"} /\ next.expired \in {row.expired, TRUE}
BY DEF Invitation

LEMMA IdleOK ==
  ASSUME NEW u
  PROVE  Idle \in Request /\ ~Creates(Idle, u)
BY DEF Request, Idle, Creates

LEMMA OwnedIsFinite ==
  ASSUME IInv, NEW u \in Users
  PROVE  /\ IsFiniteSet(Owned(u))
         /\ CountOwnedProjects(u) = Cardinality(Owned(u))
         /\ CountOwnedProjects(u) \in Nat
<1>1. Owned(u) \subseteq created
  BY MembershipAssumption DEF IInv, TypeOK, MembersHaveAccounts, Owned, Roles
<1>2. IsFiniteSet(Owned(u))
  BY <1>1, FS_Subset DEF IInv, PlanInv
<1>3. CountOwnedProjects(u) = Cardinality(Owned(u))
  BY DEF CountOwnedProjects, Owned
<1>. QED
  BY <1>2, <1>3, FS_CardinalityType

-----------------------------------------------------------------------------
(***************************************************************************)
(* What many steps have in common.                                         *)
(***************************************************************************)

\* A request goes on; the others keep what they know.
LEMMA RequestsKeep ==
  ASSUME IInv, NEW r \in Requests, NEW q \in Request,
         request' = [request EXCEPT ![r] = q], RequestOK(q)',
         \A o \in Requests \ {r} : request[o] # Idle /\ request[o].user \in account \cup outlived
           => request[o].user \in account' \cup outlived',
         sent \subseteq sent',
         \A i \in sent : invitation'[i] # None =>
           invitation[i] # None /\ invitation'[i].target = invitation[i].target
  PROVE  RequestInv'
<1>. SUFFICES ASSUME NEW o \in Requests PROVE RequestOK(request[o])'
  BY DEF RequestInv
<1>1. CASE o = r
  BY <1>1 DEF IInv, TypeOK
<1>2. CASE o # r
  <2>1. request'[o] = request[o] /\ RequestOK(request[o])
    BY <1>2 DEF IInv, TypeOK, RequestInv
  <2>. QED
    BY <2>1, <1>2 DEF RequestOK, NewRow, Creates
<1>. QED
  BY <1>1, <1>2

\* Nobody gets a project but by somebody else's decision.
LEMMA PlanKeeps ==
  ASSUME IInv, NEW r \in Requests, NEW q \in Request, request' = [request EXCEPT ![r] = q],
         RequestInv', IsFiniteSet(created'), overlapped \subseteq overlapped',
         \A u \in Users : Creates(q, u) => Creates(request[r], u),
         \A u \in Users \ (promoted' \cup overlapped') :
            \/ Owned(u)' = {}
            \/ u \notin promoted /\ Owned(u)' \subseteq Owned(u)
  PROVE  PlanInv' /\ LimitIsKept'
<1>1. \A o \in Requests, u \in Users : Creates(request'[o], u) => Creates(request[o], u)
  BY DEF IInv, TypeOK
<1>2. \A u \in Users \ overlapped' : \A o, s \in Requests :
        Creates(request'[o], u) /\ Creates(request'[s], u) => o = s
  BY <1>1 DEF IInv, PlanInv
<1>3. ASSUME NEW u \in Users \ (promoted' \cup overlapped')
      PROVE  /\ CountOwnedProjects(u)' <= Limit[u]
             /\ \A o \in Requests : Creates(request'[o], u) => CountOwnedProjects(u)' < Limit[u]
  <2>0. CountOwnedProjects(u)' = Cardinality(Owned(u)') /\ Limit[u] \in Nat
    BY MembershipAssumption DEF CountOwnedProjects, Owned
  <2>1. CASE Owned(u)' = {}
    <3>1. CountOwnedProjects(u)' = 0
      BY <2>0, <2>1, FS_EmptySet
    <3>2. \A o \in Requests : Creates(request'[o], u) => 0 < Limit[u]
      BY DEF RequestInv, RequestOK, Creates
    <3>. QED
      BY <2>0, <3>1, <3>2
  <2>2. CASE u \notin promoted /\ Owned(u)' \subseteq Owned(u)
    <3>1. CountOwnedProjects(u) = Cardinality(Owned(u)) /\ IsFiniteSet(Owned(u))
          /\ CountOwnedProjects(u) \in Nat
      BY OwnedIsFinite
    <3>2. CountOwnedProjects(u)' <= CountOwnedProjects(u) /\ CountOwnedProjects(u)' \in Nat
      BY <2>0, <2>2, <3>1, FS_Subset, FS_CardinalityType
    <3>3. CountOwnedProjects(u) <= Limit[u]
      BY <2>2 DEF IInv, LimitIsKept
    <3>4. \A o \in Requests : Creates(request'[o], u) => CountOwnedProjects(u) < Limit[u]
      BY <1>1, <2>2 DEF IInv, PlanInv
    <3>. QED
      BY <2>0, <3>1, <3>2, <3>3, <3>4
  <2>. QED
    BY <2>1, <2>2
<1>. QED
  BY <1>2, <1>3 DEF PlanInv, LimitIsKept

-----------------------------------------------------------------------------
(***************************************************************************)
(* The initial states and the steps.                                       *)
(***************************************************************************)

LEMMA InitOK == Init => IInv
<1>. SUFFICES ASSUME Init PROVE IInv
  OBVIOUS
<1>1. TypeOK
  BY IdleOK DEF Init, TypeOK
<1>2. RequestInv
  BY IdleOK, IdleAt DEF Init, RequestInv, RequestOK
<1>3. InvitationInv
  BY DEF Init, InvitationInv
<1>4. LinksAdmitOne
  BY FS_EmptySet DEF Init, LinksAdmitOne
<1>5. \A u \in Users : CountOwnedProjects(u) = 0
  <2>. SUFFICES ASSUME NEW u \in Users PROVE Cardinality({p \in Projects : role[p][u] = "owner"}) = 0
    BY DEF CountOwnedProjects
  <2>1. {p \in Projects : role[p][u] = "owner"} = {}
    BY MembershipAssumption DEF Init, Roles
  <2>. QED
    BY <2>1, FS_EmptySet
<1>6. LimitIsKept
  BY <1>5, MembershipAssumption DEF LimitIsKept
<1>7. PlanInv
  BY IdleOK, FS_EmptySet DEF Init, PlanInv
<1>. QED
  BY <1>1, <1>2, <1>3, <1>4, <1>6, <1>7
  DEF IInv, Init, OwnersLeaveOnPurpose, MembersHaveAccounts

\* A step that changes no row but the requests.
LEMMA WaitKeeps ==
  ASSUME IInv, NEW r \in Requests, NEW q \in Request, request' = [request EXCEPT ![r] = q],
         RequestOK(q), \A u \in Users : Creates(q, u) => Creates(request[r], u),
         UNCHANGED <<account, created, projects, role, sent, invitation,
                     admitted, promoted, overlapped, outlived>>,
         excused \subseteq excused' /\ excused' \subseteq Projects,
         request[r].at = "insert owner" => request[r].project \in excused'
  PROVE  IInv'
<1>1. TypeOK'
  BY DEF IInv, TypeOK
<1>2. RequestInv'
  <2>1. RequestOK(q)'
    BY DEF RequestOK, Creates, NewRow
  <2>. QED
    BY <2>1, RequestsKeep
<1>3. InvitationInv' /\ LinksAdmitOne' /\ MembersHaveAccounts'
  BY DEF IInv, InvitationInv, InvitationOK, LinksAdmitOne, MembersHaveAccounts
<1>4. OwnersLeaveOnPurpose'
  <2>. SUFFICES ASSUME NEW p \in projects, OwnersOf(p) = {}, p \notin excused'
                PROVE  \E o \in Requests : request'[o].at = "insert owner" /\ request'[o].project = p
    BY DEF OwnersLeaveOnPurpose, OwnersOf
  <2>1. PICK o \in Requests : request[o].at = "insert owner" /\ request[o].project = p
    BY DEF IInv, OwnersLeaveOnPurpose
  <2>2. o # r
    BY <2>1
  <2>. QED
    BY <2>1, <2>2 DEF IInv, TypeOK
<1>5. PlanInv' /\ LimitIsKept'
  BY <1>2, PlanKeeps DEF IInv, PlanInv, Owned
<1>. QED
  BY <1>1, <1>2, <1>3, <1>4, <1>5 DEF IInv

LEMMA FailKeeps == ASSUME IInv, NEW r \in Requests, RequestFails(r) PROVE IInv'
<1>1. Idle \in Request /\ RequestOK(Idle) /\ \A u \in Users : ~Creates(Idle, u)
  BY IdleOK, IdleAt DEF RequestOK
<1>2. request[r] \in Request
  BY DEF IInv, TypeOK
<1>3. /\ excused \subseteq excused' /\ excused' \subseteq Projects
      /\ request[r].at = "insert owner" => request[r].project \in excused'
  BY <1>2, RequestData DEF RequestFails, IInv, TypeOK
<1>. QED
  BY <1>1, <1>3, WaitKeeps DEF RequestFails, Answer

\* The checks that only remember.
LEMMA SendsKeeps ==
  ASSUME IInv, NEW r \in Requests, NEW u \in Users, NEW q \in Request, q.user = u,
         q.at \notin {"insert project", "insert owner"},
         q.at = "insert invitation" => NewRow(q.row),
         q.at = "join" =>
           q.invitation \in sent /\ invitation[q.invitation].target = q.user,
         q.at # "mark accepted",
         q.at = "accept link" =>
           q.invitation \in sent /\ invitation[q.invitation].target = None,
         q.at = "delete account" => \A p \in Projects : q.owners[p] # {q.user},
         Sends(r, u, q),
         UNCHANGED <<account, created, projects, role, sent, invitation, history>>
  PROVE  IInv'
<1>1. RequestOK(q) /\ \A v \in Users : ~Creates(q, v)
  BY DEF RequestOK, Sends, Creates
<1>2. request[r].at # "insert owner"
  BY IdleAt DEF Sends
<1>. QED
  BY <1>1, <1>2, WaitKeeps DEF Sends, history, IInv, TypeOK

LEMMA StartKeeps == ASSUME IInv, NEW r \in Requests, NEW u \in Users, Start(r, u),
                           ~AuthorizeProjectCreation(r, u)
                    PROVE  IInv'
<1>1. ASSUME NEW p \in Projects, NEW t \in Users \cup {None}, NEW template \in Templates,
             Invite(r, u, p, t, template)
      PROVE  IInv'
  <2>. DEFINE row == [kind |-> template.kind, role |-> template.role, project |-> p,
                      inviter |-> u, target |-> t, status |-> "pending",
                      expired |-> FALSE, acceptedBy |-> None]
              q == [at |-> "insert invitation", user |-> u, row |-> row]
  <2>1. row \in Invitation /\ NewRow(row)
    BY <1>1, MembershipAssumption DEF Invitation, NewRow, Invite
  <2>2. q \in Request
    BY <2>1 DEF Request
  <2>3. Sends(r, u, q)
    BY <1>1 DEF Invite
  <2>4. UNCHANGED <<account, created, projects, role, sent, invitation, history>>
    BY <1>1 DEF Invite
  <2>5. q.user = u /\ q.at = "insert invitation" /\ q.row = row
    OBVIOUS
  <2>. HIDE DEF q, row
  <2>. QED
    BY <2>1, <2>2, <2>3, <2>4, <2>5, SendsKeeps
<1>2. ASSUME NEW i \in Invitations, RequestRevoke(r, u, i) PROVE IInv'
  <2>. DEFINE q == [at |-> "revoke", user |-> u, invitation |-> i]
  <2>1. q \in Request
    BY DEF Request
  <2>. QED
    BY <1>2, <2>1, SendsKeeps DEF RequestRevoke
<1>3. ASSUME NEW i \in Invitations, Accept(r, u, i) PROVE IInv'
  <2>. DEFINE q == [at |-> "join", user |-> u, invitation |-> i,
                    project |-> invitation[i].project, role |-> invitation[i].role]
  <2>1. invitation[i] \in Invitation /\ i \in sent /\ invitation[i].target = u
    BY <1>3 DEF Accept, Acceptable, IInv, TypeOK, InvitationInv
  <2>2. q \in Request
    BY <2>1, InvitationData DEF Request
  <2>. QED
    BY <1>3, <2>1, <2>2, SendsKeeps DEF Accept
<1>4. ASSUME NEW i \in Invitations, RequestAcceptLink(r, u, i) PROVE IInv'
  <2>. DEFINE q == [at |-> "accept link", user |-> u, invitation |-> i]
  <2>1. i \in sent /\ invitation[i].target = None
    BY <1>4 DEF RequestAcceptLink, IInv, InvitationInv, InvitationOK
  <2>2. q \in Request
    BY DEF Request
  <2>. QED
    BY <1>4, <2>1, <2>2, SendsKeeps DEF RequestAcceptLink
<1>5. ASSUME NEW p \in Projects, NEW t \in Users, NEW given \in RolesGiven,
             ChangeRole(r, u, p, t, given)
      PROVE  IInv'
  <2>. DEFINE q == [at |-> "update role", user |-> u, project |-> p, target |-> t, role |-> given]
  <2>1. q \in Request
    BY MembershipAssumption DEF Request
  <2>. QED
    BY <1>5, <2>1, SendsKeeps DEF ChangeRole
<1>6. ASSUME NEW p \in Projects, RequestDeleteProject(r, u, p) PROVE IInv'
  <2>. DEFINE q == [at |-> "delete project", user |-> u, project |-> p]
  <2>1. q \in Request
    BY DEF Request
  <2>. QED
    BY <1>6, <2>1, SendsKeeps DEF RequestDeleteProject
<1>7. CASE RequestDeleteAccount(r, u)
  <2>. DEFINE owners == [p \in Projects |-> OwnersOf(p)]
              q == [at |-> "delete account", user |-> u, owners |-> owners]
  <2>1. owners \in [Projects -> SUBSET Users] /\ \A p \in Projects : owners[p] # {u}
    BY <1>7 DEF RequestDeleteAccount, SoleOwnerProjects, OwnersOf
  <2>2. q \in Request
    BY <2>1 DEF Request
  <2>3. q.user = u /\ q.at = "delete account" /\ q.owners = owners
    OBVIOUS
  <2>4. Sends(r, u, q) /\ UNCHANGED <<account, created, projects, role, sent, invitation, history>>
    BY <1>7 DEF RequestDeleteAccount
  <2>. HIDE DEF q, owners
  <2>. QED
    BY <2>1, <2>2, <2>3, <2>4, SendsKeeps
<1>. QED
  BY <1>1, <1>2, <1>3, <1>4, <1>5, <1>6, <1>7 DEF Start

LEMMA AuthorizeKeeps ==
  ASSUME IInv, NEW r \in Requests, NEW u \in Users, AuthorizeProjectCreation(r, u)
  PROVE  IInv'
<1>a. PICK q \in Request : q = [at |-> "insert project", user |-> u]
  BY DEF Request
<1>0. request[r] = Idle /\ request' = [request EXCEPT ![r] = q] /\ u \in account
  BY <1>a DEF AuthorizeProjectCreation, Sends
<1>1. \A v \in Users : Creates(q, v) => v = u
  BY <1>a DEF Creates
<1>2. TypeOK'
  BY <1>0, <1>1 DEF IInv, TypeOK, AuthorizeProjectCreation
<1>3. CountOwnedProjects(u) \in Nat /\ Limit[u] \in Nat /\ CountOwnedProjects(u) < Limit[u]
  BY OwnedIsFinite, MembershipAssumption DEF AuthorizeProjectCreation, MayCreate
<1>4. RequestInv'
  <2>0. q.at = "insert project" /\ q.user = u
    BY <1>a
  <2>1. RequestOK(q)'
    <3>0. u \in account'
      BY <1>0 DEF AuthorizeProjectCreation
    <3>1. 0 < Limit[u]
      BY <1>3
    <3>2. \A v \in Users : Creates(q, v) => 0 < Limit[v]
      BY <1>1, <3>1
    <3>. QED
      BY <3>0, <3>2, <2>0 DEF RequestOK
  <2>. QED
    BY <2>1, <1>0, <1>1, RequestsKeep DEF AuthorizeProjectCreation
<1>5. InvitationInv' /\ LinksAdmitOne' /\ MembersHaveAccounts'
  BY DEF IInv, InvitationInv, InvitationOK, LinksAdmitOne, MembersHaveAccounts,
         AuthorizeProjectCreation
<1>6. OwnersLeaveOnPurpose'
  <2>. SUFFICES ASSUME NEW p \in projects, OwnersOf(p) = {}, p \notin excused
                PROVE  \E o \in Requests : request'[o].at = "insert owner" /\ request'[o].project = p
    BY DEF OwnersLeaveOnPurpose, OwnersOf, AuthorizeProjectCreation
  <2>1. PICK o \in Requests : request[o].at = "insert owner" /\ request[o].project = p
    BY DEF IInv, OwnersLeaveOnPurpose
  <2>2. o # r
    BY <2>1, <1>0, IdleAt
  <2>. QED
    BY <2>1, <2>2, <1>0 DEF IInv, TypeOK
<1>7. \A v \in Users : CountOwnedProjects(v)' = CountOwnedProjects(v)
  BY DEF CountOwnedProjects, AuthorizeProjectCreation
<1>8. LimitIsKept'
  BY <1>7 DEF IInv, LimitIsKept, AuthorizeProjectCreation
<1>9. PlanInv'
  <2>1. \A v \in Users \ overlapped' : \A o, s \in Requests :
          Creates(request'[o], v) /\ Creates(request'[s], v) => o = s
    <3>. SUFFICES ASSUME NEW v \in Users \ overlapped', NEW o \in Requests, NEW s \in Requests,
                         Creates(request'[o], v), Creates(request'[s], v)
                  PROVE  o = s
      OBVIOUS
    <3>1. v \notin overlapped
      BY DEF AuthorizeProjectCreation
    <3>2. CASE v # u
      <4>1. o # r /\ s # r
        BY <3>2, <1>0, <1>1 DEF IInv, TypeOK
      <4>. QED
        BY <4>1, <3>1, <1>0 DEF IInv, TypeOK, PlanInv
    <3>3. CASE v = u
      <4>1. \A x \in Requests : ~Creates(request[x], u)
        BY <3>3 DEF AuthorizeProjectCreation, Creates
      <4>. QED
        BY <4>1, <3>3, <1>0 DEF IInv, TypeOK
    <3>. QED
      BY <3>2, <3>3
  <2>2. ASSUME NEW v \in Users \ (promoted' \cup overlapped'), NEW o \in Requests,
               Creates(request'[o], v)
        PROVE  CountOwnedProjects(v) < Limit[v]
    <3>1. CASE o = r
      BY <3>1, <2>2, <1>0, <1>1, <1>3 DEF IInv, TypeOK
    <3>2. CASE o # r
      BY <3>2, <2>2, <1>0 DEF IInv, TypeOK, PlanInv, AuthorizeProjectCreation
    <3>. QED
      BY <3>1, <3>2
  <2>. QED
    BY <2>1, <2>2, <1>7 DEF PlanInv, IInv, AuthorizeProjectCreation
<1>. QED
  BY <1>2, <1>4, <1>5, <1>6, <1>8, <1>9 DEF IInv

LEMMA InsertProjectKeeps ==
  ASSUME IInv, NEW r \in Requests, NEW p \in Projects, InsertProject(r, p) PROVE IInv'
<1>a. /\ request[r] \in Request /\ request[r].at = "insert project" /\ request[r].user \in Users
      /\ request[r] # Idle
  BY RequestData, IdleAt DEF IInv, TypeOK, InsertProject
<1>b. PICK q \in Request : q = [at |-> "insert owner", user |-> request[r].user, project |-> p]
  BY <1>a DEF Request
<1>0. request[r] \in Request /\ request[r].at = "insert project" /\ request[r].user \in Users
      /\ request[r] # Idle /\ request' = [request EXCEPT ![r] = q]
  BY <1>a, <1>b DEF InsertProject
<1>1. \A u \in Users : Creates(q, u) => Creates(request[r], u)
  BY <1>0, <1>b DEF Creates
<1>2. TypeOK'
  BY <1>0, <1>1 DEF IInv, TypeOK, InsertProject, history
<1>3. RequestInv'
  <2>1. RequestOK(request[r])
    BY DEF IInv, RequestInv
  <2>0. q.at = "insert owner" /\ q.user = request[r].user
    BY <1>b
  <2>2. UNCHANGED <<account, outlived, sent, invitation>>
    BY DEF InsertProject, history
  <2>3. RequestOK(q)'
    BY <2>0, <2>1, <2>2, <1>0, <1>1 DEF RequestOK, Creates
  <2>4. \A i \in sent : invitation'[i] # None =>
          invitation[i] # None /\ invitation'[i].target = invitation[i].target
    BY <2>2
  <2>. QED
    BY <2>2, <2>3, <2>4, <1>0, <1>1, RequestsKeep
<1>4. InvitationInv' /\ LinksAdmitOne' /\ MembersHaveAccounts'
  BY DEF IInv, InvitationInv, InvitationOK, LinksAdmitOne, MembersHaveAccounts,
         InsertProject, history
<1>5. OwnersLeaveOnPurpose'
  <2>. SUFFICES ASSUME NEW x \in projects', OwnersOf(x) = {}, x \notin excused
                PROVE  \E o \in Requests : request'[o].at = "insert owner" /\ request'[o].project = x
    BY DEF OwnersLeaveOnPurpose, OwnersOf, InsertProject, history
  <2>1. CASE x = p
    BY <2>1, <1>0, <1>b DEF IInv, TypeOK
  <2>2. CASE x # p
    <3>1. PICK o \in Requests : request[o].at = "insert owner" /\ request[o].project = x
      BY <2>2 DEF IInv, OwnersLeaveOnPurpose, InsertProject
    <3>. QED
      BY <3>1, <1>0 DEF IInv, TypeOK
  <2>. QED
    BY <2>1, <2>2
<1>6. PlanInv' /\ LimitIsKept'
  <2>1. IsFiniteSet(created')
    BY FS_AddElement DEF IInv, PlanInv, InsertProject
  <2>. QED
    BY <2>1, <1>0, <1>1, <1>3, PlanKeeps DEF Owned, InsertProject, history
<1>. QED
  BY <1>2, <1>3, <1>4, <1>5, <1>6 DEF IInv

\* Owners remain where nobody is excused.
LEMMA OwnersKeep ==
  ASSUME IInv, NEW r \in Requests, NEW q \in Request, request' = [request EXCEPT ![r] = q],
         request[r].at # "insert owner", projects' \subseteq projects,
         \A p \in projects' : p \notin excused' =>
           /\ p \notin excused
           /\ (\E u \in Users : role[p][u] = "owner") => \E u \in Users : role'[p][u] = "owner"
  PROVE  OwnersLeaveOnPurpose'
<1>. SUFFICES ASSUME NEW p \in projects', OwnersOf(p)' = {}, p \notin excused'
              PROVE  \E o \in Requests : request'[o].at = "insert owner" /\ request'[o].project = p
  BY DEF OwnersLeaveOnPurpose
<1>1. \A u \in Users : role'[p][u] # "owner"
  BY DEF OwnersOf
<1>2. OwnersOf(p) = {} /\ p \in projects /\ p \notin excused
  BY <1>1 DEF OwnersOf
<1>3. PICK o \in Requests : request[o].at = "insert owner" /\ request[o].project = p
  BY <1>2 DEF IInv, OwnersLeaveOnPurpose
<1>. QED
  BY <1>3 DEF IInv, TypeOK

\* One invitation changes, and nothing else but the request.
LEMMA InvitationKeeps ==
  ASSUME IInv, NEW r \in Requests, NEW q \in Request, request' = [request EXCEPT ![r] = q],
         RequestOK(q)', \A u \in Users : ~Creates(q, u), request[r].at # "insert owner",
         UNCHANGED <<account, created, projects, role, history>>,
         NEW i \in Invitations, NEW row \in Invitation \cup {None},
         sent' = sent \cup {i}, invitation' = [invitation EXCEPT ![i] = row],
         i \in sent /\ row # None => invitation[i] # None /\ row.target = invitation[i].target,
         row # None =>
           /\ row.status = "accepted" <=> row.acceptedBy # None
           /\ InvitationOK(i, row)
           /\ row.status = "accepted" => admitted[i] \subseteq {row.acceptedBy}
           /\ row.status = "cancelled" /\ ~row.expired => admitted[i] = {}
  PROVE  IInv'
<1>0. UNCHANGED <<account, created, projects, role>>
      /\ UNCHANGED <<admitted, excused, promoted, overlapped, outlived>>
  BY DEF history
<1>1. TypeOK'
  BY <1>0 DEF IInv, TypeOK
<1>2. RequestInv'
  <2>1. \A j \in sent : invitation'[j] # None =>
          invitation[j] # None /\ invitation'[j].target = invitation[j].target
    BY DEF IInv, TypeOK
  <2>. QED
    BY <2>1, <1>0, RequestsKeep
<1>3. InvitationInv'
  BY <1>0 DEF IInv, TypeOK, InvitationInv, InvitationOK
<1>4. LinksAdmitOne'
  BY <1>0 DEF IInv, TypeOK, LinksAdmitOne
<1>5. MembersHaveAccounts'
  BY <1>0 DEF IInv, MembersHaveAccounts
<1>6. OwnersLeaveOnPurpose'
  BY <1>0, OwnersKeep DEF OwnersOf
<1>7. PlanInv' /\ LimitIsKept'
  BY <1>0, <1>2, PlanKeeps DEF IInv, PlanInv, Owned
<1>. QED
  BY <1>1, <1>2, <1>3, <1>4, <1>5, <1>6, <1>7 DEF IInv

LEMMA IdleFacts ==
  /\ Idle \in Request /\ RequestOK(Idle) /\ RequestOK(Idle)'
  /\ \A u \in Users : ~Creates(Idle, u)
<1>1. Idle \in Request /\ \A u \in Users : ~Creates(Idle, u)
  BY IdleOK
<1>2. RequestOK(Idle) /\ RequestOK(Idle)'
  BY <1>1, IdleAt DEF RequestOK
<1>. QED
  BY <1>1, <1>2

LEMMA CreateInvitationKeeps ==
  ASSUME IInv, NEW r \in Requests, NEW i \in Invitations, CreateInvitation(r, i) PROVE IInv'
<1>1. request[r] \in Request /\ request[r].at = "insert invitation" /\ RequestOK(request[r])
  BY DEF IInv, TypeOK, RequestInv, CreateInvitation
<1>2. request[r].row \in Invitation /\ NewRow(request[r].row) /\ request[r].row.project \in projects
  BY <1>1, RequestData DEF RequestOK, CreateInvitation
<1>3. i \notin sent /\ admitted[i] = {}
  BY DEF IInv, InvitationInv, CreateInvitation
<1>4. PICK row \in Invitation : row = request[r].row
  BY <1>2
<1>5. NewRow(row) /\ InvitationOK(i, row)
  BY <1>2, <1>3, <1>4 DEF InvitationOK, NewRow
<1>6. row # None /\ row.status = "pending" /\ row.acceptedBy = None
  BY <1>5, InvitationData DEF NewRow
<1>7. UNCHANGED <<account, created, projects, role, history>>
  BY DEF CreateInvitation
<1>8. sent' = sent \cup {i} /\ invitation' = [invitation EXCEPT ![i] = row]
      /\ request' = [request EXCEPT ![r] = Idle]
  BY <1>4 DEF CreateInvitation, Answer
<1>. QED
  BY <1>1, <1>3, <1>5, <1>6, <1>7, <1>8, IdleFacts, InvitationKeeps

LEMMA RevokeKeeps ==
  ASSUME IInv, NEW r \in Requests, RevokeInvitation(r) PROVE IInv'
<1>1. request[r] \in Request /\ request[r].at = "revoke"
  BY DEF IInv, TypeOK, RevokeInvitation
<1>2. PICK i \in Invitations : i = request[r].invitation
  BY <1>1, RequestData
<1>3. /\ invitation[i] \in Invitation /\ i \in sent
      /\ invitation[i].status = "pending" /\ invitation[i] # None /\ InvitationOK(i, invitation[i])
      /\ invitation[i].acceptedBy = None
  BY <1>2 DEF RevokeInvitation, Revocable, IInv, TypeOK, InvitationInv
<1>4. PICK row \in Invitation : row = [invitation[i] EXCEPT !.status = "cancelled"]
  BY <1>3, InvitationEnds
<1>5. /\ row.status = "cancelled" /\ row.target = invitation[i].target /\ row.acceptedBy = None
      /\ row.kind = invitation[i].kind /\ row.project = invitation[i].project
      /\ row.expired = invitation[i].expired
  <2>1. row.status = "cancelled" /\ row.expired = invitation[i].expired
    BY <1>3, <1>4 DEF Invitation
  <2>. QED
    BY <2>1, <1>3, <1>4, InvitationEnds
<1>6. InvitationOK(i, row) /\ (~row.expired => admitted[i] = {})
  BY <1>3, <1>5 DEF InvitationOK
<1>7. UNCHANGED <<account, created, projects, role, history>>
  BY DEF RevokeInvitation
<1>8. sent' = sent \cup {i} /\ invitation' = [invitation EXCEPT ![i] = row]
      /\ request' = [request EXCEPT ![r] = Idle]
  BY <1>2, <1>3, <1>4 DEF RevokeInvitation, Answer, IInv, TypeOK
<1>. QED
  BY <1>1, <1>3, <1>5, <1>6, <1>7, <1>8, IdleFacts, InvitationKeeps

LEMMA AcceptInvitationKeeps ==
  ASSUME IInv, NEW r \in Requests, AcceptInvitation(r) PROVE IInv'
<1>1. request[r] \in Request /\ request[r].at = "mark accepted" /\ RequestOK(request[r])
      /\ request[r] # Idle
  BY IdleAt DEF IInv, TypeOK, RequestInv, AcceptInvitation
<1>2. PICK i \in Invitations : i = request[r].invitation
  BY <1>1, RequestData
<1>3. PICK u \in Users : u = request[r].user
  BY <1>1, RequestData
<1>4. i \in sent /\ invitation[i] \in Invitation \cup {None}
      /\ (invitation[i] # None => InvitationOK(i, invitation[i]) /\ invitation[i].target = u)
  BY <1>1, <1>2, <1>3 DEF RequestOK, IInv, TypeOK, InvitationInv
<1>5. PICK q \in Request : q = [at |-> "create profile", user |-> u]
  BY DEF Request
<1>6. q.at = "create profile" /\ q.user = u /\ \A v \in Users : ~Creates(q, v)
  BY <1>5 DEF Creates
<1>7. UNCHANGED <<account, outlived>>
  BY DEF AcceptInvitation, history
<1>8. RequestOK(q)'
  BY <1>1, <1>3, <1>6, <1>7 DEF RequestOK
<1>9. UNCHANGED <<account, created, projects, role, history>>
  BY DEF AcceptInvitation
<1>10. PICK row \in Invitation \cup {None} :
         row = IF invitation[i] = None THEN None ELSE Accepted(invitation[i], u)
  BY <1>4, InvitationUpdates
<1>11. sent' = sent \cup {i} /\ invitation' = [invitation EXCEPT ![i] = row]
       /\ request' = [request EXCEPT ![r] = q]
  BY <1>2, <1>3, <1>4, <1>5, <1>10 DEF AcceptInvitation, IInv, TypeOK
<1>12. row # None =>
         /\ invitation[i] # None /\ invitation[i] \in Invitation
         /\ row.target = invitation[i].target /\ row.target = u
         /\ row.status = "accepted" /\ row.acceptedBy = u
         /\ row.kind = invitation[i].kind /\ row.project = invitation[i].project
  BY <1>4, <1>10, InvitationUpdates
<1>13. u # None
  BY MembershipAssumption
<1>14. row # None => InvitationOK(i, row) /\ admitted[i] = {}
  BY <1>4, <1>12, <1>13 DEF InvitationOK
<1>. QED
  BY <1>1, <1>4, <1>6, <1>8, <1>9, <1>11, <1>12, <1>13, <1>14, InvitationKeeps

\* A role is given to somebody who has an account, or had one when the request
\* was checked.
LEMMA GrantKeeps ==
  ASSUME IInv, NEW r \in Requests, NEW q \in Request, request' = [request EXCEPT ![r] = q],
         RequestOK(q)', \A u \in Users : ~Creates(q, u), request[r].at # "insert owner",
         NEW p \in Projects, NEW u \in Users, NEW given \in Roles,
         u \in account \cup outlived,
         GiveRole(p, u, given), Excuse(p, u, given), Promote(u, given),
         UNCHANGED <<account, created, projects, sent, invitation, admitted, overlapped, outlived>>
  PROVE  IInv'
<1>1. TypeOK'
  <2>1. role' \in [Projects -> [Users -> Roles \cup {None}]]
    BY DEF GiveRole, IInv, TypeOK
  <2>2. excused' \subseteq Projects /\ promoted' \subseteq Users
    BY DEF Excuse, Promote, IInv, TypeOK
  <2>. QED
    BY <2>1, <2>2 DEF IInv, TypeOK
<1>2. RequestInv'
  BY RequestsKeep
<1>3. InvitationInv' /\ LinksAdmitOne'
  BY DEF IInv, InvitationInv, InvitationOK, LinksAdmitOne
<1>4. MembersHaveAccounts'
  BY DEF GiveRole, IInv, TypeOK, MembersHaveAccounts
<1>5. OwnersLeaveOnPurpose'
  <2>1. ASSUME NEW x \in projects, x \notin excused', NEW v \in Users, role[x][v] = "owner"
        PROVE  x \notin excused /\ \E w \in Users : role'[x][w] = "owner"
    <3>1. x \notin excused /\ x \in Projects
      BY <2>1 DEF Excuse, IInv, TypeOK
    <3>2. CASE x # p
      <4>1. role'[x][v] = "owner"
        BY <2>1, <3>1, <3>2 DEF GiveRole, IInv, TypeOK
      <4>. QED
        BY <3>1, <4>1
    <3>3. CASE x = p /\ given = "owner"
      <4>1. role'[x][u] = "owner"
        BY <3>3 DEF GiveRole, IInv, TypeOK
      <4>. QED
        BY <3>1, <4>1
    <3>4. CASE x = p /\ given # "owner"
      <4>1. OwnersOf(p) # {u}
        BY <2>1, <3>4 DEF Excuse
      <4>2. v \in OwnersOf(p)
        BY <2>1, <3>4 DEF OwnersOf
      <4>3. PICK w \in OwnersOf(p) : w # u
        BY <4>1, <4>2
      <4>4. w \in Users /\ role'[x][w] = "owner"
        BY <3>4, <4>3 DEF GiveRole, IInv, TypeOK, OwnersOf
      <4>. QED
        BY <3>1, <4>4
    <3>. QED
      BY <3>2, <3>3, <3>4
  <2>2. \A x \in projects : x \notin excused' => x \notin excused
    BY DEF Excuse
  <2>. QED
    BY <2>1, <2>2, OwnersKeep
<1>6. PlanInv' /\ LimitIsKept'
  <2>1. \A v \in Users \ (promoted' \cup overlapped') :
          v \notin promoted /\ Owned(v)' \subseteq Owned(v)
    <3>. SUFFICES ASSUME NEW v \in Users, v \notin promoted', NEW x \in Projects,
                         role'[x][v] = "owner"
                  PROVE  role[x][v] = "owner"
      BY DEF Owned, Promote
    <3>1. ~(x = p /\ v = u)
      BY DEF Promote, GiveRole, IInv, TypeOK
    <3>. QED
      BY <3>1 DEF GiveRole, IInv, TypeOK
  <2>. QED
    BY <2>1, <1>2, PlanKeeps DEF IInv, PlanInv
<1>. QED
  BY <1>1, <1>2, <1>3, <1>4, <1>5, <1>6 DEF IInv

LEMMA UpsertMemberKeeps ==
  ASSUME IInv, NEW r \in Requests, UpsertMember(r) PROVE IInv'
<1>1. request[r] \in Request /\ request[r].at = "join" /\ RequestOK(request[r])
      /\ request[r] # Idle
  BY IdleAt DEF IInv, TypeOK, RequestInv, UpsertMember
<1>2. PICK i \in Invitations, u \in Users, p \in Projects, given \in Roles :
        /\ i = request[r].invitation /\ u = request[r].user
        /\ p = request[r].project /\ given = request[r].role
  BY <1>1, RequestData
<1>3. PICK q \in Request : q = [at |-> "mark accepted", user |-> u, invitation |-> i]
  BY DEF Request
<1>4. q.at = "mark accepted" /\ q.user = u /\ q.invitation = i /\ \A v \in Users : ~Creates(q, v)
  BY <1>3 DEF Creates
<1>5. u \in account \cup outlived /\ i \in sent
      /\ (invitation[i] # None => invitation[i].target = u)
  BY <1>1, <1>2 DEF RequestOK
<1>6. UNCHANGED <<account, created, projects, sent, invitation, admitted, overlapped, outlived>>
  BY DEF UpsertMember
<1>7. RequestOK(q)'
  BY <1>4, <1>5, <1>6 DEF RequestOK
<1>8. /\ request' = [request EXCEPT ![r] = q]
      /\ GiveRole(p, u, given) /\ Excuse(p, u, given) /\ Promote(u, given)
  BY <1>2, <1>3 DEF UpsertMember
<1>. QED
  BY <1>1, <1>4, <1>5, <1>6, <1>7, <1>8, GrantKeeps

LEMMA UpdateMemberRoleKeeps ==
  ASSUME IInv, NEW r \in Requests, UpdateMemberRole(r) PROVE IInv'
<1>1. request[r] \in Request /\ request[r].at = "update role"
  BY DEF IInv, TypeOK, UpdateMemberRole
<1>2. PICK u \in Users, p \in Projects, given \in Roles :
        u = request[r].target /\ p = request[r].project /\ given = request[r].role
  BY <1>1, RequestData
<1>3. u \in account \cup outlived
  BY <1>2 DEF UpdateMemberRole, IInv, MembersHaveAccounts
<1>4. UNCHANGED <<account, created, projects, sent, invitation, admitted, overlapped, outlived>>
  BY DEF UpdateMemberRole
<1>5. /\ request' = [request EXCEPT ![r] = Idle]
      /\ GiveRole(p, u, given) /\ Excuse(p, u, given) /\ Promote(u, given)
  BY <1>2 DEF UpdateMemberRole, Answer
<1>. QED
  BY <1>1, <1>3, <1>4, <1>5, IdleFacts, GrantKeeps

LEMMA InsertOwnerKeeps ==
  ASSUME IInv, NEW r \in Requests, InsertOwner(r) PROVE IInv'
<1>1. request[r] \in Request /\ request[r].at = "insert owner" /\ RequestOK(request[r])
      /\ request[r] # Idle
  BY IdleAt DEF IInv, TypeOK, RequestInv, InsertOwner
<1>2. PICK u \in Users, p \in Projects : u = request[r].user /\ p = request[r].project
  BY <1>1, RequestData
<1>3. Creates(request[r], u) /\ u \in account \cup outlived
  BY <1>1, <1>2 DEF Creates, RequestOK
<1>4. /\ UNCHANGED <<account, created, projects, sent, invitation>>
      /\ UNCHANGED <<admitted, excused, promoted, overlapped, outlived>>
  BY DEF InsertOwner, history
<1>5. request' = [request EXCEPT ![r] = Idle] /\ GiveRole(p, u, "owner")
  BY <1>2 DEF InsertOwner, Answer
<1>6. TypeOK'
  <2>1. role' \in [Projects -> [Users -> Roles \cup {None}]]
    BY <1>5 DEF GiveRole, IInv, TypeOK, Roles
  <2>. QED
    BY <2>1, <1>4, <1>5, IdleFacts DEF IInv, TypeOK
<1>7. RequestInv'
  BY <1>4, <1>5, IdleFacts, RequestsKeep
<1>8. InvitationInv' /\ LinksAdmitOne'
  BY <1>4 DEF IInv, InvitationInv, InvitationOK, LinksAdmitOne
<1>9. MembersHaveAccounts'
  BY <1>3, <1>4, <1>5 DEF GiveRole, IInv, TypeOK, MembersHaveAccounts
<1>10. OwnersLeaveOnPurpose'
  <2>. SUFFICES ASSUME NEW x \in projects, x \notin excused, OwnersOf(x)' = {}
                PROVE  \E o \in Requests : request'[o].at = "insert owner" /\ request'[o].project = x
    BY <1>4 DEF OwnersLeaveOnPurpose
  <2>1. role'[p][u] = "owner" /\ \A v \in Users : role[x][v] = "owner" => role'[x][v] = "owner"
    BY <1>5 DEF GiveRole, IInv, TypeOK
  <2>2. x # p /\ OwnersOf(x) = {}
    BY <2>1 DEF OwnersOf
  <2>3. PICK o \in Requests : request[o].at = "insert owner" /\ request[o].project = x
    BY <2>2 DEF IInv, OwnersLeaveOnPurpose
  <2>4. o # r
    BY <2>2, <2>3, <1>2
  <2>. QED
    BY <2>3, <2>4, <1>5 DEF IInv, TypeOK
<1>11. \A o \in Requests, v \in Users : Creates(request'[o], v) => Creates(request[o], v) /\ o # r
  BY <1>5, IdleFacts DEF IInv, TypeOK
<1>12. ASSUME NEW v \in Users, v \notin promoted \cup overlapped
       PROVE  /\ CountOwnedProjects(v)' <= Limit[v]
              /\ \A o \in Requests : Creates(request'[o], v) => CountOwnedProjects(v)' < Limit[v]
  <2>0. /\ IsFiniteSet(Owned(v)) /\ CountOwnedProjects(v) = Cardinality(Owned(v))
        /\ CountOwnedProjects(v) \in Nat /\ Limit[v] \in Nat
        /\ CountOwnedProjects(v)' = Cardinality(Owned(v)')
    BY OwnedIsFinite, MembershipAssumption DEF CountOwnedProjects, Owned
  <2>1. CASE v # u
    <3>1. Owned(v)' = Owned(v)
      BY <2>1, <1>5 DEF GiveRole, Owned, IInv, TypeOK
    <3>. QED
      BY <2>0, <3>1, <1>11, <1>12 DEF IInv, LimitIsKept, PlanInv
  <2>2. CASE v = u
    <3>1. CountOwnedProjects(v) < Limit[v]
      BY <2>2, <1>3, <1>12 DEF IInv, PlanInv
    <3>2. Owned(v)' \subseteq Owned(v) \cup {p}
      BY <1>5 DEF GiveRole, Owned, IInv, TypeOK
    <3>3. /\ IsFiniteSet(Owned(v) \cup {p})
          /\ Cardinality(Owned(v) \cup {p}) <= CountOwnedProjects(v) + 1
          /\ Cardinality(Owned(v) \cup {p}) \in Nat
      <4>1. IsFiniteSet(Owned(v) \cup {p})
            /\ Cardinality(Owned(v) \cup {p}) =
                 IF p \in Owned(v) THEN Cardinality(Owned(v)) ELSE Cardinality(Owned(v)) + 1
        BY <2>0, FS_AddElement
      <4>. QED
        BY <2>0, <4>1
    <3>4. CountOwnedProjects(v)' <= CountOwnedProjects(v) + 1 /\ CountOwnedProjects(v)' \in Nat
      BY <2>0, <3>2, <3>3, FS_Subset, FS_CardinalityType
    <3>5. \A o \in Requests : ~Creates(request'[o], v)
      BY <2>2, <1>3, <1>11, <1>12 DEF IInv, PlanInv
    <3>. QED
      BY <2>0, <3>1, <3>4, <3>5
  <2>. QED
    BY <2>1, <2>2
<1>13. PlanInv' /\ LimitIsKept'
  <2>1. \A v \in Users \ overlapped : \A o, s \in Requests :
          Creates(request'[o], v) /\ Creates(request'[s], v) => o = s
    BY <1>11 DEF IInv, PlanInv
  <2>. QED
    BY <2>1, <1>4, <1>12 DEF IInv, PlanInv, LimitIsKept
<1>. QED
  BY <1>6, <1>7, <1>8, <1>9, <1>10, <1>13 DEF IInv

LEMMA CreateProfileKeeps ==
  ASSUME IInv, NEW r \in Requests, GetOrCreateCurrentUser(r) PROVE IInv'
<1>1. request[r] \in Request /\ request[r].at = "create profile" /\ request[r].user \in Users
      /\ request' = [request EXCEPT ![r] = Idle]
  BY RequestData, IdleAt DEF IInv, TypeOK, GetOrCreateCurrentUser, Answer
<1>2. account' = account \cup {request[r].user}
      /\ UNCHANGED <<created, projects, role, sent, invitation>>
      /\ UNCHANGED <<admitted, excused, promoted, overlapped, outlived>>
  BY DEF GetOrCreateCurrentUser, history
<1>3. TypeOK'
  BY <1>1, <1>2, IdleFacts DEF IInv, TypeOK
<1>4. RequestInv'
  BY <1>1, <1>2, IdleFacts, RequestsKeep
<1>5. InvitationInv' /\ LinksAdmitOne' /\ MembersHaveAccounts'
  BY <1>2 DEF IInv, InvitationInv, InvitationOK, LinksAdmitOne, MembersHaveAccounts
<1>6. OwnersLeaveOnPurpose'
  BY <1>1, <1>2, IdleFacts, OwnersKeep
<1>7. PlanInv' /\ LimitIsKept'
  BY <1>1, <1>2, <1>4, IdleFacts, PlanKeeps DEF IInv, PlanInv, Owned
<1>. QED
  BY <1>3, <1>4, <1>5, <1>6, <1>7 DEF IInv

LEMMA AcceptSingleUseKeeps ==
  ASSUME IInv, NEW r \in Requests, NEW ran \in 1..3, AcceptSingleUse(r, ran) PROVE IInv'
<1>1. request[r] \in Request /\ request[r].at = "accept link" /\ RequestOK(request[r])
      /\ request' = [request EXCEPT ![r] = Idle]
  BY DEF IInv, TypeOK, RequestInv, AcceptSingleUse, Answer
<1>2. PICK i \in Invitations, u \in Users : i = request[r].invitation /\ u = request[r].user
  BY <1>1, RequestData, IdleAt
<1>3. /\ i \in sent /\ invitation[i] \in Invitation /\ InvitationOK(i, invitation[i])
      /\ invitation[i].target = None /\ invitation[i].status = "pending"
      /\ ~invitation[i].expired /\ admitted[i] = {}
      /\ invitation[i].acceptedBy = None
  BY <1>1, <1>2 DEF RequestOK, AcceptSingleUse, LinkAdmits, Acceptable, IInv, TypeOK,
                    InvitationInv, InvitationOK
<1>4. PICK p \in Projects, given \in Roles :
        p = invitation[i].project /\ given = invitation[i].role
  BY <1>3, InvitationData
<1>5. p \in projects
  BY <1>3, <1>4 DEF InvitationOK
<1>6. PICK joins \in BOOLEAN : joins = (ran >= 2 /\ role[p][u] = None)
  OBVIOUS
<1>7. PICK row \in Invitation :
        row = IF ran = 3 THEN Accepted(invitation[i], u) ELSE [invitation[i] EXCEPT !.expired = TRUE]
  BY <1>3, InvitationUpdates, InvitationEnds
<1>8. /\ account' = account \cup {u}
      /\ role' = IF joins THEN [role EXCEPT ![p][u] = given] ELSE role
      /\ invitation' = [invitation EXCEPT ![i] = row]
      /\ admitted' = [admitted EXCEPT ![i] = IF joins THEN {u} ELSE {}]
      /\ promoted' = promoted \cup (IF joins /\ given = "owner" THEN {u} ELSE {})
      /\ UNCHANGED <<created, projects, sent, excused, overlapped, outlived>>
  <2>1. /\ account' = account \cup {u}
        /\ role' = IF joins THEN [role EXCEPT ![p][u] = given] ELSE role
    BY <1>2, <1>4, <1>6 DEF AcceptSingleUse
  <2>2. invitation' = [invitation EXCEPT ![i] = row]
    BY <1>2, <1>3, <1>7 DEF AcceptSingleUse, IInv, TypeOK
  <2>3. admitted' = [admitted EXCEPT ![i] = IF joins THEN {u} ELSE {}]
    BY <1>2, <1>3, <1>4, <1>6 DEF AcceptSingleUse, IInv, TypeOK
  <2>4. Promote(u, IF joins THEN given ELSE "viewer")
    BY <1>2, <1>4, <1>6 DEF AcceptSingleUse
  <2>5. promoted' = promoted \cup (IF joins /\ given = "owner" THEN {u} ELSE {})
    BY <2>4 DEF Promote
  <2>6. UNCHANGED <<created, projects, sent, excused, overlapped, outlived>>
    BY DEF AcceptSingleUse
  <2>. QED
    BY <2>1, <2>2, <2>3, <2>5, <2>6
<1>9. /\ row.target = None /\ row.project = p /\ row.kind = invitation[i].kind
      /\ row.status = "accepted" => row.acceptedBy = u
      /\ row.status # "accepted" => row.acceptedBy = None /\ row.status = "pending" /\ row.expired
  <2>1. CASE ran = 3
    BY <2>1, <1>3, <1>4, <1>7, InvitationUpdates
  <2>2. CASE ran # 3
    <3>1. row = [invitation[i] EXCEPT !.expired = TRUE]
      BY <2>2, <1>7
    <3>2. row.expired = TRUE /\ row.status = "pending"
      BY <3>1, <1>3 DEF Invitation
    <3>. QED
      BY <3>1, <3>2, <1>3, <1>4, InvitationEnds
  <2>. QED
    BY <2>1, <2>2
<1>10. row # None /\ u # None
  BY InvitationData, MembershipAssumption
<1>11. TypeOK'
  <2>1. role' \in [Projects -> [Users -> Roles \cup {None}]]
    BY <1>8 DEF IInv, TypeOK
  <2>2. \A j \in Invitations : invitation'[j] # None =>
          (invitation'[j].status = "accepted" <=> invitation'[j].acceptedBy # None)
    BY <1>8, <1>9, <1>10 DEF IInv, TypeOK
  <2>3. invitation' \in [Invitations -> Invitation \cup {None}]
    BY <1>8 DEF IInv, TypeOK
  <2>4. admitted' \in [Invitations -> SUBSET Users] /\ promoted' \subseteq Users
    BY <1>8 DEF IInv, TypeOK
  <2>. QED
    BY <2>1, <2>2, <2>3, <2>4, <1>1, <1>8, IdleFacts DEF IInv, TypeOK
<1>12. RequestInv'
  <2>1. \A j \in sent : invitation'[j] # None =>
          invitation[j] # None /\ invitation'[j].target = invitation[j].target
    BY <1>3, <1>8, <1>9, InvitationData DEF IInv, TypeOK
  <2>. QED
    BY <2>1, <1>1, <1>8, IdleFacts, RequestsKeep
<1>13. InvitationInv'
  <2>. SUFFICES ASSUME NEW j \in Invitations
                PROVE  /\ j \notin sent => invitation'[j] = None /\ admitted'[j] = {}
                       /\ invitation'[j] # None => InvitationOK(j, invitation[j])'
    BY <1>8 DEF InvitationInv
  <2>1. CASE j # i
    BY <2>1, <1>8 DEF IInv, TypeOK, InvitationInv, InvitationOK
  <2>2. CASE j = i
    <3>1. invitation'[i] = row
      BY <1>8 DEF IInv, TypeOK
    <3>. QED
      BY <2>2, <3>1, <1>3, <1>5, <1>8, <1>9 DEF InvitationOK
  <2>. QED
    BY <2>1, <2>2
<1>14. LinksAdmitOne'
  <2>. SUFFICES ASSUME NEW j \in Invitations
                PROVE  /\ Cardinality(admitted'[j]) <= 1
                       /\ invitation'[j] # None =>
                            /\ invitation'[j].status = "accepted" =>
                                 admitted'[j] \subseteq {invitation'[j].acceptedBy}
                            /\ invitation'[j].status = "cancelled" /\ ~invitation'[j].expired =>
                                 admitted'[j] = {}
    BY DEF LinksAdmitOne
  <2>1. CASE j # i
    BY <2>1, <1>8 DEF IInv, TypeOK, LinksAdmitOne
  <2>2. CASE j = i
    <3>1. invitation'[i] = row /\ admitted'[i] \in {{}, {u}}
      BY <1>8 DEF IInv, TypeOK
    <3>2. Cardinality(admitted'[i]) <= 1
      BY <3>1, FS_EmptySet, FS_Singleton
    <3>3. row.status = "accepted" => admitted'[i] \subseteq {row.acceptedBy}
      BY <3>1, <1>9
    <3>4. row.status # "cancelled"
      BY <1>9
    <3>. QED
      BY <2>2, <3>1, <3>2, <3>3, <3>4
  <2>. QED
    BY <2>1, <2>2
<1>15. MembersHaveAccounts'
  BY <1>5, <1>8 DEF IInv, TypeOK, MembersHaveAccounts
<1>16. \A x \in Projects, v \in Users : role[x][v] = "owner" => role'[x][v] = "owner"
  BY <1>6, <1>8, MembershipAssumption DEF IInv, TypeOK, Roles
<1>17. OwnersLeaveOnPurpose'
  BY <1>1, <1>8, <1>16, IdleFacts, OwnersKeep DEF IInv, TypeOK
<1>18. \A v \in Users \ promoted' : v \notin promoted /\ Owned(v)' \subseteq Owned(v)
  <2>. SUFFICES ASSUME NEW v \in Users, v \notin promoted', NEW x \in Projects,
                       role'[x][v] = "owner"
                PROVE  role[x][v] = "owner"
    BY <1>8 DEF Owned
  <2>. QED
    BY <1>8 DEF IInv, TypeOK
<1>19. PlanInv' /\ LimitIsKept'
  BY <1>1, <1>8, <1>12, <1>18, IdleFacts, PlanKeeps DEF IInv, PlanInv
<1>. QED
  BY <1>11, <1>12, <1>13, <1>14, <1>15, <1>17, <1>19 DEF IInv

LEMMA DeleteProjectKeeps ==
  ASSUME IInv, NEW r \in Requests, DeleteProject(r) PROVE IInv'
<1>1. request[r] \in Request /\ request[r].at = "delete project"
      /\ request' = [request EXCEPT ![r] = Idle]
  BY DEF IInv, TypeOK, DeleteProject, Answer
<1>2. PICK p \in Projects : p = request[r].project
  BY <1>1, RequestData
<1>3. /\ projects' = projects \ {p} /\ excused' = excused \ {p}
      /\ role' = [role EXCEPT ![p] = [u \in Users |-> None]]
      /\ \A j \in Invitations : invitation'[j] =
           IF invitation[j] # None /\ invitation[j].project = p THEN None ELSE invitation[j]
      /\ invitation' \in [Invitations -> Invitation \cup {None}]
      /\ UNCHANGED <<account, created, sent, admitted, promoted, overlapped, outlived>>
  BY <1>2 DEF DeleteProject, IInv, TypeOK
<1>4. TypeOK'
  <2>1. role' \in [Projects -> [Users -> Roles \cup {None}]]
    BY <1>3 DEF IInv, TypeOK
  <2>. QED
    BY <2>1, <1>1, <1>3, IdleFacts DEF IInv, TypeOK
<1>5. RequestInv'
  <2>1. \A j \in sent : invitation'[j] # None =>
          invitation[j] # None /\ invitation'[j].target = invitation[j].target
    BY <1>3 DEF IInv, TypeOK
  <2>. QED
    BY <2>1, <1>1, <1>3, IdleFacts, RequestsKeep
<1>6. InvitationInv' /\ LinksAdmitOne'
  <2>1. InvitationInv'
    BY <1>3 DEF IInv, InvitationInv, InvitationOK
  <2>2. LinksAdmitOne'
    BY <1>3 DEF IInv, LinksAdmitOne
  <2>. QED
    BY <2>1, <2>2
<1>7. \A x \in Projects, v \in Users :
        role'[x][v] = IF x = p THEN None ELSE role[x][v]
  BY <1>3 DEF IInv, TypeOK
<1>8. MembersHaveAccounts'
  BY <1>3, <1>7 DEF IInv, MembersHaveAccounts
<1>9. OwnersLeaveOnPurpose'
  BY <1>1, <1>3, <1>7, IdleFacts, OwnersKeep DEF IInv, TypeOK
<1>10. \A v \in Users : Owned(v)' \subseteq Owned(v)
  BY <1>7, MembershipAssumption DEF Owned, Roles
<1>11. PlanInv' /\ LimitIsKept'
  BY <1>1, <1>3, <1>5, <1>10, IdleFacts, PlanKeeps DEF IInv, PlanInv
<1>. QED
  BY <1>4, <1>5, <1>6, <1>8, <1>9, <1>11 DEF IInv

LEMMA DeleteAccountKeeps ==
  ASSUME IInv, NEW r \in Requests, DeleteAccount(r) PROVE IInv'
<1>1. request[r] \in Request /\ request[r].at = "delete account" /\ RequestOK(request[r])
      /\ request' = [request EXCEPT ![r] = Idle]
  BY DEF IInv, TypeOK, RequestInv, DeleteAccount, Answer
<1>2. PICK u \in Users : u = request[r].user
  BY <1>1, RequestData, IdleAt
<1>3. /\ account' = account \ {u} /\ promoted' = promoted \ {u}
      /\ role' = RolesWithout(u)
      /\ \A j \in Invitations : invitation'[j] =
           IF Mentions(invitation[j], u) THEN None ELSE invitation[j]
      /\ invitation' \in [Invitations -> Invitation \cup {None}]
      /\ outlived' = outlived \cup
           (IF \E o \in Requests \ {r} : request[o] # Idle /\ request[o].user = u
            THEN {u} ELSE {})
      /\ UNCHANGED <<created, projects, sent, admitted, overlapped>>
  BY <1>2 DEF DeleteAccount, IInv, TypeOK
<1>4. /\ excused \subseteq excused' /\ excused' \subseteq Projects
      /\ \A p \in Projects : OwnersOf(p) = {u} => p \in excused'
  <2>1. \A p \in Projects : request[r].owners[p] # {u}
    BY <1>1, <1>2 DEF RequestOK
  <2>2. excused' = excused \cup
          {p \in Projects : OwnersOf(p) = {u} /\ request[r].owners[p] # {u}}
    BY <1>2 DEF DeleteAccount
  <2>. QED
    BY <2>1, <2>2 DEF IInv, TypeOK
<1>5. role' \in [Projects -> [Users -> Roles \cup {None}]]
      /\ \A x \in Projects, v \in Users : role'[x][v] = IF v = u THEN None ELSE role[x][v]
  BY <1>3 DEF RolesWithout, IInv, TypeOK
<1>6. TypeOK'
  BY <1>1, <1>3, <1>4, <1>5, IdleFacts DEF IInv, TypeOK
<1>7. RequestInv'
  <2>1. \A j \in sent : invitation'[j] # None =>
          invitation[j] # None /\ invitation'[j].target = invitation[j].target
    BY <1>3 DEF IInv, TypeOK
  <2>2. \A o \in Requests \ {r} : request[o] # Idle /\ request[o].user \in account \cup outlived
           => request[o].user \in account' \cup outlived'
    BY <1>3
  <2>. QED
    BY <2>1, <2>2, <1>1, <1>3, IdleFacts, RequestsKeep
<1>8. InvitationInv' /\ LinksAdmitOne'
  <2>1. InvitationInv'
    BY <1>3 DEF IInv, InvitationInv, InvitationOK
  <2>2. LinksAdmitOne'
    BY <1>3 DEF IInv, LinksAdmitOne
  <2>. QED
    BY <2>1, <2>2
<1>9. MembersHaveAccounts'
  BY <1>3, <1>5 DEF IInv, MembersHaveAccounts
<1>10. OwnersLeaveOnPurpose'
  <2>1. ASSUME NEW x \in projects, x \notin excused', NEW v \in Users, role[x][v] = "owner"
        PROVE  \E w \in Users : role'[x][w] = "owner"
    <3>1. x \in Projects /\ v \in OwnersOf(x)
      BY <2>1 DEF OwnersOf, IInv, TypeOK
    <3>2. PICK w \in OwnersOf(x) : w # u
      BY <3>1, <1>4, <2>1
    <3>3. w \in Users /\ role'[x][w] = "owner"
      BY <3>1, <3>2, <1>5 DEF OwnersOf
    <3>. QED
      BY <3>3
  <2>2. \A x \in projects : x \notin excused' => x \notin excused
    BY <1>4
  <2>. QED
    BY <2>1, <2>2, <1>1, <1>3, IdleFacts, OwnersKeep
<1>11. Owned(u)' = {} /\ \A v \in Users \ {u} : Owned(v)' \subseteq Owned(v)
  BY <1>5, MembershipAssumption DEF Owned, Roles
<1>12. PlanInv' /\ LimitIsKept'
  <2>1. \A v \in Users \ (promoted' \cup overlapped') :
          \/ Owned(v)' = {}
          \/ v \notin promoted /\ Owned(v)' \subseteq Owned(v)
    BY <1>3, <1>11
  <2>. QED
    BY <2>1, <1>1, <1>3, <1>7, IdleFacts, PlanKeeps DEF IInv, PlanInv
<1>. QED
  BY <1>6, <1>7, <1>8, <1>9, <1>10, <1>12 DEF IInv

LEMMA RolesUntouched ==
  ASSUME IInv, UNCHANGED <<created, projects, role, request, excused, promoted, overlapped>>
  PROVE  OwnersLeaveOnPurpose' /\ PlanInv' /\ LimitIsKept'
<1>1. OwnersLeaveOnPurpose'
  BY DEF IInv, OwnersLeaveOnPurpose, OwnersOf
<1>2. \A u \in Users : CountOwnedProjects(u)' = CountOwnedProjects(u)
  BY DEF CountOwnedProjects
<1>3. LimitIsKept'
  BY <1>2 DEF IInv, LimitIsKept
<1>4. PlanInv'
  <2>1. IsFiniteSet(created')
    BY DEF IInv, PlanInv
  <2>0. \A u \in Users, r \in Requests : Creates(request[r], u)' <=> Creates(request[r], u)
    BY DEF Creates
  <2>2. \A u \in Users \ overlapped' : \A r, s \in Requests :
          Creates(request[r], u)' /\ Creates(request[s], u)' => r = s
    <3>. SUFFICES ASSUME NEW u \in Users, u \notin overlapped, NEW r \in Requests,
                         NEW s \in Requests, Creates(request[r], u), Creates(request[s], u)
                  PROVE  r = s
      BY <2>0
    <3>. QED
      BY DEF IInv, PlanInv
  <2>3. \A u \in Users \ (promoted' \cup overlapped') : \A r \in Requests :
          Creates(request[r], u)' => CountOwnedProjects(u)' < Limit[u]
    BY <1>2 DEF IInv, PlanInv, Creates
  <2>. QED
    BY <2>1, <2>2, <2>3 DEF PlanInv
<1>. QED
  BY <1>1, <1>3, <1>4

LEMMA OnboardKeeps == ASSUME IInv, NEW u \in Users, Onboard(u) PROVE IInv'
<1>1. TypeOK'
  BY DEF IInv, TypeOK, Onboard
<1>2. RequestInv'
  BY DEF IInv, RequestInv, RequestOK, Creates, NewRow, Onboard
<1>3. InvitationInv' /\ LinksAdmitOne' /\ MembersHaveAccounts'
  BY DEF IInv, InvitationInv, InvitationOK, LinksAdmitOne, MembersHaveAccounts, Onboard
<1>4. OwnersLeaveOnPurpose' /\ PlanInv' /\ LimitIsKept'
  BY RolesUntouched DEF Onboard
<1>. QED
  BY <1>1, <1>2, <1>3, <1>4 DEF IInv

LEMMA ExpireKeeps == ASSUME IInv, NEW i \in Invitations, Expire(i) PROVE IInv'
<1>1. /\ invitation[i] \in Invitation /\ InvitationOK(i, invitation[i])
      /\ invitation[i].status = "pending" /\ i \in sent
      /\ invitation[i].acceptedBy = None
  BY DEF IInv, TypeOK, InvitationInv, Expire, Acceptable
<1>2. PICK row \in Invitation : row = [invitation[i] EXCEPT !.expired = TRUE]
  BY <1>1, InvitationEnds
<1>3. /\ row.target = invitation[i].target /\ row.kind = invitation[i].kind
      /\ row.project = invitation[i].project /\ row.acceptedBy = None
      /\ row.status = "pending" /\ row.expired
  <2>1. row.expired = TRUE /\ row.status = "pending"
    BY <1>1, <1>2 DEF Invitation
  <2>. QED
    BY <2>1, <1>1, <1>2, InvitationEnds
<1>4. /\ invitation' = [invitation EXCEPT ![i] = row]
      /\ UNCHANGED <<account, created, projects, role, sent, request>>
      /\ UNCHANGED <<admitted, excused, promoted, overlapped, outlived>>
  BY <1>1, <1>2 DEF Expire, history, IInv, TypeOK
<1>5. TypeOK'
  BY <1>3, <1>4 DEF IInv, TypeOK
<1>6. RequestInv'
  <2>1. \A j \in sent : invitation'[j] # None =>
          invitation[j] # None /\ invitation'[j].target = invitation[j].target
    BY <1>1, <1>3, <1>4, InvitationData DEF IInv, TypeOK
  <2>. QED
    BY <2>1, <1>4 DEF IInv, RequestInv, RequestOK, Creates, NewRow
<1>7. row # None /\ InvitationOK(i, row)
  BY <1>1, <1>3, InvitationData DEF InvitationOK
<1>8. InvitationInv' /\ LinksAdmitOne'
  <2>1. InvitationInv'
    BY <1>1, <1>4, <1>7 DEF IInv, TypeOK, InvitationInv, InvitationOK
  <2>2. LinksAdmitOne'
    BY <1>3, <1>4 DEF IInv, TypeOK, LinksAdmitOne
  <2>. QED
    BY <2>1, <2>2
<1>9. OwnersLeaveOnPurpose' /\ PlanInv' /\ LimitIsKept'
  BY <1>4, RolesUntouched
<1>10. MembersHaveAccounts'
  BY <1>4 DEF IInv, MembersHaveAccounts
<1>. QED
  BY <1>5, <1>6, <1>8, <1>9, <1>10 DEF IInv

LEMMA StutterKeeps == ASSUME IInv, UNCHANGED vars PROVE IInv'
<1>1. OwnersLeaveOnPurpose' /\ PlanInv' /\ LimitIsKept'
  BY RolesUntouched DEF vars
<1>2. TypeOK' /\ LinksAdmitOne' /\ MembersHaveAccounts'
  BY DEF vars, IInv, TypeOK, LinksAdmitOne, MembersHaveAccounts
<1>3. RequestInv' /\ InvitationInv'
  BY DEF vars, IInv, RequestInv, RequestOK, Creates, NewRow, InvitationInv, InvitationOK
<1>. QED
  BY <1>1, <1>2, <1>3 DEF IInv

-----------------------------------------------------------------------------
(***************************************************************************)
(* The theorems.                                                           *)
(***************************************************************************)

\* The inductive invariant holds in every reachable state, whatever requests
\* overlap and wherever they die.
THEOREM Invariance == Spec => []IInv
<1>1. Init => IInv
  BY InitOK
<1>2. ASSUME IInv, [Next]_vars PROVE IInv'
  <2>1. CASE \E r \in Requests, u \in Users : Start(r, u)
    BY <1>2, <2>1, AuthorizeKeeps, StartKeeps
  <2>2. ASSUME NEW r \in Requests, Continue(r) PROVE IInv'
    BY <1>2, <2>2, InsertProjectKeeps, InsertOwnerKeeps, CreateInvitationKeeps, RevokeKeeps,
       UpsertMemberKeeps, AcceptInvitationKeeps, CreateProfileKeeps, AcceptSingleUseKeeps,
       UpdateMemberRoleKeeps, DeleteProjectKeeps, DeleteAccountKeeps, FailKeeps DEF Continue
  <2>3. CASE (\E u \in Users : Onboard(u)) \/ (\E i \in Invitations : Expire(i))
    BY <1>2, <2>3, OnboardKeeps, ExpireKeeps
  <2>4. CASE UNCHANGED vars
    BY <1>2, <2>4, StutterKeeps
  <2>. QED
    BY <1>2, <2>1, <2>2, <2>3, <2>4 DEF Next
<1>. QED
  BY <1>1, <1>2, PTL DEF Spec

\* Rows and requests hold data of their kind, and an invitation has been
\* accepted exactly when somebody accepted it.
THEOREM TypeCorrect == Spec => []TypeOK
<1>1. IInv => TypeOK
  BY DEF IInv
<1>. QED
  BY <1>1, Invariance, PTL

\* A project keeps an owner but for the decisions and overlaps named
\* (usecases/delete-account.ts:45).
THEOREM OwnersStay == Spec => []OwnersLeaveOnPurpose
<1>1. IInv => OwnersLeaveOnPurpose
  BY DEF IInv
<1>. QED
  BY <1>1, Invariance, PTL

\* Nobody creates more projects than the plan allows, except two at once
\* (usecases/authorize-project-creation.ts:37).
THEOREM PlanIsKept == Spec => []LimitIsKept
<1>1. IInv => LimitIsKept
  BY DEF IInv
<1>. QED
  BY <1>1, Invariance, PTL

\* A link lets one person in (d1-project-repository.ts:513).
THEOREM LinksAdmitAtMostOne == Spec => []LinksAdmitOne
<1>1. IInv => LinksAdmitOne
  BY DEF IInv
<1>. QED
  BY <1>1, Invariance, PTL

\* Memberships belong to projects and accounts that exist
\* (d1-user-repository.ts:126).
THEOREM MembershipsHaveAccounts == Spec => []MembersHaveAccounts
<1>1. IInv => MembersHaveAccounts
  BY DEF IInv
<1>. QED
  BY <1>1, Invariance, PTL

-----------------------------------------------------------------------------
(***************************************************************************)
(* Iterations.  A cron run or a rebuild reads, decides and writes in calls *)
(* of its own, so the invariant says what a job has to have read for what  *)
(* it still has to write, one clause for each call it can be at.  The      *)
(* order of the iterations is kept because what a job creates continues    *)
(* the last row, and because what deleteFuture leaves is a prefix of the   *)
(* rows that still covers the cron's day.                                  *)
(***************************************************************************)

(***************************************************************************)
(* Iterations: types of the jobs.                                          *)
(***************************************************************************)

Window == [start : Int, end : Int]

Anchors == [Stories -> Int \cup {Null}]

\* The starts a rebuild has read: of finitely many rows.
Starts(old) == old \in [DOMAIN old -> Int] /\ DOMAIN old \subseteq Id /\ IsFiniteSet(DOMAIN old)

CronAtWork ==
  [at : {"latest", "unassign", "delete future"}, today : Int, settings : Calendar]
  \cup [at : {"create", "number", "insert"}, today : Int, todo : Seq(Window), number : Nat]
  \cup [at : {"backfill"}, today : Int]
  \cup [at : {"reassign"}, from : Id, to : Id]

PatchAtWork ==
  [at : {"settings"}, before : Calendar, change : Changes]
  \cup [at : {"read"}, today : Int, settings : Calendar]
  \cup [at : {"delete", "create", "number", "insert"}, anchor : Anchors, todo : Seq(Window),
        number : Nat]
  \cup [at : {"list", "ok"}, anchor : Anchors]
  \cup [at : {"assign"}, anchor : Anchors, todo : SUBSET Stories,
        target : [Stories -> Id \cup {Null}]]

\* A rebuild between its first two reads.
HasRead(q) ==
  /\ q = [at |-> "stories", today |-> q.today, settings |-> q.settings, old |-> q.old]
  /\ q.today \in Int /\ q.settings \in Calendar /\ Starts(q.old)

DataOK(j, q) ==
  /\ \/ q = NoJob
     \/ j = Cron /\ q \in CronAtWork
     \/ j # Cron /\ (q \in PatchAtWork \/ HasRead(q))
  /\ q.at \in {"number", "insert"} => q.todo # <<>>
  /\ q.at = "insert" => q.number # 0

\* The rows and the dates; a story that is accepted has the day it was completed.
RowsOK ==
  /\ today \in Date /\ utc \in Date /\ utc \in {today - 1, today}
  /\ settings \in Calendar
  /\ DOMAIN iterations \subseteq Id /\ IsFiniteSet(DOMAIN iterations)
  /\ \A i \in DOMAIN iterations :
       iterations[i] \in [number : Nat \ {0}, start : Int, end : Int]
  /\ story \in [Stories -> Row]
  /\ \A s \in Stories :
       /\ story[s].iteration \in DOMAIN iterations \cup {Null}
       /\ story[s].status = "Accepted" => story[s].completed \in Date
  /\ touched \subseteq Stories

CalendarTypeOK ==
  /\ RowsOK
  /\ job = [j \in Jobs |-> job[j]]
  /\ \A j \in Jobs : DataOK(j, job[j])

(***************************************************************************)
(* Iterations: the inductive invariant, one job at a time.                 *)
(***************************************************************************)

\* The job does not depend on the iterations: an answer that rebuilt nothing
\* does not.
Rests(q) ==
  \/ q.at \in {"idle", "settings"}
  \/ q.at = "ok" /\ \A s \in Stories : q.anchor[s] = Null

OneAtATime == \A j, k \in Jobs : ~Rests(job[j]) /\ ~Rests(job[k]) => j = k

\* The iterations are in the order of their numbers, which are 1 to n.
RowsInOrder ==
  /\ \E n \in Nat : {iterations[i].number : i \in DOMAIN iterations} = 1..n
  /\ \A i \in DOMAIN iterations : iterations[i].start < iterations[i].end
  /\ \A i, k \in DOMAIN iterations :
       /\ iterations[i].number = iterations[k].number => i = k
       /\ iterations[i].number < iterations[k].number => iterations[i].end <= iterations[k].start
       /\ iterations[k].number = iterations[i].number + 1 => iterations[k].start = iterations[i].end

\* Windows without a gap.
Adjoining(list) ==
  /\ \A n \in 1..Len(list) : list[n].start < list[n].end
  /\ \A n \in 1..(Len(list) - 1) : list[n + 1].start = list[n].end

\* The window starts where the last iteration ends.
Continues(window) ==
  \A i \in DOMAIN iterations :
    (\A k \in DOMAIN iterations : iterations[k].number <= iterations[i].number) =>
      window.start = iterations[i].end

Covered(date) == \E i \in DOMAIN iterations : Contains(iterations[i], date)

InList(list, date) == \E n \in 1..Len(list) : Contains(list[n], date)

\* What a job still has to create continues what there is, or is refused.
CreatingOK(q) ==
  /\ q.at \in {"delete", "create", "number", "insert"} => Adjoining(q.todo)
  /\ q.at = "create" /\ q.todo # <<>> =>
       \/ Continues(Head(q.todo))
       \/ \E i \in DOMAIN iterations : Overlaps(Head(q.todo), iterations[i])
  /\ q.at \in {"number", "insert"} => Continues(Head(q.todo))
  /\ q.at = "insert" => q.number = NextNumber

\* The cron deletes iterations only when there are some to come.
DeletingFutureOK(q) ==
  q.at \in {"unassign", "delete future"} => \E i \in DOMAIN iterations : iterations[i].start > q.today

\* Every anchor of a rebuild has a window, in the end a row, and then its story.
RebuildOK(q) ==
  \A s \in Stories :
    /\ q.at = "delete" /\ q.anchor[s] # Null => InList(q.todo, q.anchor[s])
    /\ q.at \in {"create", "number", "insert"} /\ q.anchor[s] # Null =>
         Covered(q.anchor[s]) \/ InList(q.todo, q.anchor[s])
    /\ q.at = "list" /\ q.anchor[s] # Null => Covered(q.anchor[s])
    /\ q.at = "assign" /\ q.anchor[s] # Null =>
         /\ q.target[s] \in DOMAIN iterations
         /\ Contains(iterations[q.target[s]], q.anchor[s])
         /\ s \notin q.todo \cup touched => story[s].iteration = q.target[s]
    /\ q.at = "ok" /\ q.anchor[s] # Null /\ s \notin touched => Placed(story[s], q.anchor[s])

CalendarInv ==
  /\ OneAtATime
  /\ RowsInOrder
  /\ \A j \in Jobs : CreatingOK(job[j])
  /\ DeletingFutureOK(job[Cron])
  /\ \A r \in Patches : RebuildOK(job[r])

CalendarIInv == CalendarTypeOK /\ (~Overlap => CalendarInv)

-----------------------------------------------------------------------------
(***************************************************************************)
(* Numbers, dates and windows.                                             *)
(***************************************************************************)

\* A finite set of numbers has a least one: a smallest set without one would
\* have one less a member.
LEMMA LeastMember ==
  ASSUME NEW S, S \subseteq Int, IsFiniteSet(S), S # {}
  PROVE  \E x \in S : \A y \in S : x <= y
<1>. DEFINE Bad == {T \in FiniteSubsetsOf(S) : T # {} /\ \A x \in T : \E y \in T : y < x}
<1>1. CASE Bad = {}
  <2>1. S \in FiniteSubsetsOf(S)
    BY FS_Subset DEF FiniteSubsetsOf
  <2>2. PICK x \in S : \A y \in S : ~(y < x)
    BY <1>1, <2>1
  <2>. QED
    BY <2>2
<1>2. CASE Bad # {}
  <2>. DEFINE R == StrictSubsetOrdering(S)
  <2>1. /\ Bad \subseteq FiniteSubsetsOf(S)
        /\ IsWellFoundedOn(R, FiniteSubsetsOf(S))
    BY FS_StrictSubsetOrderingWellFounded
  <2>. HIDE DEF R, Bad
  <2>2. PICK T \in Bad : \A U \in Bad : ~(<<U, T>> \in R)
    BY <1>2, <2>1, WFMin
  <2>. USE DEF R, Bad
  <2>3. /\ T \subseteq S /\ T \subseteq Int /\ T # {} /\ IsFiniteSet(T)
        /\ \A x \in T : \E y \in T : y < x
    BY <2>2 DEF FiniteSubsetsOf
  <2>4. PICK x \in T : TRUE
    BY <2>3
  <2>5. PICK y \in T : y < x
    BY <2>3, <2>4
  <2>6. T \ {x} \in FiniteSubsetsOf(S) /\ y \in T \ {x}
    BY <2>3, <2>4, <2>5, FS_RemoveElement DEF FiniteSubsetsOf
  <2>7. T \ {x} \notin Bad
    BY <2>2, <2>3, <2>4 DEF StrictSubsetOrdering
  <2>8. PICK z \in T \ {x} : \A v \in T \ {x} : ~(v < z)
    BY <2>6, <2>7
  <2>9. PICK v \in T : v < z
    BY <2>3, <2>8
  <2>. QED
    BY <2>3, <2>4, <2>5, <2>6, <2>8, <2>9
<1>. QED
  BY <1>1, <1>2

LEMMA MinIsLeast ==
  ASSUME NEW S, S \subseteq Int, IsFiniteSet(S), S # {}
  PROVE  Min(S) \in S /\ \A y \in S : Min(S) <= y
BY LeastMember DEF Min

LEMMA FiniteImage ==
  ASSUME NEW S, IsFiniteSet(S), NEW f, DOMAIN f = S
  PROVE  IsFiniteSet({f[x] : x \in S})
<1>. DEFINE T == {f[x] : x \in S}
            g == [x \in S |-> f[x]]
<1>1. g \in Surjection(S, T)
  BY DEF Surjection
<1>. QED
  BY <1>1, FS_Surjection

LEMMA MaxIsGreatest ==
  ASSUME NEW S, S \subseteq Int, IsFiniteSet(S), S # {}
  PROVE  Max(S) \in S /\ \A y \in S : y <= Max(S)
<1>. DEFINE minus == [x \in S |-> 0 - x]
            T == {minus[x] : x \in S}
<1>1. T \subseteq Int /\ T # {}
  <2>1. \A x \in S : minus[x] \in Int
    OBVIOUS
  <2>. QED
    BY <2>1
<1>2. IsFiniteSet(T)
  BY FiniteImage
<1>. HIDE DEF T
<1>3. PICK t \in T : \A u \in T : t <= u
  BY <1>1, <1>2, LeastMember
<1>. USE DEF T
<1>4. PICK x \in S : t = 0 - x
  BY <1>3
<1>5. \A y \in S : y <= x
  BY <1>3, <1>4
<1>. QED
  BY <1>4, <1>5 DEF Max

LEMMA DivisionBounds ==
  ASSUME NEW x \in Int, NEW d \in Nat \ {0}
  PROVE  /\ x \div d \in Int
         /\ d * (x \div d) <= x
         /\ x < d * (x \div d) + d
OBVIOUS

LEMMA DurationsArePositive == ASSUME NEW d \in Durations PROVE d \in Nat /\ Week <= d /\ 0 < Week
BY CalendarAssumption

LEMMA CalendarData ==
  ASSUME NEW cal \in Calendar
  PROVE  /\ cal.duration \in Nat /\ Week <= cal.duration /\ cal.duration > 0
         /\ cal.startDay \in Int /\ Week \in Nat \ {0}
<1>1. cal.duration \in Durations /\ cal.startDay \in StartDays
  BY DEF Calendar
<1>2. \A d \in StartDays : d \in Int
  BY CalendarAssumption
<1>3. Week \in Nat \ {0}
  BY CalendarAssumption
<1>4. cal.duration \in Nat /\ Week <= cal.duration
  BY <1>1, DurationsArePositive
<1>5. cal.startDay \in Int
  BY <1>1, <1>2
<1>. QED
  BY <1>3, <1>4, <1>5

LEMMA WindowOfDate ==
  ASSUME NEW cal \in Calendar, NEW date \in Int
  PROVE  /\ WindowContaining(cal, date) \in Window
         /\ Contains(WindowContaining(cal, date), date)
<1>1. /\ cal.duration \in Nat /\ Week <= cal.duration
      /\ cal.startDay \in Int /\ Week \in Nat \ {0}
  BY CalendarData
<1>. DEFINE back == (date - cal.startDay) % Week
<1>2. back \in 0..(Week - 1)
  BY <1>1
<1>. QED
  BY <1>1, <1>2 DEF WindowContaining, Window, Contains

\* The windows from a date on are adjoining, and cover all dates up to the other.
LEMMA WindowsCover ==
  ASSUME NEW from \in Int, NEW until \in Int, from < until, NEW d \in Nat \ {0},
         NEW list, list = Windows(from, until, d)
  PROVE  /\ list \in Seq(Window) /\ list # <<>> /\ list[1].start = from
         /\ Adjoining(list)
         /\ \A date \in from..(until - 1) : InList(list, date)
<1>. DEFINE last == (until - from + d - 1) \div d
<1>1. last \in Int /\ d * last <= until - from + d - 1 /\ until - from + d - 1 < d * last + d
  BY DivisionBounds
<1>2. d * last >= until - from
  BY <1>1
<1>3. last \in Nat /\ last >= 1
  <2>1. CASE last <= 0
    <3>1. d * last <= 0
      BY <1>1, <2>1
    <3>. QED
      BY <1>2, <3>1
  <2>. QED
    BY <1>1, <2>1
<1>4. list = [n \in 1..last |-> [start |-> from + (n - 1) * d, end |-> from + n * d]]
  BY DEF Windows
<1>. HIDE DEF last
<1>5. \A n \in 1..last : list[n] = [start |-> from + (n - 1) * d, end |-> from + n * d]
  BY <1>4
<1>6. \A n \in Nat : (n - 1) * d \in Int /\ n * d \in Int /\ n * d = (n - 1) * d + d
  OBVIOUS
<1>7. \A n \in 1..last :
        list[n] \in Window /\ list[n].start = from + (n - 1) * d
        /\ list[n].end = from + (n - 1) * d + d
  <2>1. ASSUME NEW n \in 1..last
        PROVE  /\ list[n] \in Window /\ list[n].start = from + (n - 1) * d
               /\ list[n].end = from + (n - 1) * d + d
    <3>1. n \in Nat /\ (n - 1) * d \in Int /\ n * d \in Int /\ n * d = (n - 1) * d + d
      BY <1>3, <1>6
    <3>. DEFINE low == from + (n - 1) * d
                high == from + n * d
    <3>2. low \in Int /\ high \in Int /\ high = from + (n - 1) * d + d
      BY <3>1
    <3>3. list[n] = [start |-> low, end |-> high]
      BY <1>5, Zenon
    <3>. HIDE DEF low, high
    <3>4. list[n] \in Window /\ list[n].start = low /\ list[n].end = high
      BY <3>2, <3>3 DEF Window
    <3>. USE DEF low
    <3>. QED
      BY <3>2, <3>4, Zenon
  <2>. QED
    BY <2>1, Zenon
<1>8. list \in Seq(Window) /\ Len(list) = last
  <2>1. list \in [1..last -> Window]
    BY <1>4, <1>7
  <2>. QED
    BY <1>3, <2>1
<1>9. list # <<>> /\ list[1].start = from
  BY <1>3, <1>7, <1>8
<1>10. Adjoining(list)
  <2>1. \A n \in 1..last : list[n].start < list[n].end
    BY <1>6, <1>7
  <2>2. ASSUME NEW n \in 1..(last - 1) PROVE list[n + 1].start = list[n].end
    <3>1. n \in 1..last /\ n + 1 \in 1..last
      BY <1>3
    <3>2. list[n + 1].start = from + n * d
      BY <1>7, <3>1
    <3>. QED
      BY <1>6, <1>7, <3>1, <3>2
  <2>. QED
    BY <1>8, <2>1, <2>2 DEF Adjoining
<1>11. ASSUME NEW date \in from..(until - 1) PROVE InList(list, date)
  <2>. DEFINE n == (date - from) \div d
  <2>1. n \in Int /\ d * n <= date - from /\ date - from < d * n + d
    BY DivisionBounds
  <2>2. n >= 0
    <3>1. CASE n <= 0 - 1
      <4>1. d * n + d <= 0
        BY <2>1, <3>1
      <4>. QED
        BY <2>1, <4>1
    <3>. QED
      BY <2>1, <3>1
  <2>3. n < last
    <3>1. CASE last <= n
      <4>1. d * last <= d * n
        BY <1>3, <2>1, <2>2, <3>1
      <4>. QED
        BY <1>2, <1>3, <2>1, <4>1
    <3>. QED
      BY <1>3, <2>1, <3>1
  <2>. HIDE DEF n
  <2>. DEFINE m == n + 1
  <2>4. m \in 1..last /\ (m - 1) * d = d * n /\ d * n \in Int
    BY <1>3, <2>1, <2>2, <2>3
  <2>. HIDE DEF m
  <2>5. list[m].start = from + d * n /\ list[m].end = from + d * n + d
    <3>1. /\ list[m].start = from + (m - 1) * d
          /\ list[m].end = from + (m - 1) * d + d
      BY <1>7, <2>4, Zenon
    <3>. QED
      BY <2>4, <3>1, Zenon
  <2>6. Contains(list[m], date)
    BY <2>1, <2>4, <2>5 DEF Contains
  <2>. QED
    BY <1>8, <2>4, <2>6 DEF InList
<1>. QED
  BY <1>8, <1>9, <1>10, <1>11

\* A rebuild makes a window for every anchor.
LEMMA RangesCover ==
  ASSUME NEW cal \in Calendar, NEW date \in Int, NEW anchors, anchors \subseteq Int,
         IsFiniteSet(anchors), NEW list, list = RangesForRebuild(cal, date, anchors)
  PROVE  /\ list \in Seq(Window) /\ Adjoining(list)
         /\ \A a \in anchors : InList(list, a)
<1>. DEFINE dates == anchors \cup {date}
            window == [a \in dates |-> WindowContaining(cal, a)]
            starts == {WindowContaining(cal, a).start : a \in dates}
            from == Min(starts)
            next == WindowContaining(cal, date).end + cal.duration
            last == WindowContaining(cal, Max(dates)).end
            until == Max({next, last})
<1>1. dates \subseteq Int /\ IsFiniteSet(dates) /\ dates # {}
  BY FS_AddElement
<1>2. \A a \in dates :
        /\ WindowContaining(cal, a) \in Window
        /\ WindowContaining(cal, a).start <= a /\ a < WindowContaining(cal, a).end
  BY <1>1, WindowOfDate DEF Contains
<1>3. starts \subseteq Int /\ starts # {} /\ IsFiniteSet(starts)
  <2>. DEFINE f == [a \in dates |-> WindowContaining(cal, a).start]
  <2>1. IsFiniteSet({f[a] : a \in dates})
    BY <1>1, FiniteImage
  <2>2. {f[a] : a \in dates} = starts
    OBVIOUS
  <2>3. starts \subseteq Int
    BY <1>2 DEF Window
  <2>. QED
    BY <1>1, <2>1, <2>2, <2>3
<1>4. from \in Int /\ \A a \in dates : from <= WindowContaining(cal, a).start
  <2>. HIDE DEF starts
  <2>1. from \in starts /\ \A y \in starts : from <= y
    BY <1>3, MinIsLeast
  <2>. QED
    BY <1>3, <2>1 DEF starts
<1>5. Max(dates) \in dates /\ \A a \in dates : a <= Max(dates)
  BY <1>1, MaxIsGreatest
<1>6. next \in Int /\ last \in Int /\ Max(dates) < last
  <2>1. /\ WindowContaining(cal, date).end \in Int
        /\ last \in Int /\ Max(dates) < last
    BY <1>1, <1>2, <1>5 DEF Window
  <2>. QED
    BY <2>1, CalendarData
<1>7. until \in Int /\ last <= until
  <2>. HIDE DEF next, last
  <2>1. {next, last} = {next} \cup {last}
    OBVIOUS
  <2>2. {next, last} \subseteq Int /\ IsFiniteSet({next, last}) /\ {next, last} # {}
    <3>1. IsFiniteSet({next})
      BY FS_Singleton
    <3>. QED
      BY <1>6, <2>1, <3>1, FS_AddElement
  <2>3. until \in {next, last} /\ \A y \in {next, last} : y <= until
    BY <2>2, MaxIsGreatest
  <2>. QED
    BY <1>6, <2>3
<1>8. cal.duration \in Nat \ {0}
  BY CalendarData
<1>9. list = Windows(from, until, cal.duration)
  BY DEF RangesForRebuild
<1>. HIDE DEF from, until, next, last
<1>10. ASSUME NEW a \in dates PROVE a \in from..(until - 1)
  <2>1. a \in Int /\ a <= Max(dates) /\ Max(dates) \in Int
    BY <1>1, <1>5
  <2>2. WindowContaining(cal, a).start \in Int /\ WindowContaining(cal, a).start <= a
    BY <1>2 DEF Window
  <2>3. from <= WindowContaining(cal, a).start
    BY <1>4
  <2>. HIDE DEF dates
  <2>. QED
    BY <1>4, <1>6, <1>7, <2>1, <2>2, <2>3
<1>11. from < until
  BY <1>1, <1>4, <1>7, <1>10
<1>. QED
  BY <1>4, <1>7, <1>8, <1>9, <1>10, <1>11, WindowsCover

-----------------------------------------------------------------------------
(***************************************************************************)
(* The data of a job, by the step it is at.                                *)
(***************************************************************************)

LEMMA JobKinds ==
  ASSUME CalendarTypeOK, NEW j \in Jobs
  PROVE  \/ job[j] = NoJob
         \/ j = Cron /\ job[j] \in CronAtWork
         \/ j \in Patches /\ (job[j] \in PatchAtWork \/ HasRead(job[j]))
BY DEF CalendarTypeOK, DataOK, Jobs

LEMMA CronData ==
  ASSUME CalendarTypeOK, job[Cron] # NoJob
  PROVE  /\ job[Cron].at \in {"latest", "unassign", "delete future"} =>
              /\ job[Cron] = [at |-> job[Cron].at, today |-> job[Cron].today,
                              settings |-> job[Cron].settings]
              /\ job[Cron].today \in Int /\ job[Cron].settings \in Calendar
         /\ job[Cron].at \in {"create", "number", "insert"} =>
              /\ job[Cron] = [at |-> job[Cron].at, today |-> job[Cron].today,
                              todo |-> job[Cron].todo, number |-> job[Cron].number]
              /\ job[Cron].today \in Int /\ job[Cron].todo \in Seq(Window)
              /\ job[Cron].number \in Nat
         /\ job[Cron].at = "backfill" => job[Cron].today \in Int
         /\ job[Cron].at = "reassign" => job[Cron].from \in Id /\ job[Cron].to \in Id
         /\ job[Cron].at \in {"latest", "unassign", "delete future", "create", "number",
                              "insert", "backfill", "reassign"}
<1>1. job[Cron] \in CronAtWork
  BY JobKinds, CalendarAssumption DEF Jobs
<1>. QED
  BY <1>1 DEF CronAtWork

LEMMA PatchData ==
  ASSUME CalendarTypeOK, NEW r \in Patches, job[r] # NoJob
  PROVE  /\ job[r].at = "settings" =>
              job[r].before \in Calendar /\ job[r].change \in Changes
         /\ job[r].at = "read" => job[r].today \in Int /\ job[r].settings \in Calendar
         /\ job[r].at = "stories" => HasRead(job[r])
         /\ job[r].at \in {"delete", "create", "number", "insert"} =>
              /\ job[r] = [at |-> job[r].at, anchor |-> job[r].anchor,
                           todo |-> job[r].todo, number |-> job[r].number]
              /\ job[r].anchor \in Anchors /\ job[r].todo \in Seq(Window)
              /\ job[r].number \in Nat
         /\ job[r].at \in {"list", "ok"} => job[r].anchor \in Anchors
         /\ job[r].at = "assign" =>
              /\ job[r] = [at |-> "assign", anchor |-> job[r].anchor, todo |-> job[r].todo,
                           target |-> job[r].target]
              /\ job[r].anchor \in Anchors /\ job[r].todo \subseteq Stories
              /\ job[r].target \in [Stories -> Id \cup {Null}]
         /\ job[r].at \in {"settings", "read", "stories", "delete", "create", "number",
                           "insert", "list", "assign", "ok"}
<1>1. job[r] \in PatchAtWork \/ HasRead(job[r])
  BY JobKinds, CalendarAssumption DEF Jobs
<1>2. CASE HasRead(job[r])
  BY <1>2 DEF HasRead
<1>3. CASE job[r] \in PatchAtWork
  BY <1>3 DEF PatchAtWork
<1>. QED
  BY <1>1, <1>2, <1>3

LEMMA CreateData ==
  ASSUME CalendarTypeOK, NEW j \in Jobs, job[j].at \in {"create", "number", "insert"}
  PROVE  /\ job[j].todo \in Seq(Window) /\ job[j].number \in Nat
         /\ job[j].at \in {"number", "insert"} => job[j].todo # <<>>
         /\ job[j].at = "insert" => job[j].number \in Nat \ {0}
         /\ j # Cron => job[j].anchor \in Anchors
         /\ j = Cron => job[j].today \in Int
<1>1. job[j] # NoJob
  BY DEF NoJob
<1>2. CASE j = Cron
  BY <1>1, <1>2, CronData DEF CalendarTypeOK, DataOK
<1>3. CASE j \in Patches
  BY <1>1, <1>3, PatchData, CalendarAssumption DEF CalendarTypeOK, DataOK
<1>. QED
  BY <1>2, <1>3 DEF Jobs

\* There is always an id that is free.
LEMMA HeldIdsAreFinite ==
  ASSUME CalendarTypeOK, NEW j \in Jobs
  PROVE  IsFiniteSet(IdsHeld(j))
<1>1. CASE job[j].at = "stories"
  <2>1. HasRead(job[j])
    <3>1. job[j] # NoJob
      BY <1>1 DEF NoJob
    <3>2. j # Cron
      BY <1>1, <3>1, CronData
    <3>. QED
      BY <1>1, <3>1, <3>2, PatchData DEF Jobs
  <2>. QED
    BY <1>1, <2>1 DEF IdsHeld, HasRead, Starts
<1>2. CASE job[j].at = "assign"
  <2>1. job[j].target \in [Stories -> Id \cup {Null}]
    <3>1. job[j] # NoJob
      BY <1>2 DEF NoJob
    <3>2. j # Cron
      BY <1>2, <3>1, CronData
    <3>. QED
      BY <1>2, <3>1, <3>2, PatchData DEF Jobs
  <2>2. IsFiniteSet({job[j].target[s] : s \in Stories})
    <3>1. DOMAIN job[j].target = Stories
      BY <2>1
    <3>. QED
      BY <3>1, FiniteImage, CalendarAssumption
  <2>. QED
    BY <1>2, <2>2 DEF IdsHeld
<1>3. CASE job[j].at = "reassign"
  <2>1. {job[j].from, job[j].to} = {job[j].from} \cup {job[j].to}
    OBVIOUS
  <2>2. IsFiniteSet({job[j].from})
    BY FS_Singleton
  <2>. QED
    BY <1>3, <2>1, <2>2, FS_AddElement DEF IdsHeld
<1>4. CASE job[j].at \notin {"stories", "assign", "reassign"}
  <2>1. IdsHeld(j) = {}
    BY <1>4 DEF IdsHeld
  <2>. QED
    BY <2>1, FS_EmptySet
<1>. QED
  BY <1>1, <1>2, <1>3, <1>4

LEMMA FreshIdIsFresh ==
  ASSUME CalendarTypeOK
  PROVE  FreshId \in Id /\ FreshId \notin DOMAIN iterations
<1>. DEFINE taken == DOMAIN iterations \cup UNION {IdsHeld(j) : j \in Jobs}
            n == Cardinality(taken) + 1
            free == (1..n) \ taken
<1>1. IsFiniteSet(taken)
  <2>1. IsFiniteSet(Jobs)
    BY CalendarAssumption, FS_AddElement DEF Jobs
  <2>2. IsFiniteSet({IdsHeld(j) : j \in Jobs})
    <3>. DEFINE f == [j \in Jobs |-> IdsHeld(j)]
    <3>1. IsFiniteSet({f[j] : j \in Jobs})
      BY <2>1, FiniteImage
    <3>2. {f[j] : j \in Jobs} = {IdsHeld(j) : j \in Jobs}
      OBVIOUS
    <3>. QED
      BY <3>1, <3>2
  <2>3. IsFiniteSet(UNION {IdsHeld(j) : j \in Jobs})
    BY <2>2, HeldIdsAreFinite, FS_UNION
  <2>. QED
    BY <2>3, FS_Union DEF CalendarTypeOK, RowsOK
<1>2. Cardinality(taken) \in Nat
  BY <1>1, FS_CardinalityType
<1>. HIDE DEF taken
<1>3. free # {}
  <2>1. CASE 1..n \subseteq taken
    <3>1. Cardinality(1..n) = n
      BY <1>2, FS_Interval
    <3>2. Cardinality(1..n) <= Cardinality(taken)
      BY <1>1, <2>1, FS_Subset
    <3>. QED
      BY <1>2, <3>1, <3>2
  <2>. QED
    BY <2>1
<1>4. PICK i \in free : \A k \in free : i <= k
  <2>1. free \subseteq Int /\ IsFiniteSet(free)
    <3>1. IsFiniteSet(1..n) /\ free \in SUBSET (1..n)
      BY <1>2, FS_Interval
    <3>. QED
      BY <1>2, <3>1, FS_Subset
  <2>. HIDE DEF free
  <2>. QED
    BY <1>3, <2>1, LeastMember
<1>5. i \in 1..n /\ i \notin taken /\ \A k \in 1..(i - 1) : k \in taken
  BY <1>2, <1>4
<1>6. FreshId = CHOOSE m \in 1..n : m \notin taken /\ \A k \in 1..(m - 1) : k \in taken
  BY DEF FreshId, taken
<1>7. FreshId \in 1..n /\ FreshId \notin taken
  BY <1>5, <1>6
<1>. QED
  BY <1>2, <1>7 DEF taken, Id

-----------------------------------------------------------------------------
(***************************************************************************)
(* Types are kept.                                                         *)
(***************************************************************************)

\* The types of the proof are stronger than those of the module.
LEMMA TypesAreStronger == CalendarTypeOK => IterationsTypeOK
<1>1. ASSUME CalendarTypeOK, NEW j \in Jobs PROVE JobType(j)
  <2>1. CASE job[j] = NoJob
    BY <2>1 DEF JobType
  <2>2. CASE j = Cron /\ job[j] # NoJob
    BY <1>1, <2>2, CronData DEF JobType
  <2>3. CASE j \in Patches /\ job[j] # NoJob
    BY <1>1, <2>3, PatchData, CalendarAssumption DEF JobType
  <2>. QED
    BY <2>1, <2>2, <2>3 DEF Jobs
<1>. QED
  BY <1>1 DEF IterationsTypeOK, CalendarTypeOK, RowsOK

\* One job moves.
LEMMA JobMoves ==
  ASSUME CalendarTypeOK, NEW j \in Jobs, NEW q, Goto(j, q)
  PROVE  /\ job' = [k \in Jobs |-> job'[k]]
         /\ job'[j] = q
         /\ \A k \in Jobs \ {j} : job'[k] = job[k]
BY DEF CalendarTypeOK, Goto

LEMMA JobStepTyped ==
  ASSUME CalendarTypeOK, NEW j \in Jobs, NEW q, Goto(j, q), DataOK(j, q), RowsOK'
  PROVE  CalendarTypeOK'
<1>1. \A k \in Jobs : DataOK(k, job'[k])
  BY JobMoves DEF CalendarTypeOK
<1>. QED
  BY <1>1, JobMoves DEF CalendarTypeOK

LEMMA NoJobIsData == ASSUME NEW j \in Jobs PROVE DataOK(j, NoJob)
BY DEF DataOK, NoJob

\* A step that changes nothing but the job.
LEMMA QuietStepTyped ==
  ASSUME CalendarTypeOK, NEW j \in Jobs, NEW q, Goto(j, q), DataOK(j, q),
         UNCHANGED <<today, utc, settings, iterations, story, touched>>
  PROVE  CalendarTypeOK'
<1>1. RowsOK'
  BY DEF CalendarTypeOK, RowsOK
<1>. QED
  BY <1>1, JobStepTyped

LEMMA UnassignedTyped ==
  ASSUME RowsOK, NEW ids, story' = Unassigned(ids)
  PROVE  /\ story' \in [Stories -> Row]
         /\ \A s \in Stories :
              /\ story'[s].iteration \in (DOMAIN iterations \ ids) \cup {Null}
              /\ story'[s].status = "Accepted" => story'[s].completed \in Date
<1>1. story' = [s \in Stories |-> IF story[s].iteration \in ids
                                  THEN [story[s] EXCEPT !.iteration = Null] ELSE story[s]]
  BY DEF Unassigned
<1>2. ASSUME NEW s \in Stories
      PROVE  /\ story'[s] \in Row
             /\ story'[s].iteration \in (DOMAIN iterations \ ids) \cup {Null}
             /\ story'[s].status = "Accepted" => story'[s].completed \in Date
  <2>1. story[s] \in Row /\ story[s].iteration \in DOMAIN iterations \cup {Null}
        /\ (story[s].status = "Accepted" => story[s].completed \in Date)
    BY DEF RowsOK
  <2>2. CASE story[s].iteration \in ids
    BY <1>1, <2>1, <2>2 DEF Row
  <2>3. CASE story[s].iteration \notin ids
    BY <1>1, <2>1, <2>3
  <2>. QED
    BY <2>2, <2>3
<1>. QED
  BY <1>1, <1>2

LEMMA TailsAreLists ==
  ASSUME NEW S, NEW list \in Seq(S), list # <<>>
  PROVE  /\ Head(list) \in S /\ Head(list) = list[1] /\ Tail(list) \in Seq(S)
         /\ Len(list) \in Nat /\ Len(list) > 0 /\ Len(Tail(list)) = Len(list) - 1
         /\ \A n \in 1..(Len(list) - 1) : Tail(list)[n] = list[n + 1]
OBVIOUS

LEMMA HighestNumber ==
  ASSUME RowsOK
  PROVE  /\ NextNumber \in Nat \ {0}
         /\ \A i \in DOMAIN iterations : iterations[i].number < NextNumber
         /\ NextNumber = 1 \/ \E i \in DOMAIN iterations : iterations[i].number = NextNumber - 1
<1>. DEFINE f == [i \in DOMAIN iterations |-> iterations[i].number]
            numbers == {iterations[i].number : i \in DOMAIN iterations}
            all == numbers \cup {0}
<1>1. numbers \subseteq Nat
  BY DEF RowsOK
<1>2. IsFiniteSet(all)
  <2>1. IsFiniteSet({f[i] : i \in DOMAIN iterations})
    <3>1. IsFiniteSet(DOMAIN iterations) /\ DOMAIN f = DOMAIN iterations
      BY DEF RowsOK
    <3>. QED
      BY <3>1, FiniteImage
  <2>2. {f[i] : i \in DOMAIN iterations} = numbers
    OBVIOUS
  <2>. QED
    BY <2>1, <2>2, FS_AddElement
<1>3. all \subseteq Int /\ all # {}
  BY <1>1
<1>. HIDE DEF all
<1>4. Max(all) \in all /\ \A y \in all : y <= Max(all)
  BY <1>2, <1>3, MaxIsGreatest
<1>. USE DEF all
<1>5. NextNumber = Max(all) + 1
  BY DEF NextNumber
<1>. HIDE DEF all
<1>6. Max(all) \in Nat /\ \A i \in DOMAIN iterations : iterations[i].number <= Max(all)
  BY <1>1, <1>4 DEF all
<1>7. Max(all) = 0 \/ \E i \in DOMAIN iterations : iterations[i].number = Max(all)
  BY <1>4 DEF all
<1>8. \A i \in DOMAIN iterations : iterations[i].number \in Nat
  BY <1>1
<1>. QED
  BY <1>5, <1>6, <1>7, <1>8

\* A PATCH that creates iterations.
PatchCreating ==
  [at : {"delete", "create", "number", "insert"}, anchor : Anchors, todo : Seq(Window),
   number : Nat]

LEMMA CreatingIsData ==
  ASSUME NEW r \in Patches, NEW q \in PatchCreating,
         q.at \in {"number", "insert"} => q.todo # <<>>, q.at = "insert" => q.number # 0
  PROVE  DataOK(r, q)
BY CalendarAssumption DEF DataOK, PatchAtWork, PatchCreating

LEMMA PatchIsCreating ==
  ASSUME CalendarTypeOK, NEW r \in Patches, job[r].at \in {"delete", "create", "number", "insert"}
  PROVE  job[r] \in PatchCreating
<1>1. job[r] \in PatchAtWork \/ HasRead(job[r])
  BY JobKinds, CalendarAssumption DEF Jobs, NoJob
<1>2. job[r] \in PatchAtWork
  BY <1>1 DEF HasRead
<1>. QED
  BY <1>2 DEF PatchAtWork, PatchCreating

LEMMA CheckOverlapTyped ==
  ASSUME CalendarTypeOK, NEW j \in Jobs, CheckOverlap(j)
  PROVE  CalendarTypeOK'
<1>1. /\ job[j].at = "create" /\ UNCHANGED <<today, utc, settings, iterations, story, touched>>
  BY DEF CheckOverlap
<1>2. job[j] # NoJob
  BY <1>1 DEF NoJob
<1>3. DataOK(j, AfterCreate(j))
  <2>1. CASE j = Cron
    BY <1>1, <1>2, <2>1, CronData DEF AfterCreate, DataOK, CronAtWork
  <2>2. CASE j \in Patches
    BY <1>1, <1>2, <2>2, PatchData, CalendarAssumption DEF AfterCreate, DataOK, PatchAtWork
  <2>. QED
    BY <2>1, <2>2 DEF Jobs
<1>4. ASSUME job[j].todo # <<>> PROVE DataOK(j, [job[j] EXCEPT !.at = "number"])
  <2>1. CASE j = Cron
    BY <1>1, <1>2, <1>4, <2>1, CronData DEF DataOK, CronAtWork
  <2>2. CASE j \in Patches
    <3>1. job[j] \in PatchCreating
      BY <1>1, <2>2, PatchIsCreating
    <3>2. /\ [job[j] EXCEPT !.at = "number"] \in PatchCreating
          /\ [job[j] EXCEPT !.at = "number"].at = "number"
          /\ [job[j] EXCEPT !.at = "number"].todo = job[j].todo
      BY <3>1 DEF PatchCreating
    <3>. QED
      BY <1>4, <2>2, <3>2, CreatingIsData
  <2>. QED
    BY <2>1, <2>2 DEF Jobs
<1>5. \/ Goto(j, AfterCreate(j)) \/ Goto(j, NoJob)
      \/ job[j].todo # <<>> /\ Goto(j, [job[j] EXCEPT !.at = "number"])
  BY DEF CheckOverlap
<1>. QED
  BY <1>1, <1>3, <1>4, <1>5, QuietStepTyped, NoJobIsData

LEMMA ReadMaxNumberTyped ==
  ASSUME CalendarTypeOK, NEW j \in Jobs, ReadMaxNumber(j)
  PROVE  CalendarTypeOK'
<1>. DEFINE q == [job[j] EXCEPT !.at = "insert", !.number = NextNumber]
<1>1. /\ job[j].at = "number" /\ Goto(j, q)
      /\ UNCHANGED <<today, utc, settings, iterations, story, touched>>
  BY DEF ReadMaxNumber
<1>2. job[j] # NoJob /\ job[j].todo # <<>>
  BY <1>1, CreateData DEF NoJob
<1>3. NextNumber \in Nat \ {0}
  BY HighestNumber DEF CalendarTypeOK
<1>4. CASE j = Cron
  <2>1. DataOK(j, q)
    BY <1>1, <1>2, <1>3, <1>4, CronData DEF DataOK, CronAtWork
  <2>. QED
    BY <1>1, <2>1, QuietStepTyped
<1>5. CASE j \in Patches
  <2>1. DataOK(j, q)
    <3>1. job[j] \in PatchCreating
      BY <1>1, <1>5, PatchIsCreating
    <3>2. q \in PatchCreating /\ q.at = "insert" /\ q.todo = job[j].todo /\ q.number = NextNumber
      BY <1>3, <3>1 DEF PatchCreating
    <3>. QED
      BY <1>2, <1>3, <1>5, <3>2, CreatingIsData
  <2>. QED
    BY <1>1, <2>1, QuietStepTyped
<1>. QED
  BY <1>4, <1>5 DEF Jobs

\* What an insert does when no index refuses it.
Inserts(j) ==
  /\ iterations' = [i \in DOMAIN iterations \cup {FreshId} |->
                      IF i \in DOMAIN iterations THEN iterations[i]
                      ELSE [number |-> job[j].number, start |-> Head(job[j].todo).start,
                            end |-> Head(job[j].todo).end]]
  /\ Goto(j, [job[j] EXCEPT !.at = "create", !.number = 0, !.todo = Tail(@)])

LEMMA InsertCases ==
  ASSUME NEW j \in Jobs, InsertIteration(j)
  PROVE  /\ job[j].at = "insert" /\ UNCHANGED <<today, utc, settings, story, touched>>
         /\ \/ Goto(j, NoJob) /\ UNCHANGED iterations
            \/ Inserts(j)
BY DEF InsertIteration, Inserts

LEMMA InsertIterationTyped ==
  ASSUME CalendarTypeOK, NEW j \in Jobs, InsertIteration(j)
  PROVE  CalendarTypeOK'
<1>1. /\ job[j].at = "insert" /\ UNCHANGED <<today, utc, settings, story, touched>>
      /\ (Goto(j, NoJob) /\ UNCHANGED iterations) \/ Inserts(j)
  BY InsertCases
<1>2. CASE Goto(j, NoJob) /\ UNCHANGED iterations
  BY <1>1, <1>2, QuietStepTyped, NoJobIsData
<1>3. CASE Inserts(j)
  <2>. DEFINE q == [job[j] EXCEPT !.at = "create", !.number = 0, !.todo = Tail(@)]
              row == [number |-> job[j].number, start |-> Head(job[j].todo).start,
                      end |-> Head(job[j].todo).end]
  <2>1. job[j] # NoJob
    BY <1>1 DEF NoJob
  <2>2. /\ job[j].todo \in Seq(Window) /\ job[j].todo # <<>>
        /\ job[j].number \in Nat \ {0}
    BY <1>1, CreateData
  <2>3. Head(job[j].todo) \in Window /\ Tail(job[j].todo) \in Seq(Window)
    BY <2>2, TailsAreLists
  <2>4. DataOK(j, q)
    <3>1. CASE j = Cron
      BY <1>1, <2>1, <2>3, <3>1, CronData DEF DataOK, CronAtWork
    <3>2. CASE j \in Patches
      <4>1. job[j] \in PatchCreating
        BY <1>1, <3>2, PatchIsCreating
      <4>2. q \in PatchCreating /\ q.at = "create"
        BY <2>3, <4>1 DEF PatchCreating
      <4>. QED
        BY <3>2, <4>2, CreatingIsData
    <3>. QED
      BY <3>1, <3>2 DEF Jobs
  <2>5. row \in [number : Nat \ {0}, start : Int, end : Int]
    BY <2>2, <2>3 DEF Window
  <2>6. FreshId \in Id
    BY FreshIdIsFresh
  <2>. HIDE DEF row, q
  <2>7. /\ DOMAIN iterations' = DOMAIN iterations \cup {FreshId}
        /\ \A i \in DOMAIN iterations' :
             iterations'[i] = IF i \in DOMAIN iterations THEN iterations[i] ELSE row
    BY <1>3 DEF Inserts, row
  <2>8. RowsOK'
    <3>1. IsFiniteSet(DOMAIN iterations')
      BY <2>7, FS_AddElement DEF CalendarTypeOK, RowsOK
    <3>2. \A i \in DOMAIN iterations' :
            iterations'[i] \in [number : Nat \ {0}, start : Int, end : Int]
      BY <2>5, <2>7 DEF CalendarTypeOK, RowsOK
    <3>3. \A s \in Stories : story[s].iteration \in DOMAIN iterations' \cup {Null}
      BY <2>7 DEF CalendarTypeOK, RowsOK
    <3>4. DOMAIN iterations' \subseteq Id
      BY <2>6, <2>7 DEF CalendarTypeOK, RowsOK
    <3>. QED
      BY <1>1, <3>1, <3>2, <3>3, <3>4 DEF CalendarTypeOK, RowsOK
  <2>. QED
    BY <1>3, <2>4, <2>8, JobStepTyped DEF Inserts, q
<1>. QED
  BY <1>1, <1>2, <1>3

LEMMA AtWork == ASSUME NEW j, job[j].at # "idle" PROVE job[j] # NoJob
BY DEF NoJob

LEMMA CronCreates ==
  ASSUME CalendarTypeOK, job[Cron].today \in Int, NEW list \in Seq(Window)
  PROVE  DataOK(Cron, Creating(list))
BY DEF Creating, DataOK, CronAtWork

\* A rest of windows from a row's end to the day after a date.
LEMMA MissingWindows ==
  ASSUME NEW end \in Int, NEW date \in Int, end <= date, NEW cal \in Calendar,
         NEW list, list = Windows(end, date + 1, cal.duration)
  PROVE  list \in Seq(Window) /\ list # <<>> /\ list[1].start = end /\ Adjoining(list)
<1>. DEFINE until == date + 1
            d == cal.duration
<1>1. d \in Nat \ {0} /\ end < until /\ until \in Int
  BY CalendarData
<1>2. list = Windows(end, until, d)
  OBVIOUS
<1>. HIDE DEF until, d
<1>3. list \in Seq(Window)
  BY <1>1, <1>2, WindowsCover
<1>4. list # <<>>
  BY <1>1, <1>2, WindowsCover
<1>5. list[1].start = end
  BY <1>1, <1>2, WindowsCover
<1>6. Adjoining(list)
  BY <1>1, <1>2, WindowsCover
<1>. QED
  BY <1>3, <1>4, <1>5, <1>6

LEMMA InitialWindowOK ==
  ASSUME job[Cron].settings \in Calendar, job[Cron].today \in Int
  PROVE  /\ InitialWindow \in Seq(Window) /\ InitialWindow # <<>> /\ Adjoining(InitialWindow)
         /\ Len(InitialWindow) = 1
         /\ Head(InitialWindow) = WindowContaining(job[Cron].settings, job[Cron].today)
         /\ Contains(Head(InitialWindow), job[Cron].today)
<1>. DEFINE window == WindowContaining(job[Cron].settings, job[Cron].today)
<1>1. window \in Window /\ Contains(window, job[Cron].today)
  BY WindowOfDate
<1>2. InitialWindow = <<window>>
  BY DEF InitialWindow
<1>. HIDE DEF window
<1>3. window.start < window.end
  BY <1>1 DEF Contains, Window
<1>. QED
  BY <1>1, <1>2, <1>3 DEF Adjoining, window

LEMMA StartCronTyped ==
  ASSUME CalendarTypeOK, StartCron
  PROVE  CalendarTypeOK'
<1>. DEFINE q == [at |-> "latest", today |-> today, settings |-> settings]
<1>1. today \in Int /\ settings \in Calendar
  BY CalendarAssumption DEF CalendarTypeOK, RowsOK, Date
<1>2. DataOK(Cron, q)
  BY <1>1 DEF DataOK, CronAtWork
<1>. QED
  BY <1>2, QuietStepTyped DEF StartCron, Jobs

LEMMA FindLatestTyped ==
  ASSUME CalendarTypeOK, FindLatest
  PROVE  CalendarTypeOK'
<1>1. job[Cron].at = "latest" /\ UNCHANGED <<today, utc, settings, iterations, story, touched>>
  BY DEF FindLatest
<1>2. /\ job[Cron].today \in Int /\ job[Cron].settings \in Calendar
      /\ job[Cron] = [at |-> "latest", today |-> job[Cron].today, settings |-> job[Cron].settings]
  BY <1>1, AtWork, CronData
<1>3. DataOK(Cron, Creating(InitialWindow)) /\ DataOK(Cron, Creating(<<>>))
  <2>1. InitialWindow \in Seq(Window) /\ <<>> \in Seq(Window)
    BY <1>2, InitialWindowOK
  <2>. QED
    BY <1>2, <2>1, CronCreates
<1>4. DataOK(Cron, [job[Cron] EXCEPT !.at = "unassign"])
  BY <1>2 DEF DataOK, CronAtWork
<1>5. ASSUME NEW i \in DOMAIN iterations, ~IsCurrent(iterations[i], job[Cron].today),
             ~(iterations[i].start > job[Cron].today)
      PROVE  DataOK(Cron, Creating(Windows(iterations[i].end, job[Cron].today + 1,
                                           job[Cron].settings.duration)))
  <2>1. iterations[i].end \in Int /\ iterations[i].end <= job[Cron].today
    BY <1>2, <1>5 DEF CalendarTypeOK, RowsOK, IsCurrent, Contains
  <2>. QED
    BY <1>2, <2>1, MissingWindows, CronCreates
<1>6. CASE Goto(Cron, Creating(InitialWindow))
  BY <1>1, <1>3, <1>6, QuietStepTyped DEF Jobs
<1>7. ASSUME NEW i \in Latest,
             Goto(Cron,
               IF IsCurrent(iterations[i], job[Cron].today) THEN Creating(<<>>)
               ELSE IF iterations[i].start > job[Cron].today THEN [job[Cron] EXCEPT !.at = "unassign"]
               ELSE Creating(Windows(iterations[i].end, job[Cron].today + 1,
                                     job[Cron].settings.duration)))
      PROVE  CalendarTypeOK'
  <2>1. i \in DOMAIN iterations
    BY DEF Latest
  <2>. QED
    BY <1>1, <1>3, <1>4, <1>5, <1>7, <2>1, QuietStepTyped DEF Jobs
<1>. QED
  BY <1>6, <1>7 DEF FindLatest

LEMMA UnassignFutureTyped ==
  ASSUME CalendarTypeOK, UnassignFuture
  PROVE  CalendarTypeOK'
<1>1. /\ job[Cron].at = "unassign" /\ story' = Unassigned(Future)
      /\ Goto(Cron, [job[Cron] EXCEPT !.at = "delete future"])
      /\ UNCHANGED <<today, utc, settings, iterations, touched>>
  BY DEF UnassignFuture
<1>2. /\ job[Cron].today \in Int /\ job[Cron].settings \in Calendar
      /\ job[Cron] = [at |-> "unassign", today |-> job[Cron].today,
                      settings |-> job[Cron].settings]
  BY <1>1, AtWork, CronData
<1>3. DataOK(Cron, [job[Cron] EXCEPT !.at = "delete future"])
  BY <1>2 DEF DataOK, CronAtWork
<1>4. RowsOK'
  BY <1>1, UnassignedTyped DEF CalendarTypeOK, RowsOK
<1>. QED
  BY <1>1, <1>3, <1>4, JobStepTyped DEF Jobs

LEMMA DeleteFutureTyped ==
  ASSUME CalendarTypeOK, DeleteFuture
  PROVE  CalendarTypeOK'
<1>1. /\ job[Cron].at = "delete future" /\ story' = Unassigned(Future)
      /\ iterations' = [i \in DOMAIN iterations \ Future |-> iterations[i]]
      /\ Goto(Cron, Creating(InitialWindow))
      /\ UNCHANGED <<today, utc, settings, touched>>
  BY DEF DeleteFuture
<1>2. job[Cron].today \in Int /\ job[Cron].settings \in Calendar
  BY <1>1, AtWork, CronData
<1>3. DataOK(Cron, Creating(InitialWindow))
  BY <1>2, InitialWindowOK, CronCreates
<1>4. RowsOK'
  <2>1. /\ DOMAIN iterations' = DOMAIN iterations \ Future
        /\ \A i \in DOMAIN iterations' : iterations'[i] = iterations[i]
    BY <1>1
  <2>2. IsFiniteSet(DOMAIN iterations')
    BY <2>1, FS_Subset DEF CalendarTypeOK, RowsOK
  <2>. QED
    BY <1>1, <2>1, <2>2, UnassignedTyped DEF CalendarTypeOK, RowsOK
<1>. QED
  BY <1>1, <1>3, <1>4, JobStepTyped DEF Jobs

LEMMA ListIterationsTyped ==
  ASSUME CalendarTypeOK, ListIterations
  PROVE  CalendarTypeOK'
<1>1. UNCHANGED <<today, utc, settings, iterations, story, touched>>
  BY DEF ListIterations
<1>2. CASE Goto(Cron, NoJob)
  BY <1>1, <1>2, NoJobIsData, QuietStepTyped DEF Jobs
<1>3. ASSUME NEW from \in DOMAIN iterations, NEW to \in DOMAIN iterations,
             Goto(Cron, [at |-> "reassign", from |-> from, to |-> to])
      PROVE  CalendarTypeOK'
  <2>1. DataOK(Cron, [at |-> "reassign", from |-> from, to |-> to])
    <3>1. from \in Id /\ to \in Id
      BY DEF CalendarTypeOK, RowsOK
    <3>. QED
      BY <3>1 DEF DataOK, CronAtWork
  <2>. QED
    BY <1>1, <1>3, <2>1, QuietStepTyped DEF Jobs
<1>. QED
  BY <1>2, <1>3 DEF ListIterations, Previous, First

LEMMA ReassignStoriesTyped ==
  ASSUME CalendarTypeOK, ReassignStories
  PROVE  CalendarTypeOK'
<1>1. /\ Goto(Cron, NoJob) /\ UNCHANGED <<today, utc, settings, iterations, touched>>
      /\ story' = IF job[Cron].to \notin DOMAIN iterations THEN story
                  ELSE [s \in Stories |->
                          IF story[s].iteration = job[Cron].from /\ story[s].status # "Accepted"
                          THEN [story[s] EXCEPT !.iteration = job[Cron].to] ELSE story[s]]
  BY DEF ReassignStories
<1>2. RowsOK'
  <2>1. CASE job[Cron].to \notin DOMAIN iterations
    BY <1>1, <2>1 DEF CalendarTypeOK, RowsOK
  <2>2. CASE job[Cron].to \in DOMAIN iterations
    <3>1. ASSUME NEW s \in Stories
          PROVE  /\ story'[s] \in Row
                 /\ story'[s].iteration \in DOMAIN iterations \cup {Null}
                 /\ story'[s].status = "Accepted" => story'[s].completed \in Date
      <4>1. /\ story[s] \in Row /\ story[s].iteration \in DOMAIN iterations \cup {Null}
            /\ story[s].status = "Accepted" => story[s].completed \in Date
            /\ job[Cron].to \in Id
        BY <2>2 DEF CalendarTypeOK, RowsOK
      <4>2. story'[s] \in {story[s], [story[s] EXCEPT !.iteration = job[Cron].to]}
        BY <1>1, <2>2
      <4>. QED
        BY <2>2, <4>1, <4>2 DEF Row
    <3>2. story' \in [Stories -> Row]
      BY <1>1, <2>2, <3>1
    <3>. QED
      BY <1>1, <3>1, <3>2 DEF CalendarTypeOK, RowsOK
  <2>. QED
    BY <2>1, <2>2
<1>. QED
  BY <1>1, <1>2, NoJobIsData, JobStepTyped DEF Jobs

LEMMA ChangedIsCalendar ==
  ASSUME NEW cal \in Calendar, NEW change \in Changes
  PROVE  Changed(cal, change) \in Calendar
<1>1. change \in Change
  BY CalendarAssumption
<1>. QED
  BY <1>1 DEF Change, Calendar, Changed

LEMMA LoadProjectTyped ==
  ASSUME CalendarTypeOK, NEW r \in Patches, NEW change \in Changes, LoadProject(r, change)
  PROVE  CalendarTypeOK'
<1>. DEFINE q == [at |-> "settings", before |-> settings, change |-> change]
<1>1. q \in [at : {"settings"}, before : Calendar, change : Changes] /\ q.at = "settings"
  BY DEF CalendarTypeOK, RowsOK
<1>2. DataOK(r, q)
  BY <1>1, CalendarAssumption DEF DataOK, PatchAtWork
<1>. QED
  BY <1>2, QuietStepTyped DEF LoadProject, Jobs

\* A PATCH answered without a rebuild has nothing to restore.
Nothing == [s \in Stories |-> Null]

LEMMA NothingIsData == ASSUME NEW r \in Patches PROVE DataOK(r, [at |-> "ok", anchor |-> Nothing])
<1>1. [at |-> "ok", anchor |-> Nothing] \in [at : {"list", "ok"}, anchor : Anchors]
  BY DEF Nothing, Anchors
<1>. QED
  BY <1>1, CalendarAssumption DEF DataOK, PatchAtWork

LEMMA UpdateSettingsCases ==
  ASSUME NEW r \in Patches, UpdateSettings(r)
  PROVE  /\ job[r].at = "settings" /\ settings' = Changed(settings, job[r].change)
         /\ UNCHANGED <<today, utc, iterations, story, touched>>
         /\ \/ /\ MayStart(r)
               /\ Goto(r, [at |-> "read", today |-> utc, settings |-> settings'])
            \/ Goto(r, [at |-> "ok", anchor |-> Nothing])
BY DEF UpdateSettings, Nothing

LEMMA UpdateSettingsTyped ==
  ASSUME CalendarTypeOK, NEW r \in Patches, UpdateSettings(r)
  PROVE  CalendarTypeOK'
<1>. DEFINE q == [at |-> "read", today |-> utc, settings |-> settings']
<1>1. /\ job[r].at = "settings" /\ settings' = Changed(settings, job[r].change)
      /\ UNCHANGED <<today, utc, iterations, story, touched>>
      /\ Goto(r, q) \/ Goto(r, [at |-> "ok", anchor |-> Nothing])
  BY UpdateSettingsCases
<1>2. job[r].change \in Changes
  BY <1>1, AtWork, PatchData
<1>3. settings' \in Calendar
  BY <1>1, <1>2, ChangedIsCalendar DEF CalendarTypeOK, RowsOK
<1>4. DataOK(r, q)
  <2>1. utc \in Int
    BY CalendarAssumption DEF CalendarTypeOK, RowsOK, Date
  <2>2. q \in [at : {"read"}, today : Int, settings : Calendar]
    BY <1>3, <2>1
  <2>3. q \in PatchAtWork
    BY <2>2 DEF PatchAtWork
  <2>. QED
    BY <2>2, <2>3, CalendarAssumption DEF DataOK
<1>5. RowsOK'
  BY <1>1, <1>3 DEF CalendarTypeOK, RowsOK
<1>. QED
  BY <1>1, <1>4, <1>5, NothingIsData, JobStepTyped DEF Jobs

LEMMA ListsIterationsTyped ==
  ASSUME CalendarTypeOK, NEW r \in Patches, RebuildListsIterations(r)
  PROVE  CalendarTypeOK'
<1>. DEFINE old == [i \in DOMAIN iterations |-> iterations[i].start]
            q == [at |-> "stories", today |-> job[r].today, settings |-> job[r].settings,
                  old |-> old]
<1>1. job[r].at = "read" /\ Goto(r, q)
      /\ UNCHANGED <<today, utc, settings, iterations, story, touched>>
  BY DEF RebuildListsIterations
<1>2. job[r].today \in Int /\ job[r].settings \in Calendar
  BY <1>1, AtWork, PatchData
<1>3. Starts(old)
  BY DEF Starts, CalendarTypeOK, RowsOK
<1>. HIDE DEF old
<1>4. HasRead(q) /\ q.at = "stories"
  BY <1>2, <1>3 DEF HasRead
<1>5. DataOK(r, q)
  BY <1>4, CalendarAssumption DEF DataOK
<1>. QED
  BY <1>1, <1>5, QuietStepTyped DEF Jobs

\* What a rebuild asks for: the day of completion, or a start it has read.
Wanted(r) ==
  {story[s].completed : s \in {s \in Stories : story[s].status = "Accepted"}}
    \cup {job[r].old[i] : i \in DOMAIN job[r].old}

LEMMA WantedDates ==
  ASSUME CalendarTypeOK, NEW r \in Patches, job[r].at = "stories"
  PROVE  /\ job[r].today \in Int /\ job[r].settings \in Calendar /\ Starts(job[r].old)
         /\ Wanted(r) \subseteq Int /\ IsFiniteSet(Wanted(r))
         /\ \A s \in Stories : Anchor(story[s], job[r].old) \in Wanted(r) \cup {Null}
<1>1. job[r].today \in Int /\ job[r].settings \in Calendar /\ Starts(job[r].old)
  BY AtWork, PatchData DEF HasRead
<1>. DEFINE accepted == {s \in Stories : story[s].status = "Accepted"}
            f == [s \in accepted |-> story[s].completed]
            days == {story[s].completed : s \in accepted}
            starts == {job[r].old[i] : i \in DOMAIN job[r].old}
<1>2. days \subseteq Int
  BY CalendarAssumption DEF CalendarTypeOK, RowsOK, Date
<1>3. IsFiniteSet(days)
  <2>1. IsFiniteSet(accepted) /\ DOMAIN f = accepted
    BY FS_Subset, CalendarAssumption
  <2>2. IsFiniteSet({f[s] : s \in accepted})
    <3>. HIDE DEF accepted, f
    <3>. QED
      BY <2>1, FiniteImage
  <2>3. {f[s] : s \in accepted} = days
    OBVIOUS
  <2>. QED
    BY <2>2, <2>3
<1>4. starts \subseteq Int /\ IsFiniteSet(starts)
  BY <1>1, FiniteImage DEF Starts
<1>5. \A s \in Stories : Anchor(story[s], job[r].old) \in days \cup starts \cup {Null}
  BY DEF Anchor
<1>. QED
  BY <1>1, <1>2, <1>3, <1>4, <1>5, FS_Union DEF Wanted

LEMMA ListsStoriesTyped ==
  ASSUME CalendarTypeOK, NEW r \in Patches, RebuildListsStories(r)
  PROVE  CalendarTypeOK'
<1>. DEFINE anchor == [s \in Stories |-> Anchor(story[s], job[r].old)]
            list == RangesForRebuild(job[r].settings, job[r].today, Wanted(r))
            q == [at |-> "delete", number |-> 0, anchor |-> anchor, todo |-> list]
<1>1. /\ job[r].at = "stories" /\ Goto(r, q) /\ touched' = {}
      /\ UNCHANGED <<today, utc, settings, iterations, story>>
  BY DEF RebuildListsStories, Wanted
<1>2. anchor \in Anchors
  BY <1>1, WantedDates DEF Anchors
<1>3. list \in Seq(Window)
  BY <1>1, WantedDates, RangesCover
<1>. HIDE DEF anchor, list
<1>4. q \in PatchCreating /\ q.at = "delete"
  BY <1>2, <1>3 DEF PatchCreating
<1>5. RowsOK'
  BY <1>1 DEF CalendarTypeOK, RowsOK
<1>. QED
  BY <1>1, <1>4, <1>5, CreatingIsData, JobStepTyped DEF Jobs

LEMMA DeleteAllTyped ==
  ASSUME CalendarTypeOK, NEW r \in Patches, DeleteAll(r)
  PROVE  CalendarTypeOK'
<1>1. /\ job[r].at = "delete" /\ iterations' = [i \in {} |-> {}]
      /\ story' = Unassigned(DOMAIN iterations)
      /\ Goto(r, [job[r] EXCEPT !.at = "create"])
      /\ UNCHANGED <<today, utc, settings, touched>>
  BY DEF DeleteAll
<1>2. job[r] \in PatchCreating
  BY <1>1, PatchIsCreating
<1>3. [job[r] EXCEPT !.at = "create"] \in PatchCreating /\ [job[r] EXCEPT !.at = "create"].at = "create"
  BY <1>2 DEF PatchCreating
<1>4. DOMAIN iterations' = {}
  BY <1>1
<1>5. RowsOK'
  BY <1>1, <1>4, UnassignedTyped, FS_EmptySet DEF CalendarTypeOK, RowsOK
<1>. QED
  BY <1>1, <1>3, <1>5, CreatingIsData, JobStepTyped DEF Jobs

\* Of the rows there are, one is the first and one the last.
LEMMA FirstAndLastExist ==
  ASSUME RowsOK, NEW S, S \subseteq DOMAIN iterations, S # {}
  PROVE  First(S) # {} /\ Last(S) # {}
<1>. DEFINE f == [i \in S |-> iterations[i].start]
            starts == {f[i] : i \in S}
<1>1. IsFiniteSet(S)
  BY FS_Subset DEF RowsOK
<1>2. IsFiniteSet(starts)
  <2>1. DOMAIN f = S
    OBVIOUS
  <2>. HIDE DEF f
  <2>. QED
    BY <1>1, <2>1, FiniteImage
<1>3. starts \subseteq Int /\ starts # {}
  <2>1. \A i \in S : f[i] \in Int
    BY DEF RowsOK
  <2>. QED
    BY <2>1
<1>. HIDE DEF starts
<1>4. PICK low \in starts : \A y \in starts : low <= y
  BY <1>2, <1>3, LeastMember
<1>5. Max(starts) \in starts /\ \A y \in starts : y <= Max(starts)
  BY <1>2, <1>3, MaxIsGreatest
<1>. USE DEF starts
<1>6. PICK i \in S : iterations[i].start = low
  BY <1>4
<1>7. PICK k \in S : iterations[k].start = Max(starts)
  BY <1>5
<1>8. \A l \in S : low <= iterations[l].start
  BY <1>4
<1>9. \A l \in S : iterations[l].start <= Max(starts)
  BY <1>5
<1>. HIDE DEF starts
<1>10. i \in First(S)
  BY <1>6, <1>8 DEF First
<1>11. k \in Last(S)
  BY <1>7, <1>9 DEF Last
<1>. QED
  BY <1>10, <1>11

\* A date that an iteration covers resolves to one that covers it.
LEMMA DatesResolve ==
  ASSUME RowsOK, NEW date \in Int
  PROVE  /\ ResolveIterationForDate(date) \in DOMAIN iterations \cup {Null}
         /\ Covered(date) =>
              /\ ResolveIterationForDate(date) \in DOMAIN iterations
              /\ Contains(iterations[ResolveIterationForDate(date)], date)
<1>. DEFINE rows == DOMAIN iterations
            started == {i \in rows : iterations[i].start <= date}
            exact == {i \in started : date < iterations[i].end}
            found == IF exact # {} THEN First(exact)
                     ELSE IF started # {} THEN Last(started)
                     ELSE First(rows)
            Right(i) == IF rows = {} THEN i = Null ELSE i \in found
<1>1. ResolveIterationForDate(date) = CHOOSE i \in rows \cup {Null} : Right(i)
  BY DEF ResolveIterationForDate
<1>2. found \subseteq rows
  BY DEF First, Last
<1>3. rows # {} => found # {}
  BY FirstAndLastExist
<1>4. \E i \in rows \cup {Null} : Right(i)
  BY <1>2, <1>3
<1>5. /\ ResolveIterationForDate(date) \in rows \cup {Null}
      /\ Right(ResolveIterationForDate(date))
  <2>. HIDE DEF Right, rows
  <2>. QED
    BY <1>1, <1>4
<1>6. ASSUME Covered(date)
      PROVE  /\ ResolveIterationForDate(date) \in rows
             /\ Contains(iterations[ResolveIterationForDate(date)], date)
  <2>1. exact # {} /\ rows # {}
    BY <1>6 DEF Covered, Contains
  <2>2. ResolveIterationForDate(date) \in First(exact)
    BY <1>5, <2>1
  <2>. QED
    BY <2>2 DEF First, Contains
<1>. QED
  BY <1>5, <1>6

LEMMA ResolvesTyped ==
  ASSUME CalendarTypeOK, NEW r \in Patches, RebuildResolves(r)
  PROVE  CalendarTypeOK'
<1>. DEFINE target == [s \in Stories |-> IF job[r].anchor[s] = Null THEN Null
                                         ELSE ResolveIterationForDate(job[r].anchor[s])]
            q == [at |-> "assign", anchor |-> job[r].anchor, todo |-> Stories, target |-> target]
<1>1. /\ job[r].at = "list" /\ Goto(r, q)
      /\ UNCHANGED <<today, utc, settings, iterations, story, touched>>
  BY DEF RebuildResolves
<1>2. job[r].anchor \in Anchors
  BY <1>1, AtWork, PatchData
<1>3. target \in [Stories -> Id \cup {Null}]
  <2>1. \A s \in Stories : target[s] \in Id \cup {Null}
    BY <1>2, DatesResolve DEF Anchors, CalendarTypeOK, RowsOK
  <2>. QED
    BY <2>1
<1>. HIDE DEF target
<1>4. /\ q \in [at : {"assign"}, anchor : Anchors, todo : SUBSET Stories,
                target : [Stories -> Id \cup {Null}]]
      /\ q.at = "assign"
  BY <1>2, <1>3
<1>5. DataOK(r, q)
  BY <1>4, CalendarAssumption DEF DataOK, PatchAtWork
<1>. QED
  BY <1>1, <1>5, QuietStepTyped DEF Jobs

LEMMA AssignForRebuildTyped ==
  ASSUME CalendarTypeOK, NEW r \in Patches, NEW s \in Stories, AssignStoryForRebuild(r, s)
  PROVE  CalendarTypeOK'
<1>. DEFINE target == job[r].target[s]
            q == [job[r] EXCEPT !.todo = @ \ {s}]
<1>1. /\ job[r].at = "assign" /\ UNCHANGED <<today, utc, settings, iterations, touched>>
      /\ \/ Goto(r, NoJob) /\ UNCHANGED story
         \/ /\ target \in DOMAIN iterations \cup {Null} /\ Goto(r, q)
            /\ story' = IF target = Null THEN story ELSE [story EXCEPT ![s].iteration = target]
  BY DEF AssignStoryForRebuild
<1>2. /\ job[r] = [at |-> "assign", anchor |-> job[r].anchor, todo |-> job[r].todo,
                   target |-> job[r].target]
      /\ job[r].anchor \in Anchors /\ job[r].todo \subseteq Stories
      /\ job[r].target \in [Stories -> Id \cup {Null}]
  BY <1>1, AtWork, PatchData
<1>3. DataOK(r, q)
  <2>1. /\ q \in [at : {"assign"}, anchor : Anchors, todo : SUBSET Stories,
                  target : [Stories -> Id \cup {Null}]]
        /\ q.at = "assign"
    BY <1>2
  <2>. QED
    BY <2>1, CalendarAssumption DEF DataOK, PatchAtWork
<1>4. CASE Goto(r, NoJob) /\ UNCHANGED story
  BY <1>1, <1>4, NoJobIsData, QuietStepTyped DEF Jobs
<1>5. CASE /\ target \in DOMAIN iterations \cup {Null} /\ Goto(r, q)
           /\ story' = IF target = Null THEN story ELSE [story EXCEPT ![s].iteration = target]
  <2>1. RowsOK'
    <3>1. CASE target = Null
      BY <1>1, <1>5, <3>1 DEF CalendarTypeOK, RowsOK
    <3>2. CASE target # Null
      <4>1. target \in Id /\ target \in DOMAIN iterations
        BY <1>5, <3>2 DEF CalendarTypeOK, RowsOK
      <4>2. ASSUME NEW u \in Stories
            PROVE  /\ story'[u] \in Row
                   /\ story'[u].iteration \in DOMAIN iterations \cup {Null}
                   /\ story'[u].status = "Accepted" => story'[u].completed \in Date
        <5>1. /\ story[u] \in Row /\ story[u].iteration \in DOMAIN iterations \cup {Null}
              /\ story[u].status = "Accepted" => story[u].completed \in Date
          BY DEF CalendarTypeOK, RowsOK
        <5>2. story'[u] \in {story[u], [story[u] EXCEPT !.iteration = target]}
          BY <1>5, <3>2 DEF CalendarTypeOK, RowsOK
        <5>. QED
          BY <4>1, <5>1, <5>2 DEF Row
      <4>3. story' \in [Stories -> Row]
        <5>1. DOMAIN story' = Stories /\ story' = [story EXCEPT ![s].iteration = target]
          BY <1>5, <3>2 DEF CalendarTypeOK, RowsOK
        <5>. QED
          BY <4>2, <5>1 DEF CalendarTypeOK, RowsOK
      <4>. QED
        BY <1>1, <4>2, <4>3 DEF CalendarTypeOK, RowsOK
    <3>. QED
      BY <3>1, <3>2
  <2>. QED
    BY <1>3, <1>5, <2>1, JobStepTyped DEF Jobs
<1>. QED
  BY <1>1, <1>4, <1>5

LEMMA RebuiltTyped ==
  ASSUME CalendarTypeOK, NEW r \in Patches, Rebuilt(r)
  PROVE  CalendarTypeOK'
<1>. DEFINE q == [at |-> "ok", anchor |-> job[r].anchor]
<1>1. /\ job[r].at = "assign" /\ Goto(r, q)
      /\ UNCHANGED <<today, utc, settings, iterations, story, touched>>
  BY DEF Rebuilt
<1>2. q \in [at : {"list", "ok"}, anchor : Anchors] /\ q.at = "ok"
  BY <1>1, AtWork, PatchData
<1>3. DataOK(r, q)
  BY <1>2, CalendarAssumption DEF DataOK, PatchAtWork
<1>. QED
  BY <1>1, <1>3, QuietStepTyped DEF Jobs

LEMMA EndJobTyped ==
  ASSUME CalendarTypeOK, NEW j \in Jobs, EndJob(j)
  PROVE  CalendarTypeOK'
BY NoJobIsData, QuietStepTyped DEF EndJob

\* The environment changes rows and dates.
LEMMA OutsideStepTyped ==
  ASSUME CalendarTypeOK, RowsOK', UNCHANGED job
  PROVE  CalendarTypeOK'
BY DEF CalendarTypeOK

LEMMA ChangeStatusCases ==
  ASSUME CalendarTypeOK, NEW s \in Stories, NEW status \in Status, ChangeStatus(s, status)
  PROVE  /\ touched' = touched \cup {s} /\ UNCHANGED <<today, utc, settings, iterations, job>>
         /\ \E i \in DOMAIN iterations \cup {Null} :
              story' = [story EXCEPT ![s] =
                [status |-> status, completed |-> IF status = "Accepted" THEN utc ELSE Null,
                 iteration |-> i]]
<1>1. story[s].iteration \in DOMAIN iterations \cup {Null}
  BY DEF CalendarTypeOK, RowsOK
<1>2. CurrentIteration \subseteq DOMAIN iterations
  BY DEF CurrentIteration, Last
<1>. QED
  BY <1>1, <1>2 DEF ChangeStatus

LEMMA ChangeStatusTyped ==
  ASSUME CalendarTypeOK, NEW s \in Stories, NEW status \in Status, ChangeStatus(s, status)
  PROVE  CalendarTypeOK'
<1>1. PICK i \in DOMAIN iterations \cup {Null} :
        story' = [story EXCEPT ![s] =
          [status |-> status, completed |-> IF status = "Accepted" THEN utc ELSE Null,
           iteration |-> i]]
  BY ChangeStatusCases
<1>2. touched' = touched \cup {s} /\ UNCHANGED <<today, utc, settings, iterations, job>>
  BY ChangeStatusCases
<1>. DEFINE row == [status |-> status, completed |-> IF status = "Accepted" THEN utc ELSE Null,
                    iteration |-> i]
<1>3. /\ row \in Row /\ row.iteration \in DOMAIN iterations \cup {Null}
      /\ row.status = "Accepted" => row.completed \in Date
  BY DEF Row, CalendarTypeOK, RowsOK
<1>4. story' = [story EXCEPT ![s] = row]
  BY <1>1
<1>. HIDE DEF row
<1>5. RowsOK'
  BY <1>2, <1>3, <1>4 DEF CalendarTypeOK, RowsOK
<1>. QED
  BY <1>2, <1>5, OutsideStepTyped

LEMMA AssignStoryTyped ==
  ASSUME CalendarTypeOK, NEW s \in Stories, NEW i \in DOMAIN iterations \cup {Null},
         AssignStory(s, i)
  PROVE  CalendarTypeOK'
<1>. DEFINE row == [story[s] EXCEPT !.iteration = i]
<1>1. /\ touched' = touched \cup {s} /\ UNCHANGED <<today, utc, settings, iterations, job>>
      /\ story' = [story EXCEPT ![s] = row]
  BY DEF AssignStory
<1>2. /\ row \in Row /\ row.iteration \in DOMAIN iterations \cup {Null}
      /\ row.status = "Accepted" => row.completed \in Date
  BY DEF Row, CalendarTypeOK, RowsOK
<1>. HIDE DEF row
<1>3. RowsOK'
  BY <1>1, <1>2 DEF CalendarTypeOK, RowsOK
<1>. QED
  BY <1>1, <1>3, OutsideStepTyped

LEMMA NextDayTyped == ASSUME CalendarTypeOK, NextDay PROVE CalendarTypeOK'
<1>1. RowsOK'
  BY CalendarAssumption DEF NextDay, CalendarTypeOK, RowsOK, Date
<1>. QED
  BY <1>1, OutsideStepTyped DEF NextDay

LEMMA NextUtcDayTyped == ASSUME CalendarTypeOK, NextUtcDay PROVE CalendarTypeOK'
<1>1. RowsOK'
  BY CalendarAssumption DEF NextUtcDay, CalendarTypeOK, RowsOK, Date
<1>. QED
  BY <1>1, OutsideStepTyped DEF NextUtcDay

LEMMA InitTyped == IterationsInit => CalendarTypeOK
<1>. SUFFICES ASSUME IterationsInit PROVE CalendarTypeOK
  OBVIOUS
<1>1. today \in Date /\ utc \in Date /\ utc \in {today - 1, today} /\ settings \in Calendar
  BY CalendarAssumption DEF IterationsInit, Date
<1>2. DOMAIN iterations = {}
  BY DEF IterationsInit
<1>3. RowsOK
  BY <1>1, <1>2, FS_EmptySet DEF IterationsInit, RowsOK, Row, Status
<1>. QED
  BY <1>3, NoJobIsData DEF IterationsInit, CalendarTypeOK

-----------------------------------------------------------------------------
(***************************************************************************)
(* The order of the iterations is kept while one job works at a time.      *)
(***************************************************************************)

\* A job at rest asks nothing of the rows.
LEMMA RestIsFine ==
  ASSUME NEW k, Rests(job[k])'
  PROVE  CreatingOK(job[k])' /\ DeletingFutureOK(job[k])' /\ RebuildOK(job[k])'
BY DEF Rests, CreatingOK, DeletingFutureOK, RebuildOK

\* All others rest while a job works, or when it may start.
LEMMA OthersRest ==
  ASSUME ~Overlap, OneAtATime, NEW j \in Jobs, ~Rests(job[j]) \/ MayStart(j)
  PROVE  \A k \in Jobs \ {j} : Rests(job[k])
BY DEF OneAtATime, MayStart, Active, Rests

\* The only job at work moves.
LEMMA WorkKeepsOrder ==
  ASSUME CalendarTypeOK, NEW j \in Jobs, \A k \in Jobs \ {j} : Rests(job[k]),
         \A k \in Jobs \ {j} : job'[k] = job[k],
         RowsInOrder', CreatingOK(job[j])',
         j = Cron => DeletingFutureOK(job[j])', j \in Patches => RebuildOK(job[j])'
  PROVE  CalendarInv'
<1>1. \A k \in Jobs \ {j} : Rests(job[k])'
  BY DEF Rests
<1>2. \A k \in Jobs \ {j} :
        CreatingOK(job[k])' /\ DeletingFutureOK(job[k])' /\ RebuildOK(job[k])'
  BY <1>1, RestIsFine
<1>3. OneAtATime'
  BY <1>1 DEF OneAtATime
<1>4. \A k \in Jobs : CreatingOK(job[k])'
  BY <1>2
<1>5. DeletingFutureOK(job[Cron])'
  BY <1>2 DEF Jobs
<1>6. \A r \in Patches : RebuildOK(job[r])'
  BY <1>2 DEF Jobs
<1>. QED
  BY <1>3, <1>4, <1>5, <1>6 DEF CalendarInv

\* What a job asks of the rows depends on them, the stories and who changed
\* them alone.
LEMMA SameRowsAreFine ==
  ASSUME CalendarTypeOK, NEW k \in Jobs, job'[k] = job[k], UNCHANGED iterations,
         \A s \in Stories : s \notin touched' =>
           s \notin touched /\ story'[s].iteration = story[s].iteration
  PROVE  /\ CreatingOK(job[k]) => CreatingOK(job[k])'
         /\ DeletingFutureOK(job[k]) => DeletingFutureOK(job[k])'
         /\ RebuildOK(job[k]) => RebuildOK(job[k])'
         /\ RowsInOrder => RowsInOrder'
<1>1. CreatingOK(job[k]) => CreatingOK(job[k])'
  BY DEF CreatingOK, Continues, NextNumber
<1>2. DeletingFutureOK(job[k]) => DeletingFutureOK(job[k])'
  BY DEF DeletingFutureOK
<1>3. RebuildOK(job[k]) => RebuildOK(job[k])'
  BY DEF RebuildOK, Covered, Placed
<1>4. RowsInOrder => RowsInOrder'
  BY DEF RowsInOrder
<1>. QED
  BY <1>1, <1>2, <1>3, <1>4

\* A job comes to rest and leaves the rows alone.
LEMMA RestKeepsOrder ==
  ASSUME CalendarTypeOK, CalendarInv, NEW j \in Jobs, NEW q, Goto(j, q), Rests(q),
         UNCHANGED <<iterations, story, touched>>
  PROVE  CalendarInv'
<1>1. job'[j] = q /\ \A k \in Jobs \ {j} : job'[k] = job[k]
  BY JobMoves
<1>2. Rests(job[j])'
  BY <1>1 DEF Rests
<1>3. CreatingOK(job[j])' /\ DeletingFutureOK(job[j])' /\ RebuildOK(job[j])'
  BY <1>2, RestIsFine
<1>4. \A k \in Jobs \ {j} :
        /\ CreatingOK(job[k]) => CreatingOK(job[k])'
        /\ DeletingFutureOK(job[k]) => DeletingFutureOK(job[k])'
        /\ RebuildOK(job[k]) => RebuildOK(job[k])'
  BY <1>1, SameRowsAreFine
<1>5. RowsInOrder'
  BY DEF CalendarInv, RowsInOrder
<1>6. OneAtATime'
  BY <1>1, <1>2 DEF CalendarInv, OneAtATime, Rests
<1>7. \A k \in Jobs : CreatingOK(job[k])'
  BY <1>3, <1>4 DEF CalendarInv
<1>8. DeletingFutureOK(job[Cron])'
  BY <1>3, <1>4 DEF CalendarInv, Jobs
<1>9. \A r \in Patches : RebuildOK(job[r])'
  BY <1>3, <1>4 DEF CalendarInv, Jobs
<1>. QED
  BY <1>5, <1>6, <1>7, <1>8, <1>9 DEF CalendarInv

\* The environment leaves the rows alone and remembers which stories it changes.
LEMMA OutsideKeepsOrder ==
  ASSUME CalendarTypeOK, CalendarInv, UNCHANGED <<iterations, job>>,
         \A s \in Stories : s \notin touched' =>
           s \notin touched /\ story'[s].iteration = story[s].iteration
  PROVE  CalendarInv'
<1>1. \A k \in Jobs :
        /\ CreatingOK(job[k]) => CreatingOK(job[k])'
        /\ DeletingFutureOK(job[k]) => DeletingFutureOK(job[k])'
        /\ RebuildOK(job[k]) => RebuildOK(job[k])'
  BY SameRowsAreFine
<1>2. RowsInOrder' /\ OneAtATime'
  BY DEF CalendarInv, RowsInOrder, OneAtATime, Rests
<1>3. \A k \in Jobs : CreatingOK(job[k])'
  BY <1>1 DEF CalendarInv
<1>4. DeletingFutureOK(job[Cron])' /\ \A r \in Patches : RebuildOK(job[r])'
  BY <1>1 DEF CalendarInv, Jobs
<1>. QED
  BY <1>2, <1>3, <1>4 DEF CalendarInv

\* The job that moves works, or may start to.
LEMMA WorkMoves ==
  ASSUME ~Overlap, CalendarTypeOK, CalendarInv, NEW j \in Jobs, NEW q, Goto(j, q),
         ~Rests(job[j]) \/ MayStart(j),
         RowsInOrder', CreatingOK(job[j])',
         j = Cron => DeletingFutureOK(job[j])', j \in Patches => RebuildOK(job[j])'
  PROVE  CalendarInv'
<1>1. \A k \in Jobs \ {j} : Rests(job[k])
  BY OthersRest DEF CalendarInv
<1>2. \A k \in Jobs \ {j} : job'[k] = job[k]
  BY JobMoves
<1>. QED
  BY <1>1, <1>2, WorkKeepsOrder

\* A job moves to a step that asks nothing of the rows.
LEMMA FreeMove ==
  ASSUME ~Overlap, CalendarTypeOK, CalendarInv, NEW j \in Jobs, NEW q, Goto(j, q),
         ~Rests(job[j]) \/ MayStart(j),
         q.at \in {"idle", "latest", "backfill", "reassign", "read", "stories"},
         UNCHANGED iterations
  PROVE  CalendarInv'
<1>1. job'[j] = q
  BY JobMoves
<1>2. CreatingOK(job[j])' /\ DeletingFutureOK(job[j])' /\ RebuildOK(job[j])'
  BY <1>1 DEF CreatingOK, DeletingFutureOK, RebuildOK
<1>3. RowsInOrder'
  BY DEF CalendarInv, RowsInOrder
<1>. QED
  BY <1>2, <1>3, WorkMoves

LEMMA StartCronInOrder ==
  ASSUME ~Overlap, CalendarTypeOK, CalendarInv, StartCron
  PROVE  CalendarInv'
<1>1. UNCHANGED iterations /\ MayStart(Cron)
      /\ Goto(Cron, [at |-> "latest", today |-> today, settings |-> settings])
  BY DEF StartCron
<1>. QED
  BY <1>1, FreeMove DEF Jobs

\* The iteration that ends last has the highest number.
LEMMA LatestIsLast ==
  ASSUME RowsOK, RowsInOrder, NEW i \in Latest
  PROVE  /\ i \in DOMAIN iterations
         /\ \A k \in DOMAIN iterations : iterations[k].number <= iterations[i].number
<1>1. i \in DOMAIN iterations /\ \A k \in DOMAIN iterations : iterations[k].end <= iterations[i].end
  BY DEF Latest
<1>2. ASSUME NEW k \in DOMAIN iterations, ~(iterations[k].number <= iterations[i].number)
      PROVE  FALSE
  <2>1. iterations[i].number < iterations[k].number
    BY <1>1, <1>2 DEF RowsOK
  <2>2. iterations[i].end <= iterations[k].start /\ iterations[k].start < iterations[k].end
    BY <1>1, <2>1 DEF RowsInOrder
  <2>. QED
    BY <1>1, <2>2 DEF RowsOK
<1>. QED
  BY <1>1, <1>2

LEMMA LastContinues ==
  ASSUME RowsOK, RowsInOrder, NEW i \in DOMAIN iterations,
         \A k \in DOMAIN iterations : iterations[k].number <= iterations[i].number,
         NEW window, window.start = iterations[i].end
  PROVE  Continues(window)
<1>1. ASSUME NEW l \in DOMAIN iterations,
             \A k \in DOMAIN iterations : iterations[k].number <= iterations[l].number
      PROVE  l = i
  <2>1. iterations[l].number = iterations[i].number
    BY <1>1 DEF RowsOK
  <2>. QED
    BY <2>1 DEF RowsInOrder
<1>. QED
  BY <1>1 DEF Continues

\* The cron has windows to create that continue the iterations or are refused.
LEMMA CronMayCreate ==
  ASSUME ~Overlap, CalendarTypeOK, CalendarInv, ~Rests(job[Cron]),
         NEW list, Goto(Cron, Creating(list)), Adjoining(list), UNCHANGED iterations,
         list # <<>> => Continues(Head(list))
  PROVE  CalendarInv'
<1>1. job'[Cron] = Creating(list)
  BY JobMoves DEF Jobs
<1>2. job'[Cron].at = "create" /\ job'[Cron].todo = list
  BY <1>1 DEF Creating
<1>3. CreatingOK(job[Cron])' /\ DeletingFutureOK(job[Cron])'
  BY <1>2 DEF CreatingOK, DeletingFutureOK, Continues, Adjoining
<1>4. RowsInOrder'
  BY DEF CalendarInv, RowsInOrder
<1>. QED
  BY <1>3, <1>4, WorkMoves, CalendarAssumption DEF Jobs

LEMMA FindLatestInOrder ==
  ASSUME ~Overlap, CalendarTypeOK, CalendarInv, FindLatest
  PROVE  CalendarInv'
<1>1. job[Cron].at = "latest" /\ UNCHANGED iterations
  BY DEF FindLatest
<1>2. /\ job[Cron].today \in Int /\ job[Cron].settings \in Calendar
      /\ job[Cron] = [at |-> "latest", today |-> job[Cron].today, settings |-> job[Cron].settings]
  BY <1>1, AtWork, CronData
<1>3. ~Rests(job[Cron])
  BY <1>1 DEF Rests
<1>4. CASE DOMAIN iterations = {} /\ Goto(Cron, Creating(InitialWindow))
  <2>1. Adjoining(InitialWindow) /\ Continues(Head(InitialWindow))
    BY <1>2, <1>4, InitialWindowOK DEF Continues
  <2>. QED
    BY <1>1, <1>3, <1>4, <2>1, CronMayCreate
<1>5. ASSUME NEW i \in Latest,
             Goto(Cron,
               IF IsCurrent(iterations[i], job[Cron].today) THEN Creating(<<>>)
               ELSE IF iterations[i].start > job[Cron].today THEN [job[Cron] EXCEPT !.at = "unassign"]
               ELSE Creating(Windows(iterations[i].end, job[Cron].today + 1,
                                     job[Cron].settings.duration)))
      PROVE  CalendarInv'
  <2>1. /\ i \in DOMAIN iterations
        /\ \A k \in DOMAIN iterations : iterations[k].number <= iterations[i].number
    BY LatestIsLast DEF CalendarTypeOK, CalendarInv
  <2>2. iterations[i].start \in Int /\ iterations[i].end \in Int
    BY <2>1 DEF CalendarTypeOK, RowsOK
  <2>3. CASE Goto(Cron, Creating(<<>>))
    <3>1. Adjoining(<<>>)
      BY DEF Adjoining
    <3>. QED
      BY <1>1, <1>3, <2>3, <3>1, CronMayCreate
  <2>4. CASE /\ iterations[i].start > job[Cron].today
             /\ Goto(Cron, [job[Cron] EXCEPT !.at = "unassign"])
    <3>1. job'[Cron] = [job[Cron] EXCEPT !.at = "unassign"]
      BY <2>4, JobMoves DEF Jobs
    <3>2. job'[Cron].at = "unassign" /\ job'[Cron].today = job[Cron].today
      BY <1>2, <3>1
    <3>3. CreatingOK(job[Cron])'
      BY <3>2 DEF CreatingOK
    <3>4. DeletingFutureOK(job[Cron])'
      BY <1>1, <2>1, <2>4, <3>2 DEF DeletingFutureOK
    <3>5. RowsInOrder'
      BY <1>1 DEF CalendarInv, RowsInOrder
    <3>. QED
      BY <1>3, <2>4, <3>3, <3>4, <3>5, WorkMoves, CalendarAssumption DEF Jobs
  <2>5. CASE /\ ~IsCurrent(iterations[i], job[Cron].today)
             /\ ~(iterations[i].start > job[Cron].today)
             /\ Goto(Cron, Creating(Windows(iterations[i].end, job[Cron].today + 1,
                                            job[Cron].settings.duration)))
    <3>. DEFINE list == Windows(iterations[i].end, job[Cron].today + 1,
                                job[Cron].settings.duration)
    <3>1. iterations[i].end <= job[Cron].today
      BY <1>2, <2>2, <2>5 DEF IsCurrent, Contains
    <3>2. /\ list \in Seq(Window) /\ list # <<>> /\ list[1].start = iterations[i].end
          /\ Adjoining(list)
      BY <1>2, <2>2, <3>1, MissingWindows
    <3>. HIDE DEF list
    <3>3. Head(list) = list[1]
      BY <3>2, TailsAreLists
    <3>4. Continues(Head(list))
      BY <2>1, <3>2, <3>3, LastContinues DEF CalendarTypeOK, CalendarInv
    <3>5. Goto(Cron, Creating(list))
      BY <2>5 DEF list
    <3>. QED
      BY <1>1, <1>3, <3>2, <3>4, <3>5, CronMayCreate
  <2>. QED
    BY <1>5, <2>3, <2>4, <2>5
<1>. QED
  BY <1>4, <1>5 DEF FindLatest

LEMMA UnassignFutureInOrder ==
  ASSUME ~Overlap, CalendarTypeOK, CalendarInv, UnassignFuture
  PROVE  CalendarInv'
<1>1. /\ job[Cron].at = "unassign" /\ UNCHANGED iterations
      /\ Goto(Cron, [job[Cron] EXCEPT !.at = "delete future"])
  BY DEF UnassignFuture
<1>2. job'[Cron] = [job[Cron] EXCEPT !.at = "delete future"]
  BY <1>1, JobMoves DEF Jobs
<1>3. job[Cron] = [at |-> "unassign", today |-> job[Cron].today, settings |-> job[Cron].settings]
  BY <1>1, AtWork, CronData
<1>4. job'[Cron].at = "delete future" /\ job'[Cron].today = job[Cron].today
  BY <1>2, <1>3
<1>5. CreatingOK(job[Cron])'
  BY <1>4 DEF CreatingOK
<1>6. DeletingFutureOK(job[Cron])'
  BY <1>1, <1>4 DEF CalendarInv, DeletingFutureOK
<1>7. RowsInOrder'
  <2>1. iterations' = iterations
    BY <1>1
  <2>. QED
    BY <2>1 DEF CalendarInv, RowsInOrder
<1>8. ~Rests(job[Cron])
  BY <1>1 DEF Rests
<1>. QED
  BY <1>1, <1>5, <1>6, <1>7, <1>8, WorkMoves, CalendarAssumption DEF Jobs

\* The rows that are not to come have the numbers 1 to m, and the last of them
\* runs on the day, when there are rows to come.
LEMMA KeptRowsInOrder ==
  ASSUME RowsOK, RowsInOrder, NEW date \in Int, NEW gone,
         gone = {i \in DOMAIN iterations : iterations[i].start > date},
         iterations' = [i \in DOMAIN iterations \ gone |-> iterations[i]]
  PROVE  /\ RowsInOrder'
         /\ gone # {} =>
              \/ DOMAIN iterations' = {}
              \/ \E i \in DOMAIN iterations' : Contains(iterations'[i], date)
<1>. DEFINE kept == DOMAIN iterations \ gone
            numbers == {iterations[i].number : i \in kept}
            all == numbers \cup {0}
<1>1. /\ DOMAIN iterations' = kept
      /\ \A i \in kept : iterations'[i] = iterations[i]
      /\ \A i \in kept : i \in DOMAIN iterations /\ iterations[i].start <= date
  BY DEF RowsOK
<1>2. \A i \in DOMAIN iterations :
        /\ iterations[i].number \in Nat \ {0}
        /\ iterations[i].start \in Int /\ iterations[i].end \in Int
  BY DEF RowsOK
<1>3. PICK n \in Nat : {iterations[i].number : i \in DOMAIN iterations} = 1..n
  BY DEF RowsInOrder
<1>4. numbers \subseteq 1..n
  BY <1>1, <1>3
<1>5. IsFiniteSet(all) /\ all \subseteq Int /\ all # {}
  <2>1. IsFiniteSet(1..n)
    BY FS_Interval
  <2>2. IsFiniteSet(numbers)
    BY <1>4, <2>1, FS_Subset
  <2>. HIDE DEF numbers
  <2>. QED
    BY <1>4, <2>2, FS_AddElement
<1>. DEFINE m == Max(all)
<1>6. m \in all /\ \A y \in all : y <= m
  <2>. HIDE DEF all
  <2>. QED
    BY <1>5, MaxIsGreatest
<1>. HIDE DEF m
<1>7. m \in Nat /\ m <= n
  BY <1>4, <1>6
<1>8. \A i \in kept : iterations[i].number <= m
  BY <1>6
<1>9. ASSUME NEW i \in DOMAIN iterations, NEW k \in kept,
             iterations[i].number <= iterations[k].number
      PROVE  i \in kept
  <2>1. iterations[i].start <= iterations[k].start
    <3>1. CASE iterations[i].number = iterations[k].number
      BY <1>1, <1>2, <3>1 DEF RowsInOrder
    <3>2. CASE iterations[i].number < iterations[k].number
      <4>1. iterations[i].end <= iterations[k].start /\ iterations[i].start < iterations[i].end
        BY <1>1, <3>2 DEF RowsInOrder
      <4>. QED
        BY <1>1, <1>2, <4>1
    <3>. QED
      BY <1>1, <1>2, <1>9, <3>1, <3>2
  <2>2. iterations[k].start <= date
    BY <1>1
  <2>. QED
    BY <1>1, <1>2, <2>1, <2>2
<1>10. numbers = 1..m
  <2>1. numbers \subseteq 1..m
    BY <1>4, <1>7, <1>8
  <2>2. ASSUME NEW x \in 1..m PROVE x \in numbers
    <3>1. PICK k \in kept : iterations[k].number = m
      BY <1>6, <1>7, <2>2
    <3>2. PICK i \in DOMAIN iterations : iterations[i].number = x
      <4>1. x \in 1..n
        BY <1>7, <2>2
      <4>. QED
        BY <1>3, <4>1
    <3>3. i \in kept
      BY <1>7, <1>9, <2>2, <3>1, <3>2
    <3>. QED
      BY <3>2, <3>3
  <2>. QED
    BY <2>1, <2>2
<1>11. RowsInOrder'
  <2>1. {iterations'[i].number : i \in DOMAIN iterations'} = 1..m
    BY <1>1, <1>10
  <2>2. \A i \in DOMAIN iterations' : iterations'[i].start < iterations'[i].end
    BY <1>1 DEF RowsInOrder
  <2>3. \A i, k \in DOMAIN iterations' :
          /\ iterations'[i].number = iterations'[k].number => i = k
          /\ iterations'[i].number < iterations'[k].number =>
               iterations'[i].end <= iterations'[k].start
          /\ iterations'[k].number = iterations'[i].number + 1 =>
               iterations'[k].start = iterations'[i].end
    <3>. HIDE DEF kept
    <3>. QED
      BY <1>1 DEF RowsInOrder
  <2>. QED
    BY <1>7, <2>1, <2>2, <2>3 DEF RowsInOrder
<1>12. ASSUME gone # {}, kept # {}
       PROVE  \E i \in kept : Contains(iterations[i], date)
  <2>1. m \in numbers
    <3>1. PICK i \in kept : TRUE
      BY <1>12
    <3>2. iterations[i].number <= m /\ iterations[i].number \in Nat \ {0}
      BY <1>1, <1>2, <1>8
    <3>3. m >= 1
      BY <1>7, <3>2
    <3>. QED
      BY <1>6, <3>3
  <2>2. PICK i \in kept : iterations[i].number = m
    BY <2>1
  <2>3. PICK g \in DOMAIN iterations : g \in gone
    BY <1>12
  <2>4. iterations[g].number > m
    <3>1. g \notin kept
      BY <2>3
    <3>2. ~(iterations[g].number <= iterations[i].number)
      BY <1>9, <2>2, <3>1
    <3>. QED
      BY <1>2, <1>7, <2>2, <3>2
  <2>5. m + 1 \in 1..n
    BY <1>2, <1>3, <1>7, <2>4
  <2>6. PICK k \in DOMAIN iterations : iterations[k].number = m + 1
    BY <1>3, <2>5
  <2>7. k \in gone
    <3>1. k \notin kept
      BY <1>7, <1>8, <2>6
    <3>. QED
      BY <3>1
  <2>8. iterations[k].start = iterations[i].end
    BY <1>1, <2>2, <2>6 DEF RowsInOrder
  <2>9. iterations[i].end > date
    BY <2>7, <2>8
  <2>. QED
    BY <1>1, <2>9 DEF Contains
<1>. QED
  BY <1>1, <1>11, <1>12

LEMMA DeleteFutureInOrder ==
  ASSUME ~Overlap, CalendarTypeOK, CalendarInv, DeleteFuture
  PROVE  CalendarInv'
<1>1. /\ job[Cron].at = "delete future"
      /\ iterations' = [i \in DOMAIN iterations \ Future |-> iterations[i]]
      /\ Goto(Cron, Creating(InitialWindow))
  BY DEF DeleteFuture
<1>2. job[Cron].today \in Int /\ job[Cron].settings \in Calendar
  BY <1>1, AtWork, CronData
<1>. DEFINE date == job[Cron].today
            window == WindowContaining(job[Cron].settings, job[Cron].today)
<1>3. /\ RowsInOrder'
      /\ DOMAIN iterations' = {} \/ \E i \in DOMAIN iterations' : Contains(iterations'[i], date)
  <2>1. Future = {i \in DOMAIN iterations : iterations[i].start > date}
    BY DEF Future
  <2>2. Future # {}
    BY <1>1 DEF CalendarInv, DeletingFutureOK, Future
  <2>. HIDE DEF date
  <2>3. date \in Int
    BY <1>2 DEF date
  <2>. QED
    BY <1>1, <2>1, <2>2, <2>3, KeptRowsInOrder DEF CalendarTypeOK, CalendarInv
<1>4. /\ InitialWindow # <<>> /\ Adjoining(InitialWindow)
      /\ Head(InitialWindow) = window
      /\ window \in Window /\ Contains(window, date)
  BY <1>2, InitialWindowOK, WindowOfDate
<1>5. job'[Cron] = Creating(InitialWindow)
  BY <1>1, JobMoves DEF Jobs
<1>6. /\ job'[Cron].at = "create" /\ Head(job'[Cron].todo) = window
      /\ Adjoining(job'[Cron].todo)
  BY <1>4, <1>5 DEF Creating
<1>. HIDE DEF window
<1>7. CreatingOK(job[Cron])'
  <2>1. CASE DOMAIN iterations' = {}
    BY <1>6, <2>1 DEF CreatingOK, Continues, Adjoining
  <2>2. ASSUME NEW i \in DOMAIN iterations', Contains(iterations'[i], date)
        PROVE  CreatingOK(job[Cron])'
    <3>1. iterations'[i].start \in Int /\ iterations'[i].end \in Int
      BY <1>1, <2>2 DEF CalendarTypeOK, RowsOK
    <3>2. Overlaps(window, iterations'[i])
      BY <1>2, <1>4, <2>2, <3>1 DEF Contains, Overlaps, Window
    <3>. QED
      BY <1>6, <3>2 DEF CreatingOK, Adjoining, Overlaps
  <2>. QED
    BY <1>3, <2>1, <2>2
<1>8. DeletingFutureOK(job[Cron])'
  BY <1>6 DEF DeletingFutureOK
<1>9. ~Rests(job[Cron])
  BY <1>1 DEF Rests
<1>. QED
  BY <1>1, <1>3, <1>7, <1>8, <1>9, WorkMoves, CalendarAssumption DEF Jobs

LEMMA ListIterationsInOrder ==
  ASSUME ~Overlap, CalendarTypeOK, CalendarInv, ListIterations
  PROVE  CalendarInv'
<1>1. job[Cron].at = "backfill" /\ UNCHANGED iterations
  BY DEF ListIterations
<1>2. ~Rests(job[Cron])
  BY <1>1 DEF Rests
<1>3. CASE Goto(Cron, NoJob)
  BY <1>1, <1>2, <1>3, FreeMove DEF Jobs, NoJob
<1>4. ASSUME NEW from, NEW to, Goto(Cron, [at |-> "reassign", from |-> from, to |-> to])
      PROVE  CalendarInv'
  BY <1>1, <1>2, <1>4, FreeMove DEF Jobs
<1>. QED
  BY <1>3, <1>4 DEF ListIterations

LEMMA ReassignInOrder ==
  ASSUME ~Overlap, CalendarTypeOK, CalendarInv, ReassignStories
  PROVE  CalendarInv'
<1>1. job[Cron].at = "reassign" /\ UNCHANGED iterations /\ Goto(Cron, NoJob)
  BY DEF ReassignStories
<1>2. ~Rests(job[Cron])
  BY <1>1 DEF Rests
<1>. QED
  BY <1>1, <1>2, FreeMove DEF Jobs, NoJob

-----------------------------------------------------------------------------
(***************************************************************************)
(* Creating iterations keeps the order.                                    *)
(***************************************************************************)

\* What a job that creates carries.
LEMMA CreatingFields ==
  ASSUME CalendarTypeOK, NEW j \in Jobs, job[j].at \in {"create", "number", "insert"}
  PROVE  /\ {"at", "todo", "number"} \subseteq DOMAIN job[j]
         /\ j \in Patches => "anchor" \in DOMAIN job[j]
<1>1. job[j] # NoJob
  BY DEF NoJob
<1>2. CASE j = Cron
  <2>1. job[j] = [at |-> job[j].at, today |-> job[j].today, todo |-> job[j].todo,
                  number |-> job[j].number]
    BY <1>1, <1>2, CronData
  <2>2. DOMAIN job[j] = {"at", "today", "todo", "number"}
    BY <2>1
  <2>. QED
    BY <1>2, <2>2, CalendarAssumption
<1>3. CASE j \in Patches
  <2>1. job[j] = [at |-> job[j].at, anchor |-> job[j].anchor, todo |-> job[j].todo,
                  number |-> job[j].number]
    BY <1>1, <1>3, PatchData
  <2>2. DOMAIN job[j] = {"at", "anchor", "todo", "number"}
    BY <2>1
  <2>. QED
    BY <2>2
<1>. QED
  BY <1>2, <1>3 DEF Jobs

LEMMA CheckOverlapInOrder ==
  ASSUME ~Overlap, CalendarTypeOK, CalendarInv, NEW j \in Jobs, CheckOverlap(j)
  PROVE  CalendarInv'
<1>1. job[j].at = "create" /\ UNCHANGED <<iterations, story, touched>>
  BY DEF CheckOverlap
<1>2. ~Rests(job[j])
  BY <1>1 DEF Rests
<1>3. RowsInOrder'
  <2>1. iterations' = iterations
    BY <1>1
  <2>. QED
    BY <2>1 DEF CalendarInv, RowsInOrder
<1>4. CASE Goto(j, NoJob)
  BY <1>1, <1>4, RestKeepsOrder DEF Rests, NoJob
<1>5. CASE job[j].todo = <<>> /\ Goto(j, AfterCreate(j))
  <2>1. CASE j = Cron
    BY <1>1, <1>2, <1>5, <2>1, FreeMove DEF AfterCreate
  <2>2. CASE j \in Patches
    <3>1. AfterCreate(j) = [at |-> "list", anchor |-> job[j].anchor]
      BY <2>2, CalendarAssumption DEF AfterCreate
    <3>2. job'[j].at = "list" /\ job'[j].anchor = job[j].anchor
      BY <1>5, <3>1, JobMoves
    <3>3. CreatingOK(job[j])'
      BY <3>2 DEF CreatingOK
    <3>4. \A s \in Stories : job[j].anchor[s] # Null => Covered(job[j].anchor[s])
      BY <1>1, <1>5, <2>2 DEF CalendarInv, RebuildOK, InList
    <3>5. RebuildOK(job[j])'
      BY <1>1, <3>2, <3>4 DEF RebuildOK, Covered
    <3>. QED
      BY <1>2, <1>3, <1>5, <2>2, <3>3, <3>5, WorkMoves, CalendarAssumption
  <2>. QED
    BY <2>1, <2>2 DEF Jobs
<1>6. CASE /\ job[j].todo # <<>>
           /\ ~\E i \in DOMAIN iterations : Overlaps(Head(job[j].todo), iterations[i])
           /\ Goto(j, [job[j] EXCEPT !.at = "number"])
  <2>1. job'[j] = [job[j] EXCEPT !.at = "number"]
    BY <1>6, JobMoves
  <2>2. /\ job'[j].at = "number" /\ job'[j].todo = job[j].todo
        /\ j \in Patches => job'[j].anchor = job[j].anchor
    BY <1>1, <2>1, CreatingFields
  <2>3. Adjoining(job[j].todo) /\ Continues(Head(job[j].todo))
    BY <1>1, <1>6 DEF CalendarInv, CreatingOK
  <2>4. CreatingOK(job[j])'
    BY <1>1, <2>2, <2>3 DEF CreatingOK, Adjoining, Continues
  <2>5. DeletingFutureOK(job[j])'
    BY <2>2 DEF DeletingFutureOK
  <2>6. ASSUME j \in Patches PROVE RebuildOK(job[j])'
    <3>1. \A s \in Stories : job[j].anchor[s] # Null =>
            Covered(job[j].anchor[s]) \/ InList(job[j].todo, job[j].anchor[s])
      BY <1>1, <2>6 DEF CalendarInv, RebuildOK
    <3>. QED
      BY <1>1, <2>2, <2>6, <3>1 DEF RebuildOK, Covered, InList
  <2>. QED
    BY <1>2, <1>3, <1>6, <2>4, <2>5, <2>6, WorkMoves
<1>. QED
  BY <1>4, <1>5, <1>6 DEF CheckOverlap

LEMMA ReadMaxNumberInOrder ==
  ASSUME ~Overlap, CalendarTypeOK, CalendarInv, NEW j \in Jobs, ReadMaxNumber(j)
  PROVE  CalendarInv'
<1>. DEFINE q == [job[j] EXCEPT !.at = "insert", !.number = NextNumber]
<1>1. job[j].at = "number" /\ iterations' = iterations /\ Goto(j, q)
  BY DEF ReadMaxNumber
<1>2. ~Rests(job[j])
  BY <1>1 DEF Rests
<1>3. RowsInOrder'
  BY <1>1 DEF CalendarInv, RowsInOrder
<1>4. /\ q.at = "insert" /\ q.todo = job[j].todo /\ q.number = NextNumber
      /\ j \in Patches => q.anchor = job[j].anchor
  BY <1>1, CreatingFields
<1>. HIDE DEF q
<1>5. job'[j] = q
  BY <1>1, JobMoves
<1>6. NextNumber' = NextNumber
  BY <1>1 DEF NextNumber
<1>7. Adjoining(job[j].todo) /\ Continues(Head(job[j].todo))
  BY <1>1 DEF CalendarInv, CreatingOK
<1>8. CreatingOK(job[j])'
  BY <1>1, <1>4, <1>5, <1>6, <1>7 DEF CreatingOK, Adjoining, Continues
<1>9. DeletingFutureOK(job[j])'
  BY <1>4, <1>5 DEF DeletingFutureOK
<1>10. ASSUME j \in Patches PROVE RebuildOK(job[j])'
  <2>1. \A s \in Stories : job[j].anchor[s] # Null =>
          Covered(job[j].anchor[s]) \/ InList(job[j].todo, job[j].anchor[s])
    BY <1>1, <1>10 DEF CalendarInv, RebuildOK
  <2>. QED
    BY <1>1, <1>4, <1>5, <1>10, <2>1 DEF RebuildOK, Covered, InList
<1>. QED
  BY <1>1, <1>2, <1>3, <1>8, <1>9, <1>10, WorkMoves

\* A window after the first of a list is in its tail.
LEMMA TailsCover ==
  ASSUME NEW list \in Seq(Window), list # <<>>, Adjoining(list)
  PROVE  /\ Adjoining(Tail(list))
         /\ Tail(list) # <<>> => Head(Tail(list)).start = Head(list).end
         /\ Head(list).start < Head(list).end
         /\ \A date : InList(list, date) => Contains(Head(list), date) \/ InList(Tail(list), date)
<1>1. /\ Len(list) \in Nat /\ Len(list) > 0 /\ Len(Tail(list)) = Len(list) - 1
      /\ Head(list) = list[1] /\ Tail(list) \in Seq(Window)
      /\ \A n \in 1..(Len(list) - 1) : Tail(list)[n] = list[n + 1]
  BY TailsAreLists
<1>2. /\ \A n \in 1..Len(list) : list[n].start < list[n].end
      /\ \A n \in 1..(Len(list) - 1) : list[n + 1].start = list[n].end
  BY DEF Adjoining
<1>. DEFINE tail == Tail(list)
<1>3. Len(tail) = Len(list) - 1 /\ \A n \in 1..Len(tail) : tail[n] = list[n + 1]
  BY <1>1
<1>4. Tail(list) # <<>> => Len(tail) > 0 /\ Head(tail) = tail[1]
  BY <1>1, TailsAreLists
<1>. HIDE DEF tail
<1>5. Adjoining(tail)
  <2>1. ASSUME NEW n \in 1..Len(tail) PROVE tail[n].start < tail[n].end
    <3>1. n + 1 \in 1..Len(list)
      BY <1>1, <1>3
    <3>. QED
      BY <1>2, <1>3, <3>1
  <2>2. ASSUME NEW n \in 1..(Len(tail) - 1) PROVE tail[n + 1].start = tail[n].end
    <3>1. n \in 1..Len(tail) /\ n + 1 \in 1..Len(tail) /\ n + 1 \in 1..(Len(list) - 1)
      BY <1>1, <1>3
    <3>. QED
      BY <1>2, <1>3, <3>1
  <2>. QED
    BY <2>1, <2>2 DEF Adjoining
<1>6. tail # <<>> => Head(tail).start = Head(list).end
  <2>1. ASSUME tail # <<>> PROVE Head(tail).start = Head(list).end
    <3>1. Len(tail) > 0 /\ Head(tail) = tail[1]
      BY <1>4, <2>1 DEF tail
    <3>2. 1 \in 1..Len(tail) /\ 1 \in 1..(Len(list) - 1)
      BY <1>1, <1>3, <3>1
    <3>3. tail[1] = list[1 + 1] /\ list[1 + 1].start = list[1].end
      BY <1>2, <1>3, <3>2
    <3>. QED
      BY <1>1, <3>1, <3>3
  <2>. QED
    BY <2>1
<1>7. Head(list).start < Head(list).end
  BY <1>1, <1>2
<1>8. ASSUME NEW date, InList(list, date), ~Contains(Head(list), date)
      PROVE  InList(tail, date)
  <2>1. PICK n \in 1..Len(list) : Contains(list[n], date)
    BY <1>8 DEF InList
  <2>2. n # 1
    BY <1>1, <1>8, <2>1
  <2>. DEFINE m == n - 1
  <2>3. m \in 1..Len(tail) /\ n = m + 1
    BY <1>1, <1>3, <2>2
  <2>. HIDE DEF m
  <2>4. tail[m] = list[n]
    BY <1>3, <2>3
  <2>. QED
    BY <2>1, <2>3, <2>4 DEF InList
<1>. QED
  BY <1>5, <1>6, <1>7, <1>8 DEF tail

\* A row with the next number that starts where the last one ends.
LEMMA NextRowInOrder ==
  ASSUME RowsOK, RowsInOrder, NEW window \in Window, window.start < window.end,
         Continues(window), NEW id, id \notin DOMAIN iterations, NEW row,
         row = [number |-> NextNumber, start |-> window.start, end |-> window.end],
         DOMAIN iterations' = DOMAIN iterations \cup {id}, iterations'[id] = row,
         \A i \in DOMAIN iterations : iterations'[i] = iterations[i]
  PROVE  /\ RowsInOrder'
         /\ \A i \in DOMAIN iterations' :
              (\A k \in DOMAIN iterations' : iterations'[k].number <= iterations'[i].number)
                => i = id
<1>1. /\ NextNumber \in Nat \ {0}
      /\ \A i \in DOMAIN iterations : iterations[i].number < NextNumber
      /\ NextNumber = 1 \/ \E i \in DOMAIN iterations : iterations[i].number = NextNumber - 1
  BY HighestNumber
<1>. DEFINE last == NextNumber
<1>2. row.number = last /\ row.start = window.start /\ row.end = window.end
      /\ row.start \in Int /\ row.end \in Int
  BY DEF Window
<1>. HIDE DEF last
<1>3. /\ last \in Nat \ {0} /\ \A i \in DOMAIN iterations : iterations[i].number < last
      /\ last = 1 \/ \E i \in DOMAIN iterations : iterations[i].number = last - 1
  BY <1>1 DEF last
<1>4. \A i \in DOMAIN iterations :
        /\ iterations[i].number \in Nat \ {0}
        /\ iterations[i].start \in Int /\ iterations[i].end \in Int
        /\ iterations[i].start < iterations[i].end
  BY DEF RowsOK, RowsInOrder
<1>5. ASSUME NEW i \in DOMAIN iterations
      PROVE  /\ iterations[i].end <= row.start
             /\ last = iterations[i].number + 1 => row.start = iterations[i].end
  <2>1. PICK k \in DOMAIN iterations : iterations[k].number = last - 1
    <3>1. last # 1
      BY <1>3, <1>4
    <3>. QED
      BY <1>3, <3>1
  <2>2. \A l \in DOMAIN iterations : iterations[l].number <= iterations[k].number
    BY <1>3, <1>4, <2>1
  <2>3. row.start = iterations[k].end
    BY <1>2, <2>2 DEF Continues
  <2>4. iterations[i].end <= iterations[k].end
    <3>1. CASE iterations[i].number = iterations[k].number
      BY <1>4, <3>1 DEF RowsInOrder
    <3>2. CASE iterations[i].number < iterations[k].number
      <4>1. iterations[i].end <= iterations[k].start
        BY <3>2 DEF RowsInOrder
      <4>. QED
        BY <1>4, <4>1
    <3>. QED
      BY <1>4, <2>2, <3>1, <3>2
  <2>5. last = iterations[i].number + 1 => i = k
    <3>1. last = iterations[i].number + 1 => iterations[i].number = iterations[k].number
      BY <1>3, <1>4, <2>1
    <3>. QED
      BY <3>1 DEF RowsInOrder
  <2>. QED
    BY <2>3, <2>4, <2>5
<1>6. {iterations'[i].number : i \in DOMAIN iterations'} = 1..last
  <2>1. PICK n \in Nat : {iterations[i].number : i \in DOMAIN iterations} = 1..n
    BY DEF RowsInOrder
  <2>2. last = n + 1
    <3>1. CASE n = 0
      <4>1. \A i \in DOMAIN iterations : iterations[i].number \in 1..n
        BY <2>1
      <4>2. \A i \in DOMAIN iterations : FALSE
        BY <1>4, <3>1, <4>1
      <4>. QED
        BY <1>3, <3>1, <4>2
    <3>2. CASE n # 0
      <4>1. n \in 1..n
        BY <2>1, <3>2
      <4>2. PICK k \in DOMAIN iterations : iterations[k].number = n
        BY <2>1, <4>1
      <4>3. n < last /\ last # 1
        BY <1>3, <2>1, <3>2, <4>2
      <4>4. last - 1 \in 1..n
        BY <1>3, <2>1, <4>3
      <4>. QED
        BY <1>3, <2>1, <4>3, <4>4
    <3>. QED
      BY <3>1, <3>2
  <2>3. {iterations'[i].number : i \in DOMAIN iterations'}
          = {iterations[i].number : i \in DOMAIN iterations} \cup {last}
    BY <1>2
  <2>4. 1..last = (1..n) \cup {last}
    BY <1>3, <2>1, <2>2
  <2>. QED
    BY <2>1, <2>3, <2>4
<1>7. \A i \in DOMAIN iterations' : iterations'[i].start < iterations'[i].end
  BY <1>2, <1>4
<1>8. ASSUME NEW i \in DOMAIN iterations', NEW k \in DOMAIN iterations'
      PROVE  /\ iterations'[i].number = iterations'[k].number => i = k
             /\ iterations'[i].number < iterations'[k].number =>
                  iterations'[i].end <= iterations'[k].start
             /\ iterations'[k].number = iterations'[i].number + 1 =>
                  iterations'[k].start = iterations'[i].end
  <2>1. CASE i \in DOMAIN iterations /\ k \in DOMAIN iterations
    BY <2>1 DEF RowsInOrder
  <2>2. CASE i \in DOMAIN iterations /\ k = id
    BY <1>2, <1>3, <1>4, <1>5, <2>2
  <2>3. CASE i = id /\ k \in DOMAIN iterations
    <3>1. iterations'[i].number = last /\ iterations'[k].number = iterations[k].number
      BY <1>2, <2>3
    <3>. QED
      BY <1>3, <1>4, <2>3, <3>1
  <2>4. CASE i = id /\ k = id
    BY <1>2, <1>3, <2>4
  <2>. QED
    BY <2>1, <2>2, <2>3, <2>4
<1>9. RowsInOrder'
  BY <1>3, <1>6, <1>7, <1>8 DEF RowsInOrder
<1>10. ASSUME NEW i \in DOMAIN iterations',
              \A k \in DOMAIN iterations' : iterations'[k].number <= iterations'[i].number
       PROVE  i = id
  <2>1. last <= iterations'[i].number
    BY <1>2, <1>10
  <2>. QED
    BY <1>3, <1>4, <2>1
<1>. QED
  BY <1>9, <1>10

LEMMA InsertIterationInOrder ==
  ASSUME ~Overlap, CalendarTypeOK, CalendarInv, NEW j \in Jobs, InsertIteration(j)
  PROVE  CalendarInv'
<1>. DEFINE list == job[j].todo
            q == [job[j] EXCEPT !.at = "create", !.number = 0, !.todo = Tail(@)]
            row == [number |-> job[j].number, start |-> Head(list).start, end |-> Head(list).end]
<1>1. /\ job[j].at = "insert" /\ UNCHANGED <<story, touched>>
      /\ (Goto(j, NoJob) /\ UNCHANGED iterations) \/ Inserts(j)
  BY InsertCases
<1>2. ~Rests(job[j])
  BY <1>1 DEF Rests
<1>3. CASE Goto(j, NoJob) /\ UNCHANGED iterations
  BY <1>1, <1>2, <1>3, FreeMove DEF NoJob
<1>4. CASE Inserts(j)
  <2>1. list \in Seq(Window) /\ list # <<>> /\ Head(list) \in Window
    BY <1>1, CreateData, TailsAreLists
  <2>2. Adjoining(list) /\ Continues(Head(list)) /\ job[j].number = NextNumber
    BY <1>1 DEF CalendarInv, CreatingOK
  <2>3. /\ Adjoining(Tail(list))
        /\ Tail(list) # <<>> => Head(Tail(list)).start = Head(list).end
        /\ Head(list).start < Head(list).end
        /\ \A date : InList(list, date) =>
             Contains(Head(list), date) \/ InList(Tail(list), date)
    BY <2>1, <2>2, TailsCover
  <2>4. FreshId \in Id /\ FreshId \notin DOMAIN iterations
    BY FreshIdIsFresh
  <2>5. q.at = "create" /\ q.todo = Tail(list) /\ (j \in Patches => q.anchor = job[j].anchor)
    BY <1>1, CreatingFields
  <2>6. job'[j] = q
    BY <1>4, JobMoves DEF Inserts
  <2>. HIDE DEF q
  <2>7. iterations' = [i \in DOMAIN iterations \cup {FreshId} |->
                         IF i \in DOMAIN iterations THEN iterations[i] ELSE row]
    BY <1>4 DEF Inserts
  <2>8. row = [number |-> NextNumber, start |-> Head(list).start, end |-> Head(list).end]
    BY <2>2
  <2>. DEFINE id == FreshId
              head == Head(list)
              tail == Tail(list)
  <2>9. row.start = head.start /\ row.end = head.end
    OBVIOUS
  <2>. HIDE DEF list, row, id, head, tail
  <2>10. /\ DOMAIN iterations' = DOMAIN iterations \cup {id} /\ iterations'[id] = row
         /\ \A i \in DOMAIN iterations : iterations'[i] = iterations[i]
    BY <2>4, <2>7 DEF id
  <2>11. /\ RowsInOrder'
         /\ \A i \in DOMAIN iterations' :
              (\A k \in DOMAIN iterations' : iterations'[k].number <= iterations'[i].number)
                => i = id
    BY <2>1, <2>2, <2>3, <2>4, <2>8, <2>10, NextRowInOrder DEF CalendarTypeOK, CalendarInv, id
  <2>12. tail # <<>> =>
           \A i \in DOMAIN iterations' :
             (\A k \in DOMAIN iterations' : iterations'[k].number <= iterations'[i].number)
               => Head(tail).start = iterations'[i].end
    <3>1. tail # <<>> => Head(tail).start = iterations'[id].end
      BY <2>3, <2>9, <2>10 DEF tail, head
    <3>. QED
      BY <2>11, <3>1
  <2>13. CreatingOK(job[j])'
    <3>1. job'[j].at = "create" /\ job'[j].todo = tail /\ Adjoining(tail)
      BY <2>3, <2>5, <2>6 DEF tail
    <3>. QED
      BY <2>12, <3>1 DEF CreatingOK, Adjoining, Continues
  <2>14. DeletingFutureOK(job[j])'
    BY <2>5, <2>6 DEF DeletingFutureOK
  <2>15. ASSUME j \in Patches PROVE RebuildOK(job[j])'
    <3>1. /\ job'[j].at = "create" /\ job'[j].todo = tail
          /\ job'[j].anchor = job[j].anchor
      BY <2>5, <2>6, <2>15 DEF tail
    <3>2. ASSUME NEW s \in Stories, job[j].anchor[s] # Null
          PROVE  \/ \E i \in DOMAIN iterations' : Contains(iterations'[i], job[j].anchor[s])
                 \/ InList(tail, job[j].anchor[s])
      <4>1. Covered(job[j].anchor[s]) \/ InList(list, job[j].anchor[s])
        BY <1>1, <2>15, <3>2 DEF CalendarInv, RebuildOK, list
      <4>2. CASE Covered(job[j].anchor[s])
        BY <2>10, <4>2 DEF Covered
      <4>3. CASE Contains(head, job[j].anchor[s])
        <5>1. Contains(iterations'[id], job[j].anchor[s])
          BY <2>9, <2>10, <4>3 DEF Contains
        <5>. QED
          BY <2>10, <5>1
      <4>4. CASE InList(tail, job[j].anchor[s])
        BY <4>4
      <4>. QED
        BY <2>3, <4>1, <4>2, <4>3, <4>4 DEF head, tail
    <3>. QED
      BY <3>1, <3>2 DEF RebuildOK, Covered, InList
  <2>. QED
    BY <1>2, <1>4, <2>11, <2>13, <2>14, <2>15, WorkMoves DEF Inserts
<1>. QED
  BY <1>1, <1>3, <1>4

-----------------------------------------------------------------------------
(***************************************************************************)
(* A rebuild keeps the order, and finds every story its place.             *)
(***************************************************************************)

LEMMA LoadProjectInOrder ==
  ASSUME CalendarTypeOK, CalendarInv, NEW r \in Patches, NEW change, LoadProject(r, change)
  PROVE  CalendarInv'
<1>1. /\ Goto(r, [at |-> "settings", before |-> settings, change |-> change])
      /\ UNCHANGED <<iterations, story, touched>>
  BY DEF LoadProject
<1>. QED
  BY <1>1, RestKeepsOrder DEF Jobs, Rests

LEMMA UpdateSettingsInOrder ==
  ASSUME ~Overlap, CalendarTypeOK, CalendarInv, NEW r \in Patches, UpdateSettings(r)
  PROVE  CalendarInv'
<1>1. UNCHANGED <<iterations, story, touched>>
  BY UpdateSettingsCases
<1>2. CASE /\ MayStart(r)
           /\ Goto(r, [at |-> "read", today |-> utc, settings |-> settings'])
  <2>1. PICK q : Goto(r, q) /\ q.at = "read"
    BY <1>2
  <2>. QED
    BY <1>1, <1>2, <2>1, FreeMove DEF Jobs
<1>3. CASE Goto(r, [at |-> "ok", anchor |-> Nothing])
  <2>1. Rests([at |-> "ok", anchor |-> Nothing])
    BY DEF Rests, Nothing
  <2>. QED
    BY <1>1, <1>3, <2>1, RestKeepsOrder DEF Jobs
<1>. QED
  BY <1>2, <1>3, UpdateSettingsCases

LEMMA ListsIterationsInOrder ==
  ASSUME ~Overlap, CalendarTypeOK, CalendarInv, NEW r \in Patches, RebuildListsIterations(r)
  PROVE  CalendarInv'
<1>1. job[r].at = "read" /\ UNCHANGED iterations
      /\ Goto(r, [at |-> "stories", today |-> job[r].today, settings |-> job[r].settings,
                  old |-> [i \in DOMAIN iterations |-> iterations[i].start]])
  BY DEF RebuildListsIterations
<1>2. ~Rests(job[r])
  BY <1>1 DEF Rests
<1>. QED
  BY <1>1, <1>2, FreeMove DEF Jobs

LEMMA ListsStoriesInOrder ==
  ASSUME ~Overlap, CalendarTypeOK, CalendarInv, NEW r \in Patches, RebuildListsStories(r)
  PROVE  CalendarInv'
<1>. DEFINE anchor == [s \in Stories |-> Anchor(story[s], job[r].old)]
            list == RangesForRebuild(job[r].settings, job[r].today, Wanted(r))
            q == [at |-> "delete", number |-> 0, anchor |-> anchor, todo |-> list]
<1>1. job[r].at = "stories" /\ Goto(r, q) /\ iterations' = iterations
  BY DEF RebuildListsStories, Wanted
<1>2. ~Rests(job[r])
  BY <1>1 DEF Rests
<1>3. RowsInOrder'
  BY <1>1 DEF CalendarInv, RowsInOrder
<1>4. \A s \in Stories : anchor[s] # Null => anchor[s] \in Wanted(r)
  BY <1>1, WantedDates
<1>5. Adjoining(list) /\ \A a \in Wanted(r) : InList(list, a)
  BY <1>1, WantedDates, RangesCover
<1>. HIDE DEF anchor, list
<1>6. job'[r].at = "delete" /\ job'[r].anchor = anchor /\ job'[r].todo = list
  BY <1>1, JobMoves DEF Jobs
<1>7. CreatingOK(job[r])'
  BY <1>5, <1>6 DEF CreatingOK, Adjoining
<1>8. RebuildOK(job[r])'
  BY <1>4, <1>5, <1>6 DEF RebuildOK, InList
<1>. QED
  BY <1>1, <1>2, <1>3, <1>7, <1>8, WorkMoves, CalendarAssumption DEF Jobs

LEMMA DeleteAllInOrder ==
  ASSUME ~Overlap, CalendarTypeOK, CalendarInv, NEW r \in Patches, DeleteAll(r)
  PROVE  CalendarInv'
<1>1. /\ job[r].at = "delete" /\ DOMAIN iterations' = {}
      /\ Goto(r, [job[r] EXCEPT !.at = "create"])
  BY DEF DeleteAll
<1>2. ~Rests(job[r])
  BY <1>1 DEF Rests
<1>3. RowsInOrder'
  <2>1. {iterations'[i].number : i \in DOMAIN iterations'} = 1..0
    BY <1>1
  <2>. QED
    BY <1>1, <2>1 DEF RowsInOrder
<1>4. /\ job'[r].at = "create" /\ job'[r].todo = job[r].todo
      /\ job'[r].anchor = job[r].anchor
  <2>1. job[r] \in PatchCreating
    BY <1>1, PatchIsCreating
  <2>2. job'[r] = [job[r] EXCEPT !.at = "create"]
    BY <1>1, JobMoves DEF Jobs
  <2>. QED
    BY <2>1, <2>2 DEF PatchCreating
<1>5. Adjoining(job[r].todo)
  BY <1>1 DEF CalendarInv, CreatingOK, Jobs
<1>6. CreatingOK(job[r])'
  BY <1>1, <1>4, <1>5 DEF CreatingOK, Adjoining, Continues
<1>7. \A s \in Stories : job[r].anchor[s] # Null => InList(job[r].todo, job[r].anchor[s])
  BY <1>1 DEF CalendarInv, RebuildOK
<1>8. RebuildOK(job[r])'
  BY <1>4, <1>7 DEF RebuildOK, InList
<1>. QED
  BY <1>1, <1>2, <1>3, <1>6, <1>8, WorkMoves, CalendarAssumption DEF Jobs

LEMMA ResolvesInOrder ==
  ASSUME ~Overlap, CalendarTypeOK, CalendarInv, NEW r \in Patches, RebuildResolves(r)
  PROVE  CalendarInv'
<1>. DEFINE anchor == job[r].anchor
            target == [s \in Stories |-> IF job[r].anchor[s] = Null THEN Null
                                         ELSE ResolveIterationForDate(job[r].anchor[s])]
            q == [at |-> "assign", anchor |-> anchor, todo |-> Stories, target |-> target]
<1>1. job[r].at = "list" /\ Goto(r, q) /\ iterations' = iterations
  BY DEF RebuildResolves
<1>2. ~Rests(job[r])
  BY <1>1 DEF Rests
<1>3. RowsInOrder'
  BY <1>1 DEF CalendarInv, RowsInOrder
<1>4. anchor \in Anchors
  BY <1>1, AtWork, PatchData
<1>5. ASSUME NEW s \in Stories, anchor[s] # Null
      PROVE  target[s] \in DOMAIN iterations /\ Contains(iterations[target[s]], anchor[s])
  <2>1. anchor[s] \in Int /\ Covered(anchor[s])
    BY <1>1, <1>4, <1>5 DEF CalendarInv, RebuildOK, Anchors
  <2>2. target[s] = ResolveIterationForDate(anchor[s])
    BY <1>5
  <2>. HIDE DEF anchor, target
  <2>. QED
    BY <2>1, <2>2, DatesResolve DEF CalendarTypeOK
<1>. HIDE DEF anchor, target
<1>6. /\ job'[r].at = "assign" /\ job'[r].anchor = anchor /\ job'[r].todo = Stories
      /\ job'[r].target = target
  BY <1>1, JobMoves DEF Jobs
<1>7. CreatingOK(job[r])'
  BY <1>6 DEF CreatingOK
<1>8. RebuildOK(job[r])'
  BY <1>1, <1>5, <1>6 DEF RebuildOK, Contains
<1>. QED
  BY <1>1, <1>2, <1>3, <1>7, <1>8, WorkMoves, CalendarAssumption DEF Jobs

LEMMA AssignForRebuildInOrder ==
  ASSUME ~Overlap, CalendarTypeOK, CalendarInv, NEW r \in Patches, NEW s \in Stories,
         AssignStoryForRebuild(r, s)
  PROVE  CalendarInv'
<1>. DEFINE target == job[r].target[s]
            q == [job[r] EXCEPT !.todo = @ \ {s}]
<1>1. /\ job[r].at = "assign" /\ iterations' = iterations /\ touched' = touched
      /\ \/ Goto(r, NoJob) /\ UNCHANGED story
         \/ /\ target \in DOMAIN iterations \cup {Null} /\ Goto(r, q)
            /\ story' = IF target = Null THEN story ELSE [story EXCEPT ![s].iteration = target]
  BY DEF AssignStoryForRebuild
<1>2. ~Rests(job[r])
  BY <1>1 DEF Rests
<1>3. RowsInOrder'
  BY <1>1 DEF CalendarInv, RowsInOrder
<1>4. CASE Goto(r, NoJob) /\ UNCHANGED story
  BY <1>1, <1>2, <1>4, FreeMove DEF Jobs, NoJob
<1>5. CASE /\ Goto(r, q)
           /\ story' = IF target = Null THEN story ELSE [story EXCEPT ![s].iteration = target]
  <2>1. /\ job[r] = [at |-> "assign", anchor |-> job[r].anchor, todo |-> job[r].todo,
                     target |-> job[r].target]
        /\ job[r].todo \subseteq Stories
    BY <1>1, AtWork, PatchData
  <2>2. /\ q.at = "assign" /\ q.anchor = job[r].anchor /\ q.todo = job[r].todo \ {s}
        /\ q.target = job[r].target
    BY <2>1
  <2>3. job'[r] = q
    BY <1>5, JobMoves DEF Jobs
  <2>. HIDE DEF q
  <2>4. CreatingOK(job[r])'
    BY <2>2, <2>3 DEF CreatingOK
  <2>5. ASSUME NEW u \in Stories, job[r].anchor[u] # Null
        PROVE  /\ job[r].target[u] \in DOMAIN iterations
               /\ Contains(iterations[job[r].target[u]], job[r].anchor[u])
               /\ u \notin (job[r].todo \ {s}) \cup touched =>
                    story'[u].iteration = job[r].target[u]
    <3>1. /\ job[r].target[u] \in DOMAIN iterations
          /\ Contains(iterations[job[r].target[u]], job[r].anchor[u])
          /\ u \notin job[r].todo \cup touched => story[u].iteration = job[r].target[u]
      BY <1>1, <2>5 DEF CalendarInv, RebuildOK
    <3>2. story \in [Stories -> Row]
      BY DEF CalendarTypeOK, RowsOK
    <3>3. CASE u = s
      <4>1. target # Null
        BY <3>1, <3>3, CalendarAssumption DEF CalendarTypeOK, RowsOK, Id
      <4>2. story'[s].iteration = target
        BY <1>5, <3>2, <4>1 DEF Row
      <4>. QED
        BY <3>1, <3>3, <4>2
    <3>4. CASE u # s
      <4>1. story'[u] = story[u]
        BY <1>5, <3>2, <3>4
      <4>. QED
        BY <3>1, <3>4, <4>1
    <3>. QED
      BY <3>3, <3>4
  <2>6. RebuildOK(job[r])'
    BY <1>1, <2>2, <2>3, <2>5 DEF RebuildOK, Contains
  <2>. QED
    BY <1>2, <1>3, <1>5, <2>4, <2>6, WorkMoves, CalendarAssumption DEF Jobs, q
<1>. QED
  BY <1>1, <1>4, <1>5

LEMMA RebuiltInOrder ==
  ASSUME ~Overlap, CalendarTypeOK, CalendarInv, NEW r \in Patches, Rebuilt(r)
  PROVE  CalendarInv'
<1>. DEFINE q == [at |-> "ok", anchor |-> job[r].anchor]
<1>1. /\ job[r].at = "assign" /\ job[r].todo = {} /\ Goto(r, q)
      /\ iterations' = iterations /\ story' = story /\ touched' = touched
  BY DEF Rebuilt
<1>2. ~Rests(job[r])
  BY <1>1 DEF Rests
<1>3. RowsInOrder'
  BY <1>1 DEF CalendarInv, RowsInOrder
<1>4. job'[r].at = "ok" /\ job'[r].anchor = job[r].anchor
  BY <1>1, JobMoves DEF Jobs
<1>5. CreatingOK(job[r])'
  BY <1>4 DEF CreatingOK
<1>6. \A s \in Stories : job[r].anchor[s] # Null /\ s \notin touched =>
        Placed(story[s], job[r].anchor[s])
  <2>1. ASSUME NEW s \in Stories, job[r].anchor[s] # Null, s \notin touched
        PROVE  Placed(story[s], job[r].anchor[s])
    <3>1. /\ job[r].target[s] \in DOMAIN iterations
          /\ Contains(iterations[job[r].target[s]], job[r].anchor[s])
          /\ story[s].iteration = job[r].target[s]
      BY <1>1, <2>1 DEF CalendarInv, RebuildOK
    <3>. QED
      BY <3>1, CalendarAssumption DEF Placed, CalendarTypeOK, RowsOK, Id
  <2>. QED
    BY <2>1
<1>7. RebuildOK(job[r])'
  BY <1>1, <1>4, <1>6 DEF RebuildOK, Placed, Contains
<1>. QED
  BY <1>1, <1>2, <1>3, <1>5, <1>7, WorkMoves, CalendarAssumption DEF Jobs

LEMMA ClientInOrder ==
  ASSUME CalendarTypeOK, CalendarInv, Client
  PROVE  CalendarInv'
<1>1. story \in [Stories -> Row]
  BY DEF CalendarTypeOK, RowsOK
<1>2. ASSUME NEW s \in Stories, NEW row, story' = [story EXCEPT ![s] = row],
             touched' = touched \cup {s}, UNCHANGED <<iterations, job>>
      PROVE  CalendarInv'
  <2>1. \A u \in Stories : u \notin touched' =>
          u \notin touched /\ story'[u].iteration = story[u].iteration
    BY <1>1, <1>2
  <2>. QED
    BY <1>2, <2>1, OutsideKeepsOrder
<1>3. ASSUME NEW s \in Stories, NEW status \in Status, ChangeStatus(s, status)
      PROVE  CalendarInv'
  BY <1>2, <1>3, ChangeStatusCases
<1>4. ASSUME NEW s \in Stories, NEW i \in DOMAIN iterations \cup {Null}, AssignStory(s, i)
      PROVE  CalendarInv'
  BY <1>2, <1>4 DEF AssignStory
<1>. QED
  BY <1>3, <1>4 DEF Client

LEMMA InitInOrder == IterationsInit => CalendarInv
<1>. SUFFICES ASSUME IterationsInit PROVE CalendarInv
  OBVIOUS
<1>1. DOMAIN iterations = {} /\ \A j \in Jobs : job[j] = NoJob
  BY DEF IterationsInit
<1>2. RowsInOrder
  <2>1. {iterations[i].number : i \in DOMAIN iterations} = 1..0
    BY <1>1
  <2>. QED
    BY <1>1, <2>1 DEF RowsInOrder
<1>3. \A j \in Jobs :
        Rests(job[j]) /\ CreatingOK(job[j]) /\ DeletingFutureOK(job[j]) /\ RebuildOK(job[j])
  <2>1. ASSUME NEW j \in Jobs
        PROVE  /\ Rests(job[j]) /\ CreatingOK(job[j])
               /\ DeletingFutureOK(job[j]) /\ RebuildOK(job[j])
    <3>1. job[j].at = "idle"
      BY <1>1 DEF NoJob
    <3>2. Rests(job[j])
      BY <3>1 DEF Rests
    <3>3. CreatingOK(job[j]) /\ DeletingFutureOK(job[j])
      BY <3>1 DEF CreatingOK, DeletingFutureOK
    <3>4. RebuildOK(job[j])
      BY <3>1 DEF RebuildOK
    <3>. QED
      BY <3>2, <3>3, <3>4
  <2>. QED
    BY <2>1
<1>. QED
  BY <1>2, <1>3 DEF CalendarInv, OneAtATime, Jobs

-----------------------------------------------------------------------------
(***************************************************************************)
(* The theorems.                                                           *)
(***************************************************************************)

\* Every step keeps the types.
LEMMA CalendarStepTyped ==
  ASSUME CalendarTypeOK, [IterationsNext]_iterationsVars
  PROVE  CalendarTypeOK'
<1>1. CASE CronStep
  BY <1>1, StartCronTyped, FindLatestTyped, UnassignFutureTyped, DeleteFutureTyped,
     ListIterationsTyped, ReassignStoriesTyped DEF CronStep
<1>2. ASSUME NEW r \in Patches, PatchStep(r) PROVE CalendarTypeOK'
  BY <1>2, LoadProjectTyped, UpdateSettingsTyped, ListsIterationsTyped, ListsStoriesTyped,
     DeleteAllTyped, ResolvesTyped, AssignForRebuildTyped, RebuiltTyped DEF PatchStep
<1>3. ASSUME NEW j \in Jobs, Create(j) \/ EndJob(j) PROVE CalendarTypeOK'
  BY <1>3, CheckOverlapTyped, ReadMaxNumberTyped, InsertIterationTyped, EndJobTyped DEF Create
<1>4. CASE Client
  BY <1>4, ChangeStatusTyped, AssignStoryTyped DEF Client
<1>5. CASE UNCHANGED iterationsVars
  BY <1>5 DEF iterationsVars, CalendarTypeOK, RowsOK, DataOK
<1>. QED
  BY <1>1, <1>2, <1>3, <1>4, <1>5, NextDayTyped, NextUtcDayTyped DEF IterationsNext

\* Every step keeps the order of the iterations when jobs do not overlap.
LEMMA CalendarStepInOrder ==
  ASSUME ~Overlap, CalendarTypeOK, CalendarInv, [IterationsNext]_iterationsVars
  PROVE  CalendarInv'
<1>1. CASE CronStep
  BY <1>1, StartCronInOrder, FindLatestInOrder, UnassignFutureInOrder, DeleteFutureInOrder,
     ListIterationsInOrder, ReassignInOrder DEF CronStep
<1>2. ASSUME NEW r \in Patches, PatchStep(r) PROVE CalendarInv'
  BY <1>2, LoadProjectInOrder, UpdateSettingsInOrder, ListsIterationsInOrder,
     ListsStoriesInOrder, DeleteAllInOrder, ResolvesInOrder, AssignForRebuildInOrder,
     RebuiltInOrder DEF PatchStep
<1>3. ASSUME NEW j \in Jobs, Create(j) PROVE CalendarInv'
  BY <1>3, CheckOverlapInOrder, ReadMaxNumberInOrder, InsertIterationInOrder DEF Create
<1>4. ASSUME NEW j \in Jobs, EndJob(j) PROVE CalendarInv'
  BY <1>4, RestKeepsOrder DEF EndJob, Rests, NoJob
<1>5. CASE Client
  BY <1>5, ClientInOrder
<1>6. CASE NextDay \/ NextUtcDay \/ UNCHANGED iterationsVars
  <2>1. UNCHANGED <<iterations, story, job, touched>>
    BY <1>6 DEF NextDay, NextUtcDay, iterationsVars
  <2>. QED
    BY <2>1, OutsideKeepsOrder
<1>. QED
  BY <1>1, <1>2, <1>3, <1>4, <1>5, <1>6 DEF IterationsNext

\* The inductive invariant: the types of the rows and of the jobs, the days of
\* completion, and, when jobs do not overlap, that one works at a time, that
\* the iterations are in the order of their numbers, and that what the job has
\* read and has still to write agrees with them.
THEOREM CalendarInvariance == IterationsSpec => []CalendarIInv
<1>1. IterationsInit => CalendarIInv
  BY InitTyped, InitInOrder DEF CalendarIInv
<1>2. CalendarIInv /\ [IterationsNext]_iterationsVars => CalendarIInv'
  <2>. SUFFICES ASSUME CalendarIInv, [IterationsNext]_iterationsVars PROVE CalendarIInv'
    OBVIOUS
  <2>1. CalendarTypeOK'
    BY CalendarStepTyped DEF CalendarIInv
  <2>2. ~Overlap => CalendarInv'
    BY CalendarStepInOrder DEF CalendarIInv
  <2>. QED
    BY <2>1, <2>2 DEF CalendarIInv
<1>. QED
  BY <1>1, <1>2, PTL DEF IterationsSpec

\* Rows keep their types, however cron runs and rebuilds overlap: an
\* iteration_id refers to an iteration there is, and each job is at one of its
\* calls.
THEOREM CalendarTyped == IterationsSpec => []IterationsTypeOK
<1>1. CalendarIInv => IterationsTypeOK
  BY TypesAreStronger DEF CalendarIInv
<1>. QED
  BY <1>1, CalendarInvariance, PTL

\* As many iterations as the highest number says.
LEMMA AsManyAsNumbered ==
  ASSUME RowsOK, RowsInOrder
  PROVE  {iterations[i].number : i \in DOMAIN iterations} = 1..Cardinality(DOMAIN iterations)
<1>1. PICK n \in Nat : {iterations[i].number : i \in DOMAIN iterations} = 1..n
  BY DEF RowsInOrder
<1>. DEFINE f == [i \in DOMAIN iterations |-> iterations[i].number]
<1>2. f \in Bijection(DOMAIN iterations, 1..n)
  <2>1. f \in [DOMAIN iterations -> 1..n]
    BY <1>1
  <2>2. \A i, k \in DOMAIN iterations : f[i] = f[k] => i = k
    BY DEF RowsInOrder
  <2>3. \A m \in 1..n : \E i \in DOMAIN iterations : f[i] = m
    BY <1>1
  <2>. HIDE DEF f
  <2>4. f \in Injection(DOMAIN iterations, 1..n)
    BY <2>1, <2>2 DEF Injection, IsInjective
  <2>5. f \in Surjection(DOMAIN iterations, 1..n)
    BY <2>1, <2>3 DEF Surjection
  <2>. QED
    BY <2>4, <2>5 DEF Bijection
<1>3. IsFiniteSet(DOMAIN iterations)
  BY DEF RowsOK
<1>. HIDE DEF f
<1>4. Cardinality(DOMAIN iterations) = Cardinality(1..n)
  BY <1>2, <1>3, FS_Bijection DEF ExistsBijection
<1>5. Cardinality(1..n) = n
  BY FS_Interval
<1>. QED
  BY <1>1, <1>4, <1>5

\* Unless jobs overlap, the iterations tile the calendar: their numbers are 1 to
\* n, and each starts on the day the one before it ends.
THEOREM IterationsTile == IterationsSpec => []WindowsTile
<1>1. CalendarIInv => WindowsTile
  BY AsManyAsNumbered DEF CalendarIInv, CalendarTypeOK, CalendarInv, RowsInOrder, WindowsTile
<1>. QED
  BY <1>1, CalendarInvariance, PTL

\* Unless jobs overlap, a rebuild that is answered with success has put every
\* story nobody changed meanwhile into the iteration of its day.
THEOREM RebuildsKeepPlaces == IterationsSpec => []RebuildKeepsPlaces
<1>1. CalendarIInv => RebuildKeepsPlaces
  BY DEF CalendarIInv, CalendarInv, RebuildOK, RebuildKeepsPlaces
<1>. QED
  BY <1>1, CalendarInvariance, PTL

==============================================================================
