------------------------------ MODULE Membership ------------------------------
(***************************************************************************)
(* Projects, their members and invitations, and the accounts behind them:  *)
(* POST and DELETE /projects, invitations and single-use links, role       *)
(* changes, onboarding and account deletion over D1ProjectRepository and   *)
(* D1UserRepository.  A request checks who is asking when it arrives and   *)
(* writes in later steps, one per statement or batch.  Every request but   *)
(* onboarding is refused without an account (requireAppEntitlement).       *)
(* An invitation by e-mail is one by user that outlives the account.       *)
(***************************************************************************)
EXTENDS Naturals, FiniteSets

CONSTANTS
  Users,        \* people Access lets in
  Projects,     \* ids of projects
  Invitations,  \* ids of invitations
  Requests,     \* requests in flight at once
  Templates,    \* kind and role of the invitations owners send
  RolesGiven,   \* roles owners change a member's to
  Limit,        \* maxOwnedProjects of each user
  None          \* no row, nobody

Roles == {"owner", "member", "viewer"}

Kinds == {"user", "email", "link"}

ASSUME MembershipAssumption ==
  /\ Limit \in [Users -> Nat]
  /\ Templates \subseteq [kind : Kinds, role : Roles]
  /\ RolesGiven \subseteq Roles
  /\ None \notin Users \cup Roles
  /\ None \notin [kind : Kinds, role : Roles, project : Projects, inviter : Users,
                  target : Users \cup {None}, status : {"pending", "accepted", "cancelled"},
                  expired : BOOLEAN, acceptedBy : Users \cup {None}]

VARIABLES
  account,     \* rows of users
  created,     \* ids of projects handed out so far
  projects,    \* rows of projects
  role,        \* rows of project_members
  sent,        \* ids of invitations handed out so far
  invitation,  \* rows of project_invitations
  request,     \* the requests in flight
  admitted,    \* history: who became a member through a link
  excused,     \* history: projects left by their last owner, or never given one
  promoted,    \* history: users made owner by somebody else's decision
  overlapped,  \* history: users who created two projects at once
  outlived     \* history: users deleted while they had other requests in flight

vars == <<account, created, projects, role, sent, invitation, request,
          admitted, excused, promoted, overlapped, outlived>>

history == <<admitted, excused, promoted, overlapped, outlived>>

Invitation ==
  [kind : Kinds, role : Roles, project : Projects, inviter : Users,
   target : Users \cup {None}, status : {"pending", "accepted", "cancelled"},
   expired : BOOLEAN, acceptedBy : Users \cup {None}]

Idle == [at |-> "idle"]

\* What a request does next.  `user` is who sent it; `owners` is a history of
\* the owners at the time of the check.
Request ==
  {Idle}
    \cup [at : {"insert project"}, user : Users]
    \cup [at : {"insert owner"}, user : Users, project : Projects]
    \cup [at : {"insert invitation"}, user : Users, row : Invitation]
    \cup [at : {"revoke"}, user : Users, invitation : Invitations]
    \cup [at : {"join"}, user : Users, invitation : Invitations, project : Projects, role : Roles]
    \cup [at : {"mark accepted"}, user : Users, invitation : Invitations]
    \cup [at : {"create profile"}, user : Users]
    \cup [at : {"accept link"}, user : Users, invitation : Invitations]
    \cup [at : {"update role"}, user : Users, project : Projects, target : Users, role : Roles]
    \cup [at : {"delete project"}, user : Users, project : Projects]
    \cup [at : {"delete account"}, user : Users, owners : [Projects -> SUBSET Users]]

Init ==
  /\ account = {}
  /\ created = {} /\ projects = {}
  /\ role = [p \in Projects |-> [u \in Users |-> None]]
  /\ sent = {}
  /\ invitation = [i \in Invitations |-> None]
  /\ request = [r \in Requests |-> Idle]
  /\ admitted = [i \in Invitations |-> {}]
  /\ excused = {} /\ promoted = {} /\ overlapped = {} /\ outlived = {}

-----------------------------------------------------------------------------

OwnersOf(p) == {u \in Users : role[p][u] = "owner"}

CountOwnedProjects(u) == Cardinality({p \in Projects : role[p][u] = "owner"})

Sends(r, u, q) ==
  /\ request[r] = Idle
  /\ u \in account
  /\ request' = [request EXCEPT ![r] = q]

Answer(r) == request' = [request EXCEPT ![r] = Idle]

\* A row of project_members needs its project.
GiveRole(p, u, given) ==
  /\ p \in projects
  /\ role' = [role EXCEPT ![p][u] = given]

\* history: u stops being p's last owner.
Excuse(p, u, given) ==
  excused' = excused \cup (IF OwnersOf(p) = {u} /\ given # "owner" THEN {p} ELSE {})

Promote(u, given) == promoted' = promoted \cup (IF given = "owner" THEN {u} ELSE {})

-----------------------------------------------------------------------------
(* POST /projects.                                                         *)

\* Fault: one project more than the plan allows.
MayCreateFault(u) == CountOwnedProjects(u) <= Limit[u]

MayCreate(u) == CountOwnedProjects(u) < Limit[u]

AuthorizeProjectCreation(r, u) ==
  /\ MayCreate(u)
  /\ Sends(r, u, [at |-> "insert project", user |-> u])
  /\ overlapped' = overlapped \cup
       (IF \E q \in Requests :
             request[q].at \in {"insert project", "insert owner"} /\ request[q].user = u
        THEN {u} ELSE {})
  /\ UNCHANGED <<account, created, projects, role, sent, invitation,
                 admitted, excused, promoted, outlived>>

InsertProject(r, p) ==
  /\ request[r].at = "insert project"
  /\ p \notin created
  /\ created' = created \cup {p}
  /\ projects' = projects \cup {p}
  /\ request' = [request EXCEPT ![r] =
       [at |-> "insert owner", user |-> request[r].user, project |-> p]]
  /\ UNCHANGED <<account, role, sent, invitation, history>>

InsertOwner(r) ==
  /\ request[r].at = "insert owner"
  /\ GiveRole(request[r].project, request[r].user, "owner")
  /\ Answer(r)
  /\ UNCHANGED <<account, created, projects, sent, invitation, history>>

-----------------------------------------------------------------------------
(* Invitations.                                                            *)

AlreadyInvited(p, t, kind) ==
  \E i \in Invitations :
    /\ invitation[i] # None
    /\ invitation[i].project = p /\ invitation[i].target = t /\ invitation[i].kind = kind
    /\ invitation[i].status = "pending" /\ ~invitation[i].expired

Invite(r, u, p, t, template) ==
  /\ role[p][u] = "owner"
  /\ (t = None) = (template.kind = "link")
  /\ template.kind # "link" => ~AlreadyInvited(p, t, template.kind)
  /\ Sends(r, u, [at |-> "insert invitation", user |-> u,
       row |-> [kind |-> template.kind, role |-> template.role, project |-> p, inviter |-> u,
                target |-> t, status |-> "pending", expired |-> FALSE, acceptedBy |-> None]])
  /\ UNCHANGED <<account, created, projects, role, sent, invitation, history>>

CreateInvitation(r, i) ==
  /\ request[r].at = "insert invitation"
  /\ i \notin sent
  /\ request[r].row.project \in projects
  /\ sent' = sent \cup {i}
  /\ invitation' = [invitation EXCEPT ![i] = request[r].row]
  /\ Answer(r)
  /\ UNCHANGED <<account, created, projects, role, history>>

RequestRevoke(r, u, i) ==
  /\ invitation[i] # None /\ role[invitation[i].project][u] = "owner"
  /\ Sends(r, u, [at |-> "revoke", user |-> u, invitation |-> i])
  /\ UNCHANGED <<account, created, projects, role, sent, invitation, history>>

Revocable(row) == row # None /\ row.kind = "link" /\ row.status = "pending"

RevokeInvitation(r) ==
  LET i == request[r].invitation IN
  /\ request[r].at = "revoke"
  /\ Revocable(invitation[i])
  /\ invitation' = [invitation EXCEPT ![i].status = "cancelled"]
  /\ Answer(r)
  /\ UNCHANGED <<account, created, projects, role, sent, history>>

Acceptable(row) == row # None /\ row.status = "pending" /\ ~row.expired

Accepted(row, u) == [row EXCEPT !.status = "accepted", !.acceptedBy = u]

\* POST invitations/:id/accept, by the person it is for.
Accept(r, u, i) ==
  /\ Acceptable(invitation[i]) /\ invitation[i].target = u
  /\ Sends(r, u, [at |-> "join", user |-> u, invitation |-> i,
                  project |-> invitation[i].project, role |-> invitation[i].role])
  /\ UNCHANGED <<account, created, projects, role, sent, invitation, history>>

UpsertMember(r) ==
  LET q == request[r] IN
  /\ q.at = "join"
  /\ GiveRole(q.project, q.user, q.role)
  /\ Excuse(q.project, q.user, q.role)
  /\ Promote(q.user, q.role)
  /\ request' = [request EXCEPT ![r] =
       [at |-> "mark accepted", user |-> q.user, invitation |-> q.invitation]]
  /\ UNCHANGED <<account, created, projects, sent, invitation, admitted, overlapped, outlived>>

AcceptInvitation(r) ==
  LET q == request[r] IN
  /\ q.at = "mark accepted"
  /\ invitation' = [invitation EXCEPT ![q.invitation] =
       IF @ = None THEN None ELSE Accepted(@, q.user)]
  /\ request' = [request EXCEPT ![r] = [at |-> "create profile", user |-> q.user]]
  /\ UNCHANGED <<account, created, projects, role, sent, history>>

GetOrCreateCurrentUser(r) ==
  /\ request[r].at = "create profile"
  /\ account' = account \cup {request[r].user}
  /\ Answer(r)
  /\ UNCHANGED <<created, projects, role, sent, invitation, history>>

RequestAcceptLink(r, u, i) ==
  /\ invitation[i] # None /\ invitation[i].kind = "link"
  /\ Sends(r, u, [at |-> "accept link", user |-> u, invitation |-> i])
  /\ UNCHANGED <<account, created, projects, role, sent, invitation, history>>

\* Fault: the statement that inserts the member does not look at the status.
LinkAdmitsFault(row) == row # None

LinkAdmits(row) == Acceptable(row)

\* acceptSingleUseInvitation, one batch of three statements that check the link
\* each for itself.  `ran` of them run before the link expires: a batch cut by
\* the expiry lets the user in and leaves the link pending, and expired.
AcceptSingleUse(r, ran) ==
  LET q == request[r]
      row == invitation[q.invitation]
      joins == ran >= 2 /\ role[row.project][q.user] = None
  IN
  /\ q.at = "accept link"
  /\ LinkAdmits(row)
  /\ account' = account \cup {q.user}
  /\ role' = IF joins THEN [role EXCEPT ![row.project][q.user] = row.role] ELSE role
  /\ invitation' = [invitation EXCEPT ![q.invitation] =
       IF ran = 3 THEN Accepted(@, q.user)
       ELSE [@ EXCEPT !.expired = TRUE]]
  /\ admitted' = [admitted EXCEPT ![q.invitation] = @ \cup (IF joins THEN {q.user} ELSE {})]
  /\ Promote(q.user, IF joins THEN row.role ELSE "viewer")
  /\ Answer(r)
  /\ UNCHANGED <<created, projects, sent, excused, overlapped, outlived>>

Expire(i) ==
  /\ Acceptable(invitation[i])
  /\ invitation' = [invitation EXCEPT ![i].expired = TRUE]
  /\ UNCHANGED <<account, created, projects, role, sent, request, history>>

-----------------------------------------------------------------------------
(* Roles, and the end of projects and accounts.                            *)

ChangeRole(r, u, p, t, given) ==
  /\ role[p][u] = "owner"
  /\ Sends(r, u, [at |-> "update role", user |-> u, project |-> p, target |-> t, role |-> given])
  /\ UNCHANGED <<account, created, projects, role, sent, invitation, history>>

\* Nothing asks whether an owner is left.
UpdateMemberRole(r) ==
  LET q == request[r] IN
  /\ q.at = "update role"
  /\ role[q.project][q.target] # None
  /\ GiveRole(q.project, q.target, q.role)
  /\ Excuse(q.project, q.target, q.role)
  /\ Promote(q.target, q.role)
  /\ Answer(r)
  /\ UNCHANGED <<account, created, projects, sent, invitation, admitted, overlapped, outlived>>

RequestDeleteProject(r, u, p) ==
  /\ role[p][u] = "owner"
  /\ Sends(r, u, [at |-> "delete project", user |-> u, project |-> p])
  /\ UNCHANGED <<account, created, projects, role, sent, invitation, history>>

\* Members and invitations go with the project.
DeleteProject(r) ==
  LET p == request[r].project IN
  /\ request[r].at = "delete project"
  /\ projects' = projects \ {p}
  /\ role' = [role EXCEPT ![p] = [u \in Users |-> None]]
  /\ invitation' = [i \in Invitations |->
       IF invitation[i] # None /\ invitation[i].project = p THEN None ELSE invitation[i]]
  /\ Answer(r)
  /\ excused' = excused \ {p}
  /\ UNCHANGED <<account, created, sent, admitted, promoted, overlapped, outlived>>

\* Fault: any other member counts as another owner.
SoleOwnerProjectsFault(u) ==
  {p \in Projects : role[p][u] = "owner" /\ \A v \in Users \ {u} : role[p][v] = None}

\* listSoleOwnerProjects
SoleOwnerProjects(u) == {p \in Projects : OwnersOf(p) = {u}}

RequestDeleteAccount(r, u) ==
  /\ SoleOwnerProjects(u) = {}
  /\ Sends(r, u, [at |-> "delete account", user |-> u,
                  owners |-> [p \in Projects |-> OwnersOf(p)]])
  /\ UNCHANGED <<account, created, projects, role, sent, invitation, history>>

Mentions(row, u) ==
  row # None /\ (row.inviter = u \/ row.acceptedBy = u \/ (row.kind = "user" /\ row.target = u))

\* Fault: the memberships of the user stay.
RolesWithoutFault(u) == role

RolesWithout(u) == [p \in Projects |-> [role[p] EXCEPT ![u] = None]]

\* userRepository.delete.  history: the check saw other owners than there are.
DeleteAccount(r) ==
  LET q == request[r] IN
  /\ q.at = "delete account"
  /\ account' = account \ {q.user}
  /\ role' = RolesWithout(q.user)
  /\ invitation' = [i \in Invitations |->
       IF Mentions(invitation[i], q.user) THEN None ELSE invitation[i]]
  /\ excused' = excused \cup
       {p \in Projects : OwnersOf(p) = {q.user} /\ q.owners[p] # {q.user}}
  /\ outlived' = outlived \cup
       (IF \E o \in Requests \ {r} : request[o] # Idle /\ request[o].user = q.user
        THEN {q.user} ELSE {})
  /\ promoted' = promoted \ {q.user}
  /\ Answer(r)
  /\ UNCHANGED <<created, projects, sent, admitted, overlapped>>

-----------------------------------------------------------------------------

Onboard(u) ==
  /\ u \notin account
  /\ account' = account \cup {u}
  /\ outlived' = outlived \ {u}
  /\ UNCHANGED <<created, projects, role, sent, invitation, request,
                 admitted, excused, promoted, overlapped>>

\* The worker dies, a statement fails, or a guard is not met.
RequestFails(r) ==
  /\ request[r] # Idle
  /\ Answer(r)
  /\ excused' = excused \cup
       (IF request[r].at = "insert owner" THEN {request[r].project} ELSE {})
  /\ UNCHANGED <<account, created, projects, role, sent, invitation,
                 admitted, promoted, overlapped, outlived>>

Start(r, u) ==
  \/ AuthorizeProjectCreation(r, u)
  \/ \E p \in Projects, t \in Users \cup {None}, template \in Templates :
       Invite(r, u, p, t, template)
  \/ \E i \in Invitations : RequestRevoke(r, u, i) \/ Accept(r, u, i) \/ RequestAcceptLink(r, u, i)
  \/ \E p \in Projects, t \in Users, given \in RolesGiven : ChangeRole(r, u, p, t, given)
  \/ \E p \in Projects : RequestDeleteProject(r, u, p)
  \/ RequestDeleteAccount(r, u)

Continue(r) ==
  \/ \E p \in Projects : InsertProject(r, p)
  \/ InsertOwner(r)
  \/ \E i \in Invitations : CreateInvitation(r, i)
  \/ RevokeInvitation(r) \/ UpsertMember(r) \/ AcceptInvitation(r) \/ GetOrCreateCurrentUser(r)
  \/ \E ran \in 1..3 : AcceptSingleUse(r, ran)
  \/ UpdateMemberRole(r) \/ DeleteProject(r) \/ DeleteAccount(r) \/ RequestFails(r)

Next ==
  \/ \E r \in Requests, u \in Users : Start(r, u)
  \/ \E r \in Requests : Continue(r)
  \/ \E u \in Users : Onboard(u)
  \/ \E i \in Invitations : Expire(i)

Spec == Init /\ [][Next]_vars

-----------------------------------------------------------------------------

\* The rows and requests as D1 and the routes keep them: members are users, the
\* invitation is one of the two kinds, a request is at one of its calls.
TypeOK ==
  /\ account \subseteq Users
  /\ projects \subseteq created /\ created \subseteq Projects
  /\ role \in [Projects -> [Users -> Roles \cup {None}]]
  /\ sent \subseteq Invitations
  /\ invitation \in [Invitations -> Invitation \cup {None}]
  /\ \A i \in Invitations : invitation[i] # None =>
       (invitation[i].status = "accepted" <=> invitation[i].acceptedBy # None)
  /\ request \in [Requests -> Request]
  /\ admitted \in [Invitations -> SUBSET Users]
  /\ excused \subseteq Projects
  /\ promoted \subseteq Users /\ overlapped \subseteq Users /\ outlived \subseteq Users

\* A project keeps an owner, unless a role change or an accepted invitation took
\* the role from the last one, a creation died between its two inserts, or the
\* owners changed under an account deletion (usecases/delete-account.ts:45).
OwnersLeaveOnPurpose ==
  \A p \in projects :
    \/ OwnersOf(p) # {}
    \/ p \in excused
    \/ \E r \in Requests : request[r].at = "insert owner" /\ request[r].project = p

\* Nobody creates more projects than the plan allows, except two at once; the
\* plan says nothing of projects one is made owner of
\* (usecases/authorize-project-creation.ts:37).
LimitIsKept ==
  \A u \in Users \ (promoted \cup overlapped) : CountOwnedProjects(u) <= Limit[u]

\* A link lets one person in, the one it names when it was used up, and nobody
\* if it was revoked before it expired, however many requests carry it
\* (d1-project-repository.ts:482, 517).
LinksAdmitOne ==
  \A i \in Invitations :
    /\ Cardinality(admitted[i]) <= 1
    /\ invitation[i] # None =>
         /\ invitation[i].status = "accepted" => admitted[i] \subseteq {invitation[i].acceptedBy}
         /\ invitation[i].status = "cancelled" /\ ~invitation[i].expired => admitted[i] = {}

\* Members have an account; a deleted one leaves memberships only through
\* requests its user had in flight (d1-user-repository.ts:126).
MembersHaveAccounts ==
  \A p \in Projects, u \in Users :
    role[p][u] # None => p \in projects /\ u \in account \cup outlived
=============================================================================
