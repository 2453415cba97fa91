--------------------------- MODULE ArtifactHistory ---------------------------
(***************************************************************************)
(* What publishing promises, without sessions' clocks, files, tables or    *)
(* requests: an artifact is a log of versions; an upload declares once and *)
(* for all the artifact, the version it was derived from and the tree it   *)
(* carries; it is appended at most once, and only while the version it was *)
(* derived from is still the newest one.                                   *)
(***************************************************************************)
EXTENDS Naturals, Sequences

CONSTANTS
  Uploads,    \* identities of uploads
  Artifacts,  \* identities of artifacts
  Trees,      \* contents of one version
  Undeclared  \* an upload that has not been declared yet

VARIABLES
  declared,   \* what each upload asks for
  log         \* the published versions of each artifact, oldest first

historyVars == <<declared, log>>

Declaration == [artifact : Artifacts, base : Nat, tree : Trees]

Entry(u) == [session |-> u, tree |-> declared[u].tree]

Init ==
  /\ declared = [u \in Uploads |-> Undeclared]
  /\ log = [a \in Artifacts |-> <<>>]

\* A client declares an upload.  It may already be out of date.
Declare(u) ==
  /\ declared[u] = Undeclared
  /\ declared'[u] \in Declaration
  /\ declared' = [declared EXCEPT ![u] = declared'[u]]
  /\ UNCHANGED log

\* The upload becomes the newest version of its artifact: compare and append.
Publish(u) ==
  /\ declared[u] # Undeclared
  /\ LET a == declared[u].artifact IN
       /\ Len(log[a]) = declared[u].base
       /\ log' = [log EXCEPT ![a] = Append(@, Entry(u))]
  /\ UNCHANGED declared

Next ==
  \E u \in Uploads :
    \/ Declare(u)
    \/ Publish(u)

Spec == Init /\ [][Next]_historyVars
=============================================================================
