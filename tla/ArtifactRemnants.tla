--------------------------- MODULE ArtifactRemnants ---------------------------
(***************************************************************************)
(* The deletion of the project of ArtifactCleanup, whose rows cascade and  *)
(* whose objects stay, and stage 2 of cleanupArtifacts, which sweeps them  *)
(* (reclaimDeletedProjects, deleteAllUnder).  A run looks at a few pages   *)
(* of project prefixes and deletes a bounded number of objects.  The other *)
(* projects, all of them alive, count only as prefixes in front.           *)
(***************************************************************************)
EXTENDS ArtifactCleanup

CONSTANTS
  MaxProjectPrefixPages,  \* pages of prefixes a run looks at
  PrefixPageSize,         \* PREFIX_PAGE_SIZE
  MaxRemnantObjects,      \* objects a run may delete
  ObjectPageSize,         \* objects one listing returns
  MaxInFront              \* bound on the prefixes in front

ASSUME RemnantsAssumption ==
  /\ {MaxProjectPrefixPages, PrefixPageSize, MaxRemnantObjects, ObjectPageSize} \subseteq Nat \ {0}
  /\ MaxInFront \in Nat

VARIABLES
  gone,     \* the project has been deleted
  onWay,    \* blobs requests are still going to store
  inFront,  \* prefixes of other projects that sort before the project's
  sweep     \* the running stage 2

remnantVars == <<cleanupVars, gone, onWay, inFront, sweep>>

\* Idle, or before a page of prefixes is listed ("prefixes", `left` of those in
\* front not yet passed), the project is looked up ("lookup"), its objects are
\* listed ("objects") or `keys` are deleted ("delete").
IdleSweep == [at |-> "idle"]

-----------------------------------------------------------------------------

\* The row of the project goes, and with it its sessions, artifacts, versions
\* and files; whoever waits in a request or in stage 1 finds nothing, except
\* a request that is about to store a file.
DeleteProject ==
  /\ ~gone /\ gone' = TRUE
  /\ onWay' = {BlobOf(request[r].key, request[r].path) : r \in {q \in Requests : At(q, "store")}}
  /\ session' = [k \in Keys |-> NoSession]
  /\ uploaded' = [k \in Keys |-> {}]
  /\ artifacts' = {} /\ files' = {}
  /\ latest' = [a \in Artifacts |-> 0]
  /\ versions' = [a \in Artifacts |-> <<>>]
  /\ request' = [r \in Requests |-> Idle]
  /\ job' = IdleJob
  /\ UNCHANGED <<now, blobs, overlap, latePuts, inFront, sweep>>

\* A put that the deletion overtook; recording it fails.
PutOnWay ==
  /\ \E b \in onWay : blobs' = blobs \cup {b} /\ onWay' = onWay \ {b}
  /\ UNCHANGED <<now, session, uploaded, catalogVars, request, job, overlap, latePuts,
                 gone, inFront, sweep>>

\* An older project gets its first object, before or behind the sweep.
PrefixAppears ==
  /\ inFront < MaxInFront /\ inFront' = inFront + 1
  /\ \/ sweep.at = "prefixes" /\ sweep.left < MaxInFront
          /\ sweep' = [sweep EXCEPT !.left = @ + 1]
     \/ UNCHANGED sweep
  /\ UNCHANGED <<cleanupVars, gone, onWay>>

-----------------------------------------------------------------------------
(* Stage 2.                                                                *)

Others == <<now, session, uploaded, catalogVars, request, job, overlap, latePuts,
            gone, onWay, inFront>>

StartSweep ==
  /\ sweep = IdleSweep /\ JobAt("idle")
  /\ sweep' = [at |-> "prefixes", page |-> 0, left |-> inFront]
  /\ UNCHANGED <<Others, blobs>>

\* Fault: every page is the first one.
NextPageFault == [sweep EXCEPT !.page = @ + 1]

NextPage == [sweep EXCEPT !.page = @ + 1, !.left = @ - PrefixPageSize]

\* The project has a prefix while it has objects.
ListPrefixes ==
  /\ sweep.at = "prefixes"
  /\ sweep' = CASE blobs # {} /\ sweep.left < PrefixPageSize -> [at |-> "lookup"]
                [] sweep.left >= PrefixPageSize /\ sweep.page + 1 < MaxProjectPrefixPages -> NextPage
                [] OTHER -> IdleSweep
  /\ UNCHANGED <<Others, blobs>>

FindExistingProjectIds ==
  /\ sweep.at = "lookup"
  /\ sweep' = IF gone THEN [at |-> "objects", deleted |-> 0] ELSE IdleSweep
  /\ UNCHANGED <<Others, blobs>>

\* Fault: what D1 does not confirm is taken for deleted.
LookupFailsFault ==
  /\ sweep.at = "lookup"
  /\ sweep' = [at |-> "objects", deleted |-> 0]
  /\ UNCHANGED <<Others, blobs>>

LookupFails ==
  /\ sweep.at = "lookup"
  /\ sweep' = IdleSweep
  /\ UNCHANGED <<Others, blobs>>

PageLimit(deleted) ==
  IF ObjectPageSize < MaxRemnantObjects - deleted THEN ObjectPageSize
  ELSE MaxRemnantObjects - deleted

ListObjects ==
  /\ sweep.at = "objects"
  /\ \E keys \in SUBSET blobs :
       /\ \/ Cardinality(keys) = PageLimit(sweep.deleted)
          \/ keys = blobs /\ Cardinality(keys) < PageLimit(sweep.deleted)
       /\ sweep' = IF keys = {} THEN IdleSweep
                   ELSE [at |-> "delete", deleted |-> sweep.deleted, keys |-> keys,
                         last |-> keys = blobs]
  /\ UNCHANGED <<Others, blobs>>

DeleteObjects ==
  /\ sweep.at = "delete"
  /\ blobs' = blobs \ sweep.keys
  /\ LET deleted == sweep.deleted + Cardinality(sweep.keys) IN
     sweep' = IF sweep.last \/ deleted >= MaxRemnantObjects THEN IdleSweep
              ELSE [at |-> "objects", deleted |-> deleted]
  /\ UNCHANGED Others

DeleteObjectsFails ==
  /\ sweep.at = "delete"
  /\ \E removed \in SUBSET sweep.keys : blobs' = blobs \ removed
  /\ sweep' = IdleSweep
  /\ UNCHANGED Others

\* A listing fails or the worker is killed.
EndSweep ==
  /\ sweep # IdleSweep
  /\ sweep' = IdleSweep
  /\ UNCHANGED <<Others, blobs>>

-----------------------------------------------------------------------------

SweepStep ==
  \/ StartSweep \/ ListPrefixes \/ FindExistingProjectIds \/ LookupFails
  \/ ListObjects \/ DeleteObjects \/ DeleteObjectsFails \/ EndSweep

\* The routes of a deleted project answer 404; a run is done with stage 1
\* before stage 2.
RemnantsNext ==
  \/ /\ CleanupNext
     /\ gone => request' = request
     /\ sweep # IdleSweep => job' = job
     /\ UNCHANGED <<gone, onWay, inFront, sweep>>
  \/ DeleteProject
  \/ PutOnWay
  \/ PrefixAppears
  \/ SweepStep

RemnantsInit ==
  /\ CleanupInit
  /\ gone = FALSE /\ onWay = {}
  /\ inFront = 0
  /\ sweep = IdleSweep

RemnantsSpec == RemnantsInit /\ [][RemnantsNext]_remnantVars

Stage1(A) == A /\ sweep = IdleSweep /\ UNCHANGED <<gone, onWay, inFront, sweep>>

\* Cron fires every hour and every run starts with stage 1; no call of the job
\* fails every time it is made, nor does the listing of any one page.
RemnantsFairness ==
  /\ SF_remnantVars(Stage1(StartCleanup))
  /\ WF_remnantVars(Stage1(EndCleanup))
  /\ SF_remnantVars(Stage1(FindReferencedHashes))
  /\ SF_remnantVars(Stage1(FindInFlightHashes))
  /\ SF_remnantVars(Stage1(DeleteMany))
  /\ SF_remnantVars(Stage1(MarkSessionsExpired))
  /\ WF_remnantVars(StartSweep)
  /\ \A n \in 0..(MaxProjectPrefixPages - 1) : SF_remnantVars(ListPrefixes /\ sweep.page = n)
  /\ SF_remnantVars(FindExistingProjectIds)
  /\ SF_remnantVars(ListObjects)
  /\ SF_remnantVars(DeleteObjects)

FairRemnantsSpec == RemnantsSpec /\ RemnantsFairness

-----------------------------------------------------------------------------

\* Stage 2 deletes objects of deleted projects only, whatever fails, and a run
\* no more of them than its budget (cleanup-artifacts.ts:38 "Nothing is deleted
\* when D1 cannot confirm that the project is gone"; :159, :183).
OnlyRemnantsAreSwept ==
  [][sweep.at = "delete" /\ sweep' # sweep /\ blobs' # blobs =>
       gone /\ sweep.deleted + Cardinality(blobs \ blobs') <= MaxRemnantObjects]_remnantVars

\* A deleted project leaves nothing in R2 in the end: not what its cascade
\* left, not what a request stores afterwards, however often runs fail and
\* whatever their budget.  The exception is a project that at least as many
\* prefixes of other projects precede as a run looks at: every run starts from
\* the first prefix, so it is not reached (cleanup-artifacts.ts:129).
RemnantsAreReclaimed ==
  (gone /\ blobs # {}) ~> (blobs = {} \/ inFront >= MaxProjectPrefixPages * PrefixPageSize)
=============================================================================
