---------------------------- MODULE DGSController ----------------------------
(***************************************************************************)
(* The DedicatedGameServer controller (pkg/controller/dgs) for one         *)
(* DedicatedGameServer, against everything that changes the object or its  *)
(* pods at the same time: the API server's status calls                    *)
(* (shared.UpdateDGSStatus), the collection controller, the kubelet and    *)
(* the garbage collector.                                                  *)
(*                                                                         *)
(* The Kubernetes API server is a store with optimistic concurrency (rv is *)
(* the resource version); the controller sees it through informer caches   *)
(* that lag behind.  DGSs do not interact in this controller and WorkQueue *)
(* shows that a key is never synced twice at once, so one object and one   *)
(* sync at a time are enough; "requested" is the key being asked for.      *)
(***************************************************************************)
EXTENDS Integers, Sequences, FiniteSets

CONSTANTS
    Pods,           \* names NewPod may generate; when they are used up
                    \* (think of a quota) creating a pod fails
    Handlers,       \* requests the API server works on at the same time
    Settings,       \* what game servers post: records of status fields
    Retries,        \* attempts of RetryOnConflict
    MaxRequests,    \* bound on the number of posts
    MaxFaults,      \* bound on failed calls to the Kubernetes API server and
                    \* restarts of the controller
    MaxVersions,    \* bound on the versions of the object
    MaxLag,         \* bound on how many changes the DGS informer is behind
    MaxPodLag,      \* the same for the pod informer
    None            \* no object, no request

ASSUME BoundsAssumption ==
    Retries \in Nat \ {0} /\ MaxRequests \in Nat /\ MaxFaults \in Nat

VARIABLES
    dgs,            \* the object in the API server, or None
    dgsWatch,       \* its changes the informer has not seen yet
    dgsCache,       \* the object in the informer's cache
    pods,           \* the pods labelled with this DGS in the API server
    freshPods,      \* names not generated yet
    podWatch,       \* pod changes the informer has not seen yet
    podCache,       \* pods in the informer's cache
    requested,      \* the work queue holds the key
    pc,             \* how far syncHandler is
    dgsTemp,        \* its local variable: the cached object it read
    pod,            \* its local variable: the pod it found
    posts,          \* what each handler of the API server is doing
    requestsLeft, faultsLeft

dgsVars == <<dgs, dgsWatch>>
podVars == <<pods, freshPods, podWatch>>
cacheVars == <<dgsCache, podCache>>
syncVars == <<pc, dgsTemp, pod>>
apiVars == <<posts, requestsLeft>>
vars == <<dgsVars, podVars, cacheVars, requested, syncVars, apiVars, faultsLeft>>

Phases == {"Pending", "Running", "Failed"}
Nodes == {"", "node"}       \* "node" also stands for its public IP
Healths == {"Creating", "Healthy", "Failed"}

\* env says that NewPod's environment variables have been appended to the
\* object's containers; removed, that the object has left its collection (no
\* owner, other labels).
DGSObjects == [rv : Nat, env : BOOLEAN, marked : BOOLEAN, removed : BOOLEAN,
               players : Nat, health : Healths, phase : Phases \cup {""}, node : Nodes]
PodStates == [phase : Phases, node : Nodes]

\* DGSStatusFields, as the API server lets them through; its DGSState is not
\* modelled.
ASSUME SettingsAssumption ==
    \A s \in Settings :
        /\ DOMAIN s \subseteq {"players", "health", "marked"}
        /\ "players" \in DOMAIN s => s.players \in Nat
        /\ "health" \in DOMAIN s => s.health \in Healths
        /\ "marked" \in DOMAIN s => s.marked \in BOOLEAN
ASSUME NoneAssumption == None \notin DGSObjects /\ None \notin PodStates

NewDedicatedGameServer ==
    [rv |-> 1, env |-> FALSE, marked |-> FALSE, removed |-> FALSE,
     players |-> 0, health |-> "Creating", phase |-> "", node |-> ""]

Init ==
    /\ dgs = NewDedicatedGameServer
    /\ dgsWatch = <<NewDedicatedGameServer>>
    /\ dgsCache = None
    /\ pods = [p \in Pods |-> None]
    /\ freshPods = Pods
    /\ podWatch = <<>>
    /\ podCache = [p \in Pods |-> None]
    /\ requested = FALSE
    /\ pc = "idle"
    /\ dgsTemp = None
    /\ pod = None
    /\ posts = [h \in Handlers |-> None]
    /\ requestsLeft = MaxRequests
    /\ faultsLeft = MaxFaults

-----------------------------------------------------------------------------
(* The Kubernetes API server.                                              *)

\* An Update is accepted only if it was made from the current version.
Current(copy) == dgs # None /\ dgs.rv = copy.rv

\* Store new; an Update that changes nothing creates no version and no event.
Store(new) ==
    IF new = dgs
    THEN UNCHANGED dgsVars
    ELSE /\ Len(dgsWatch) < MaxLag /\ dgs.rv < MaxVersions
         /\ dgs' = [new EXCEPT !.rv = dgs.rv + 1]
         /\ dgsWatch' = Append(dgsWatch, dgs')

Remove ==
    /\ Len(dgsWatch) < MaxLag
    /\ dgs' = None
    /\ dgsWatch' = Append(dgsWatch, None)

SetPod(p, state) ==
    /\ Len(podWatch) < MaxPodLag
    /\ pods' = [pods EXCEPT ![p] = state]
    /\ podWatch' = Append(podWatch, [name |-> p, state |-> state])

-----------------------------------------------------------------------------
(* The informers and the event handlers.                                   *)

\* Mutant of HasDGSChanged: the number of players is forgotten.
HasDGSChangedButPlayers(old, new) ==
    \E f \in {"health", "phase", "node", "removed"} : old[f] # new[f]

\* hasDGSChanged.  MarkedForDeletion and DGSState are not looked at.
HasDGSChanged(old, new) ==
    \E f \in {"health", "phase", "node", "players", "removed"} : old[f] # new[f]

\* Handlers of the DGS informer, old being what the cache held: an added
\* object is enqueued, a changed one if hasDGSChanged says so; a deleted one
\* only gives its ports back.  A resync has the same version twice and is
\* ignored.
DGSEvent(old, new) ==
    requested' = (requested \/ (new # None /\ (old = None \/ HasDGSChanged(old, new))))

DeliverDGS ==
    /\ dgsWatch # <<>>
    /\ dgsCache' = Head(dgsWatch)
    /\ dgsWatch' = Tail(dgsWatch)
    /\ DGSEvent(dgsCache, Head(dgsWatch))
    /\ UNCHANGED <<dgs, podVars, podCache, syncVars, apiVars, faultsLeft>>

\* The watch breaks and the informer lists again: versions are skipped.
RelistDGS ==
    /\ Len(dgsWatch) > 1
    /\ dgsCache' = dgs
    /\ dgsWatch' = <<>>
    /\ DGSEvent(dgsCache, dgs)
    /\ UNCHANGED <<dgs, podVars, podCache, syncVars, apiVars, faultsLeft>>

\* Mutant of PodEvent: the deletion of a pod is not handled.
PodEventUnlessDeleted ==
    requested' = (requested \/ (dgsCache # None /\ Head(podWatch).state # None))

\* handlePod drops the event when the owner is not in the cache.
PodEvent == requested' = (requested \/ dgsCache # None)

DeliverPod ==
    /\ podWatch # <<>>
    /\ podCache' = [podCache EXCEPT ![Head(podWatch).name] = Head(podWatch).state]
    /\ podWatch' = Tail(podWatch)
    /\ PodEvent
    /\ UNCHANGED <<dgsVars, dgsCache, pods, freshPods, syncVars, apiVars, faultsLeft>>

-----------------------------------------------------------------------------
(* syncHandler.                                                            *)

Finish == pc' = "idle" /\ dgsTemp' = None /\ pod' = None

\* An error: processNextWorkItem puts the key back.
Retry == Finish /\ requested' = TRUE

CallFails == faultsLeft > 0 /\ faultsLeft' = faultsLeft - 1

IsDGSMarkedForDeletionWithZeroPlayers(d) == d.players = 0 /\ d.marked

\* Mutant of BeginSync: that the object is gone is returned as an error.
BeginSyncGoneIsError ==
    /\ pc = "idle" /\ requested
    /\ requested' = (dgsCache = None)
    /\ dgsTemp' = dgsCache
    /\ pc' = IF dgsCache = None THEN "idle"
             ELSE IF IsDGSMarkedForDeletionWithZeroPlayers(dgsCache) THEN "delete"
             ELSE "find"
    /\ UNCHANGED <<dgsVars, podVars, cacheVars, pod, apiVars, faultsLeft>>

\* The key is picked up and the object is read from the cache.
BeginSync ==
    /\ pc = "idle" /\ requested
    /\ requested' = FALSE
    /\ dgsTemp' = dgsCache
    /\ \/ dgsCache = None /\ pc' = "idle"
       \/ /\ dgsCache # None
          /\ IsDGSMarkedForDeletionWithZeroPlayers(dgsCache)
          /\ pc' = "delete"
       \/ /\ dgsCache # None
          /\ ~IsDGSMarkedForDeletionWithZeroPlayers(dgsCache)
          /\ pc' = "find"
    /\ UNCHANGED <<dgsVars, podVars, cacheVars, pod, apiVars, faultsLeft>>

\* handleDGSMarkedForDeletionWithZeroPlayers.  The Delete states no
\* precondition.  A call that fails may still have been carried out.
DeleteDGS ==
    /\ pc = "delete"
    /\ \/ dgs # None /\ Remove /\ Finish /\ UNCHANGED <<requested, faultsLeft>>
       \/ dgs = None /\ Retry /\ UNCHANGED <<dgsVars, faultsLeft>>
       \/ CallFails /\ Retry /\ UNCHANGED dgsVars
       \/ CallFails /\ dgs # None /\ Remove /\ Retry
    /\ UNCHANGED <<podVars, cacheVars, apiVars>>

\* getPodForDGS: of the cached pods, a running one if there is any.
FindPod ==
    /\ pc = "find"
    /\ LET cached == {p \in Pods : podCache[p] # None}
           running == {p \in cached : podCache[p].phase = "Running"}
       IN  \/ cached = {} /\ pc' = "create" /\ UNCHANGED pod
           \/ /\ cached # {} /\ pc' = "update"
              /\ \E p \in IF running # {} THEN running ELSE cached : pod' = podCache[p]
    /\ UNCHANGED <<dgsVars, podVars, cacheVars, requested, dgsTemp, apiVars, faultsLeft>>

\* NewPod shares the containers of the object it is given, which is the one
\* in the cache unless the informer has replaced it meanwhile.
AppendEnvToCachedDGS ==
    dgsCache' = IF dgsCache # None /\ dgsCache.rv = dgsTemp.rv
                THEN [dgsCache EXCEPT !.env = TRUE]
                ELSE dgsCache

\* createNewPod: the access code is read, the pod built and created.  When the
\* code cannot be read the process ends (log.Fatalf), which is a Restart.
CreateNewPod ==
    /\ pc = "create"
    /\ \/ CallFails /\ Retry /\ AppendEnvToCachedDGS /\ UNCHANGED podVars
       \/ /\ freshPods = {}
          /\ Retry /\ AppendEnvToCachedDGS /\ UNCHANGED <<podVars, faultsLeft>>
       \/ \E p \in freshPods :
            /\ AppendEnvToCachedDGS
            /\ SetPod(p, [phase |-> "Pending", node |-> ""])
            /\ freshPods' = freshPods \ {p}
            /\ \/ Finish /\ UNCHANGED <<requested, faultsLeft>>
               \/ CallFails /\ Retry
    /\ UNCHANGED <<dgsVars, podCache, apiVars>>

\* Look up the node, then write the pod's phase and node into a copy of the
\* object that was read and Update it.
UpdateDGS ==
    /\ pc = "update"
    /\ LET new == [dgsTemp EXCEPT !.phase = pod.phase, !.node = pod.node]
       IN  \/ /\ Current(dgsTemp) /\ Store(new)
              /\ Finish /\ UNCHANGED <<requested, faultsLeft>>
           \/ /\ ~Current(dgsTemp) /\ Retry
              /\ UNCHANGED <<dgsVars, faultsLeft>>
           \/ CallFails /\ Retry /\ UNCHANGED dgsVars
           \/ CallFails /\ Current(dgsTemp) /\ Store(new) /\ Retry
    /\ UNCHANGED <<podVars, cacheVars, apiVars>>

\* The controller's process ends at any point and starts again: the caches
\* are listed before the workers start, and every DGS is an add event.
Restart ==
    /\ faultsLeft > 0
    /\ faultsLeft' = faultsLeft - 1
    /\ dgsCache' = dgs
    /\ dgsWatch' = <<>>
    /\ podCache' = pods
    /\ podWatch' = <<>>
    /\ requested' = (dgs # None)
    /\ Finish
    /\ UNCHANGED <<dgs, pods, freshPods, apiVars>>

-----------------------------------------------------------------------------
(* UpdateDGSStatus in the API server: Get, set the posted fields, Update,  *)
(* and again on a conflict.                                                *)

GetForPost(h, s) ==
    /\ posts[h] = None
    /\ requestsLeft > 0 /\ dgs # None
    /\ requestsLeft' = requestsLeft - 1
    /\ posts' = [posts EXCEPT ![h] = [set |-> s, copy |-> dgs, tries |-> 1]]
    /\ UNCHANGED <<dgsVars, podVars, cacheVars, requested, syncVars, faultsLeft>>

WithFields(copy, set) ==
    [f \in DOMAIN copy |-> IF f \in DOMAIN set THEN set[f] ELSE copy[f]]

PutPost(h) ==
    /\ posts[h] # None
    /\ Current(posts[h].copy)
    /\ Store(WithFields(posts[h].copy, posts[h].set))
    /\ posts' = [posts EXCEPT ![h] = None]
    /\ UNCHANGED <<podVars, cacheVars, requested, syncVars, requestsLeft, faultsLeft>>

\* One more attempt, from the object as it is now.
Again(post) == [post EXCEPT !.copy = dgs, !.tries = @ + 1]

\* Mutant of PutConflict: one attempt too many.
PutConflictOnceMore(h) ==
    /\ posts[h] # None
    /\ ~Current(posts[h].copy)
    /\ posts' = [posts EXCEPT ![h] =
            IF dgs # None /\ @.tries <= Retries
            THEN Again(@)
            ELSE None]
    /\ UNCHANGED <<dgsVars, podVars, cacheVars, requested, syncVars, requestsLeft, faultsLeft>>

\* Mutant of PutConflict: only the version is read again, the old fields are
\* sent once more.
PutConflictStale(h) ==
    /\ posts[h] # None
    /\ ~Current(posts[h].copy)
    /\ posts' = [posts EXCEPT ![h] =
            IF dgs # None /\ @.tries < Retries
            THEN [set |-> @.set, copy |-> [@.copy EXCEPT !.rv = dgs.rv],
                  tries |-> @.tries + 1]
            ELSE None]
    /\ UNCHANGED <<dgsVars, podVars, cacheVars, requested, syncVars, requestsLeft, faultsLeft>>

\* Update fails: read again after a conflict, give up (500) when the
\* attempts are used up or the object is gone.
PutConflict(h) ==
    /\ posts[h] # None
    /\ ~Current(posts[h].copy)
    /\ posts' = [posts EXCEPT ![h] =
            IF dgs # None /\ @.tries < Retries
            THEN Again(@)
            ELSE None]
    /\ UNCHANGED <<dgsVars, podVars, cacheVars, requested, syncVars, requestsLeft, faultsLeft>>

-----------------------------------------------------------------------------
(* Everybody else (outside this controller).                               *)

\* The collection controller removes the DGS from its collection: scaling
\* in marks it, a failed one is only let go.
LeaveCollection ==
    /\ dgs # None /\ ~dgs.removed
    /\ \/ Store([dgs EXCEPT !.removed = TRUE, !.marked = TRUE])
       \/ dgs.health = "Failed" /\ Store([dgs EXCEPT !.removed = TRUE])
    /\ UNCHANGED <<podVars, cacheVars, requested, syncVars, apiVars, faultsLeft>>

\* Somebody else deletes it: kubectl, or the collection (fail behaviour
\* Delete, or with its owner).
DeletedByOthers ==
    /\ dgs # None
    /\ Remove
    /\ UNCHANGED <<podVars, cacheVars, requested, syncVars, apiVars, faultsLeft>>

\* Scheduler and kubelet; NewPod sets RestartPolicyNever.
PodMoves(p) ==
    /\ pods[p] # None
    /\ \/ pods[p].node = "" /\ SetPod(p, [pods[p] EXCEPT !.node = "node"])
       \/ /\ pods[p] = [phase |-> "Pending", node |-> "node"]
          /\ SetPod(p, [pods[p] EXCEPT !.phase = "Running"])
       \/ pods[p].phase = "Running" /\ SetPod(p, [pods[p] EXCEPT !.phase = "Failed"])
    /\ UNCHANGED <<dgsVars, freshPods, cacheVars, requested, syncVars, apiVars, faultsLeft>>

\* A pod goes away: evicted or deleted, or collected after its owner.
PodGoes(p) ==
    /\ pods[p] # None
    /\ SetPod(p, None)
    /\ UNCHANGED <<dgsVars, freshPods, cacheVars, requested, syncVars, apiVars, faultsLeft>>

-----------------------------------------------------------------------------
Informers == DeliverDGS \/ RelistDGS \/ DeliverPod
SyncHandler == BeginSync \/ DeleteDGS \/ FindPod \/ CreateNewPod \/ UpdateDGS
ApiServer ==
    \E h \in Handlers :
        (\E s \in Settings : GetForPost(h, s)) \/ PutPost(h) \/ PutConflict(h)
Others == LeaveCollection \/ DeletedByOthers \/ \E p \in Pods : PodMoves(p) \/ PodGoes(p)

Next == Informers \/ SyncHandler \/ Restart \/ ApiServer \/ Others

\* Watches deliver, the worker works, and a post that was begun is finished.
Fairness ==
    /\ WF_vars(DeliverDGS \/ RelistDGS)
    /\ WF_vars(DeliverPod)
    /\ WF_vars(SyncHandler)
    /\ \A h \in Handlers : WF_vars(PutPost(h) \/ PutConflict(h))

Spec == Init /\ [][Next]_vars
FairSpec == Spec /\ Fairness

-----------------------------------------------------------------------------
(* What must hold.                                                         *)

TypeOK ==
    /\ dgs \in DGSObjects \cup {None}
    /\ dgsWatch \in Seq(DGSObjects \cup {None})
    /\ dgsCache \in DGSObjects \cup {None}
    /\ pods \in [Pods -> PodStates \cup {None}]
    /\ freshPods \subseteq Pods
    /\ podWatch \in Seq([name : Pods, state : PodStates \cup {None}])
    /\ podCache \in [Pods -> PodStates \cup {None}]
    /\ requested \in BOOLEAN
    /\ pc \in {"idle", "find", "delete", "create", "update"}
    /\ dgsTemp \in DGSObjects \cup {None}
    /\ pod \in PodStates \cup {None}
    /\ posts \in [Handlers -> [set : Settings, copy : DGSObjects, tries : 1..Retries]
                             \cup {None}]
    /\ requestsLeft \in 0..MaxRequests
    /\ faultsLeft \in 0..MaxFaults

Untouched(fields) == \A f \in fields : dgs'[f] = dgs[f]

\* No update is lost although every writer sends the whole object: the
\* controller's Update never undoes what a game server or the collection
\* wrote since the controller read the object, and a post changes nothing
\* but the posted fields.
NoLostUpdate ==
    [][dgs # None /\ dgs' # None =>
        /\ UpdateDGS => Untouched({"marked", "removed", "players", "health"})
        /\ \A h \in Handlers : PutPost(h) =>
            Untouched((DOMAIN dgs \ {"rv"}) \ DOMAIN posts[h].set)]_vars

\* Nothing is left to do for the controller.
Quiet == dgsWatch = <<>> /\ podWatch = <<>> /\ ~requested /\ pc = "idle"

\* No event that matters is filtered away: once the controller is quiet, the
\* DGS's status is that of a pod that exists.
QuietStatusIsTrue ==
    Quiet /\ dgs # None =>
        \E p \in Pods : /\ pods[p] # None
                        /\ dgs.phase = pods[p].phase
                        /\ dgs.node = pods[p].node

\* The controller does not retry for ever: when nobody changes anything any
\* more it becomes quiet, unless it wants pods that cannot be created.
SettlesDown == <>[]Quiet \/ []<>(pc = "create" /\ freshPods = {})

\* A DGS that was scaled in does not stay once its last player has left.
ScaledInIsDeleted ==
    ~<>[](dgs # None /\ dgs.removed /\ dgs.marked /\ dgs.players = 0)

-----------------------------------------------------------------------------
(* What the documentation says and the code does not do.                   *)

\* docs/architecture.md: each DGS has a single corresponding child Pod.
SinglePod == Cardinality({p \in Pods : pods[p] # None}) <= 1

\* docs/architecture.md: a DGS marked for deletion is deleted when there are
\* 0 active players; the controller does not go quiet on one that is marked
\* and empty.
QuietLeavesNoMarked == Quiet /\ dgs # None => ~(dgs.marked /\ dgs.players = 0)
=============================================================================
