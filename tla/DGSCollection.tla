---------------------------- MODULE DGSCollection ----------------------------
(***************************************************************************)
(* The DedicatedGameServerCollection controller (pkg/controller/           *)
(* dgscollection) for one collection: it keeps as many DGSs that have not  *)
(* failed as the collection's Replicas ask for, lets failed ones go and    *)
(* counts them, and gives up in the state NeedsIntervention.               *)
(*                                                                         *)
(* As in DGSController the API server is a store with versions, and the    *)
(* controller sees it through caches that lag behind; the two informers    *)
(* are not synchronized with each other.  reconcileStatuses,               *)
(* increaseTimesFailed and setDGSColToNeedsIntervention read the live      *)
(* object and write it back with RetryOnConflict: when they succeed they   *)
(* are one atomic step, and giving up is the error outcome.                *)
(* PodCollectionState and AvailableReplicas, set by the same step in the   *)
(* same way as the health, are left out.                                   *)
(***************************************************************************)
EXTENDS Integers, Sequences, FiniteSets

CONSTANTS
    Names,              \* names NewDedicatedGameServer may generate; when they
                        \* are used up (think of the ports) creation fails
    Existing,           \* the DGSs of the collection at the start
    Replicas,           \* Replicas at the start
    ReplicaChoices,     \* what Replicas may be changed to
    FailBehaviors,      \* values of DGSFailBehavior: "Remove" (the default), "Delete"
    DGSMaxFailures,
    MaxPosts,           \* bound on status changes of game servers
    MaxChanges,         \* bound on changes made by people
    MaxFaults,          \* bound on failed calls to the API server and on
                        \* restarts of the controller
    MaxLag,             \* bound on how many changes an informer is behind
    None                \* no object

ASSUME ExistingAssumption == Existing \subseteq Names
ASSUME BehaviorsAssumption == FailBehaviors \subseteq {"Remove", "Delete"}
ASSUME NamesAssumption == IsFiniteSet(Names)
ASSUME NumbersAssumption ==
    /\ Replicas \in Nat /\ ReplicaChoices \subseteq Nat
    /\ MaxPosts \in Nat /\ MaxChanges \in Nat /\ MaxFaults \in Nat

VARIABLES
    col,            \* the collection in the API server
    colWatch,       \* its changes the informer has not seen yet
    colCache,       \* the collection in the informer's cache
    dgss,           \* the DGSs in the API server
    fresh,          \* names not generated yet
    dgsWatch,       \* changes of DGSs the informer has not seen yet
    dgsCache,       \* the DGSs in the informer's cache
    requested,      \* the work queue holds the collection's key
    pc,             \* how far syncHandler is
    dgsCol,         \* its local variable: the cached collection it read
    todo,           \* the DGSs the current loop still has to handle
    left,           \* the DGSs it still has to create, or its number of failed ones
    letGo,          \* history: how many DGSs it has let go as failed
    postsLeft, changesLeft, faultsLeft

colVars == <<col, colWatch>>
dgsVars == <<dgss, fresh, dgsWatch>>
cacheVars == <<colCache, dgsCache>>
syncVars == <<pc, dgsCol, todo, left>>
bounds == <<postsLeft, changesLeft, faultsLeft>>
vars == <<colVars, dgsVars, cacheVars, requested, syncVars, letGo, bounds>>

Healths == {"Creating", "Healthy", "Failed"}
Phases == {"", "Running"}   \* phases of a pod, as far as a change is noticed
Collections ==
    [replicas : Nat, failBehavior : FailBehaviors, timesFailed : Nat,
     health : Healths \cup {"NeedsIntervention"}]

\* member: the DGS has the collection as owner and in its labels; otherwise
\* it has the label of its original collection.
DGSObjects ==
    [rv : Nat, member : BOOLEAN, marked : BOOLEAN, health : Healths, phase : Phases]

ASSUME NoneAssumption == None \notin Collections /\ None \notin DGSObjects

\* Mutant of NewDedicatedGameServer: the health is not initialized.
NewDedicatedGameServerUnset ==
    [rv |-> 1, member |-> TRUE, marked |-> FALSE, health |-> "", phase |-> ""]

NewDedicatedGameServer ==
    [rv |-> 1, member |-> TRUE, marked |-> FALSE, health |-> "Creating", phase |-> ""]

Init ==
    /\ col \in [replicas : {Replicas}, failBehavior : FailBehaviors,
               timesFailed : {0}, health : {"Healthy"}]
    /\ colWatch = <<>>
    /\ colCache = col
    /\ dgss = [n \in Names |-> IF n \in Existing
                               THEN [NewDedicatedGameServer EXCEPT !.health = "Healthy"]
                               ELSE None]
    /\ fresh = Names \ Existing
    /\ dgsWatch = <<>>
    /\ dgsCache = dgss
    /\ requested = TRUE
    /\ pc = "idle"
    /\ dgsCol = None
    /\ todo = {}
    /\ left = 0
    /\ letGo = 0
    /\ postsLeft = MaxPosts
    /\ changesLeft = MaxChanges
    /\ faultsLeft = MaxFaults

-----------------------------------------------------------------------------
(* The Kubernetes API server.                                              *)

StoreCol(new) ==
    IF new = col
    THEN UNCHANGED colVars
    ELSE /\ Len(colWatch) < MaxLag
         /\ col' = new
         /\ colWatch' = Append(colWatch, new)

SetDGS(n, new) ==
    /\ Len(dgsWatch) < MaxLag
    /\ dgss' = [dgss EXCEPT ![n] = new]
    /\ dgsWatch' = Append(dgsWatch, [name |-> n, obj |-> new])

\* An Update is accepted only if it was made from the current version.
Current(n, copy) == dgss[n] # None /\ dgss[n].rv = copy.rv

\* Store a new version of the DGS n.
UpdateDGS(n, new) == SetDGS(n, [new EXCEPT !.rv = @ + 1]) /\ UNCHANGED fresh
DeleteDGS(n) == SetDGS(n, None) /\ UNCHANGED fresh

Members(objs) == {n \in Names : objs[n] # None /\ objs[n].member}
FailedOnes(objs) == {n \in Members(objs) : objs[n].health = "Failed"}
NotFailed(objs) == Members(objs) \ FailedOnes(objs)

-----------------------------------------------------------------------------
(* The informers and the event handlers.                                   *)

HasSpecChanged(old, new) == old.replicas # new.replicas

DeliverCol ==
    /\ colWatch # <<>>
    /\ colCache' = Head(colWatch)
    /\ colWatch' = Tail(colWatch)
    /\ requested' = (requested \/ HasSpecChanged(colCache, Head(colWatch)))
    /\ UNCHANGED <<col, dgsVars, dgsCache, syncVars, letGo, bounds>>

\* Mutant of HasDGSStatusChanged: the owner references are not compared.
HasDGSStatusChangedButOwner(old, new) == old.health # new.health \/ old.phase # new.phase

HasDGSStatusChanged(old, new) ==
    old.health # new.health \/ old.phase # new.phase \/ old.member # new.member

\* handleDedicatedGameServer: whether the collection is enqueued for d.
Enqueues(d) == d.member \/ d.health = "Failed" \/ d.marked

\* Mutant of DGSEvent: deletions are not handled.
DGSEventButDelete(old, new) ==
    requested' = \/ requested
                 \/ old = None /\ new # None /\ Enqueues(new)
                 \/ old # None /\ new # None /\ HasDGSStatusChanged(old, new) /\ Enqueues(new)

\* Handlers of the DGS informer.
DGSEvent(old, new) ==
    requested' = \/ requested
                 \/ old = None /\ new # None /\ Enqueues(new)
                 \/ old # None /\ new # None /\ HasDGSStatusChanged(old, new) /\ Enqueues(new)
                 \/ old # None /\ new = None /\ Enqueues(old)

DeliverDGS ==
    /\ dgsWatch # <<>>
    /\ LET e == Head(dgsWatch)
       IN  /\ dgsCache' = [dgsCache EXCEPT ![e.name] = e.obj]
           /\ DGSEvent(dgsCache[e.name], e.obj)
    /\ dgsWatch' = Tail(dgsWatch)
    /\ UNCHANGED <<colVars, dgss, fresh, colCache, syncVars, letGo, bounds>>

-----------------------------------------------------------------------------
(* syncHandler.                                                            *)

Goto(l) == pc' = l /\ UNCHANGED <<dgsCol, todo, left>>
Finish == pc' = "idle" /\ dgsCol' = None /\ todo' = {} /\ left' = 0

\* An error: processNextWorkItem puts the key back.
Retry == Finish /\ requested' = TRUE

CallFails == faultsLeft > 0 /\ faultsLeft' = faultsLeft - 1

\* The key is picked up; the collection it reads here is used to the end.
BeginSync ==
    /\ pc = "idle" /\ requested
    /\ requested' = FALSE
    /\ dgsCol' = colCache
    /\ pc' = "reconcile"
    /\ UNCHANGED <<colVars, dgsVars, cacheVars, todo, left, letGo, bounds>>

\* Mutant of HealthsFrom: NeedsIntervention is overwritten.
HealthsFromCacheOnly(current) ==
    LET unhealthy == {n \in Members(dgsCache) : dgsCache[n].health # "Healthy"}
    IN  IF unhealthy = {} THEN {"Healthy"} ELSE {dgsCache[n].health : n \in unhealthy}

\* setDedicatedGameServerCollectionHealth: that of the first member that is
\* not healthy, in the cache's arbitrary order.
HealthsFrom(current) ==
    LET unhealthy == {n \in Members(dgsCache) : dgsCache[n].health # "Healthy"}
    IN  IF current = "NeedsIntervention" THEN {current}
        ELSE IF unhealthy = {} THEN {"Healthy"}
        ELSE {dgsCache[n].health : n \in unhealthy}

ReconcileStatuses ==
    /\ pc = "reconcile"
    /\ \/ /\ \E h \in HealthsFrom(col.health) : StoreCol([col EXCEPT !.health = h])
          /\ Goto("failed") /\ UNCHANGED <<requested, faultsLeft>>
       \/ CallFails /\ Retry /\ UNCHANGED colVars
    /\ UNCHANGED <<dgsVars, cacheVars, letGo, postsLeft, changesLeft>>

\* getFailedDGSForDGSCol and the decisions of handleDGSFailed, taken from the
\* collection as it was read.
FindFailed ==
    /\ pc = "failed"
    /\ LET failed == FailedOnes(dgsCache)
       IN  \/ failed = {} /\ Goto("compare")
           \/ failed # {} /\ dgsCol.health = "NeedsIntervention" /\ Finish
           \/ /\ failed # {} /\ dgsCol.health # "NeedsIntervention"
              /\ dgsCol.timesFailed = DGSMaxFailures /\ Goto("intervene")
           \/ /\ failed # {} /\ dgsCol.health # "NeedsIntervention"
              /\ dgsCol.timesFailed # DGSMaxFailures
              /\ pc' = "letgo"
              /\ todo' = {[name |-> n, obj |-> dgsCache[n]] : n \in failed}
              /\ left' = Cardinality(failed)
              /\ UNCHANGED dgsCol
    /\ UNCHANGED <<colVars, dgsVars, cacheVars, requested, letGo, bounds>>

\* setDGSColToNeedsIntervention.
SetNeedsIntervention ==
    /\ pc = "intervene"
    /\ \/ /\ StoreCol([col EXCEPT !.health = "NeedsIntervention"])
          /\ Finish /\ UNCHANGED <<requested, faultsLeft>>
       \/ CallFails /\ Retry /\ UNCHANGED colVars
    /\ UNCHANGED <<dgsVars, cacheVars, letGo, postsLeft, changesLeft>>

\* Mutant of LetOneGo: the Update carries no version.
LetOneGoUnversioned(t) ==
    /\ dgss[t.name] # None
    /\ \/ /\ dgsCol.failBehavior = "Remove"
          /\ UpdateDGS(t.name, [t.obj EXCEPT !.member = FALSE])
       \/ dgsCol.failBehavior = "Delete" /\ DeleteDGS(t.name)

\* The next failed DGS loses its owner and its label, or is deleted; the
\* Delete states no precondition.
LetOneGo(t) ==
    \/ /\ dgsCol.failBehavior = "Remove"
       /\ Current(t.name, t.obj)
       /\ UpdateDGS(t.name, [t.obj EXCEPT !.member = FALSE])
    \/ /\ dgsCol.failBehavior = "Delete"
       /\ dgss[t.name] # None
       /\ DeleteDGS(t.name)

Refused(t) ==
    IF dgsCol.failBehavior = "Remove" THEN ~Current(t.name, t.obj) ELSE dgss[t.name] = None

\* Mutant of LetFailedGo: after an error the loop's DGSs are still counted.
LetFailedGoCounted ==
    /\ pc = "letgo"
    /\ \E t \in todo :
        \/ /\ LetOneGo(t)
           /\ todo' = todo \ {t}
           /\ pc' = IF todo' = {} THEN "count" ELSE "letgo"
           /\ letGo' = letGo + 1
        \/ Refused(t) /\ todo' = {} /\ pc' = "count" /\ UNCHANGED <<dgsVars, letGo>>
    /\ UNCHANGED <<colVars, cacheVars, requested, dgsCol, left, bounds>>

\* The loop of handleDGSFailed ends at the first error, and what it has done
\* until then is not counted.
LetFailedGo ==
    /\ pc = "letgo"
    /\ \E t \in todo :
        \/ /\ LetOneGo(t)
           /\ todo' = todo \ {t}
           /\ pc' = IF todo' = {} THEN "count" ELSE "letgo"
           /\ letGo' = letGo + 1
           /\ UNCHANGED <<requested, dgsCol, left, faultsLeft>>
        \/ Refused(t) /\ Retry /\ UNCHANGED <<dgsVars, letGo, faultsLeft>>
        \/ CallFails /\ Retry /\ UNCHANGED <<dgsVars, letGo>>
        \/ CallFails /\ Retry /\ LetOneGo(t) /\ letGo' = letGo + 1
    /\ UNCHANGED <<colVars, cacheVars, postsLeft, changesLeft>>

\* increaseTimesFailed, whose failure is only logged.
IncreaseTimesFailed ==
    /\ pc = "count"
    /\ \/ StoreCol([col EXCEPT !.timesFailed = @ + left]) /\ UNCHANGED faultsLeft
       \/ CallFails /\ UNCHANGED colVars
    /\ Finish
    /\ UNCHANGED <<dgsVars, cacheVars, requested, letGo, postsLeft, changesLeft>>

\* GetRandomIndexes(length, count): it never draws the last index of two or
\* more, and draws for ever when it needs all of them (see RandomIndexes).
\* The cache lists DGSs in any order, so any of them may be the last.
CanDraw(length, count) == length <= 1 \/ count < length

CompareReplicas ==
    /\ pc = "compare"
    /\ LET existing == NotFailed(dgsCache)
           count == Cardinality(existing)
       IN  \/ dgsCol.health = "NeedsIntervention" /\ Finish
           \/ /\ dgsCol.health # "NeedsIntervention" /\ count = dgsCol.replicas
              /\ Finish
           \/ /\ dgsCol.health # "NeedsIntervention" /\ count < dgsCol.replicas
              /\ pc' = "add"
              /\ left' = dgsCol.replicas - count
              /\ UNCHANGED <<dgsCol, todo>>
           \/ /\ dgsCol.health # "NeedsIntervention" /\ count > dgsCol.replicas
              /\ CanDraw(count, count - dgsCol.replicas)
              /\ pc' = "mark"
              /\ \E chosen \in SUBSET existing :
                    /\ Cardinality(chosen) = count - dgsCol.replicas
                    /\ todo' = {[name |-> n, obj |-> dgsCache[n]] : n \in chosen}
              /\ UNCHANGED <<dgsCol, left>>
           \/ /\ dgsCol.health # "NeedsIntervention" /\ count > dgsCol.replicas
              /\ ~CanDraw(count, count - dgsCol.replicas)
              /\ Goto("drawing")
    /\ UNCHANGED <<colVars, dgsVars, cacheVars, requested, letGo, bounds>>

\* One iteration of addDGSColReplicas.
AddDGSColReplica ==
    /\ pc = "add"
    /\ \/ \E n \in fresh :
            /\ SetDGS(n, NewDedicatedGameServer)
            /\ fresh' = fresh \ {n}
            /\ \/ /\ left' = left - 1
                  /\ pc' = IF left' = 0 THEN "idle" ELSE "add"
                  /\ dgsCol' = IF left' = 0 THEN None ELSE dgsCol
                  /\ UNCHANGED <<todo, requested, faultsLeft>>
               \/ CallFails /\ Retry
       \/ CallFails /\ Retry /\ UNCHANGED dgsVars
       \/ fresh = {} /\ Retry /\ UNCHANGED <<dgsVars, faultsLeft>>
    /\ UNCHANGED <<colVars, cacheVars, letGo, postsLeft, changesLeft>>

\* One iteration of removeDGSColReplicas, which reads the cache once more.
RemoveDGSColReplica ==
    /\ pc = "mark"
    /\ \E t \in todo :
        LET copy == dgsCache[t.name]
            new == [copy EXCEPT !.member = FALSE, !.marked = TRUE]
        IN  \/ /\ copy # None /\ Current(t.name, copy) /\ UpdateDGS(t.name, new)
               /\ todo' = todo \ {t}
               /\ pc' = IF todo' = {} THEN "idle" ELSE "mark"
               /\ dgsCol' = IF todo' = {} THEN None ELSE dgsCol
               /\ UNCHANGED <<left, requested, faultsLeft>>
            \/ /\ copy = None \/ ~Current(t.name, copy)
               /\ Retry /\ UNCHANGED <<dgsVars, faultsLeft>>
            \/ CallFails /\ Retry /\ UNCHANGED dgsVars
            \/ /\ CallFails /\ Retry
               /\ copy # None /\ Current(t.name, copy) /\ UpdateDGS(t.name, new)
    /\ UNCHANGED <<colVars, cacheVars, letGo, postsLeft, changesLeft>>

\* The controller's process ends at any point and starts again.
Restart ==
    /\ faultsLeft > 0
    /\ faultsLeft' = faultsLeft - 1
    /\ colCache' = col /\ colWatch' = <<>>
    /\ dgsCache' = dgss /\ dgsWatch' = <<>>
    /\ requested' = TRUE
    /\ Finish
    /\ UNCHANGED <<col, dgss, fresh, letGo, postsLeft, changesLeft>>

-----------------------------------------------------------------------------
(* Everybody else (outside this controller).                               *)

\* A game server posts its health through the API server.
PostHealth(n, h) ==
    /\ postsLeft > 0 /\ postsLeft' = postsLeft - 1
    /\ dgss[n] # None /\ dgss[n].health # h
    /\ UpdateDGS(n, [dgss[n] EXCEPT !.health = h])
    /\ UNCHANGED <<colVars, cacheVars, requested, syncVars, letGo,
                   changesLeft, faultsLeft>>

\* Another part of the status changes: the DGS controller has found the pod
\* in a phase, or the number of players is posted.
UpdateStatus(n, phase) ==
    /\ postsLeft > 0 /\ postsLeft' = postsLeft - 1
    /\ dgss[n] # None
    /\ UpdateDGS(n, [dgss[n] EXCEPT !.phase = phase])
    /\ UNCHANGED <<colVars, cacheVars, requested, syncVars, letGo,
                   changesLeft, faultsLeft>>

\* The DGS controller deletes a marked DGS that nobody plays on.
DeleteMarked(n) ==
    /\ dgss[n] # None /\ dgss[n].marked
    /\ DeleteDGS(n)
    /\ UNCHANGED <<colVars, cacheVars, requested, syncVars, letGo, bounds>>

\* Somebody deletes a DGS or changes Replicas.
DeletedByOthers(n) ==
    /\ changesLeft > 0 /\ changesLeft' = changesLeft - 1
    /\ dgss[n] # None
    /\ DeleteDGS(n)
    /\ UNCHANGED <<colVars, cacheVars, requested, syncVars, letGo,
                   postsLeft, faultsLeft>>

ChangeReplicas(r) ==
    /\ changesLeft > 0 /\ changesLeft' = changesLeft - 1
    /\ r # col.replicas
    /\ StoreCol([col EXCEPT !.replicas = r])
    /\ UNCHANGED <<dgsVars, cacheVars, requested, syncVars, letGo,
                   postsLeft, faultsLeft>>

-----------------------------------------------------------------------------
Informers == DeliverCol \/ DeliverDGS
SyncHandler ==
    \/ BeginSync \/ ReconcileStatuses \/ FindFailed \/ SetNeedsIntervention
    \/ LetFailedGo \/ IncreaseTimesFailed \/ CompareReplicas
    \/ AddDGSColReplica \/ RemoveDGSColReplica
Others ==
    \/ \E n \in Names : DeleteMarked(n) \/ DeletedByOthers(n)
    \/ \E n \in Names, h \in {"Healthy", "Failed"} : PostHealth(n, h)
    \/ \E n \in Names, phase \in Phases : UpdateStatus(n, phase)
    \/ \E r \in ReplicaChoices : ChangeReplicas(r)

Next == Informers \/ SyncHandler \/ Restart \/ Others

\* Watches deliver and the worker works.
Fairness == WF_vars(DeliverCol) /\ WF_vars(DeliverDGS) /\ WF_vars(SyncHandler)

Spec == Init /\ [][Next]_vars
FairSpec == Spec /\ Fairness

-----------------------------------------------------------------------------
(* What must hold.                                                         *)

TypeOK ==
    /\ col \in Collections /\ colCache \in Collections
    /\ colWatch \in Seq(Collections)
    /\ dgss \in [Names -> DGSObjects \cup {None}]
    /\ dgsCache \in [Names -> DGSObjects \cup {None}]
    /\ fresh \subseteq Names
    /\ dgsWatch \in Seq([name : Names, obj : DGSObjects \cup {None}])
    /\ requested \in BOOLEAN
    /\ pc \in {"idle", "reconcile", "failed", "intervene", "letgo", "count",
               "compare", "add", "mark", "drawing"}
    /\ dgsCol \in Collections \cup {None}
    /\ (dgsCol = None) = (pc = "idle")
    /\ todo \subseteq [name : Names, obj : DGSObjects]
    /\ (todo # {}) = (pc \in {"letgo", "mark"})
    /\ left \in Nat
    /\ letGo \in Nat
    /\ postsLeft \in 0..MaxPosts /\ changesLeft \in 0..MaxChanges
    /\ faultsLeft \in 0..MaxFaults

\* With the behaviour Remove a DGS that has recovered is not let go: although
\* the controller decides from its cache, the version check of the Update
\* makes sure that the DGS is still failed when it loses its owner.
OnlyFailedAreLetGo ==
    [][LetFailedGo /\ dgsCol.failBehavior = "Remove" =>
        \A n \in Members(dgss) \ Members(dgss') : dgss[n].health = "Failed"]_vars

\* No failure is counted twice, however often a sync is repeated after an
\* error, a restart or on a stale cache.
NeverOvercounted == col.timesFailed <= letGo - (IF pc = "count" THEN left ELSE 0)

\* Once in NeedsIntervention the collection stays there: no status update
\* that is under way or repeated brings it back.
InterventionIsSticky ==
    [][col.health = "NeedsIntervention" => col'.health = "NeedsIntervention"]_vars

\* Nothing is left to do for the controller.
Quiet == colWatch = <<>> /\ dgsWatch = <<>> /\ ~requested /\ pc = "idle"

\* No event that matters is filtered away: once the controller is quiet the
\* collection's health is Healthy exactly if all its DGSs are.
QuietHealthIsTrue ==
    Quiet /\ col.health # "NeedsIntervention" =>
        (col.health = "Healthy") = (\A n \in Members(dgss) : dgss[n].health = "Healthy")

\* Whatever happened, once nobody changes anything any more the collection
\* gets the DGSs it asks for and none that has failed, or gives up -- unless
\* it needs DGSs that cannot be created.
Converges ==
    \/ <>[](col.health = "NeedsIntervention")
    \/ <>[](FailedOnes(dgss) = {} /\ Cardinality(NotFailed(dgss)) = col.replicas)
    \/ []<>(pc = "add" /\ fresh = {})

-----------------------------------------------------------------------------
(* What the documentation says and the code does not do.                   *)

\* docs/architecture.md: dgsMaxFailures is the maximum number of failures a
\* collection can withstand; with one more it is in NeedsIntervention.
FailuresAreBounded == col.timesFailed <= DGSMaxFailures
=============================================================================
