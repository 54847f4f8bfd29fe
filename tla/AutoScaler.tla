------------------------------ MODULE AutoScaler ------------------------------
(***************************************************************************)
(* The ActivePlayers autoscaler (pkg/controller/autoscale) for one         *)
(* collection, against the collection controller, the game servers and     *)
(* people who change the same collection.                                  *)
(*                                                                         *)
(* Both controllers run in one process on the same informer caches, which  *)
(* lag behind the Kubernetes API server.  The autoscaler takes its whole   *)
(* decision from them, the time of the last scaling included, which is     *)
(* kept in the collection itself; only the version check of its Update     *)
(* ties the decision to the live object.                                   *)
(*                                                                         *)
(* The collection controller is an environment: the steps of its           *)
(* syncHandler (see DGSCollection) in any order, because a failing call    *)
(* may end a sync after each of them.  "Healthy" stands for a health       *)
(* Healthy with pods that are Running: both are computed by the same step  *)
(* from the same DGSs, and the autoscaler asks for both.                   *)
(***************************************************************************)
EXTENDS Integers, Sequences, FiniteSets

CONSTANTS
    Names,              \* places for DGSs that are members of the collection
    Replicas,           \* at the start, all of them there and healthy
    ReplicaChoices,     \* what people may set Replicas to
    PlayerCounts,       \* numbers of players that are posted
    MinimumReplicas, MaximumReplicas,
    ScaleInThreshold, ScaleOutThreshold,    \* percentages
    MaxPlayersPerServer,
    CoolDown,           \* CoolDownInMinutes
    Never,              \* LastScaleOperationDateTime is "" or not a time
    None,               \* no DGS, no local copy
    MaxTime,            \* bound on the clock
    MaxDisturbances,    \* bound on DGSs that fail, changes made by people,
                        \* failing calls and restarts, all together
    MaxVersions,        \* the health is not recomputed after so many versions
    MaxLag              \* bound on how many changes an informer is behind

ASSUME TimesAssumption == CoolDown \in Nat /\ MaxTime \in Nat /\ Never \notin Nat
ASSUME DetailsAssumption ==
    /\ Replicas \in Nat /\ ReplicaChoices \subseteq Nat /\ PlayerCounts \subseteq Nat
    /\ MinimumReplicas \in Nat /\ MaximumReplicas \in Nat
    /\ ScaleInThreshold \in Nat /\ ScaleOutThreshold \in Nat
    /\ MaxPlayersPerServer \in Nat

VARIABLES
    col,            \* the collection in the API server
    colWatch,       \* its changes the informer has not seen yet
    colCache,       \* the collection in the informer's cache
    dgss,           \* the members in the API server
    dgsWatch,       \* their changes the informer has not seen yet
    dgsCache,       \* the members in the informer's cache
    now,            \* the clock, in minutes
    requested,      \* the autoscaler's work queue holds the collection's key
    pc,             \* how far syncHandler is
    dgsColTemp,     \* its local variable: the cached collection it read
    update,         \* its local variable dgsColToUpdate
    disturbancesLeft

colVars == <<col, colWatch>>
dgsVars == <<dgss, dgsWatch>>
cacheVars == <<colCache, dgsCache>>
syncVars == <<pc, dgsColTemp, update>>
vars == <<colVars, dgsVars, cacheVars, now, requested, syncVars, disturbancesLeft>>

Healths == {"Creating", "Healthy", "Failed"}
Times == Nat \cup {Never}
Collections == [rv : Nat, replicas : Int, lastScale : Times,
                health : Healths \cup {"NeedsIntervention"}]
DGSObjects == [players : Nat, health : Healths]

Init ==
    /\ col = [rv |-> 1, replicas |-> Replicas, lastScale |-> Never, health |-> "Healthy"]
    /\ colWatch = <<>>
    /\ colCache = col
    /\ \E existing \in SUBSET Names :
        /\ Cardinality(existing) = Replicas
        /\ dgss = [n \in Names |-> IF n \in existing
                                   THEN [players |-> 0, health |-> "Healthy"] ELSE None]
    /\ dgsWatch = <<>>
    /\ dgsCache = dgss
    /\ now = 0
    /\ requested = TRUE
    /\ pc = "idle"
    /\ dgsColTemp = None
    /\ update = None
    /\ disturbancesLeft = MaxDisturbances

-----------------------------------------------------------------------------
(* The Kubernetes API server.                                              *)

\* Store new as the next version; nothing happens if nothing changes.
StoreCol(new) ==
    IF [new EXCEPT !.rv = col.rv] = col
    THEN UNCHANGED colVars
    ELSE /\ Len(colWatch) < MaxLag
         /\ col' = [new EXCEPT !.rv = col.rv + 1]
         /\ colWatch' = Append(colWatch, col')

\* Mutant of Current: Updates carry no version.
CurrentAlways(copy) == TRUE

\* An Update is accepted only if it was made from the current version.
Current(copy) == col.rv = copy.rv

SetDGS(n, new) ==
    /\ Len(dgsWatch) < MaxLag
    /\ dgss' = [dgss EXCEPT ![n] = new]
    /\ dgsWatch' = Append(dgsWatch, [name |-> n, obj |-> new])

Members(objs) == {n \in Names : objs[n] # None}
Tick == now < MaxTime /\ now' = now + 1
        /\ UNCHANGED <<colVars, dgsVars, cacheVars, requested, syncVars, disturbancesLeft>>

-----------------------------------------------------------------------------
(* The informers and the autoscaler's event handlers.                      *)

\* Every new version of the collection enqueues it.
DeliverCol ==
    /\ colWatch # <<>>
    /\ colCache' = Head(colWatch)
    /\ colWatch' = Tail(colWatch)
    /\ requested' = TRUE
    /\ UNCHANGED <<col, dgsVars, dgsCache, now, syncVars, disturbancesLeft>>

\* Mutant of DGSEvent: handled on add, not on update.
DGSEventOnAdd(old, new) == requested' = (requested \/ (old = None /\ new # None))

\* An added DGS is not handled, a changed one enqueues its collection; one
\* that leaves has no owner any more, and there is no handler for deletions.
DGSEvent(old, new) == requested' = (requested \/ (old # None /\ new # None))

DeliverDGS ==
    /\ dgsWatch # <<>>
    /\ LET e == Head(dgsWatch)
       IN  /\ dgsCache' = [dgsCache EXCEPT ![e.name] = e.obj]
           /\ DGSEvent(dgsCache[e.name], e.obj)
    /\ dgsWatch' = Tail(dgsWatch)
    /\ UNCHANGED <<colVars, dgss, colCache, now, syncVars, disturbancesLeft>>

-----------------------------------------------------------------------------
(* syncHandler.                                                            *)

\* Mutant of Finish: a decided change is kept for the next sync.
FinishKeepingUpdate == pc' = "idle" /\ dgsColTemp' = None /\ UNCHANGED update

Finish == pc' = "idle" /\ dgsColTemp' = None /\ update' = None

\* An error: processNextWorkItem puts the key back.
Retry == Finish /\ requested' = TRUE

Disturb == disturbancesLeft > 0 /\ disturbancesLeft' = disturbancesLeft - 1

\* Mutant of CoolDownPassed: the whole of the cool-down is not waited for.
CoolDownPassedEarly(c) == c.lastScale = Never \/ now - c.lastScale >= CoolDown

CoolDownPassed(c) == c.lastScale = Never \/ now - c.lastScale > CoolDown

\* The cached collection may be scaled at all; otherwise the key is dropped.
MayScale(c) == c.health = "Healthy" /\ CoolDownPassed(c)

BeginSync ==
    /\ pc = "idle" /\ requested
    /\ requested' = FALSE
    /\ IF MayScale(colCache)
       THEN pc' = "measure" /\ dgsColTemp' = colCache
       ELSE UNCHANGED <<pc, dgsColTemp>>
    /\ UNCHANGED <<colVars, dgsVars, cacheVars, now, update, disturbancesLeft>>

TotalActivePlayers(objs) ==
    LET sum[S \in SUBSET Members(objs)] ==
            IF S = {} THEN 0
            ELSE LET n == CHOOSE n \in S : TRUE IN objs[n].players + sum[S \ {n}]
    IN  sum[Members(objs)]

\* The load against a percentage.  Without any capacity the code divides by
\* zero: no players make a NaN, which is neither above nor below, and some
\* players make an infinite load; the products say the same.
Capacity(objs) == MaxPlayersPerServer * Cardinality(Members(objs))
LoadAbove(objs, percent) == TotalActivePlayers(objs) * 100 > percent * Capacity(objs)
LoadBelow(objs, percent) == TotalActivePlayers(objs) * 100 < percent * Capacity(objs)

WantsOut(objs) ==
    Cardinality(Members(objs)) < MaximumReplicas /\ LoadAbove(objs, ScaleOutThreshold)
WantsIn(objs) ==
    Cardinality(Members(objs)) > MinimumReplicas /\ LoadBelow(objs, ScaleInThreshold)

\* dgsColToUpdate, built from the collection that was read.
ScaledBy(c, change) ==
    [c EXCEPT !.replicas = @ + change, !.lastScale = now, !.health = "Creating"]

\* The DGSs are listed from the cache and the decision is taken.
Measure ==
    /\ pc = "measure"
    /\ \/ /\ WantsOut(dgsCache)
          /\ update' = ScaledBy(dgsColTemp, 1)
          /\ pc' = "update" /\ UNCHANGED dgsColTemp
       \/ /\ ~WantsOut(dgsCache) /\ WantsIn(dgsCache)
          /\ update' = ScaledBy(dgsColTemp, -1)
          /\ pc' = "update" /\ UNCHANGED dgsColTemp
       \/ ~WantsOut(dgsCache) /\ ~WantsIn(dgsCache) /\ Finish
    /\ UNCHANGED <<colVars, dgsVars, cacheVars, now, requested, disturbancesLeft>>

\* The Update; a call that fails may still have been carried out.
Scale ==
    /\ pc = "update"
    /\ Current(update)
    /\ StoreCol(update)
    /\ \/ Finish /\ UNCHANGED <<requested, disturbancesLeft>>
       \/ Disturb /\ Retry
    /\ UNCHANGED <<dgsVars, cacheVars, now>>

ScaleFails ==
    /\ pc = "update"
    /\ \/ ~Current(update) /\ UNCHANGED disturbancesLeft
       \/ Disturb
    /\ Retry
    /\ UNCHANGED <<colVars, dgsVars, cacheVars, now>>

\* The controllers' process ends at any point and starts again.
Restart ==
    /\ Disturb
    /\ colCache' = col /\ colWatch' = <<>>
    /\ dgsCache' = dgss /\ dgsWatch' = <<>>
    /\ Retry
    /\ UNCHANGED <<col, dgss, now>>

-----------------------------------------------------------------------------
(* The collection controller.                                              *)

FailedOnes(objs) == {n \in Members(objs) : objs[n].health = "Failed"}

\* setDedicatedGameServerCollectionHealth.
HealthsFrom(current) ==
    LET unhealthy == {n \in Members(dgsCache) : dgsCache[n].health # "Healthy"}
    IN  IF current = "NeedsIntervention" THEN {current}
        ELSE IF unhealthy = {} THEN {"Healthy"}
        ELSE {dgsCache[n].health : n \in unhealthy}

ReconcileStatuses ==
    /\ col.rv < MaxVersions
    /\ \E h \in HealthsFrom(col.health) : col.health # h /\ StoreCol([col EXCEPT !.health = h])
    /\ UNCHANGED <<dgsVars, cacheVars, now, requested, syncVars, disturbancesLeft>>

\* A failed DGS is let go, or the collection gives up.
HandleDGSFailed ==
    /\ colCache.health # "NeedsIntervention"
    /\ \/ /\ \E n \in FailedOnes(dgsCache) : dgss[n] = dgsCache[n] /\ SetDGS(n, None)
          /\ UNCHANGED colVars
       \/ /\ FailedOnes(dgsCache) # {}
          /\ StoreCol([col EXCEPT !.health = "NeedsIntervention"])
          /\ UNCHANGED dgsVars
    /\ UNCHANGED <<cacheVars, now, requested, syncVars, disturbancesLeft>>

\* Without failed DGSs, one is created or one is let go, towards Replicas.
CompareReplicas ==
    /\ colCache.health # "NeedsIntervention"
    /\ FailedOnes(dgsCache) = {}
    /\ \/ /\ Cardinality(Members(dgsCache)) < colCache.replicas
          /\ \E n \in Names :
                dgss[n] = None /\ SetDGS(n, [players |-> 0, health |-> "Creating"])
       \/ /\ Cardinality(Members(dgsCache)) > colCache.replicas
          /\ \E n \in Members(dgsCache) : dgss[n] = dgsCache[n] /\ SetDGS(n, None)
    /\ UNCHANGED <<colVars, cacheVars, now, requested, syncVars, disturbancesLeft>>

-----------------------------------------------------------------------------
(* Everybody else.                                                         *)

PostPlayers(n, p) ==
    /\ dgss[n] # None /\ dgss[n].players # p
    /\ SetDGS(n, [dgss[n] EXCEPT !.players = p])
    /\ UNCHANGED <<colVars, cacheVars, now, requested, syncVars, disturbancesLeft>>

PostHealth(n, h) ==
    /\ dgss[n] # None /\ dgss[n].health # h
    /\ IF h = "Failed" THEN Disturb ELSE UNCHANGED disturbancesLeft
    /\ SetDGS(n, [dgss[n] EXCEPT !.health = h])
    /\ UNCHANGED <<colVars, cacheVars, now, requested, syncVars>>

ChangeReplicas(r) ==
    /\ Disturb
    /\ r # col.replicas
    /\ StoreCol([col EXCEPT !.replicas = r])
    /\ UNCHANGED <<dgsVars, cacheVars, now, requested, syncVars>>

-----------------------------------------------------------------------------
Informers == DeliverCol \/ DeliverDGS
SyncHandler == BeginSync \/ Measure \/ Scale \/ ScaleFails
CollectionController == ReconcileStatuses \/ HandleDGSFailed \/ CompareReplicas
PlayersMove == \E n \in Names, p \in PlayerCounts : PostPlayers(n, p)
Others ==
    \/ PlayersMove
    \/ \E n \in Names, h \in {"Healthy", "Failed"} : PostHealth(n, h)
    \/ \E r \in ReplicaChoices : ChangeReplicas(r)

Next == Tick \/ Informers \/ SyncHandler \/ Restart \/ CollectionController \/ Others

\* Watches deliver and the worker works.
Fairness == WF_vars(DeliverCol) /\ WF_vars(DeliverDGS) /\ WF_vars(SyncHandler)

Spec == Init /\ [][Next]_vars
FairSpec == Spec /\ Fairness

-----------------------------------------------------------------------------
(* What must hold.                                                         *)

\* Each variable has its type; syncHandler holds a collection exactly while
\* it is under way, and a decision exactly before its Update.
TypeOK ==
    /\ col \in Collections /\ colCache \in Collections
    /\ colWatch \in Seq(Collections)
    /\ dgss \in [Names -> DGSObjects \cup {None}]
    /\ dgsCache \in [Names -> DGSObjects \cup {None}]
    /\ dgsWatch \in Seq([name : Names, obj : DGSObjects \cup {None}])
    /\ now \in Nat
    /\ requested \in BOOLEAN
    /\ pc \in {"idle", "measure", "update"}
    /\ IF pc = "idle" THEN dgsColTemp = None ELSE dgsColTemp \in Collections
    /\ IF pc = "update" THEN update \in Collections ELSE update = None

\* docs/scaling.md: between two scalings more than the cool-down passes,
\* although each is decided on a cached collection which may not show the
\* other one yet, over conflicts, failing calls that succeeded and restarts.
CoolDownIsKept ==
    [][Scale => col.lastScale = Never \/ col'.lastScale - col.lastScale > CoolDown]_vars

\* docs/controllers.md: only a healthy collection is scaled, and by one.
\* What the cache showed still holds of the live collection when the Update
\* arrives: NeedsIntervention is not overwritten with Creating, and nobody's
\* change of Replicas is taken back.
DecisionIsCurrent ==
    [][Scale => /\ col.health = "Healthy"
                /\ col'.replicas \in {col.replicas - 1, col.replicas + 1}]_vars

\* A high load is answered: it cannot be that players keep moving for ever
\* while the load is high, the collection is healthy, smaller than allowed
\* and out of its cool-down.  (Without any movement it can: a collection that
\* is dropped in its cool-down is not looked at until the next event.)
HighLoadIsAnswered ==
    ~(/\ <>[](col.health = "Healthy" /\ CoolDownPassed(col) /\ WantsOut(dgss))
      /\ []<><<PlayersMove>>_vars)

=============================================================================
