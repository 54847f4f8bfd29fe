--------------------------- MODULE AutoScalerProofs ---------------------------
(***************************************************************************)
(* Proofs about AutoScaler, for any game servers, limits and bounds.       *)
(*                                                                         *)
(* The argument: whatever copy of the collection is around, in the watch,  *)
(* in the cache or in syncHandler's hands, it either is the live one or    *)
(* has an older version.  So an Update that is accepted was decided on     *)
(* what is still the live collection, and what held of the copy when it    *)
(* was read holds of the collection when it is scaled; the time that goes  *)
(* by in between only makes the cool-down longer.                          *)
(***************************************************************************)
EXTENDS AutoScaler, TLAPS

\* A copy of the collection: the live one, or one with an older version.
IsCopy(c) == c.rv <= col.rv /\ (c.rv = col.rv => c = col)

CopiesAreOld ==
    /\ IsCopy(colCache)
    /\ \A i \in 1..Len(colWatch) : IsCopy(colWatch[i])
    /\ pc # "idle" => IsCopy(dgsColTemp)

\* The collection in hand was fit for scaling, and still is, for all one
\* can tell from it.
InHandMayScale == pc # "idle" => MayScale(dgsColTemp)

\* The decided change is one step away from the collection in hand.
UpdateIsOneStep ==
    pc = "update" =>
        /\ update.rv = dgsColTemp.rv
        /\ update.replicas \in {dgsColTemp.replicas - 1, dgsColTemp.replicas + 1}
        /\ update.lastScale \in Nat
        /\ dgsColTemp.lastScale = Never
           \/ update.lastScale - dgsColTemp.lastScale > CoolDown

IInv == TypeOK /\ CopiesAreOld /\ InHandMayScale /\ UpdateIsOneStep

-----------------------------------------------------------------------------
\* At the start the cache is the live collection and nothing is in hand.
LEMMA InitIInv == Init => IInv
<1> SUFFICES ASSUME Init PROVE IInv
    OBVIOUS
<1>1. TypeOK
  <2>1. col \in Collections
        BY DetailsAssumption DEF Init, Collections, Times, Healths
  <2>2. dgss \in [Names -> DGSObjects \cup {None}]
        BY DEF Init, DGSObjects, Healths
  <2> QED
        BY <2>1, <2>2 DEF Init, TypeOK
<1>2. CopiesAreOld /\ InHandMayScale /\ UpdateIsOneStep
      BY <1>1 DEF Init, CopiesAreOld, IsCopy, InHandMayScale, UpdateIsOneStep, TypeOK, Collections
<1> QED
    BY <1>1, <1>2 DEF IInv

LEMMA StampedIsCollection ==
    ASSUME NEW c \in Collections, NEW v \in Nat
    PROVE  [c EXCEPT !.rv = v] \in Collections /\ [c EXCEPT !.rv = v].rv = v
BY DEF Collections

\* Storing a collection keeps the types and makes every copy an older one.
LEMMA StoreColKeeps ==
    ASSUME IInv, NEW new \in Collections, StoreCol(new)
    PROVE  /\ col' \in Collections /\ colWatch' \in Seq(Collections)
           /\ \A i \in 1..Len(colWatch') : IsCopy(colWatch[i])'
           /\ \A c \in Collections : IsCopy(c) => IsCopy(c)'
<1>1. CASE UNCHANGED colVars
      BY <1>1 DEF IInv, TypeOK, colVars, CopiesAreOld, IsCopy
<1>2. CASE ~ UNCHANGED colVars
  <2>1. /\ col' = [new EXCEPT !.rv = col.rv + 1]
        /\ colWatch' = Append(colWatch, col')
        BY <1>2 DEF StoreCol
  <2>2. col \in Collections /\ colWatch \in Seq(Collections)
        BY DEF IInv, TypeOK
  <2>3. col' \in Collections /\ col'.rv = col.rv + 1
    <3>1. col.rv + 1 \in Nat
          BY <2>2 DEF Collections
    <3> QED
        BY <3>1, <2>1, StampedIsCollection
  <2>4. \A c \in Collections : IsCopy(c) => IsCopy(c)'
        BY <2>2, <2>3 DEF IsCopy, Collections
  <2>5. ASSUME NEW i \in 1..Len(colWatch') PROVE IsCopy(colWatch[i])'
    <3>1. CASE i \in 1..Len(colWatch)
          BY <3>1, <2>1, <2>2, <2>3, <2>4 DEF IInv, CopiesAreOld
    <3>2. CASE i = Len(colWatch) + 1
      <4>1. colWatch'[i] = col'
            BY <3>2, <2>1, <2>2, <2>3
      <4> QED
            BY <4>1, <2>3 DEF IsCopy, Collections
    <3> QED
        BY <3>1, <3>2, <2>1, <2>2, <2>3
  <2> QED
      BY <2>1, <2>2, <2>3, <2>4, <2>5
<1> QED
    BY <1>1, <1>2

\* Somebody else's write of the collection, with everything else left alone.
LEMMA OthersWriteCol ==
    ASSUME IInv, NEW new \in Collections, StoreCol(new),
           UNCHANGED <<dgsVars, cacheVars, now, requested, syncVars>>
    PROVE  IInv'
<1>1. TypeOK'
      BY StoreColKeeps DEF IInv, TypeOK, dgsVars, cacheVars, syncVars
<1>2. CopiesAreOld'
  <2>1. IsCopy(colCache)'
        BY StoreColKeeps DEF IInv, TypeOK, CopiesAreOld, cacheVars, IsCopy
  <2>2. (pc # "idle" => IsCopy(dgsColTemp))'
        BY StoreColKeeps DEF IInv, TypeOK, CopiesAreOld, syncVars, IsCopy
  <2> QED
      BY <2>1, <2>2, StoreColKeeps DEF CopiesAreOld
<1>3. InHandMayScale' /\ UpdateIsOneStep'
      BY DEF IInv, InHandMayScale, UpdateIsOneStep, MayScale, CoolDownPassed, syncVars
<1> QED
    BY <1>1, <1>2, <1>3 DEF IInv

\* A step that leaves the collection, its copies and syncHandler alone only
\* has types to keep.
LEMMA ElsewhereKeepsIInv ==
    ASSUME IInv, TypeOK', UNCHANGED <<colVars, colCache, syncVars>>, now <= now'
    PROVE  IInv'
<1>1. CopiesAreOld' /\ UpdateIsOneStep'
      BY DEF IInv, CopiesAreOld, IsCopy, UpdateIsOneStep, colVars, syncVars
<1>2. InHandMayScale'
  <2> SUFFICES ASSUME pc # "idle" PROVE MayScale(dgsColTemp)'
      BY DEF InHandMayScale, syncVars
  <2>1. dgsColTemp \in Collections /\ now \in Nat /\ now' \in Nat
        BY DEF IInv, TypeOK
  <2>2. dgsColTemp.lastScale = Never \/ dgsColTemp.lastScale \in Nat
        BY <2>1 DEF Collections, Times
  <2> QED
      BY <2>1, <2>2, TimesAssumption
      DEF IInv, InHandMayScale, MayScale, CoolDownPassed, syncVars
<1> QED
    BY <1>1, <1>2 DEF IInv

LEMMA SetDGSKeeps ==
    ASSUME IInv, NEW n \in Names, NEW new \in DGSObjects \cup {None}, SetDGS(n, new),
           UNCHANGED <<colVars, cacheVars, now, requested, syncVars>>
    PROVE  IInv'
<1>1. TypeOK'
  <2>1. /\ dgss' \in [Names -> DGSObjects \cup {None}]
        /\ dgsWatch' \in Seq([name : Names, obj : DGSObjects \cup {None}])
        BY DEF IInv, TypeOK, SetDGS
  <2> QED
      BY <2>1 DEF IInv, TypeOK, colVars, cacheVars, syncVars
<1> QED
    BY <1>1, ElsewhereKeepsIInv DEF IInv, TypeOK, cacheVars

LEMMA TickKeepsIInv == ASSUME IInv, Tick PROVE IInv'
<1>1. TypeOK' /\ now <= now'
      BY DEF IInv, TypeOK, Tick, colVars, dgsVars, cacheVars, syncVars
<1> QED
    BY <1>1, ElsewhereKeepsIInv DEF Tick, cacheVars

LEMMA HeadAndTail ==
    ASSUME NEW S, NEW s \in Seq(S), s # <<>>
    PROVE  Head(s) \in S /\ Tail(s) \in Seq(S)
OBVIOUS

LEMMA DeliverDGSKeepsIInv == ASSUME IInv, DeliverDGS PROVE IInv'
<1> DEFINE e == Head(dgsWatch)
<1>1. e \in [name : Names, obj : DGSObjects \cup {None}]
      BY HeadAndTail DEF IInv, TypeOK, DeliverDGS
<1>2. dgsWatch' \in Seq([name : Names, obj : DGSObjects \cup {None}])
      BY HeadAndTail DEF IInv, TypeOK, DeliverDGS
<1>3. dgsCache' \in [Names -> DGSObjects \cup {None}]
      BY <1>1 DEF IInv, TypeOK, DeliverDGS
<1>4. requested' \in BOOLEAN
  <2>1. DGSEvent(dgsCache[e.name], e.obj)
        BY DEF DeliverDGS
  <2>2. ASSUME NEW old, NEW new, DGSEvent(old, new) PROVE requested' \in BOOLEAN
        BY <2>2, Zenon DEF DGSEvent
  <2> QED
      BY <2>1, <2>2
<1>5. TypeOK'
      BY <1>2, <1>3, <1>4 DEF IInv, TypeOK, DeliverDGS, colVars, syncVars
<1> QED
    BY <1>5, ElsewhereKeepsIInv DEF IInv, TypeOK, DeliverDGS

LEMMA DeliverColKeepsIInv == ASSUME IInv, DeliverCol PROVE IInv'
<1>1. colWatch # <<>> /\ colWatch \in Seq(Collections)
      BY DEF IInv, TypeOK, DeliverCol
<1>2. /\ colCache' = colWatch[1] /\ colWatch[1] \in Collections
      /\ colWatch' \in Seq(Collections) /\ Len(colWatch') = Len(colWatch) - 1
      /\ \A i \in 1..Len(colWatch') : colWatch'[i] = colWatch[i + 1]
      /\ 1 \in 1..Len(colWatch)
      BY <1>1 DEF DeliverCol
<1>3. TypeOK'
      BY <1>2 DEF IInv, TypeOK, DeliverCol, dgsVars, syncVars
<1>4. CopiesAreOld'
  <2>1. IsCopy(colCache)'
        BY <1>2 DEF IInv, CopiesAreOld, IsCopy, DeliverCol
  <2>2. ASSUME NEW i \in 1..Len(colWatch') PROVE IsCopy(colWatch[i])'
    <3>1. i + 1 \in 1..Len(colWatch)
          BY <1>1, <1>2
    <3> QED
        BY <3>1, <1>2 DEF IInv, CopiesAreOld, IsCopy, DeliverCol
  <2>3. (pc # "idle" => IsCopy(dgsColTemp))'
        BY DEF IInv, CopiesAreOld, IsCopy, DeliverCol, syncVars
  <2> QED
      BY <2>1, <2>2, <2>3 DEF CopiesAreOld
<1>5. InHandMayScale' /\ UpdateIsOneStep'
      BY DEF IInv, InHandMayScale, UpdateIsOneStep, MayScale, CoolDownPassed, DeliverCol, syncVars
<1> QED
    BY <1>3, <1>4, <1>5 DEF IInv

LEMMA BeginSyncKeepsIInv == ASSUME IInv, BeginSync PROVE IInv'
<1>1. CASE MayScale(colCache)
  <2>1. pc = "idle" /\ pc' = "measure" /\ dgsColTemp' = colCache
        BY <1>1 DEF BeginSync
  <2>2. TypeOK'
        BY <2>1 DEF IInv, TypeOK, BeginSync, colVars, dgsVars, cacheVars
  <2>3. CopiesAreOld'
        BY <2>1 DEF IInv, CopiesAreOld, IsCopy, BeginSync, colVars, cacheVars
  <2>4. InHandMayScale' /\ UpdateIsOneStep'
        BY <1>1, <2>1 DEF InHandMayScale, UpdateIsOneStep, MayScale, CoolDownPassed, BeginSync
  <2> QED
      BY <2>2, <2>3, <2>4 DEF IInv
<1>2. CASE ~ MayScale(colCache)
  <2>1. TypeOK'
        BY <1>2 DEF IInv, TypeOK, BeginSync, colVars, dgsVars, cacheVars
  <2>2. UNCHANGED <<colVars, colCache, syncVars>> /\ now' = now
        BY <1>2 DEF BeginSync, syncVars, cacheVars
  <2> QED
      BY <2>1, <2>2, ElsewhereKeepsIInv DEF IInv, TypeOK
<1> QED
    BY <1>1, <1>2

\* The change that was decided has the type of a collection, and was decided
\* at a time that is out of the cool-down.
LEMMA ScaledByIsOneStep ==
    ASSUME NEW c \in Collections, MayScale(c), now \in Nat, NEW change \in {-1, 1}
    PROVE  LET u == ScaledBy(c, change)
           IN  /\ u \in Collections /\ u.rv = c.rv
               /\ u.replicas \in {c.replicas - 1, c.replicas + 1}
               /\ u.lastScale = now
               /\ c.lastScale = Never \/ u.lastScale - c.lastScale > CoolDown
<1> DEFINE u == ScaledBy(c, change)
<1>1. c.replicas + change \in Int
      BY DEF Collections
<1>2. u \in Collections
      BY <1>1 DEF ScaledBy, Collections, Times, Healths
<1>3. /\ u.rv = c.rv /\ u.replicas = c.replicas + change /\ u.lastScale = now
      BY DEF ScaledBy, Collections
<1> QED
    BY <1>1, <1>2, <1>3 DEF MayScale, CoolDownPassed, Collections

LEMMA MeasureKeepsIInv == ASSUME IInv, Measure PROVE IInv'
<1>1. /\ pc = "measure" /\ dgsColTemp \in Collections /\ MayScale(dgsColTemp) /\ now \in Nat
      BY DEF IInv, TypeOK, InHandMayScale, Measure
<1>2. ASSUME NEW change \in {-1, 1}, update' = ScaledBy(dgsColTemp, change),
             pc' = "update", UNCHANGED dgsColTemp
      PROVE  IInv'
  <2>1. /\ update' \in Collections /\ update'.rv = dgsColTemp.rv
        /\ update'.replicas \in {dgsColTemp.replicas - 1, dgsColTemp.replicas + 1}
        /\ update'.lastScale = now
        /\ dgsColTemp.lastScale = Never \/ update'.lastScale - dgsColTemp.lastScale > CoolDown
        BY <1>1, <1>2, ScaledByIsOneStep
  <2>2. TypeOK'
        BY <1>1, <1>2, <2>1 DEF IInv, TypeOK, Measure, colVars, dgsVars, cacheVars
  <2>3. CopiesAreOld'
        BY <1>1, <1>2 DEF IInv, CopiesAreOld, IsCopy, Measure, colVars, cacheVars
  <2>4. InHandMayScale'
        BY <1>1, <1>2 DEF InHandMayScale, MayScale, CoolDownPassed, Measure
  <2>5. UpdateIsOneStep'
        BY <1>1, <1>2, <2>1 DEF UpdateIsOneStep
  <2> QED
      BY <2>2, <2>3, <2>4, <2>5 DEF IInv
<1>3. CASE Finish
  <2>1. TypeOK'
        BY <1>1, <1>3 DEF IInv, TypeOK, Measure, Finish, colVars, dgsVars, cacheVars
  <2>2. CopiesAreOld'
        BY <1>3 DEF IInv, CopiesAreOld, IsCopy, Measure, Finish, colVars, cacheVars
  <2> QED
      BY <1>3, <2>1, <2>2 DEF IInv, Finish, InHandMayScale, UpdateIsOneStep
<1> QED
    BY <1>2, <1>3 DEF Measure

\* With nothing in hand only the types and the copies matter.
LEMMA FinishKeepsIInv ==
    ASSUME IInv, Finish, TypeOK', CopiesAreOld' PROVE IInv'
BY DEF IInv, Finish, InHandMayScale, UpdateIsOneStep

LEMMA ScaleKeepsIInv == ASSUME IInv, Scale PROVE IInv'
<1>1. update \in Collections /\ StoreCol(update)
      BY DEF IInv, TypeOK, Scale
<1>2. Finish /\ requested' \in BOOLEAN
      BY DEF IInv, TypeOK, Scale, Retry
<1>3. TypeOK'
      BY <1>1, <1>2, StoreColKeeps DEF IInv, TypeOK, Scale, Finish, dgsVars, cacheVars
<1>4. CopiesAreOld'
  <2>1. IsCopy(colCache)'
        BY <1>1, StoreColKeeps DEF IInv, TypeOK, CopiesAreOld, IsCopy, Scale, cacheVars
  <2> QED
      BY <1>1, <1>2, <2>1, StoreColKeeps DEF CopiesAreOld, Finish
<1> QED
    BY <1>2, <1>3, <1>4, FinishKeepsIInv

LEMMA ScaleFailsKeepsIInv == ASSUME IInv, ScaleFails PROVE IInv'
<1>1. TypeOK'
      BY DEF IInv, TypeOK, ScaleFails, Retry, Finish, colVars, dgsVars, cacheVars
<1>2. CopiesAreOld'
      BY DEF IInv, CopiesAreOld, IsCopy, ScaleFails, Retry, Finish, colVars, cacheVars
<1> QED
    BY <1>1, <1>2, FinishKeepsIInv DEF ScaleFails, Retry

LEMMA RestartKeepsIInv == ASSUME IInv, Restart PROVE IInv'
<1>1. TypeOK'
      BY DEF IInv, TypeOK, Restart, Retry, Finish
<1>2. CopiesAreOld'
      BY <1>1 DEF TypeOK, Collections, CopiesAreOld, IsCopy, Restart, Retry, Finish
<1> QED
    BY <1>1, <1>2, FinishKeepsIInv DEF Restart, Retry

LEMMA ReconcileKeepsIInv == ASSUME IInv, ReconcileStatuses PROVE IInv'
<1>1. PICK h \in HealthsFrom(col.health) : StoreCol([col EXCEPT !.health = h])
      BY DEF ReconcileStatuses
<1>2. col \in Collections /\ dgsCache \in [Names -> DGSObjects \cup {None}]
      BY DEF IInv, TypeOK
<1>3. h \in Healths \cup {"NeedsIntervention"}
      BY <1>1, <1>2 DEF HealthsFrom, Members, DGSObjects, Healths
<1>4. [col EXCEPT !.health = h] \in Collections
      BY <1>2, <1>3 DEF Collections
<1> QED
    BY <1>1, <1>4, OthersWriteCol DEF ReconcileStatuses

LEMMA HandleDGSFailedKeepsIInv == ASSUME IInv, HandleDGSFailed PROVE IInv'
<1>1. CASE \E n \in FailedOnes(dgsCache) : SetDGS(n, None) /\ UNCHANGED colVars
  <2>1. \E n \in Names : SetDGS(n, None)
        BY <1>1 DEF FailedOnes, Members
  <2> QED
      BY <1>1, <2>1, SetDGSKeeps DEF HandleDGSFailed
<1>2. CASE StoreCol([col EXCEPT !.health = "NeedsIntervention"]) /\ UNCHANGED dgsVars
  <2>1. [col EXCEPT !.health = "NeedsIntervention"] \in Collections
        BY DEF IInv, TypeOK, Collections
  <2> QED
      BY <1>2, <2>1, OthersWriteCol DEF HandleDGSFailed
<1> QED
    BY <1>1, <1>2 DEF HandleDGSFailed

LEMMA CompareReplicasKeepsIInv == ASSUME IInv, CompareReplicas PROVE IInv'
<1>1. [players |-> 0, health |-> "Creating"] \in DGSObjects
      BY DEF DGSObjects, Healths
<1>2. \E n \in Names, new \in DGSObjects \cup {None} : SetDGS(n, new)
      BY <1>1 DEF CompareReplicas, Members
<1> QED
    BY <1>2, SetDGSKeeps DEF CompareReplicas

LEMMA PostsKeepIInv ==
    ASSUME IInv, NEW n \in Names,
           \/ \E p \in PlayerCounts : PostPlayers(n, p)
           \/ \E h \in {"Healthy", "Failed"} : PostHealth(n, h)
    PROVE  IInv'
<1>1. ASSUME NEW p \in PlayerCounts, PostPlayers(n, p) PROVE IInv'
  <2>1. [dgss[n] EXCEPT !.players = p] \in DGSObjects
        BY <1>1, DetailsAssumption DEF IInv, TypeOK, PostPlayers, DGSObjects
  <2> QED
      BY <1>1, <2>1, SetDGSKeeps DEF PostPlayers
<1>2. ASSUME NEW h \in {"Healthy", "Failed"}, PostHealth(n, h) PROVE IInv'
  <2>1. [dgss[n] EXCEPT !.health = h] \in DGSObjects
        BY <1>2 DEF IInv, TypeOK, PostHealth, DGSObjects, Healths
  <2> QED
      BY <1>2, <2>1, SetDGSKeeps DEF PostHealth
<1> QED
    BY <1>1, <1>2

LEMMA ChangeReplicasKeepsIInv ==
    ASSUME IInv, NEW r \in ReplicaChoices, ChangeReplicas(r) PROVE IInv'
<1>1. r \in Int
      BY DetailsAssumption
<1>2. [col EXCEPT !.replicas = r] \in Collections
      BY <1>1 DEF IInv, TypeOK, Collections
<1> QED
    BY <1>2, OthersWriteCol DEF ChangeReplicas

-----------------------------------------------------------------------------
LEMMA NextKeepsIInv == IInv /\ [Next]_vars => IInv'
<1> SUFFICES ASSUME IInv, [Next]_vars PROVE IInv'
    OBVIOUS
<1>1. CASE UNCHANGED vars
  <2>1. TypeOK'
        BY <1>1 DEF IInv, TypeOK, vars, colVars, dgsVars, cacheVars, syncVars
  <2> QED
      BY <1>1, <2>1, ElsewhereKeepsIInv DEF IInv, TypeOK, vars, cacheVars
<1>2. CASE Tick
      BY <1>2, TickKeepsIInv
<1>3. CASE Informers
      BY <1>3, DeliverColKeepsIInv, DeliverDGSKeepsIInv DEF Informers
<1>4. CASE SyncHandler
      BY <1>4, BeginSyncKeepsIInv, MeasureKeepsIInv, ScaleKeepsIInv, ScaleFailsKeepsIInv
      DEF SyncHandler
<1>5. CASE Restart
      BY <1>5, RestartKeepsIInv
<1>6. CASE CollectionController
      BY <1>6, ReconcileKeepsIInv, HandleDGSFailedKeepsIInv, CompareReplicasKeepsIInv
      DEF CollectionController
<1>7. CASE Others
      BY <1>7, PostsKeepIInv, ChangeReplicasKeepsIInv DEF Others, PlayersMove
<1> QED
    BY <1>1, <1>2, <1>3, <1>4, <1>5, <1>6, <1>7 DEF Next

THEOREM Invariance == Spec => []IInv
BY InitIInv, NextKeepsIInv, PTL DEF Spec

\* Type correctness, for any collection, game servers, limits and bounds.
THEOREM TypeCorrect == Spec => []TypeOK
<1>1. IInv => TypeOK
      BY DEF IInv
<1> QED
    BY <1>1, Invariance, PTL

\* What is scaled is what was decided on.
LEMMA ScaledIsInHand ==
    ASSUME IInv, Scale
    PROVE  /\ dgsColTemp = col /\ pc = "update"
           /\ col.replicas \in Int /\ col' = [update EXCEPT !.rv = col.rv + 1]
<1>1. /\ pc = "update" /\ update.rv = col.rv /\ StoreCol(update)
      /\ update \in Collections /\ col \in Collections
      BY DEF IInv, TypeOK, Scale, Current
<1>2. dgsColTemp = col
      BY <1>1 DEF IInv, CopiesAreOld, IsCopy, UpdateIsOneStep
<1>3. [update EXCEPT !.rv = col.rv] # col
  <2>1. update.replicas # col.replicas /\ col.replicas \in Int
        BY <1>1, <1>2 DEF IInv, UpdateIsOneStep, Collections
  <2>2. [update EXCEPT !.rv = col.rv].replicas = update.replicas
        BY <1>1 DEF Collections
  <2> QED
      BY <2>1, <2>2
<1> QED
    BY <1>1, <1>2, <1>3 DEF StoreCol, Collections

LEMMA ScaledFields ==
    ASSUME IInv, Scale
    PROVE  /\ col'.replicas = update.replicas /\ col'.lastScale = update.lastScale
BY ScaledIsInHand DEF IInv, TypeOK, Collections

\* More than the cool-down lies between two scalings, whatever the delays.
THEOREM CoolDownHolds == Spec => CoolDownIsKept
<1>1. IInv => (Scale => col.lastScale = Never \/ col'.lastScale - col.lastScale > CoolDown)
      BY ScaledIsInHand, ScaledFields DEF IInv, UpdateIsOneStep
<1> QED
    BY <1>1, Invariance, PTL DEF Spec, CoolDownIsKept

\* A scaling is by one from what Replicas is now, of a collection that is
\* healthy now, whoever changed it while the decision was made.
THEOREM DecisionsAreCurrent == Spec => DecisionIsCurrent
<1>1. IInv => (Scale => /\ col.health = "Healthy"
                        /\ col'.replicas \in {col.replicas - 1, col.replicas + 1})
      BY ScaledIsInHand, ScaledFields DEF IInv, InHandMayScale, MayScale, UpdateIsOneStep
<1> QED
    BY <1>1, Invariance, PTL DEF Spec, DecisionIsCurrent
=============================================================================
