------------------------- MODULE DGSControllerProofs -------------------------
(***************************************************************************)
(* Proofs about DGSController, for any pods, handlers, posts and bounds.   *)
(*                                                                         *)
(* The argument: whatever copy of the object is around is the live one or  *)
(* has an older version, so an Update that is accepted was made from what  *)
(* is still there (CopiesAreOld).  What the caches lack is on its way      *)
(* (DGSInFlight, PodsInFlight), an object that is gone stays away          *)
(* (GoneIsGone), and while nothing is requested the pod in hand is the one *)
(* the cache holds (PodIsCached).  So as long as the controller is not     *)
(* asked to work, the status agrees with a cached pod, or an event is      *)
(* under way that will ask it (IsSettled).                                 *)
(***************************************************************************)
EXTENDS DGSController, FiniteSetTheorems, TLAPS

\* The same object, except that NewPod may have changed the cached one.
SameButEnv(c, d) ==
    \A f \in {"rv", "marked", "removed", "players", "health", "phase", "node"} : c[f] = d[f]

\* Compared with the live object, if there is one: it, or an older version.
IsCopy(c) == dgs # None /\ c # None => c.rv < dgs.rv \/ SameButEnv(c, dgs)
IsExactCopy(c) == dgs # None /\ c # None => c.rv < dgs.rv \/ c = dgs

CopiesAreOld ==
    /\ IsCopy(dgsCache) /\ IsCopy(dgsTemp)
    /\ \A i \in 1..Len(dgsWatch) : IsExactCopy(dgsWatch[i])
    /\ \A h \in Handlers : posts[h] # None => IsExactCopy(posts[h].copy)

\* A DGS is not created again.
GoneIsGone ==
    /\ \A i \in 1..Len(dgsWatch) : dgsWatch[i] = None => dgs = None
    /\ pc # "idle" => dgsTemp # None /\ (dgsCache = None => dgs = None)

\* What the cache lacks of the object is in the watch.
DGSInFlight ==
    IF dgsWatch = <<>>
    THEN (dgsCache = None) = (dgs = None) /\ IsCopy(dgsCache)
         /\ (dgs # None => SameButEnv(dgsCache, dgs))
    ELSE dgsWatch[Len(dgsWatch)] = dgs

\* What the cache lacks of the pods is in the watch.
NoneAfter(i, p) == \A j \in 1..Len(podWatch) : j > i => podWatch[j].name # p
PodsInFlight ==
    \A p \in Pods :
        \/ podCache[p] = pods[p] /\ NoneAfter(0, p)
        \/ \E i \in 1..Len(podWatch) :
            podWatch[i] = [name |-> p, state |-> pods[p]] /\ NoneAfter(i, p)

\* The pod that UpdateDGS is about to copy from is in the cache, or there is
\* a request to look again.
PodIsCached ==
    pc = "update" =>
        /\ pod # None
        /\ dgs # None /\ ~requested => \E p \in Pods : podCache[p] = pod

\* With nothing requested the status is true to a cached pod, or some event
\* that is on its way will make a request.
SameStatus(a, b) == a.phase = b.phase /\ a.node = b.node
IsSettled ==
    pc = "idle" /\ ~requested /\ dgs # None /\ dgsCache # None =>
        \/ podWatch # <<>>
        \/ ~SameStatus(dgs, dgsCache)
        \/ \E p \in Pods : podCache[p] # None /\ SameStatus(dgs, podCache[p])

IInv ==
    /\ TypeOK /\ CopiesAreOld /\ GoneIsGone /\ DGSInFlight /\ PodsInFlight
    /\ PodIsCached /\ IsSettled

-----------------------------------------------------------------------------
\* The lemmas below cite the parts of the invariant they need; an event of
\* the DGS watch is an object or its deletion.
Objects == DGSObjects \cup {None}
PodEvents == [name : Pods, state : PodStates \cup {None}]
PostStates == [set : Settings, copy : DGSObjects, tries : 1..Retries]

\* At the start the object is on its way to the cache, and that is all.
LEMMA InitIInv == Init => IInv
<1> SUFFICES ASSUME Init PROVE IInv
    OBVIOUS
<1>1. NewDedicatedGameServer \in DGSObjects
      BY DEF NewDedicatedGameServer, DGSObjects, Healths, Phases, Nodes
<1>2. TypeOK
  <2>1. dgsWatch \in Seq(DGSObjects \cup {None}) /\ podWatch \in Seq(PodEvents)
        BY <1>1 DEF Init
  <2>2. requestsLeft \in 0..MaxRequests /\ faultsLeft \in 0..MaxFaults
        BY BoundsAssumption DEF Init
  <2> QED
      BY <1>1, <2>1, <2>2, Zenon DEF Init, TypeOK, PodEvents
<1>3. /\ dgsWatch # <<>> /\ Len(dgsWatch) = 1 /\ dgsWatch[1] = dgs
      /\ dgs # None /\ dgsCache = None /\ pc = "idle" /\ dgsTemp = None
      /\ podWatch = <<>> /\ podCache = pods
      BY <1>1, NoneAssumption DEF Init
<1>4. CopiesAreOld /\ GoneIsGone /\ DGSInFlight
      BY <1>3 DEF Init, CopiesAreOld, IsCopy, IsExactCopy, GoneIsGone, DGSInFlight
<1>5. PodsInFlight /\ PodIsCached /\ IsSettled
      BY <1>3 DEF PodsInFlight, NoneAfter, PodIsCached, IsSettled
<1> QED
    BY <1>2, <1>4, <1>5 DEF IInv

-----------------------------------------------------------------------------
(* What an operation of the store leaves behind.                           *)

LEMMA VersionIsNat == ASSUME NEW d \in DGSObjects PROVE d.rv \in Nat
BY DEF DGSObjects

\* An object with another version keeps its other fields.
LEMMA Stamped ==
    ASSUME NEW d \in DGSObjects, NEW v \in Nat
    PROVE  LET e == [d EXCEPT !.rv = v]
           IN  /\ e \in DGSObjects /\ e.rv = v
               /\ \A f \in {"env", "marked", "removed", "players", "health", "phase", "node"} :
                    e[f] = d[f]
BY DEF DGSObjects

\* Storing a new version makes every copy an older one, and puts it at the
\* end of the watch.
LEMMA StoreKeeps ==
    ASSUME TypeOK, CopiesAreOld, GoneIsGone, DGSInFlight,
           dgs # None, NEW new \in DGSObjects, Store(new), UNCHANGED dgsCache
    PROVE  /\ dgs' \in DGSObjects /\ dgs' # None /\ dgsWatch' \in Seq(Objects)
           /\ \A c \in Objects : (IsCopy(c) => IsCopy(c)') /\ (IsExactCopy(c) => IsExactCopy(c)')
           /\ \A i \in 1..Len(dgsWatch') : IsExactCopy(dgsWatch[i])' /\ dgsWatch'[i] # None
           /\ DGSInFlight'
           /\ \A f \in {"env", "marked", "removed", "players", "health", "phase", "node"} :
                dgs'[f] = new[f]
<1>1. dgs \in DGSObjects /\ dgsWatch \in Seq(Objects) /\ None \notin DGSObjects
      BY NoneAssumption DEF TypeOK, Objects
<1>2. CASE new = dgs
  <2>1. dgs' = dgs /\ dgsWatch' = dgsWatch /\ dgsCache' = dgsCache
        BY <1>2 DEF Store, dgsVars
  <2>2. \A c : IsCopy(c)' = IsCopy(c) /\ IsExactCopy(c)' = IsExactCopy(c)
        BY <2>1 DEF IsCopy, IsExactCopy
  <2>3. \A i \in 1..Len(dgsWatch) : IsExactCopy(dgsWatch[i])' /\ dgsWatch[i] # None
        BY <2>1 DEF CopiesAreOld, GoneIsGone, IsExactCopy
  <2>4. DGSInFlight'
        BY <2>1 DEF DGSInFlight, IsCopy
  <2> QED
      BY <1>1, <1>2, <2>1, <2>2, <2>3, <2>4
<1>3. CASE new # dgs
  <2>1. /\ dgs' = [new EXCEPT !.rv = dgs.rv + 1]
        /\ dgsWatch' = Append(dgsWatch, dgs')
        BY <1>3 DEF Store
  <2>2. dgs.rv \in Nat /\ dgs.rv + 1 \in Nat
        BY <1>1, VersionIsNat
  <2>3. /\ dgs' \in DGSObjects /\ dgs'.rv = dgs.rv + 1
        /\ \A f \in {"env", "marked", "removed", "players", "health", "phase", "node"} :
                dgs'[f] = new[f]
        BY <2>1, <2>2, Stamped
  <2>4. \A c \in Objects : c = None \/ c.rv \in Nat
        BY VersionIsNat DEF Objects
  <2>5. \A c \in Objects : (IsCopy(c) => IsCopy(c)') /\ (IsExactCopy(c) => IsExactCopy(c)')
        BY <1>1, <2>2, <2>3, <2>4 DEF IsCopy, IsExactCopy, SameButEnv
  <2>6. /\ dgsWatch' \in Seq(Objects) /\ dgsWatch' # <<>>
        /\ Len(dgsWatch') = Len(dgsWatch) + 1 /\ dgsWatch'[Len(dgsWatch')] = dgs'
        /\ \A i \in 1..Len(dgsWatch) : dgsWatch'[i] = dgsWatch[i] /\ dgsWatch[i] \in Objects
        BY <1>1, <2>1, <2>3 DEF Objects
  <2>7. ASSUME NEW i \in 1..Len(dgsWatch')
        PROVE  IsExactCopy(dgsWatch[i])' /\ dgsWatch'[i] # None
    <3>1. CASE i \in 1..Len(dgsWatch)
          BY <3>1, <2>5, <2>6 DEF CopiesAreOld, GoneIsGone, IsExactCopy
    <3>2. CASE i = Len(dgsWatch')
          BY <3>2, <2>3, <2>6, <1>1 DEF IsExactCopy
    <3> QED
        BY <3>1, <3>2, <2>6, <1>1
  <2>8. DGSInFlight'
        BY <2>6 DEF DGSInFlight
  <2> QED
      BY <1>1, <2>3, <2>5, <2>6, <2>7, <2>8
<1> QED
    BY <1>2, <1>3

\* After a deletion there is nothing that a copy could be compared with.
LEMMA RemoveKeeps ==
    ASSUME TypeOK, CopiesAreOld, GoneIsGone, Remove, UNCHANGED dgsCache
    PROVE  /\ dgs' = None /\ dgsWatch' \in Seq(Objects)
           /\ DGSInFlight' /\ \A c : IsCopy(c)' /\ IsExactCopy(c)'
<1>1. dgs' = None /\ dgsWatch' = Append(dgsWatch, None) /\ dgsWatch \in Seq(Objects)
      BY DEF TypeOK, Remove, Objects
<1>2. /\ dgsWatch' \in Seq(Objects) /\ dgsWatch' # <<>>
      /\ dgsWatch'[Len(dgsWatch')] = None
      BY <1>1 DEF Objects
<1> QED
    BY <1>1, <1>2 DEF DGSInFlight, IsCopy, IsExactCopy

\* A change of a pod is at the end of the watch.
LEMMA SetPodKeeps ==
    ASSUME TypeOK, PodsInFlight, NEW p \in Pods, NEW state \in PodStates \cup {None},
           SetPod(p, state), UNCHANGED podCache
    PROVE  /\ pods' \in [Pods -> PodStates \cup {None}] /\ podWatch' \in Seq(PodEvents)
           /\ podWatch' # <<>> /\ PodsInFlight'
<1>1. /\ pods' = [pods EXCEPT ![p] = state]
      /\ podWatch' = Append(podWatch, [name |-> p, state |-> state])
      /\ podWatch \in Seq(PodEvents) /\ pods \in [Pods -> PodStates \cup {None}]
      BY DEF TypeOK, SetPod, PodEvents
<1> DEFINE e == [name |-> p, state |-> state]
<1>2. e \in PodEvents /\ e.name = p
      BY DEF PodEvents
<1>3. /\ pods' \in [Pods -> PodStates \cup {None}] /\ podWatch' \in Seq(PodEvents)
      /\ podWatch' # <<>> /\ Len(podWatch') = Len(podWatch) + 1
      /\ podWatch'[Len(podWatch')] = e
      /\ \A i \in 1..Len(podWatch) : podWatch'[i] = podWatch[i]
      BY <1>1, <1>2
<1>4. ASSUME NEW q \in Pods
      PROVE  \/ podCache'[q] = pods'[q] /\ NoneAfter(0, q)'
             \/ \E i \in 1..Len(podWatch') :
                    podWatch'[i] = [name |-> q, state |-> pods'[q]] /\ NoneAfter(i, q)'
  <2>1. CASE q = p
    <3>1. Len(podWatch') \in 1..Len(podWatch') /\ NoneAfter(Len(podWatch), q)'
          BY <1>1, <1>3 DEF NoneAfter
    <3>2. pods'[q] = state
          BY <1>1, <2>1
    <3> QED
        BY <3>1, <3>2, <1>3, <2>1
  <2>2. CASE q # p
    <3>1. pods'[q] = pods[q]
          BY <1>1, <2>2
    <3>2. \A i \in Nat : NoneAfter(i, q) => NoneAfter(i, q)'
          BY <1>1, <1>2, <1>3, <2>2 DEF NoneAfter
    <3>3. CASE podCache[q] = pods[q] /\ NoneAfter(0, q)
          BY <3>1, <3>2, <3>3
    <3>4. ASSUME NEW i \in 1..Len(podWatch), NoneAfter(i, q),
                 podWatch[i] = [name |-> q, state |-> pods[q]]
          PROVE  \E j \in 1..Len(podWatch') :
                    podWatch'[j] = [name |-> q, state |-> pods'[q]] /\ NoneAfter(j, q)'
      <4>1. i \in 1..Len(podWatch') /\ i \in Nat
            BY <1>1, <1>3
      <4> QED
          BY <4>1, <3>1, <3>2, <3>4, <1>3
    <3> QED
        BY <3>3, <3>4 DEF PodsInFlight
  <2> QED
      BY <2>1, <2>2
<1> QED
    BY <1>3, <1>4 DEF PodsInFlight

LEMMA TailOf ==
    ASSUME NEW S, NEW s \in Seq(S), s # <<>>
    PROVE  /\ Head(s) = s[1] /\ Head(s) \in S /\ Tail(s) \in Seq(S)
           /\ Len(s) \in Nat /\ 1 \in 1..Len(s) /\ Len(Tail(s)) = Len(s) - 1
           /\ \A i \in 1..Len(Tail(s)) : i + 1 \in 1..Len(s) /\ Tail(s)[i] = s[i + 1]
           /\ IF Tail(s) = <<>> THEN s[Len(s)] = Head(s)
              ELSE Tail(s)[Len(Tail(s))] = s[Len(s)]
OBVIOUS

-----------------------------------------------------------------------------
(* The informers.                                                          *)

\* If the event makes no request then none was made before, and the status
\* has not changed.
LEMMA UnrequestedEvent ==
    ASSUME requested \in BOOLEAN, NEW old, NEW new, DGSEvent(old, new)
    PROVE  /\ requested' \in BOOLEAN /\ (requested => requested')
           /\ ~requested' /\ new # None => old # None /\ SameStatus(old, new)
<1>1. requested' = (requested \/ (new # None /\ (old = None \/ HasDGSChanged(old, new))))
      BY DEF DGSEvent
<1>2. ~HasDGSChanged(old, new) => old["phase"] = new["phase"] /\ old["node"] = new["node"]
      BY DEF HasDGSChanged
<1> QED
    BY <1>1, <1>2, Zenon DEF SameStatus

\* A new object in the cache, with no change of the live one.
LEMMA CacheKeepsIInv ==
    ASSUME IInv, NEW new \in Objects, dgsCache' = new, DGSEvent(dgsCache, new),
           IsExactCopy(new), new = None => dgs = None, dgsWatch' \in Seq(Objects),
           \A i \in 1..Len(dgsWatch') : \E j \in 1..Len(dgsWatch) : dgsWatch'[i] = dgsWatch[j],
           IF dgsWatch' = <<>> THEN new = dgs ELSE dgsWatch'[Len(dgsWatch')] = dgs,
           UNCHANGED <<dgs, podVars, podCache, syncVars, apiVars, faultsLeft>>
    PROVE  IInv'
<1> USE DEF podVars, syncVars, apiVars
<1>1. requested \in BOOLEAN
      BY DEF IInv, TypeOK
<1>2. /\ requested' \in BOOLEAN /\ (requested => requested')
      /\ ~requested' /\ new # None => dgsCache # None /\ SameStatus(dgsCache, new)
      BY <1>1, UnrequestedEvent
<1>3. TypeOK'
      BY <1>2 DEF IInv, TypeOK, Objects
<1>4. CopiesAreOld'
  <2>1. IsCopy(dgsCache)'
        BY DEF IsExactCopy, IsCopy, SameButEnv
  <2>2. IsCopy(dgsTemp)'
        BY DEF IInv, CopiesAreOld, IsCopy
  <2>3. \A i \in 1..Len(dgsWatch') : IsExactCopy(dgsWatch[i])'
        BY DEF IInv, CopiesAreOld, IsExactCopy
  <2>4. \A h \in Handlers : posts'[h] # None => IsExactCopy(posts[h].copy)'
        BY DEF IInv, CopiesAreOld, IsExactCopy
  <2> QED
      BY <2>1, <2>2, <2>3, <2>4 DEF CopiesAreOld
<1>5. GoneIsGone'
      BY DEF IInv, GoneIsGone
<1>6. DGSInFlight'
      BY DEF DGSInFlight, IsCopy, SameButEnv
<1>7. PodsInFlight'
      BY DEF IInv, PodsInFlight, NoneAfter
<1>8. PodIsCached'
      BY <1>2 DEF IInv, PodIsCached
<1>9. IsSettled'
  <2> SUFFICES ASSUME pc = "idle", ~requested', dgs # None, new # None
               PROVE  \/ podWatch # <<>>
                      \/ ~SameStatus(dgs, new)
                      \/ \E p \in Pods : podCache[p] # None /\ SameStatus(dgs, podCache[p])
      BY DEF IsSettled, SameStatus
  <2> QED
      BY <1>2 DEF IInv, IsSettled, SameStatus
<1> QED
    BY <1>3, <1>4, <1>5, <1>6, <1>7, <1>8, <1>9 DEF IInv

LEMMA DeliverDGSKeepsIInv == ASSUME IInv, DeliverDGS PROVE IInv'
<1> DEFINE new == Head(dgsWatch)
<1>1. dgsWatch \in Seq(Objects) /\ dgsWatch # <<>> /\ dgsWatch' = Tail(dgsWatch)
      BY DEF IInv, TypeOK, DeliverDGS, Objects
<1>2. /\ new = dgsWatch[1] /\ new \in Objects /\ dgsWatch' \in Seq(Objects)
      /\ 1 \in 1..Len(dgsWatch)
      /\ \A i \in 1..Len(dgsWatch') : \E j \in 1..Len(dgsWatch) : dgsWatch'[i] = dgsWatch[j]
      /\ IF dgsWatch' = <<>> THEN dgsWatch[Len(dgsWatch)] = new
         ELSE dgsWatch'[Len(dgsWatch')] = dgsWatch[Len(dgsWatch)]
      BY <1>1, TailOf
<1>3. dgsWatch[Len(dgsWatch)] = dgs
      BY <1>1 DEF IInv, DGSInFlight
<1>4. IsExactCopy(new) /\ (new = None => dgs = None)
      BY <1>2 DEF IInv, CopiesAreOld, GoneIsGone
<1> QED
    BY <1>2, <1>3, <1>4, CacheKeepsIInv DEF DeliverDGS

LEMMA RelistDGSKeepsIInv == ASSUME IInv, RelistDGS PROVE IInv'
<1>1. dgs \in Objects /\ dgsWatch' \in Seq(Objects) /\ Len(dgsWatch') = 0
      BY DEF IInv, TypeOK, RelistDGS, Objects
<1> QED
    BY <1>1, CacheKeepsIInv DEF RelistDGS, IsExactCopy

LEMMA DeliverPodKeepsIInv == ASSUME IInv, DeliverPod PROVE IInv'
<1> USE DEF cacheVars, syncVars, apiVars, dgsVars
<1> DEFINE e == Head(podWatch)
<1>1. podWatch \in Seq(PodEvents) /\ podWatch # <<>> /\ podWatch' = Tail(podWatch)
      BY DEF IInv, TypeOK, DeliverPod, PodEvents
<1>2. /\ e = podWatch[1] /\ e \in PodEvents /\ podWatch' \in Seq(PodEvents)
      /\ Len(podWatch) \in Nat /\ 1 \in 1..Len(podWatch) /\ Len(podWatch') = Len(podWatch) - 1
      /\ \A i \in 1..Len(podWatch') :
            i + 1 \in 1..Len(podWatch) /\ podWatch'[i] = podWatch[i + 1]
      BY <1>1, TailOf
<1>3. /\ podCache' = [podCache EXCEPT ![e.name] = e.state]
      /\ podCache \in [Pods -> PodStates \cup {None}]
      /\ e.name \in Pods /\ e.state \in PodStates \cup {None}
      BY <1>2 DEF IInv, TypeOK, DeliverPod, PodEvents
<1>4. requested' \in BOOLEAN /\ (dgsCache # None => requested')
  <2>1. requested \in BOOLEAN /\ requested' = (requested \/ dgsCache # None)
        BY DEF IInv, TypeOK, DeliverPod, PodEvent
  <2> QED
      BY <2>1, Zenon
<1>5. TypeOK'
      BY <1>2, <1>3, <1>4 DEF IInv, TypeOK, DeliverPod, PodEvents
<1>6. CopiesAreOld' /\ GoneIsGone' /\ DGSInFlight'
      BY DEF IInv, CopiesAreOld, IsCopy, IsExactCopy, SameButEnv, GoneIsGone, DGSInFlight,
             DeliverPod
<1>7. PodsInFlight'
  <2> SUFFICES ASSUME NEW p \in Pods
               PROVE  \/ podCache'[p] = pods'[p] /\ NoneAfter(0, p)'
                      \/ \E i \in 1..Len(podWatch') :
                            /\ podWatch'[i] = [name |-> p, state |-> pods'[p]]
                            /\ NoneAfter(i, p)'
      BY DEF PodsInFlight
  <2>0. pods' = pods
        BY DEF DeliverPod
  <2>1. ASSUME NEW i \in Nat, NoneAfter(i, p) PROVE NoneAfter(IF i = 0 THEN 0 ELSE i - 1, p)'
        BY <2>1, <1>2 DEF NoneAfter
  <2>2. CASE podCache[p] = pods[p] /\ NoneAfter(0, p)
    <3>1. e.name # p
          BY <1>2, <2>2 DEF NoneAfter
    <3> QED
        BY <3>1, <1>3, <2>0, <2>1, <2>2
  <2>3. ASSUME NEW i \in 1..Len(podWatch), NoneAfter(i, p),
               podWatch[i] = [name |-> p, state |-> pods[p]]
        PROVE  \/ podCache'[p] = pods'[p] /\ NoneAfter(0, p)'
               \/ \E j \in 1..Len(podWatch') :
                    /\ podWatch'[j] = [name |-> p, state |-> pods'[p]]
                    /\ NoneAfter(j, p)'
    <3>1. CASE i = 1
      <4>1. podCache'[p] = pods[p]
            BY <3>1, <2>3, <1>2, <1>3
      <4>2. NoneAfter(0, p)'
            BY <3>1, <2>1, <2>3, <1>2
      <4> QED
          BY <4>1, <4>2, <2>0
    <3>2. CASE i # 1
      <4>1. i - 1 \in 1..Len(podWatch') /\ i \in Nat /\ i # 0
            BY <3>2, <1>2
      <4>2. podWatch'[i - 1] = podWatch[i]
            BY <4>1, <1>2
      <4>3. NoneAfter(i - 1, p)'
            BY <4>1, <2>1, <2>3
      <4> QED
          BY <4>1, <4>2, <4>3, <2>0, <2>3
    <3> QED
        BY <3>1, <3>2
  <2> QED
      BY <2>2, <2>3 DEF IInv, PodsInFlight
<1>8. PodIsCached'
      BY <1>4 DEF IInv, PodIsCached, GoneIsGone, DeliverPod
<1>9. IsSettled'
      BY <1>4 DEF IsSettled, DeliverPod
<1> QED
    BY <1>5, <1>6, <1>7, <1>8, <1>9 DEF IInv

-----------------------------------------------------------------------------
(* syncHandler.                                                            *)

LEMMA BeginSyncKeepsIInv == ASSUME IInv, BeginSync PROVE IInv'
<1> USE DEF dgsVars, podVars, cacheVars, apiVars
<1>1. /\ dgsTemp' = dgsCache /\ pc' \in {"idle", "delete", "find"} /\ requested' = FALSE
      /\ pc' = "idle" <=> dgsCache = None
      BY DEF BeginSync
<1>2. TypeOK'
      BY <1>1 DEF IInv, TypeOK, BeginSync
<1>3. CopiesAreOld' /\ DGSInFlight' /\ PodsInFlight'
      BY <1>1 DEF IInv, CopiesAreOld, IsCopy, IsExactCopy, SameButEnv, DGSInFlight,
                  PodsInFlight, NoneAfter, BeginSync
<1>4. GoneIsGone' /\ PodIsCached' /\ IsSettled'
      BY <1>1 DEF IInv, GoneIsGone, PodIsCached, IsSettled, BeginSync
<1> QED
    BY <1>2, <1>3, <1>4 DEF IInv

LEMMA FindPodKeepsIInv == ASSUME IInv, FindPod PROVE IInv'
<1> USE DEF dgsVars, podVars, cacheVars, apiVars
<1>1. /\ pc = "find" /\ pc' \in {"create", "update"}
      /\ pc' = "update" => \E p \in Pods : pod' = podCache[p] /\ podCache[p] # None
      /\ pc' = "create" => pod' = pod
      BY DEF FindPod
<1>2. pod' \in PodStates \cup {None}
      BY <1>1 DEF IInv, TypeOK
<1>3. TypeOK'
      BY <1>1, <1>2 DEF IInv, TypeOK, FindPod
<1>4. CopiesAreOld' /\ DGSInFlight' /\ PodsInFlight'
      BY DEF IInv, CopiesAreOld, IsCopy, IsExactCopy, SameButEnv, DGSInFlight,
             PodsInFlight, NoneAfter, FindPod
<1>5. GoneIsGone' /\ PodIsCached' /\ IsSettled'
      BY <1>1 DEF IInv, GoneIsGone, PodIsCached, IsSettled, FindPod
<1> QED
    BY <1>3, <1>4, <1>5 DEF IInv

\* At the end of a sync only what the store and the caches hold matters, and
\* the status unless the key is put back.
LEMMA FinishKeepsIInv ==
    ASSUME IInv, Finish, requested' \in BOOLEAN, faultsLeft' \in 0..MaxFaults,
           dgs' \in Objects, dgsWatch' \in Seq(Objects), dgsCache' \in Objects,
           freshPods' \subseteq Pods, UNCHANGED <<podCache, apiVars>>,
           pods' \in [Pods -> PodStates \cup {None}], podWatch' \in Seq(PodEvents),
           IsCopy(dgsCache)', \A i \in 1..Len(dgsWatch') : IsExactCopy(dgsWatch[i])',
           \A i \in 1..Len(dgsWatch') : dgsWatch'[i] = None => dgs' = None,
           \A c \in Objects : IsExactCopy(c) => IsExactCopy(c)',
           DGSInFlight', PodsInFlight', IsSettled'
    PROVE  IInv'
<1> USE DEF apiVars
<1>1. TypeOK'
      BY DEF IInv, TypeOK, Finish, Objects, PodEvents
<1>2. CopiesAreOld'
  <2>1. \A h \in Handlers : posts'[h] # None => IsExactCopy(posts[h].copy)'
    <3> SUFFICES ASSUME NEW h \in Handlers, posts[h] # None
                 PROVE  IsExactCopy(posts[h].copy)'
        OBVIOUS
    <3>1. posts[h].copy \in Objects /\ IsExactCopy(posts[h].copy)
          BY DEF IInv, TypeOK, CopiesAreOld, Objects
    <3> QED
        BY <3>1 DEF IsExactCopy
  <2> QED
      BY <2>1 DEF CopiesAreOld, Finish, IsCopy
<1>3. GoneIsGone' /\ PodIsCached'
      BY DEF GoneIsGone, PodIsCached, Finish
<1> QED
    BY <1>1, <1>2, <1>3 DEF IInv

\* A sync that ends in an error without having done anything.
LEMMA RetryKeepsIInv ==
    ASSUME IInv, Retry, faultsLeft' \in 0..MaxFaults,
           UNCHANGED <<dgsVars, podVars, cacheVars, apiVars>>
    PROVE  IInv'
<1> USE DEF dgsVars, podVars, cacheVars
<1>1. requested' \in BOOLEAN /\ Finish /\ IsSettled'
      BY DEF Retry, IsSettled
<1>2. /\ IsCopy(dgsCache)' /\ \A i \in 1..Len(dgsWatch') : IsExactCopy(dgsWatch[i])'
      /\ \A i \in 1..Len(dgsWatch') : dgsWatch'[i] = None => dgs' = None
      /\ \A c \in Objects : IsExactCopy(c) => IsExactCopy(c)'
      BY DEF IInv, CopiesAreOld, IsCopy, IsExactCopy, SameButEnv, GoneIsGone
<1>3. DGSInFlight' /\ PodsInFlight'
      BY DEF IInv, DGSInFlight, IsCopy, SameButEnv, PodsInFlight, NoneAfter
<1>4. /\ dgs' \in Objects /\ dgsWatch' \in Seq(Objects) /\ dgsCache' \in Objects
      /\ freshPods' \subseteq Pods
      /\ pods' \in [Pods -> PodStates \cup {None}] /\ podWatch' \in Seq(PodEvents)
      BY DEF IInv, TypeOK, Objects, PodEvents
<1> QED
    BY <1>1, <1>2, <1>3, <1>4, FinishKeepsIInv

LEMMA FaultsLeft ==
    ASSUME IInv, CallFails \/ UNCHANGED faultsLeft PROVE faultsLeft' \in 0..MaxFaults
BY BoundsAssumption DEF IInv, TypeOK, CallFails

LEMMA DeleteDGSKeepsIInv == ASSUME IInv, DeleteDGS PROVE IInv'
<1>1. CASE Retry /\ UNCHANGED dgsVars /\ (CallFails \/ UNCHANGED faultsLeft)
      BY <1>1, FaultsLeft, RetryKeepsIInv DEF DeleteDGS
<1>2. CASE Remove /\ Finish /\ (CallFails \/ UNCHANGED faultsLeft)
           /\ (requested' = TRUE \/ UNCHANGED requested)
  <2>1. /\ dgs' = None /\ dgsWatch' \in Seq(Objects)
        /\ DGSInFlight' /\ \A c : IsCopy(c)' /\ IsExactCopy(c)'
        BY <1>2, RemoveKeeps DEF IInv, DeleteDGS, cacheVars
  <2>2. dgs' \in Objects /\ dgsCache' \in Objects /\ IsSettled'
        BY <2>1 DEF IInv, TypeOK, DeleteDGS, cacheVars, Objects, IsSettled
  <2>3. /\ freshPods' \subseteq Pods /\ pods' \in [Pods -> PodStates \cup {None}]
        /\ podWatch' \in Seq(PodEvents) /\ requested' \in BOOLEAN
        /\ faultsLeft' \in 0..MaxFaults
        BY <1>2, FaultsLeft DEF IInv, TypeOK, DeleteDGS, podVars, PodEvents
  <2>4. PodsInFlight'
        BY DEF IInv, DeleteDGS, podVars, cacheVars, PodsInFlight, NoneAfter
  <2>5. IsCopy(dgsCache)' /\ \A i \in 1..Len(dgsWatch') : IsExactCopy(dgsWatch[i])'
        BY <2>1 DEF IsCopy, IsExactCopy
  <2> QED
      BY <1>2, <2>1, <2>2, <2>3, <2>4, <2>5, FinishKeepsIInv DEF DeleteDGS, cacheVars
<1> QED
    BY <1>1, <1>2 DEF DeleteDGS, Retry

\* What NewPod does to the cached object is no difference that counts.
LEMMA AppendEnvKeeps ==
    ASSUME IInv, AppendEnvToCachedDGS, UNCHANGED dgsVars
    PROVE  dgsCache' \in Objects /\ IsCopy(dgsCache)' /\ DGSInFlight'
<1>1. CASE dgsCache' = dgsCache
      BY <1>1 DEF IInv, TypeOK, Objects, CopiesAreOld, IsCopy, SameButEnv, DGSInFlight, dgsVars
<1>2. CASE dgsCache # None /\ dgsCache' = [dgsCache EXCEPT !.env = TRUE]
  <2>1. dgsCache \in DGSObjects
        BY <1>2 DEF IInv, TypeOK
  <2>2. /\ dgsCache' \in DGSObjects
        /\ \A f \in {"rv", "marked", "removed", "players", "health", "phase", "node"} :
                dgsCache'[f] = dgsCache[f]
        BY <1>2, <2>1 DEF DGSObjects
  <2>3. dgsCache' # None
        BY <2>2, NoneAssumption
  <2>4. dgsCache' \in Objects /\ IsCopy(dgsCache)'
        BY <1>2, <2>2 DEF Objects, IInv, CopiesAreOld, IsCopy, SameButEnv, dgsVars
  <2> QED
      BY <1>2, <2>2, <2>3, <2>4 DEF IInv, DGSInFlight, SameButEnv, dgsVars
<1> QED
    BY <1>1, <1>2 DEF AppendEnvToCachedDGS

LEMMA CreateNewPodKeepsIInv == ASSUME IInv, CreateNewPod PROVE IInv'
<1> USE DEF apiVars
<1>1. /\ AppendEnvToCachedDGS /\ UNCHANGED <<dgsVars, podCache, apiVars>> /\ Finish
      /\ CallFails \/ UNCHANGED faultsLeft
      /\ requested' = TRUE \/ UNCHANGED requested
      BY DEF CreateNewPod, Retry
<1>2. dgsCache' \in Objects /\ IsCopy(dgsCache)' /\ DGSInFlight'
      BY <1>1, AppendEnvKeeps
<1>3. /\ dgs' \in Objects /\ dgsWatch' \in Seq(Objects) /\ requested' \in BOOLEAN
      /\ faultsLeft' \in 0..MaxFaults
      BY <1>1, FaultsLeft DEF IInv, TypeOK, Objects, dgsVars
<1>4. /\ \A i \in 1..Len(dgsWatch') : IsExactCopy(dgsWatch[i])'
      /\ \A i \in 1..Len(dgsWatch') : dgsWatch'[i] = None => dgs' = None
      /\ \A c \in Objects : IsExactCopy(c) => IsExactCopy(c)'
      BY <1>1 DEF IInv, CopiesAreOld, IsExactCopy, GoneIsGone, dgsVars
<1>5. /\ freshPods' \subseteq Pods /\ pods' \in [Pods -> PodStates \cup {None}]
      /\ podWatch' \in Seq(PodEvents) /\ PodsInFlight' /\ IsSettled'
  <2>1. CASE UNCHANGED podVars /\ Retry
        BY <1>1, <2>1 DEF IInv, TypeOK, PodEvents, podVars, PodsInFlight, NoneAfter,
                          Retry, IsSettled
  <2>2. ASSUME NEW p \in freshPods, SetPod(p, [phase |-> "Pending", node |-> ""]),
               freshPods' = freshPods \ {p}
        PROVE  /\ freshPods' \subseteq Pods /\ pods' \in [Pods -> PodStates \cup {None}]
               /\ podWatch' \in Seq(PodEvents) /\ PodsInFlight' /\ IsSettled'
    <3>1. p \in Pods /\ freshPods' \subseteq Pods
          BY <2>2 DEF IInv, TypeOK
    <3>2. [phase |-> "Pending", node |-> ""] \in PodStates
          BY DEF PodStates, Phases, Nodes
    <3> QED
        BY <1>1, <2>2, <3>1, <3>2, SetPodKeeps DEF IInv, IsSettled
  <2> QED
      BY <2>1, <2>2 DEF CreateNewPod
<1> QED
    BY <1>1, <1>2, <1>3, <1>4, <1>5, FinishKeepsIInv

\* The object that UpdateDGS sends: that of the cache, with the pod's status.
WithStatus(d, p) == [d EXCEPT !.phase = p.phase, !.node = p.node]

LEMMA WithStatusIsObject ==
    ASSUME NEW d \in DGSObjects, NEW p \in PodStates
    PROVE  /\ WithStatus(d, p) \in DGSObjects /\ SameStatus(WithStatus(d, p), p)
           /\ \A f \in {"rv", "env", "marked", "removed", "players", "health"} :
                WithStatus(d, p)[f] = d[f]
BY DEF WithStatus, SameStatus, DGSObjects, PodStates

LEMMA UpdateDGSKeepsIInv == ASSUME IInv, UpdateDGS PROVE IInv'
<1> USE DEF apiVars
<1>1. CASE Retry /\ UNCHANGED dgsVars /\ (CallFails \/ UNCHANGED faultsLeft)
      BY <1>1, FaultsLeft, RetryKeepsIInv DEF UpdateDGS
<1>2. CASE /\ Current(dgsTemp) /\ Store(WithStatus(dgsTemp, pod)) /\ Finish
           /\ CallFails \/ UNCHANGED faultsLeft
           /\ requested' = TRUE \/ UNCHANGED requested
  <2>1. /\ dgsTemp \in DGSObjects /\ pod \in PodStates /\ dgs # None
        /\ dgsCache \in Objects /\ UNCHANGED dgsCache
        BY <1>2 DEF IInv, TypeOK, GoneIsGone, PodIsCached, UpdateDGS, Current, Objects, cacheVars
  <2> DEFINE new == WithStatus(dgsTemp, pod)
  <2>2. new \in DGSObjects /\ SameStatus(new, pod)
        BY <2>1, WithStatusIsObject
  <2>3. /\ dgs' \in DGSObjects /\ dgs' # None /\ dgsWatch' \in Seq(Objects)
        /\ \A c \in Objects : (IsCopy(c) => IsCopy(c)') /\ (IsExactCopy(c) => IsExactCopy(c)')
        /\ \A i \in 1..Len(dgsWatch') : IsExactCopy(dgsWatch[i])' /\ dgsWatch'[i] # None
        /\ DGSInFlight' /\ dgs'["phase"] = new["phase"] /\ dgs'["node"] = new["node"]
        BY <1>2, <2>1, <2>2, StoreKeeps DEF IInv
  <2>4. IsSettled'
    <3> SUFFICES ASSUME ~requested'
                 PROVE  (\E p \in Pods : podCache[p] # None /\ SameStatus(dgs, podCache[p]))'
        BY DEF IsSettled
    <3>1. \E p \in Pods : podCache[p] = pod /\ pod # None
          BY <1>2, <2>1 DEF IInv, PodIsCached, UpdateDGS
    <3> QED
        BY <3>1, <2>2, <2>3 DEF SameStatus, UpdateDGS, cacheVars
  <2>5. /\ freshPods' \subseteq Pods /\ pods' \in [Pods -> PodStates \cup {None}]
        /\ podWatch' \in Seq(PodEvents) /\ requested' \in BOOLEAN
        /\ faultsLeft' \in 0..MaxFaults /\ PodsInFlight'
        BY <1>2, FaultsLeft DEF IInv, TypeOK, UpdateDGS, podVars, cacheVars, PodEvents,
                                PodsInFlight, NoneAfter
  <2>6. IsCopy(dgsCache)' /\ dgsCache' \in Objects /\ dgs' \in Objects
        BY <2>1, <2>3 DEF IInv, CopiesAreOld, IsCopy, Objects
  <2> QED
      BY <1>2, <2>3, <2>4, <2>5, <2>6, FinishKeepsIInv DEF UpdateDGS, cacheVars
<1> QED
    BY <1>1, <1>2 DEF UpdateDGS, Retry, WithStatus

LEMMA RestartKeepsIInv == ASSUME IInv, Restart PROVE IInv'
<1> USE DEF apiVars
<1>1. /\ dgsCache' = dgs /\ dgs' = dgs /\ dgsWatch' = <<>> /\ podCache' = pods
      /\ pods' = pods /\ podWatch' = <<>> /\ requested' = (dgs # None) /\ Finish
      /\ Len(dgsWatch') = 0 /\ Len(podWatch') = 0
      BY DEF Restart
<1>2. requested' \in BOOLEAN
      BY <1>1, Zenon
<1>3. TypeOK'
  <2>1. faultsLeft' \in 0..MaxFaults /\ UNCHANGED <<freshPods, posts, requestsLeft>>
        BY FaultsLeft DEF Restart, CallFails
  <2>2. dgsWatch' \in Seq(Objects) /\ podWatch' \in Seq(PodEvents)
        BY <1>1
  <2> QED
      BY <1>1, <1>2, <2>1, <2>2 DEF IInv, TypeOK, Finish, Objects, PodEvents
<1>4. CopiesAreOld' /\ GoneIsGone' /\ DGSInFlight'
      BY <1>1 DEF IInv, CopiesAreOld, IsCopy, IsExactCopy, SameButEnv, GoneIsGone,
                  DGSInFlight, Restart, Finish
<1>5. PodsInFlight' /\ PodIsCached'
      BY <1>1 DEF PodsInFlight, NoneAfter, PodIsCached, Finish
<1>6. IsSettled'
      BY <1>1, Zenon DEF IsSettled
<1> QED
    BY <1>3, <1>4, <1>5, <1>6 DEF IInv

-----------------------------------------------------------------------------
(* The API server and everybody else.                                      *)

\* What happens to the posts leaves no other copies than there were.
PostsEnd == \A h \in Handlers : posts'[h] = posts[h] \/ posts'[h] = None

\* Somebody else's write, which leaves the pod's part of the status alone.
LEMMA StoreByOthersKeepsIInv ==
    ASSUME IInv, dgs # None, NEW new \in DGSObjects, Store(new), SameStatus(new, dgs),
           UNCHANGED <<podVars, cacheVars, requested, syncVars, requestsLeft, faultsLeft>>,
           posts' \in [Handlers -> PostStates \cup {None}],
           PostsEnd
    PROVE  IInv'
<1> USE DEF podVars, cacheVars, syncVars
<1>1. /\ dgs' \in DGSObjects /\ dgs' # None /\ dgsWatch' \in Seq(Objects)
      /\ \A c \in Objects : (IsCopy(c) => IsCopy(c)') /\ (IsExactCopy(c) => IsExactCopy(c)')
      /\ \A i \in 1..Len(dgsWatch') : IsExactCopy(dgsWatch[i])' /\ dgsWatch'[i] # None
      /\ DGSInFlight' /\ dgs'["phase"] = new["phase"] /\ dgs'["node"] = new["node"]
      BY StoreKeeps DEF IInv
<1>2. TypeOK'
      BY <1>1 DEF IInv, TypeOK, Objects, PostStates
<1>3. CopiesAreOld'
  <2>1. IsCopy(dgsCache)' /\ IsCopy(dgsTemp)'
        BY <1>1 DEF IInv, TypeOK, CopiesAreOld, IsCopy, Objects
  <2>2. ASSUME NEW h \in Handlers, posts'[h] # None PROVE IsExactCopy(posts[h].copy)'
    <3>1. posts'[h] = posts[h] /\ posts[h].copy \in Objects /\ IsExactCopy(posts[h].copy)
          BY <2>2 DEF PostsEnd, IInv, TypeOK, CopiesAreOld, Objects
    <3> QED
        BY <3>1, <1>1 DEF IsExactCopy
  <2> QED
      BY <1>1, <2>1, <2>2 DEF CopiesAreOld
<1>4. GoneIsGone' /\ PodsInFlight' /\ PodIsCached'
      BY <1>1 DEF IInv, GoneIsGone, PodsInFlight, NoneAfter, PodIsCached
<1>5. IsSettled'
      BY <1>1 DEF IInv, IsSettled, SameStatus
<1> QED
    BY <1>1, <1>2, <1>3, <1>4, <1>5 DEF IInv

\* A change of a pod, which will make itself known.
LEMMA SetPodByOthersKeepsIInv ==
    ASSUME IInv, NEW p \in Pods, NEW state \in PodStates \cup {None}, SetPod(p, state),
           UNCHANGED <<dgsVars, freshPods, cacheVars, requested, syncVars, apiVars, faultsLeft>>
    PROVE  IInv'
<1> USE DEF dgsVars, cacheVars, syncVars, apiVars
<1>1. /\ pods' \in [Pods -> PodStates \cup {None}] /\ podWatch' \in Seq(PodEvents)
      /\ podWatch' # <<>> /\ PodsInFlight'
      BY SetPodKeeps DEF IInv
<1>2. TypeOK'
      BY <1>1 DEF IInv, TypeOK, PodEvents
<1>3. CopiesAreOld' /\ GoneIsGone' /\ DGSInFlight'
      BY DEF IInv, CopiesAreOld, IsCopy, IsExactCopy, SameButEnv, GoneIsGone, DGSInFlight
<1>4. PodIsCached' /\ IsSettled'
      BY <1>1 DEF IInv, PodIsCached, IsSettled
<1> QED
    BY <1>1, <1>2, <1>3, <1>4 DEF IInv

LEMMA PodMovesKeepsIInv == ASSUME IInv, NEW p \in Pods, PodMoves(p) PROVE IInv'
<1>1. pods[p] \in PodStates
      BY DEF IInv, TypeOK, PodMoves
<1>2. \E state \in PodStates : SetPod(p, state)
      BY <1>1 DEF PodMoves, PodStates, Phases, Nodes
<1> QED
    BY <1>2, SetPodByOthersKeepsIInv DEF PodMoves

LEMMA PodGoesKeepsIInv == ASSUME IInv, NEW p \in Pods, PodGoes(p) PROVE IInv'
BY SetPodByOthersKeepsIInv DEF PodGoes

LEMMA DeletedByOthersKeepsIInv == ASSUME IInv, DeletedByOthers PROVE IInv'
<1> USE DEF podVars, cacheVars, syncVars, apiVars
<1>1. /\ dgs' = None /\ dgsWatch' \in Seq(Objects)
      /\ DGSInFlight' /\ \A c : IsCopy(c)' /\ IsExactCopy(c)'
      BY RemoveKeeps DEF IInv, DeletedByOthers
<1>2. TypeOK'
      BY <1>1 DEF IInv, TypeOK, DeletedByOthers, Objects
<1>3. CopiesAreOld' /\ GoneIsGone'
      BY <1>1 DEF IInv, CopiesAreOld, IsCopy, IsExactCopy, GoneIsGone, DeletedByOthers
<1>4. PodsInFlight' /\ PodIsCached' /\ IsSettled'
      BY <1>1 DEF IInv, PodsInFlight, NoneAfter, PodIsCached, IsSettled, DeletedByOthers
<1> QED
    BY <1>1, <1>2, <1>3, <1>4 DEF IInv

LEMMA LeaveCollectionKeepsIInv == ASSUME IInv, LeaveCollection PROVE IInv'
<1>1. dgs \in DGSObjects /\ dgs # None
      BY DEF IInv, TypeOK, LeaveCollection
<1> DEFINE removed == [dgs EXCEPT !.removed = TRUE]
           marked == [dgs EXCEPT !.removed = TRUE, !.marked = TRUE]
<1>2. /\ removed \in DGSObjects /\ SameStatus(removed, dgs)
      /\ marked \in DGSObjects /\ SameStatus(marked, dgs)
      BY <1>1 DEF DGSObjects, SameStatus
<1>3. Store(removed) \/ Store(marked)
      BY DEF LeaveCollection
<1>4. posts' = posts /\ PostsEnd /\ posts' \in [Handlers -> PostStates \cup {None}]
      BY DEF IInv, TypeOK, LeaveCollection, apiVars, PostsEnd, PostStates
<1> QED
    BY <1>1, <1>2, <1>3, <1>4, StoreByOthersKeepsIInv DEF LeaveCollection, apiVars

\* Posted fields make an object, with the fields of the copy otherwise.
LEMMA WithFieldsIsObject ==
    ASSUME NEW c \in DGSObjects, NEW s \in Settings
    PROVE  /\ WithFields(c, s) \in DGSObjects /\ SameStatus(WithFields(c, s), c)
           /\ DOMAIN c = {"rv", "env", "marked", "removed", "players", "health", "phase", "node"}
           /\ \A f \in DOMAIN c \ DOMAIN s : WithFields(c, s)[f] = c[f]
<1> DEFINE w == WithFields(c, s)
           dom == {"rv", "env", "marked", "removed", "players", "health", "phase", "node"}
<1>1. DOMAIN c = dom
      BY DEF DGSObjects
<1>2. w = [f \in dom |-> IF f \in DOMAIN s THEN s[f] ELSE c[f]]
      BY <1>1 DEF WithFields
<1>3. /\ w.rv = c.rv /\ w.env = c.env /\ w.removed = c.removed
      /\ w.phase = c.phase /\ w.node = c.node
      BY <1>2, SettingsAssumption
<1>4. w.marked \in BOOLEAN /\ w.players \in Nat /\ w.health \in Healths
      BY <1>2, SettingsAssumption DEF DGSObjects
<1>5. w = [rv |-> w.rv, env |-> w.env, marked |-> w.marked, removed |-> w.removed,
           players |-> w.players, health |-> w.health, phase |-> w.phase, node |-> w.node]
      BY <1>2
<1>6. w \in DGSObjects
      BY <1>3, <1>4, <1>5 DEF DGSObjects
<1> QED
    BY <1>1, <1>2, <1>3, <1>6 DEF SameStatus

LEMMA GetForPostKeepsIInv ==
    ASSUME IInv, NEW h \in Handlers, NEW s \in Settings, GetForPost(h, s) PROVE IInv'
<1> USE DEF dgsVars, podVars, cacheVars, syncVars
<1>1. /\ dgs \in DGSObjects
      /\ posts' = [posts EXCEPT ![h] = [set |-> s, copy |-> dgs, tries |-> 1]]
      BY DEF IInv, TypeOK, GetForPost
<1>2. TypeOK'
      BY <1>1, BoundsAssumption DEF IInv, TypeOK, GetForPost
<1>3. CopiesAreOld'
  <2>1. IsCopy(dgsCache)' /\ IsCopy(dgsTemp)'
        BY DEF IInv, CopiesAreOld, IsCopy, SameButEnv, GetForPost
  <2>2. \A i \in 1..Len(dgsWatch') : IsExactCopy(dgsWatch[i])'
        BY DEF IInv, CopiesAreOld, IsExactCopy, GetForPost
  <2>3. \A g \in Handlers : posts'[g] # None => IsExactCopy(posts[g].copy)'
        BY <1>1 DEF IInv, TypeOK, CopiesAreOld, IsExactCopy, GetForPost
  <2> QED
      BY <2>1, <2>2, <2>3 DEF CopiesAreOld
<1>4. /\ GoneIsGone' /\ DGSInFlight' /\ PodsInFlight' /\ PodIsCached' /\ IsSettled'
      BY DEF IInv, GoneIsGone, DGSInFlight, IsCopy, SameButEnv, PodsInFlight, NoneAfter,
             PodIsCached, IsSettled, GetForPost
<1> QED
    BY <1>2, <1>3, <1>4 DEF IInv

\* A post that is under way.
LEMMA PostInHand ==
    ASSUME IInv, NEW h \in Handlers, posts[h] # None
    PROVE  /\ posts[h] \in PostStates /\ posts[h].set \in Settings
           /\ posts[h].copy \in DGSObjects /\ posts[h].tries \in 1..Retries
           /\ posts \in [Handlers -> PostStates \cup {None}]
           /\ Current(posts[h].copy) => posts[h].copy = dgs
<1>1. posts \in [Handlers -> PostStates \cup {None}]
      BY DEF IInv, TypeOK, PostStates
<1>2. posts[h] \in PostStates
      BY <1>1
<1>3. /\ posts[h].set \in Settings /\ posts[h].copy \in DGSObjects
      /\ posts[h].tries \in 1..Retries
      BY <1>2 DEF PostStates
<1>4. Current(posts[h].copy) => posts[h].copy = dgs
  <2>1. IsExactCopy(posts[h].copy) /\ posts[h].copy # None
        BY <1>3, NoneAssumption DEF IInv, CopiesAreOld
  <2>2. posts[h].copy.rv \in Nat
        BY <1>3, VersionIsNat
  <2> QED
      BY <2>1, <2>2 DEF IsExactCopy, Current
<1> QED
    BY <1>1, <1>2, <1>3, <1>4

LEMMA PutPostKeepsIInv == ASSUME IInv, NEW h \in Handlers, PutPost(h) PROVE IInv'
<1>1. /\ dgs \in DGSObjects /\ posts[h].set \in Settings /\ dgs # None
      /\ posts[h].copy = dgs
      BY PostInHand DEF PutPost, Current
<1>2. /\ posts' = [posts EXCEPT ![h] = None] /\ PostsEnd
      /\ posts' \in [Handlers -> PostStates \cup {None}]
      BY PostInHand DEF PutPost, PostsEnd
<1> QED
    BY <1>1, <1>2, WithFieldsIsObject, StoreByOthersKeepsIInv DEF PutPost

LEMMA AgainIsPost ==
    ASSUME NEW p \in PostStates, dgs \in DGSObjects, p.tries < Retries
    PROVE  Again(p) \in PostStates /\ Again(p).copy = dgs
<1>1. p.tries + 1 \in 1..Retries
      BY BoundsAssumption DEF PostStates
<1> QED
    BY <1>1 DEF Again, PostStates

LEMMA PutConflictKeepsIInv == ASSUME IInv, NEW h \in Handlers, PutConflict(h) PROVE IInv'
<1> USE DEF dgsVars, podVars, cacheVars, syncVars
<1>1. /\ posts[h] # None /\ posts \in [Handlers -> PostStates \cup {None}]
      /\ dgs \in Objects /\ posts[h] \in PostStates
      BY PostInHand DEF PutConflict, IInv, TypeOK, Objects
<1>2. posts' = [posts EXCEPT ![h] = IF dgs # None /\ posts[h].tries < Retries
                                    THEN Again(posts[h]) ELSE None]
      BY DEF PutConflict
<1>3. dgs # None /\ posts[h].tries < Retries =>
        Again(posts[h]) \in PostStates /\ Again(posts[h]).copy = dgs
      BY <1>1, AgainIsPost DEF Objects
<1>4. /\ posts' \in [Handlers -> PostStates \cup {None}]
      /\ \A g \in Handlers : posts'[g] # None => posts'[g] = posts[g] \/ posts'[g].copy = dgs
      BY <1>1, <1>2, <1>3
<1>5. TypeOK'
      BY <1>4 DEF IInv, TypeOK, PutConflict, PostStates
<1>6. CopiesAreOld'
  <2>1. IsCopy(dgsCache)' /\ IsCopy(dgsTemp)'
        BY DEF IInv, CopiesAreOld, IsCopy, SameButEnv, PutConflict
  <2>2. \A i \in 1..Len(dgsWatch') : IsExactCopy(dgsWatch[i])'
        BY DEF IInv, CopiesAreOld, IsExactCopy, PutConflict
  <2>3. \A g \in Handlers : posts'[g] # None => IsExactCopy(posts[g].copy)'
        BY <1>4 DEF IInv, CopiesAreOld, IsExactCopy, PutConflict
  <2> QED
      BY <2>1, <2>2, <2>3 DEF CopiesAreOld
<1>7. /\ GoneIsGone' /\ DGSInFlight' /\ PodsInFlight' /\ PodIsCached' /\ IsSettled'
      BY DEF IInv, GoneIsGone, DGSInFlight, IsCopy, SameButEnv, PodsInFlight, NoneAfter,
             PodIsCached, IsSettled, PutConflict
<1> QED
    BY <1>5, <1>6, <1>7 DEF IInv

-----------------------------------------------------------------------------
LEMMA NextKeepsIInv == IInv /\ [Next]_vars => IInv'
<1> SUFFICES ASSUME IInv, [Next]_vars PROVE IInv'
    OBVIOUS
<1>1. CASE UNCHANGED vars
  <2> USE <1>1 DEF vars, dgsVars, podVars, cacheVars, syncVars, apiVars
  <2>1. TypeOK'
        BY DEF IInv, TypeOK
  <2>2. CopiesAreOld' /\ GoneIsGone' /\ DGSInFlight'
        BY DEF IInv, CopiesAreOld, IsCopy, IsExactCopy, SameButEnv, GoneIsGone, DGSInFlight
  <2>3. PodsInFlight' /\ PodIsCached' /\ IsSettled'
        BY DEF IInv, PodsInFlight, NoneAfter, PodIsCached, IsSettled
  <2> QED
      BY <2>1, <2>2, <2>3 DEF IInv
<1>2. CASE Informers
      BY <1>2, DeliverDGSKeepsIInv, RelistDGSKeepsIInv, DeliverPodKeepsIInv DEF Informers
<1>3. CASE SyncHandler
      BY <1>3, BeginSyncKeepsIInv, DeleteDGSKeepsIInv, FindPodKeepsIInv,
         CreateNewPodKeepsIInv, UpdateDGSKeepsIInv DEF SyncHandler
<1>4. CASE Restart
      BY <1>4, RestartKeepsIInv
<1>5. CASE ApiServer
      BY <1>5, GetForPostKeepsIInv, PutPostKeepsIInv, PutConflictKeepsIInv DEF ApiServer
<1>6. CASE Others
      BY <1>6, LeaveCollectionKeepsIInv, DeletedByOthersKeepsIInv, PodMovesKeepsIInv,
         PodGoesKeepsIInv DEF Others
<1> QED
    BY <1>1, <1>2, <1>3, <1>4, <1>5, <1>6 DEF Next

\* The inductive invariant holds whatever the informers, the pods, the posts
\* and the collection controller do in between.
THEOREM Invariance == Spec => []IInv
BY InitIInv, NextKeepsIInv, PTL DEF Spec

\* Type correctness, for any pods, posts and bounds.
THEOREM TypeCorrect == Spec => []TypeOK
<1>1. IInv => TypeOK
      BY DEF IInv
<1> QED
    BY <1>1, Invariance, PTL

\* UpdateDGS sends what it has read, with another status.
LEMMA UpdateKeepsOthers ==
    ASSUME IInv, dgs # None, dgs' # None, UpdateDGS
    PROVE  Untouched({"marked", "removed", "players", "health"})
<1>1. CASE UNCHANGED dgsVars
      BY <1>1 DEF dgsVars, Untouched
<1>2. CASE Current(dgsTemp) /\ Store(WithStatus(dgsTemp, pod))
  <2>1. /\ dgsTemp \in DGSObjects /\ pod \in PodStates
        BY DEF IInv, TypeOK, GoneIsGone, PodIsCached, UpdateDGS
  <2>2. SameButEnv(dgsTemp, dgs)
        BY <1>2, <2>1, VersionIsNat, NoneAssumption DEF IInv, CopiesAreOld, IsCopy, Current
  <2>3. /\ WithStatus(dgsTemp, pod) \in DGSObjects
        /\ \A f \in {"marked", "removed", "players", "health"} :
              WithStatus(dgsTemp, pod)[f] = dgs[f]
        BY <2>1, <2>2, WithStatusIsObject DEF SameButEnv
  <2>4. UNCHANGED dgsCache
        BY DEF UpdateDGS, cacheVars
  <2>5. \A f \in {"marked", "removed", "players", "health"} :
              dgs'[f] = WithStatus(dgsTemp, pod)[f]
        BY <1>2, <2>3, <2>4, StoreKeeps DEF IInv
  <2> QED
      BY <2>3, <2>5 DEF Untouched
<1> QED
    BY <1>1, <1>2 DEF UpdateDGS, WithStatus

\* PutPost sends the live object, with other values for what is posted.
LEMMA PostKeepsOthers ==
    ASSUME IInv, dgs # None, dgs' # None, NEW h \in Handlers, PutPost(h)
    PROVE  /\ posts[h].set \in Settings
           /\ Untouched((DOMAIN dgs \ {"rv"}) \ DOMAIN posts[h].set)
<1> DEFINE s == posts[h].set
<1>1. /\ posts[h].copy = dgs /\ dgs \in DGSObjects /\ s \in Settings
      BY PostInHand DEF PutPost
<1>2. WithFields(dgs, s) \in DGSObjects /\ Store(WithFields(dgs, s)) /\ UNCHANGED dgsCache
      BY <1>1, WithFieldsIsObject DEF PutPost, cacheVars
<1>3. \A f \in {"env", "marked", "removed", "players", "health", "phase", "node"} :
            dgs'[f] = WithFields(dgs, s)[f]
      BY <1>2, StoreKeeps DEF IInv
<1> QED
    BY <1>1, <1>3, WithFieldsIsObject DEF Untouched

\* Nobody's write is lost: the controller keeps what others have written since
\* it read the object, and a post changes what it posts and nothing else.
THEOREM WritesAreKept == Spec => NoLostUpdate
<1>1. IInv /\ [Next]_vars =>
        (dgs # None /\ dgs' # None =>
            /\ UpdateDGS => Untouched({"marked", "removed", "players", "health"})
            /\ \A h \in Handlers : PutPost(h) =>
                Untouched((DOMAIN dgs \ {"rv"}) \ DOMAIN posts[h].set))
      BY UpdateKeepsOthers, PostKeepsOthers
<1> QED
    BY <1>1, Invariance, PTL DEF Spec, NoLostUpdate

\* No event that matters is filtered away: when the controller has nothing
\* left to do, the status of a DGS that exists is that of a pod that exists.
THEOREM StatusBecomesTrue == Spec => []QuietStatusIsTrue
<1>1. IInv => QuietStatusIsTrue
  <2> SUFFICES ASSUME IInv, Quiet, dgs # None
               PROVE  \E p \in Pods : /\ pods[p] # None
                                     /\ dgs.phase = pods[p].phase
                                     /\ dgs.node = pods[p].node
      BY DEF QuietStatusIsTrue
  <2>1. dgsCache # None /\ SameStatus(dgs, dgsCache)
        BY DEF IInv, DGSInFlight, SameButEnv, SameStatus, Quiet
  <2>2. podCache = pods
    <3>1. Len(podWatch) = 0
          BY DEF Quiet
    <3>2. \A p \in Pods : podCache[p] = pods[p]
          BY <3>1 DEF IInv, PodsInFlight
    <3> QED
        BY <3>2 DEF IInv, TypeOK
  <2>3. PICK p \in Pods : podCache[p] # None /\ SameStatus(dgs, podCache[p])
        BY <2>1 DEF IInv, IsSettled, Quiet
  <2> QED
      BY <2>2, <2>3 DEF SameStatus
<1> QED
    BY <1>1, Invariance, PTL
-----------------------------------------------------------------------------
(* When a DGS that is marked and empty is deleted.                         *)

\* The mark is set by scaling in and by nothing else: no post sets it.
NoPostMarks == \A s \in Settings : "marked" \notin DOMAIN s

\* A copy that is marked has left the collection, and one that has left it
\* does not differ from the live object in either.
HasFinalMark(o) ==
    dgs # None /\ o # None =>
        /\ o.marked => o.removed
        /\ o.removed => dgs.removed /\ (o.marked <=> dgs.marked)
MarksAgree ==
    /\ HasFinalMark(dgs) /\ HasFinalMark(dgsCache)
    /\ \A i \in 1..Len(dgsWatch) : HasFinalMark(dgsWatch[i])

\* As soon as the cache shows it marked and empty the DGS is being deleted.
IsDue(o) == o # None /\ o.marked /\ o.players = 0
DueIsDeleted == IsDue(dgsCache) /\ dgs # None => requested \/ pc = "delete"

MarkInv == MarksAgree /\ DueIsDeleted

\* What a step may do to the live object's mark.
MarksFollow ==
    \/ dgs'.marked = dgs.marked /\ dgs'.removed = dgs.removed
    \/ ~dgs.removed /\ dgs'.removed

LEMMA MarksAreBoolean ==
    ASSUME IInv
    PROVE  /\ dgs # None => dgs.marked \in BOOLEAN /\ dgs.removed \in BOOLEAN
           /\ requested \in BOOLEAN
<1>1. dgs \in DGSObjects \cup {None} /\ requested \in BOOLEAN
      BY DEF IInv, TypeOK
<1> QED
    BY <1>1 DEF DGSObjects

LEMMA StoreKeepsMarks ==
    ASSUME IInv, MarksAgree, dgs # None, NEW new \in DGSObjects, Store(new),
           UNCHANGED dgsCache, MarksFollow
    PROVE  MarksAgree'
<1>1. dgs' # None /\ dgs' \in DGSObjects /\ dgs \in DGSObjects
      BY StoreKeeps, MarksAreBoolean DEF IInv, TypeOK
<1>2. \A o \in Objects : HasFinalMark(o) => HasFinalMark(o)'
      BY <1>1 DEF HasFinalMark, MarksFollow, MarksAgree, Objects, DGSObjects
<1>3. HasFinalMark(dgs)'
      BY <1>1 DEF HasFinalMark, MarksFollow, MarksAgree, DGSObjects
<1>4. HasFinalMark(dgsCache)'
      BY <1>2 DEF MarksAgree, IInv, TypeOK, Objects, HasFinalMark
<1>5. ASSUME NEW i \in 1..Len(dgsWatch') PROVE HasFinalMark(dgsWatch[i])'
  <2>1. dgsWatch \in Seq(Objects) /\ dgs' \in Objects
        BY <1>1 DEF IInv, TypeOK, Objects
  <2>2. dgsWatch' = dgsWatch \/ dgsWatch' = Append(dgsWatch, dgs')
        BY DEF Store, dgsVars
  <2>3. \/ i \in 1..Len(dgsWatch) /\ dgsWatch'[i] = dgsWatch[i] /\ dgsWatch[i] \in Objects
        \/ dgsWatch'[i] = dgs'
        BY <1>5, <2>1, <2>2
  <2>4. CASE i \in 1..Len(dgsWatch) /\ dgsWatch'[i] = dgsWatch[i] /\ dgsWatch[i] \in Objects
        BY <2>4, <1>2 DEF MarksAgree, HasFinalMark
  <2>5. CASE dgsWatch'[i] = dgs'
        BY <2>5, <1>3 DEF HasFinalMark
  <2> QED
      BY <2>3, <2>4, <2>5
<1> QED
    BY <1>3, <1>4, <1>5 DEF MarksAgree

\* A step that neither makes the cached object due nor takes the request away.
LEMMA StillDeleted ==
    ASSUME IInv, DueIsDeleted, dgs' # None => dgs # None, requested' \in BOOLEAN,
           IsDue(dgsCache)' => IsDue(dgsCache),
           requested => requested', pc' = pc \/ pc # "delete" \/ requested'
    PROVE  DueIsDeleted'
<1>1. requested \in BOOLEAN
      BY MarksAreBoolean
<1> QED
    BY <1>1 DEF DueIsDeleted

LEMMA GoneNeedsNoMark == ASSUME dgs' = None PROVE MarkInv'
BY DEF MarkInv, MarksAgree, HasFinalMark, DueIsDeleted

\* An object that becomes due on its way to the cache makes a request.
LEMMA CacheKeepsMarks ==
    ASSUME IInv, MarkInv, NEW new \in Objects, HasFinalMark(new), dgsCache' = new,
           DGSEvent(dgsCache, new), UNCHANGED <<dgs, pc>>,
           \A i \in 1..Len(dgsWatch') : \E j \in 1..Len(dgsWatch) : dgsWatch'[i] = dgsWatch[j]
    PROVE  MarkInv'
<1>1. MarksAgree'
      BY DEF MarkInv, MarksAgree, HasFinalMark
<1>2. requested' \in BOOLEAN /\ (requested => requested')
      BY MarksAreBoolean, UnrequestedEvent
<1>3. ASSUME dgs # None, IsDue(new), ~requested' PROVE IsDue(dgsCache)
  <2>1. new # None /\ new.marked /\ new["players"] = 0 /\ new["removed"]
        BY <1>3 DEF IsDue, HasFinalMark
  <2>2. dgsCache # None /\ ~HasDGSChanged(dgsCache, new)
        BY <1>3, <2>1 DEF DGSEvent
  <2>3. dgsCache["players"] = new["players"] /\ dgsCache["removed"] = new["removed"]
        BY <2>2 DEF HasDGSChanged
  <2>4. dgsCache.marked
        BY <1>3, <2>1, <2>2, <2>3 DEF MarkInv, MarksAgree, HasFinalMark
  <2> QED
      BY <2>1, <2>2, <2>3, <2>4 DEF IsDue
<1>4. DueIsDeleted'
  <2> SUFFICES ASSUME IsDue(new), dgs # None, ~requested' PROVE pc = "delete"
      BY DEF DueIsDeleted, IsDue
  <2> QED
      BY <1>2, <1>3 DEF MarkInv, DueIsDeleted
<1> QED
    BY <1>1, <1>4 DEF MarkInv

LEMMA InformersKeepMarks == ASSUME IInv, MarkInv, Informers PROVE MarkInv'
<1> USE DEF podVars, syncVars, apiVars, dgsVars
<1>1. CASE DeliverDGS
  <2>1. dgsWatch \in Seq(Objects) /\ dgsWatch # <<>> /\ dgsWatch' = Tail(dgsWatch)
        BY <1>1 DEF IInv, TypeOK, DeliverDGS, Objects
  <2>2. /\ Head(dgsWatch) = dgsWatch[1] /\ Head(dgsWatch) \in Objects /\ 1 \in 1..Len(dgsWatch)
        /\ \A i \in 1..Len(dgsWatch') : \E j \in 1..Len(dgsWatch) : dgsWatch'[i] = dgsWatch[j]
        BY <2>1, TailOf
  <2> QED
      BY <1>1, <2>2, CacheKeepsMarks DEF DeliverDGS, MarkInv, MarksAgree
<1>2. CASE RelistDGS
  <2>1. dgs \in Objects /\ Len(dgsWatch') = 0
        BY <1>2 DEF IInv, TypeOK, RelistDGS, Objects
  <2> QED
      BY <1>2, <2>1, CacheKeepsMarks DEF RelistDGS, MarkInv, MarksAgree
<1>3. CASE DeliverPod
  <2>1. MarksAgree'
        BY <1>3 DEF DeliverPod, MarkInv, MarksAgree, HasFinalMark
  <2>2. requested \in BOOLEAN /\ requested' = (requested \/ dgsCache # None)
        BY <1>3, MarksAreBoolean DEF DeliverPod, PodEvent
  <2>3. requested' \in BOOLEAN /\ (requested => requested')
        BY <2>2, Zenon
  <2> QED
      BY <1>3, <2>1, <2>3, StillDeleted DEF DeliverPod, MarkInv, IsDue
<1> QED
    BY <1>1, <1>2, <1>3 DEF Informers

LEMMA SyncKeepsMarks == ASSUME IInv, MarkInv, SyncHandler PROVE MarkInv'
<1> USE DEF dgsVars, podVars, cacheVars, apiVars
<1>0. requested \in BOOLEAN
      BY MarksAreBoolean
<1>1. CASE BeginSync
  <2>1. MarksAgree'
        BY <1>1 DEF BeginSync, MarkInv, MarksAgree, HasFinalMark
  <2>2. IsDue(dgsCache) => pc' = "delete"
        BY <1>1 DEF BeginSync, IsDue, IsDGSMarkedForDeletionWithZeroPlayers
  <2> QED
      BY <1>1, <2>1, <2>2 DEF BeginSync, MarkInv, DueIsDeleted, IsDue
<1>2. CASE DeleteDGS
  <2>1. CASE Remove
        BY <2>1, GoneNeedsNoMark DEF Remove
  <2>2. CASE Retry /\ UNCHANGED dgsVars
    <3>1. MarksAgree' /\ requested' = TRUE
          BY <1>2, <2>2 DEF DeleteDGS, Retry, MarkInv, MarksAgree, HasFinalMark
    <3> QED
        BY <3>1 DEF MarkInv, DueIsDeleted
  <2> QED
      BY <1>2, <2>1, <2>2 DEF DeleteDGS
<1>3. CASE FindPod
  <2>1. MarksAgree'
        BY <1>3 DEF FindPod, MarkInv, MarksAgree, HasFinalMark
  <2> QED
      BY <1>0, <1>3, <2>1, StillDeleted DEF FindPod, MarkInv, IsDue
<1>4. CASE CreateNewPod
  <2>1. /\ AppendEnvToCachedDGS /\ UNCHANGED dgsVars /\ pc = "create"
        /\ requested' = TRUE \/ UNCHANGED requested
        BY <1>4 DEF CreateNewPod, Retry
  <2>2. \/ dgsCache' = dgsCache
        \/ /\ dgsCache # None /\ dgsCache' # None
           /\ \A f \in {"marked", "removed", "players"} : dgsCache'[f] = dgsCache[f]
    <3>1. CASE dgsCache # None /\ dgsCache' = [dgsCache EXCEPT !.env = TRUE]
      <4>1. dgsCache \in DGSObjects
            BY <3>1 DEF IInv, TypeOK
      <4>2. /\ dgsCache' \in DGSObjects
            /\ \A f \in {"marked", "removed", "players"} : dgsCache'[f] = dgsCache[f]
            BY <3>1, <4>1 DEF DGSObjects
      <4> QED
          BY <3>1, <4>2, NoneAssumption
    <3> QED
        BY <2>1, <3>1 DEF AppendEnvToCachedDGS
  <2>3. MarksAgree' /\ (IsDue(dgsCache)' => IsDue(dgsCache))
        BY <2>1, <2>2 DEF MarkInv, MarksAgree, HasFinalMark, IsDue
  <2>4. dgs' = dgs /\ requested' \in BOOLEAN /\ (requested => requested')
    <3>1. CASE requested' = TRUE
          BY <2>1, <3>1
    <3>2. CASE requested' = requested
          BY <1>0, <2>1, <3>2
    <3> QED
        BY <2>1, <3>1, <3>2
  <2>5. DueIsDeleted'
        BY <2>1, <2>3, <2>4, StillDeleted DEF MarkInv
  <2> QED
      BY <2>3, <2>5 DEF MarkInv
<1>5. CASE UpdateDGS
  <2>1. /\ UNCHANGED dgsCache /\ pc = "update"
        /\ requested' = TRUE \/ UNCHANGED requested
        BY <1>5 DEF UpdateDGS, Retry
  <2>2. CASE UNCHANGED dgsVars
    <3>1. MarksAgree'
          BY <2>1, <2>2 DEF MarkInv, MarksAgree, HasFinalMark
    <3> QED
        BY <1>0, <2>1, <2>2, <3>1, StillDeleted DEF MarkInv, IsDue
  <2>3. CASE Current(dgsTemp) /\ Store(WithStatus(dgsTemp, pod))
    <3>1. /\ dgsTemp \in DGSObjects /\ pod \in PodStates /\ dgs # None
          BY <1>5, <2>3 DEF IInv, TypeOK, GoneIsGone, PodIsCached, UpdateDGS, Current
    <3>2. WithStatus(dgsTemp, pod) \in DGSObjects
          BY <3>1, WithStatusIsObject
    <3>3. dgs' # None
          BY <2>1, <2>3, <3>1, <3>2, StoreKeeps DEF IInv
    <3>4. MarksFollow
          BY <1>5, <3>1, <3>3, UpdateKeepsOthers DEF Untouched, MarksFollow
    <3>5. MarksAgree'
          BY <2>1, <2>3, <3>1, <3>2, <3>4, StoreKeepsMarks DEF MarkInv
    <3> QED
        BY <1>0, <2>1, <3>1, <3>5, StillDeleted DEF MarkInv, IsDue
  <2> QED
      BY <1>5, <2>2, <2>3 DEF UpdateDGS, WithStatus
<1> QED
    BY <1>1, <1>2, <1>3, <1>4, <1>5 DEF SyncHandler

LEMMA OthersKeepMarks ==
    ASSUME NoPostMarks, IInv, MarkInv, ApiServer \/ Others PROVE MarkInv'
<1> USE DEF dgsVars, podVars, cacheVars, syncVars, apiVars
<1>0. requested \in BOOLEAN
      BY MarksAreBoolean
<1>1. ASSUME UNCHANGED <<dgs, dgsWatch, dgsCache, requested, pc>> PROVE MarkInv'
      BY <1>1 DEF MarkInv, MarksAgree, HasFinalMark, DueIsDeleted, IsDue
<1>2. ASSUME dgs # None, UNCHANGED <<dgsCache, requested, pc>>, NEW new \in DGSObjects,
             Store(new), MarksFollow
      PROVE  MarkInv'
  <2>1. MarksAgree'
        BY <1>2, StoreKeepsMarks DEF MarkInv
  <2> QED
      BY <1>0, <1>2, <2>1, StillDeleted DEF MarkInv, IsDue
<1>3. ASSUME NEW h \in Handlers, PutPost(h) PROVE MarkInv'
  <2>1. /\ posts[h].copy = dgs /\ dgs \in DGSObjects /\ dgs # None
        /\ posts[h].set \in Settings
        BY <1>3, PostInHand DEF PutPost, Current
  <2>2. /\ WithFields(dgs, posts[h].set) \in DGSObjects
        /\ Store(WithFields(dgs, posts[h].set))
        BY <1>3, <2>1, WithFieldsIsObject DEF PutPost
  <2>3. dgs' # None
        BY <1>3, <2>1, <2>2, StoreKeeps DEF IInv, PutPost
  <2>4. {"marked", "removed"} \subseteq (DOMAIN dgs \ {"rv"}) \ DOMAIN posts[h].set
        BY <2>1, WithFieldsIsObject, SettingsAssumption DEF NoPostMarks
  <2>5. MarksFollow
        BY <1>3, <2>1, <2>3, <2>4, PostKeepsOthers DEF Untouched, MarksFollow
  <2> QED
      BY <1>2, <1>3, <2>1, <2>2, <2>5 DEF PutPost
<1>4. CASE LeaveCollection
  <2>1. dgs \in DGSObjects /\ dgs # None /\ ~dgs.removed
        BY <1>4 DEF IInv, TypeOK, LeaveCollection
  <2>2. PICK new \in {[dgs EXCEPT !.removed = TRUE],
                      [dgs EXCEPT !.removed = TRUE, !.marked = TRUE]} : Store(new)
        BY <1>4 DEF LeaveCollection
  <2>3. new \in DGSObjects /\ new["removed"] = TRUE
        BY <2>1, <2>2 DEF DGSObjects
  <2>4. dgs'["removed"] = new["removed"]
        BY <1>4, <2>1, <2>2, <2>3, StoreKeeps DEF IInv, LeaveCollection
  <2>5. MarksFollow
        BY <2>1, <2>3, <2>4 DEF MarksFollow
  <2> QED
      BY <1>2, <1>4, <2>1, <2>2, <2>3, <2>5 DEF LeaveCollection
<1>5. CASE DeletedByOthers
      BY <1>5, GoneNeedsNoMark DEF DeletedByOthers, Remove
<1>6. ASSUME NEW h \in Handlers, NEW s \in Settings, GetForPost(h, s) PROVE MarkInv'
      BY <1>1, <1>6 DEF GetForPost
<1>7. ASSUME NEW h \in Handlers, PutConflict(h) PROVE MarkInv'
      BY <1>1, <1>7 DEF PutConflict
<1>8. ASSUME NEW p \in Pods, PodMoves(p) \/ PodGoes(p) PROVE MarkInv'
      BY <1>1, <1>8 DEF PodMoves, PodGoes
<1> QED
    BY <1>3, <1>4, <1>5, <1>6, <1>7, <1>8 DEF ApiServer, Others

\* The controller goes quiet on no DGS that is marked and empty as long as
\* only scaling in sets the mark: leaving the collection is noticed with it.
\* So the mark that hasDGSChanged overlooks is the one that is posted.
THEOREM MarkedAreDeleted == NoPostMarks => (Spec => []QuietLeavesNoMarked)
<1> SUFFICES ASSUME NoPostMarks PROVE Spec => []QuietLeavesNoMarked
    OBVIOUS
<1>1. Init => MarkInv
  <2> SUFFICES ASSUME Init PROVE MarkInv
      OBVIOUS
  <2>1. /\ dgsCache = None /\ dgs.marked = FALSE /\ dgs.removed = FALSE
        /\ Len(dgsWatch) = 1 /\ dgsWatch[1] = dgs
        BY DEF Init, NewDedicatedGameServer
  <2> QED
      BY <2>1 DEF MarkInv, MarksAgree, HasFinalMark, DueIsDeleted, IsDue
<1>2. IInv /\ MarkInv /\ [Next]_vars => MarkInv'
  <2> SUFFICES ASSUME IInv, MarkInv, [Next]_vars PROVE MarkInv'
      OBVIOUS
  <2>1. CASE UNCHANGED vars
        BY <2>1 DEF vars, dgsVars, cacheVars, syncVars, MarkInv, MarksAgree, HasFinalMark,
                    DueIsDeleted, IsDue
  <2>2. CASE Restart
    <3>1. MarksAgree'
      <4>1. dgs' = dgs /\ dgsCache' = dgs /\ Len(dgsWatch') = 0
            BY <2>2 DEF Restart
      <4> QED
          BY <4>1 DEF MarkInv, MarksAgree, HasFinalMark
    <3> QED
        BY <2>2, <3>1 DEF Restart, MarkInv, DueIsDeleted
  <2> QED
      BY <2>1, <2>2, InformersKeepMarks, SyncKeepsMarks, OthersKeepMarks DEF Next
<1>3. IInv /\ MarkInv => QuietLeavesNoMarked
  <2> SUFFICES ASSUME IInv, MarkInv, Quiet, dgs # None, dgs.marked, dgs.players = 0
               PROVE  FALSE
      BY DEF QuietLeavesNoMarked
  <2>1. dgsCache # None /\ SameButEnv(dgsCache, dgs)
        BY DEF IInv, DGSInFlight, Quiet
  <2>2. IsDue(dgsCache)
        BY <2>1 DEF SameButEnv, IsDue
  <2> QED
      BY <2>2 DEF MarkInv, DueIsDeleted, Quiet
<1> QED
    BY <1>1, <1>2, <1>3, Invariance, PTL DEF Spec

-----------------------------------------------------------------------------
(* Where a second pod comes from.                                          *)
(*                                                                         *)
(* Only syncs create pods, one at a time.  So one that creates a pod while *)
(* another is there has not seen it, although it was created before this   *)
(* sync looked: its event was still on the way.                            *)

\* A sync that finds no pod has looked at a cache that lacks nothing.
LooksAreFresh == FindPod /\ pc' = "create" => podWatch = <<>>

NoPod == \A p \in Pods : pods[p] = None
OnePodAtMost == \A p, q \in Pods : pods[p] # None /\ pods[q] # None => p = q
PodInv == OnePodAtMost /\ (pc = "create" => NoPod)

\* Every step but creating a pod leaves those there are, and only FindPod
\* leads to creating one.
LEMMA OtherStepsKeepPods ==
    ASSUME PodInv, [Next]_vars, ~ CreateNewPod, ~ FindPod
    PROVE  PodInv'
<1>1. ASSUME UNCHANGED pods, pc' = pc \/ pc' # "create" PROVE PodInv'
    BY <1>1 DEF PodInv, OnePodAtMost, NoPod
<1>2. CASE Informers
    BY <1>1, <1>2 DEF Informers, DeliverDGS, RelistDGS, DeliverPod, podVars, syncVars
<1>3. CASE BeginSync \/ DeleteDGS \/ UpdateDGS
    BY <1>1, <1>3 DEF BeginSync, DeleteDGS, UpdateDGS, Finish, Retry, podVars
<1>4. CASE Restart
    BY <1>1, <1>4 DEF Restart, Finish
<1>5. CASE ApiServer
    BY <1>1, <1>5 DEF ApiServer, GetForPost, PutPost, PutConflict, podVars, syncVars
<1>6. CASE LeaveCollection \/ DeletedByOthers
    BY <1>1, <1>6 DEF LeaveCollection, DeletedByOthers, podVars, syncVars
<1>7. CASE \E p \in Pods : PodMoves(p) \/ PodGoes(p)
  <2>1. PICK p \in Pods : PodMoves(p) \/ PodGoes(p)
      BY <1>7
  <2>2. pods[p] # None /\ \E state : pods' = [pods EXCEPT ![p] = state]
      BY <2>1 DEF PodMoves, PodGoes, SetPod
  <2>4. \A q \in Pods : pods'[q] # None => pods[q] # None
      BY <2>2
  <2>3. pc' = pc
      BY <2>1 DEF PodMoves, PodGoes, syncVars
  <2> QED BY <2>3, <2>4 DEF PodInv, OnePodAtMost, NoPod
<1>8. CASE UNCHANGED vars
    BY <1>1, <1>8 DEF vars, podVars, syncVars
<1> QED BY <1>2, <1>3, <1>4, <1>5, <1>6, <1>7, <1>8 DEF Next, SyncHandler, Others

LEMMA FindPodKeepsPods ==
    ASSUME IInv, PodInv, FindPod, LooksAreFresh
    PROVE  PodInv'
<1>1. pods' = pods
    BY DEF FindPod, podVars
<1>2. CASE pc' = "create"
  <2>1. podWatch = <<>> /\ \A p \in Pods : podCache[p] = None
    <3>1. pc' # "update"
        BY <1>2
    <3> QED BY <1>2, <3>1 DEF FindPod, LooksAreFresh
  <2>2. \A p \in Pods : pods[p] = podCache[p]
      BY <2>1 DEF IInv, PodsInFlight
  <2> QED BY <1>1, <2>1, <2>2 DEF PodInv, OnePodAtMost, NoPod
<1>3. CASE pc' # "create"
    BY <1>1, <1>3 DEF PodInv, OnePodAtMost
<1> QED BY <1>2, <1>3

LEMMA CreateNewPodKeepsPods ==
    ASSUME IInv, PodInv, CreateNewPod
    PROVE  PodInv'
<1>1. NoPod /\ pc' = "idle"
    BY DEF PodInv, CreateNewPod, Finish, Retry
<1>2. CASE UNCHANGED podVars
    BY <1>1, <1>2 DEF PodInv, OnePodAtMost, NoPod, podVars
<1>3. CASE \E p \in Pods : SetPod(p, [phase |-> "Pending", node |-> ""])
  <2>1. PICK p \in Pods : SetPod(p, [phase |-> "Pending", node |-> ""])
      BY <1>3
  <2>2. pods' = [pods EXCEPT ![p] = [phase |-> "Pending", node |-> ""]]
      BY <2>1 DEF SetPod
  <2>3. \A q \in Pods : q # p => pods'[q] = None
    <3>1. DOMAIN pods = Pods
        BY DEF IInv, TypeOK
    <3> QED BY <1>1, <2>2, <3>1 DEF NoPod
  <2> QED BY <1>1, <2>3 DEF PodInv, OnePodAtMost
<1>4. freshPods \subseteq Pods
    BY DEF IInv, TypeOK
<1> QED BY <1>2, <1>3, <1>4 DEF CreateNewPod, podVars

\* What docs/architecture.md says, that a DGS has a single pod, holds as long
\* as no sync that finds no pod has looked too early: neither failing calls
\* that were carried out nor restarts nor pods that go away refute it.
THEOREM PodIsSingle == Spec /\ [][LooksAreFresh]_vars => []SinglePod
<1>1. Init => PodInv
    BY DEF Init, PodInv, OnePodAtMost
<1>2. IInv /\ PodInv /\ [Next]_vars /\ [LooksAreFresh]_vars => PodInv'
  <2> SUFFICES ASSUME IInv, PodInv, [Next]_vars, [LooksAreFresh]_vars PROVE PodInv'
      OBVIOUS
  <2>1. CASE FindPod
    <3>1. LooksAreFresh
        BY <2>1 DEF FindPod, LooksAreFresh, vars, syncVars
    <3> QED BY <2>1, <3>1, FindPodKeepsPods
  <2>2. CASE CreateNewPod
      BY <2>2, CreateNewPodKeepsPods
  <2> QED BY <2>1, <2>2, OtherStepsKeepPods
<1>3. PodInv => SinglePod
  <2> SUFFICES ASSUME PodInv PROVE SinglePod
      OBVIOUS
  <2> DEFINE there == {p \in Pods : pods[p] # None}
  <2>1. CASE there = {}
      BY <2>1, FS_EmptySet DEF SinglePod
  <2>2. CASE there # {}
    <3>1. PICK p \in Pods : there = {p}
        BY <2>2 DEF PodInv, OnePodAtMost
    <3>2. Cardinality(there) = 1
        BY <3>1, FS_Singleton
    <3> QED BY <3>2 DEF SinglePod
  <2> QED BY <2>1, <2>2
<1> QED BY <1>1, <1>2, <1>3, Invariance, PTL DEF Spec
=============================================================================
