------------------------- MODULE DGSCollectionProofs -------------------------
(***************************************************************************)
(* Proofs about DGSCollection, for any names, behaviours and bounds.       *)
(*                                                                         *)
(* The argument has three parts.  A copy of a DGS is the live one or has   *)
(* an older version (CopiesAreOld), so an Update that is accepted was made *)
(* from what is still there; names are generated once (FreshIsUnused).     *)
(* Of the DGSs let go by the loop that is running, those that will be      *)
(* counted have been let go (CountIsDue).  And a DGS that leaves the       *)
(* collection does it with a change that is noticed (SilentHaveLeft), so   *)
(* with nothing requested the health is that of the cached DGSs            *)
(* (HealthIsOfCache), and what the cache lacks is on its way               *)
(* (DGSsInFlight).                                                         *)
(***************************************************************************)
EXTENDS DGSCollection, RandomIndexes, FiniteSetTheorems, TLAPS

\* Compared with the live DGS, if there is one: it, or an older version.
IsCopy(n, c) == dgss[n] # None /\ c # None => c.rv < dgss[n].rv \/ c = dgss[n]

CopiesAreOld ==
    /\ \A n \in Names : IsCopy(n, dgsCache[n])
    /\ \A i \in 1..Len(dgsWatch) : IsCopy(dgsWatch[i].name, dgsWatch[i].obj)

\* A name that is not generated yet is nowhere in use.
FreshIsUnused ==
    \A n \in fresh :
        /\ dgss[n] = None /\ dgsCache[n] = None
        /\ \A i \in 1..Len(dgsWatch) : dgsWatch[i].name # n

\* What the cache lacks is in the watch.
NoneAfter(i, n) == \A j \in 1..Len(dgsWatch) : j > i => dgsWatch[j].name # n
DGSsInFlight ==
    \A n \in Names :
        \/ dgsCache[n] = dgss[n] /\ NoneAfter(0, n)
        \/ \E i \in 1..Len(dgsWatch) :
            dgsWatch[i] = [name |-> n, obj |-> dgss[n]] /\ NoneAfter(i, n)

\* Nothing comes after a deletion.
GoneIsGone ==
    \A i \in 1..Len(dgsWatch) :
        dgsWatch[i].obj = None =>
            dgss[dgsWatch[i].name] = None /\ NoneAfter(i, dgsWatch[i].name)

\* A DGS that has left its collection does not come back.
HasLeft(o) == o # None /\ ~o.member
StaysAway(o, later) == HasLeft(o) => later = None \/ HasLeft(later)
LeftForGood ==
    /\ \A n \in Names : StaysAway(dgsCache[n], dgss[n])
    /\ \A i \in 1..Len(dgsWatch) :
        LET e == dgsWatch[i]
        IN  /\ StaysAway(dgsCache[e.name], e.obj) /\ StaysAway(e.obj, dgss[e.name])
            /\ \A j \in 1..Len(dgsWatch) :
                j > i /\ dgsWatch[j].name = e.name => StaysAway(e.obj, dgsWatch[j].obj)

\* A DGS that would not be noticed has left before, when it was.
IsSilent(o) == o # None /\ ~Enqueues(o)
SilentHaveLeft ==
    \A i \in 1..Len(dgsWatch) :
        IsSilent(dgsWatch[i].obj) =>
            \/ HasLeft(dgsCache[dgsWatch[i].name])
            \/ \E j \in 1..Len(dgsWatch) :
                j < i /\ dgsWatch[j].name = dgsWatch[i].name /\ HasLeft(dgsWatch[j].obj)

\* What the current loop has in hand is old, and failed if it is to let go.
TodoIsOld ==
    \A t \in todo :
        /\ t.name \notin fresh /\ IsCopy(t.name, t.obj)
        /\ pc = "letgo" => t.obj.health = "Failed"

LoopIsDue == pc = "add" => left > 0

\* The DGSs the controller has let go but not counted.
Uncounted ==
    CASE pc = "count" -> left
      [] pc = "letgo" -> left - Cardinality(todo)
      [] OTHER -> 0
CountIsDue ==
    /\ col.timesFailed + Uncounted <= letGo
    /\ pc = "letgo" => IsFiniteSet(todo) /\ Cardinality(todo) <= left

\* With nothing requested the health is that of the cached DGSs.
AllHealthy(objs) == \A n \in Members(objs) : objs[n].health = "Healthy"
HealthIsOfCache ==
    pc # "reconcile" /\ ~requested /\ col.health # "NeedsIntervention" =>
        (col.health = "Healthy" <=> AllHealthy(dgsCache))

IInv ==
    /\ TypeOK /\ CopiesAreOld /\ FreshIsUnused /\ DGSsInFlight /\ GoneIsGone
    /\ LeftForGood /\ SilentHaveLeft /\ TodoIsOld /\ LoopIsDue /\ CountIsDue
    /\ HealthIsOfCache

-----------------------------------------------------------------------------
(* The store and the informer: what they do to DGSs and their copies.      *)

Objects == DGSObjects \cup {None}
Events == [name : Names, obj : Objects]

\* The part of the invariant that is about DGSs and their copies.
DGSPart ==
    /\ dgss \in [Names -> Objects] /\ dgsCache \in [Names -> Objects]
    /\ fresh \subseteq Names /\ dgsWatch \in Seq(Events)
    /\ CopiesAreOld /\ FreshIsUnused /\ DGSsInFlight /\ GoneIsGone
    /\ LeftForGood /\ SilentHaveLeft

\* The rest of the types: of the collection, of the control state.
ColPart ==
    /\ col \in Collections /\ colCache \in Collections
    /\ colWatch \in Seq(Collections)
CtlPart ==
    /\ requested \in BOOLEAN
    /\ pc \in {"idle", "reconcile", "failed", "intervene", "letgo", "count",
               "compare", "add", "mark", "drawing"}
    /\ dgsCol \in Collections \cup {None} /\ (dgsCol = None) = (pc = "idle")
    /\ todo \subseteq [name : Names, obj : DGSObjects]
    /\ (todo # {}) = (pc \in {"letgo", "mark"})
    /\ left \in Nat /\ LoopIsDue
NumPart ==
    /\ letGo \in Nat
    /\ postsLeft \in 0..MaxPosts /\ changesLeft \in 0..MaxChanges
    /\ faultsLeft \in 0..MaxFaults

LEMMA IInvHasParts ==
    IInv => /\ DGSPart /\ ColPart /\ CtlPart /\ NumPart
            /\ TodoIsOld /\ CountIsDue /\ HealthIsOfCache
BY DEF IInv, TypeOK, DGSPart, ColPart, CtlPart, NumPart, Objects, Events

\* Stated of the next state, as the proofs of the actions need it.
LEMMA PartsMakeIInv ==
    ASSUME DGSPart', ColPart', CtlPart', NumPart', TodoIsOld', CountIsDue', HealthIsOfCache'
    PROVE  IInv'
BY DEF IInv, TypeOK, DGSPart, ColPart, CtlPart, NumPart, Objects, Events

LEMMA EventFields ==
    ASSUME dgsWatch \in Seq(Events)
    PROVE  \A i \in 1..Len(dgsWatch) : dgsWatch[i].name \in Names /\ dgsWatch[i].obj \in Objects
<1>1. \A i \in 1..Len(dgsWatch) : dgsWatch[i] \in Events
      OBVIOUS
<1>2. \A e \in Events : e.name \in Names /\ e.obj \in Objects
      BY DEF Events
<1> QED
    BY <1>1, <1>2

\* What may become of the DGS n: it is created, deleted, or gets a new
\* version that stays out of the collection if it is out of it, and that is
\* noticed if it leaves.
Follows(n, new) ==
    \/ n \in fresh /\ new = NewDedicatedGameServer
    \/ /\ dgss[n] # None
       /\ \/ new = None
          \/ /\ new \in DGSObjects /\ new.rv = dgss[n].rv + 1
             /\ StaysAway(dgss[n], new)
             /\ IsSilent(new) => HasLeft(dgss[n])

LEMMA NewIsObject ==
    /\ NewDedicatedGameServer \in DGSObjects /\ NewDedicatedGameServer # None
    /\ NewDedicatedGameServer.member /\ NewDedicatedGameServer.health = "Creating"
<1>1. NewDedicatedGameServer \in DGSObjects
      BY DEF NewDedicatedGameServer, DGSObjects, Healths, Phases
<1> QED
    BY <1>1, NoneAssumption DEF NewDedicatedGameServer

LEMMA VersionIsNat == ASSUME NEW d \in DGSObjects PROVE d.rv \in Nat
BY DEF DGSObjects

\* A change of a DGS is at the end of the watch, and makes all copies old.
LEMMA SetDGSKeeps ==
    ASSUME DGSPart, NEW n \in Names, NEW new, Follows(n, new), SetDGS(n, new),
           fresh' = fresh \ {n}, UNCHANGED dgsCache
    PROVE  /\ DGSPart'
           /\ \A m \in Names \ fresh, c \in Objects : IsCopy(m, c) => IsCopy(m, c)'
<1> DEFINE e == [name |-> n, obj |-> new]
<1>0. /\ dgss \in [Names -> Objects] /\ dgsCache \in [Names -> Objects]
      /\ fresh \subseteq Names /\ dgsWatch \in Seq(Events)
      /\ dgsCache' = dgsCache
      BY DEF DGSPart
<1>1. new \in Objects /\ e \in Events /\ e.name = n /\ e.obj = new
      BY NewIsObject DEF Follows, Objects, Events
<1>2. /\ dgss' = [dgss EXCEPT ![n] = new] /\ dgsWatch' = Append(dgsWatch, e)
      BY DEF SetDGS
<1>3. /\ dgss' \in [Names -> Objects] /\ dgss'[n] = new
      /\ \A m \in Names : m # n => dgss'[m] = dgss[m]
      BY <1>0, <1>1, <1>2
<1>4. /\ dgsWatch' \in Seq(Events) /\ Len(dgsWatch') = Len(dgsWatch) + 1
      /\ Len(dgsWatch) \in Nat /\ dgsWatch'[Len(dgsWatch')] = e
      /\ \A i \in 1..Len(dgsWatch) : i \in 1..Len(dgsWatch') /\ dgsWatch'[i] = dgsWatch[i]
      /\ \A i \in 1..Len(dgsWatch') : i \in 1..Len(dgsWatch) \/ i = Len(dgsWatch')
      /\ \A i \in 1..Len(dgsWatch) : dgsWatch[i].name \in Names /\ dgsWatch[i].obj \in Objects
      BY <1>0, <1>1, <1>2, EventFields
\* what a copy of n was to the old object, it is to the new one
<1>5. /\ IsSilent(new) => HasLeft(dgss[n])
      /\ StaysAway(dgsCache[n], new)
      /\ \A i \in 1..Len(dgsWatch) :
            dgsWatch[i].name = n => dgsWatch[i].obj # None /\ StaysAway(dgsWatch[i].obj, new)
      /\ n \notin fresh => \A c \in Objects : IsCopy(n, c) => IsCopy(n, c)'
  <2>1. CASE n \in fresh /\ new = NewDedicatedGameServer
    <3>1. /\ dgsCache[n] = None
          /\ \A i \in 1..Len(dgsWatch) : dgsWatch[i].name # n
          BY <2>1 DEF DGSPart, FreshIsUnused
    <3>2. ~IsSilent(new)
          BY <2>1, NewIsObject DEF IsSilent, Enqueues
    <3> QED
        BY <2>1, <3>1, <3>2 DEF StaysAway, HasLeft
  <2>2. CASE dgss[n] # None /\ new = None
    <3>1. \A i \in 1..Len(dgsWatch) : dgsWatch[i].name = n => dgsWatch[i].obj # None
          BY <2>2 DEF DGSPart, GoneIsGone
    <3> QED
        BY <2>2, <3>1, <1>3 DEF IsSilent, StaysAway, IsCopy
  <2>3. CASE /\ dgss[n] # None /\ new \in DGSObjects /\ new.rv = dgss[n].rv + 1
             /\ StaysAway(dgss[n], new) /\ (IsSilent(new) => HasLeft(dgss[n]))
    <3>1. \A i \in 1..Len(dgsWatch) : dgsWatch[i].name = n => dgsWatch[i].obj # None
          BY <2>3 DEF DGSPart, GoneIsGone
    <3>2. \A o : StaysAway(o, dgss[n]) => StaysAway(o, new)
          BY <2>3 DEF StaysAway
    <3>3. /\ StaysAway(dgsCache[n], dgss[n])
          /\ \A i \in 1..Len(dgsWatch) :
                dgsWatch[i].name = n => StaysAway(dgsWatch[i].obj, dgss[n])
          BY DEF DGSPart, LeftForGood
    <3>4. ASSUME NEW c \in Objects, IsCopy(n, c) PROVE IsCopy(n, c)'
      <4>1. dgss[n].rv \in Nat /\ (c # None => c.rv \in Nat)
            BY <1>0, <2>3, VersionIsNat DEF Objects
      <4> QED
          BY <4>1, <3>4, <2>3, <1>3 DEF IsCopy
    <3> QED
        BY <2>3, <3>1, <3>2, <3>3, <3>4
  <2> QED
      BY <2>1, <2>2, <2>3 DEF Follows
<1>6. \A m \in Names \ fresh, c \in Objects : IsCopy(m, c) => IsCopy(m, c)'
      BY <1>3, <1>5 DEF IsCopy
<1>7. CopiesAreOld'
  <2>1. ASSUME NEW m \in Names PROVE IsCopy(m, dgsCache[m])'
    <3>1. CASE m \in fresh
          BY <3>1, <1>0 DEF DGSPart, FreshIsUnused, IsCopy
    <3>2. CASE m \notin fresh
      <4>1. IsCopy(m, dgsCache[m]) /\ dgsCache[m] \in Objects
            BY <1>0 DEF DGSPart, CopiesAreOld
      <4> QED
          BY <4>1, <3>2, <1>6, <1>0 DEF IsCopy
    <3> QED
        BY <3>1, <3>2
  <2>2. ASSUME NEW i \in 1..Len(dgsWatch')
        PROVE  IsCopy(dgsWatch[i].name, dgsWatch[i].obj)'
    <3>1. CASE i \in 1..Len(dgsWatch)
      <4>1. /\ dgsWatch[i].name \in Names \ fresh /\ dgsWatch[i].obj \in Objects
            /\ IsCopy(dgsWatch[i].name, dgsWatch[i].obj)
            BY <3>1, <1>4 DEF DGSPart, FreshIsUnused, CopiesAreOld
      <4> QED
          BY <4>1, <3>1, <1>4, <1>6 DEF IsCopy
    <3>2. CASE i = Len(dgsWatch')
          BY <3>2, <1>1, <1>3, <1>4 DEF IsCopy
    <3> QED
        BY <3>1, <3>2, <1>4
  <2> QED
      BY <2>1, <2>2 DEF CopiesAreOld
<1>8. FreshIsUnused'
  <2> SUFFICES ASSUME NEW m \in fresh, m # n
               PROVE  /\ dgss'[m] = None /\ dgsCache'[m] = None
                      /\ \A i \in 1..Len(dgsWatch') : dgsWatch'[i].name # m
      BY DEF FreshIsUnused
  <2> QED
      BY <1>0, <1>1, <1>3, <1>4 DEF DGSPart, FreshIsUnused
<1>9. GoneIsGone'
  <2> SUFFICES ASSUME NEW i \in 1..Len(dgsWatch'), dgsWatch'[i].obj = None
               PROVE  /\ dgss'[dgsWatch'[i].name] = None
                      /\ \A j \in 1..Len(dgsWatch') :
                            j > i => dgsWatch'[j].name # dgsWatch'[i].name
      BY DEF GoneIsGone, NoneAfter
  <2>1. CASE i \in 1..Len(dgsWatch)
    <3>1. dgsWatch'[i] = dgsWatch[i] /\ dgsWatch[i].obj = None /\ dgsWatch[i].name \in Names
          BY <2>1, <1>4
    <3>2. dgsWatch[i].name # n
          BY <2>1, <3>1, <1>5
    <3>3. dgss[dgsWatch[i].name] = None /\ NoneAfter(i, dgsWatch[i].name)
          BY <2>1, <3>1 DEF DGSPart, GoneIsGone
    <3>4. dgss'[dgsWatch[i].name] = None
          BY <3>1, <3>2, <3>3, <1>3
    <3>5. ASSUME NEW j \in 1..Len(dgsWatch'), j > i
          PROVE  dgsWatch'[j].name # dgsWatch[i].name
      <4>1. CASE j \in 1..Len(dgsWatch)
            BY <4>1, <3>3, <3>5, <1>4 DEF NoneAfter
      <4>2. CASE j = Len(dgsWatch')
            BY <4>2, <3>2, <1>1, <1>4
      <4> QED
          BY <4>1, <4>2, <1>4
    <3> QED
        BY <3>1, <3>4, <3>5
  <2>2. CASE i = Len(dgsWatch')
    <3>1. dgss'[n] = None /\ dgsWatch'[i].name = n
          BY <2>2, <1>1, <1>3, <1>4
    <3> QED
        BY <2>2, <3>1, <1>4
  <2> QED
      BY <2>1, <2>2, <1>4
<1>10. LeftForGood'
  <2>1. \A m \in Names : StaysAway(dgsCache'[m], dgss'[m])
        BY <1>0, <1>3, <1>5 DEF DGSPart, LeftForGood
  <2>2. ASSUME NEW i \in 1..Len(dgsWatch')
        PROVE  /\ StaysAway(dgsCache'[dgsWatch'[i].name], dgsWatch'[i].obj)
               /\ StaysAway(dgsWatch'[i].obj, dgss'[dgsWatch'[i].name])
               /\ \A j \in 1..Len(dgsWatch') :
                    j > i /\ dgsWatch'[j].name = dgsWatch'[i].name
                        => StaysAway(dgsWatch'[i].obj, dgsWatch'[j].obj)
    <3>1. CASE i \in 1..Len(dgsWatch)
      <4> DEFINE m == dgsWatch[i].name
                 o == dgsWatch[i].obj
      <4>1. /\ dgsWatch'[i] = dgsWatch[i] /\ m \in Names
            /\ StaysAway(dgsCache[m], o) /\ StaysAway(o, dgss[m])
            /\ \A j \in 1..Len(dgsWatch) :
                j > i /\ dgsWatch[j].name = m => StaysAway(o, dgsWatch[j].obj)
            BY <3>1, <1>4 DEF DGSPart, LeftForGood
      <4>2. StaysAway(o, dgss'[m])
            BY <3>1, <4>1, <1>3, <1>5
      <4>3. ASSUME NEW j \in 1..Len(dgsWatch'), j > i, dgsWatch'[j].name = m
            PROVE  StaysAway(o, dgsWatch'[j].obj)
        <5>1. CASE j \in 1..Len(dgsWatch)
              BY <5>1, <4>1, <4>3, <1>4
        <5>2. CASE j = Len(dgsWatch')
              BY <5>2, <3>1, <4>3, <1>1, <1>4, <1>5
        <5> QED
            BY <5>1, <5>2, <1>4
      <4> QED
          BY <4>1, <4>2, <4>3, <1>0
    <3>2. CASE i = Len(dgsWatch')
          BY <3>2, <1>0, <1>1, <1>3, <1>4, <1>5 DEF StaysAway
    <3> QED
        BY <3>1, <3>2, <1>4
  <2> QED
      BY <2>1, <2>2 DEF LeftForGood, StaysAway, HasLeft
<1>11. SilentHaveLeft'
  <2> SUFFICES ASSUME NEW i \in 1..Len(dgsWatch'), IsSilent(dgsWatch'[i].obj)
               PROVE  \/ HasLeft(dgsCache'[dgsWatch'[i].name])
                      \/ \E j \in 1..Len(dgsWatch') :
                            /\ j < i /\ dgsWatch'[j].name = dgsWatch'[i].name
                            /\ HasLeft(dgsWatch'[j].obj)
      BY DEF SilentHaveLeft, IsSilent, Enqueues, HasLeft
  <2>1. CASE i \in 1..Len(dgsWatch)
        BY <2>1, <1>0, <1>4 DEF DGSPart, SilentHaveLeft
  <2>2. CASE i = Len(dgsWatch')
    <3>1. HasLeft(dgss[n])
          BY <2>2, <1>1, <1>4, <1>5
    <3>2. CASE dgsCache[n] = dgss[n]
          BY <3>1, <3>2, <2>2, <1>0, <1>1, <1>4
    <3>3. ASSUME NEW j \in 1..Len(dgsWatch), dgsWatch[j] = [name |-> n, obj |-> dgss[n]]
          PROVE  \E k \in 1..Len(dgsWatch') :
                    k < i /\ dgsWatch'[k].name = n /\ HasLeft(dgsWatch'[k].obj)
          BY <3>1, <3>3, <2>2, <1>4
    <3> QED
        BY <3>2, <3>3, <2>2, <1>1, <1>4 DEF DGSPart, DGSsInFlight
  <2> QED
      BY <2>1, <2>2, <1>4
<1>12. DGSsInFlight'
  <2> SUFFICES ASSUME NEW m \in Names
               PROVE  \/ dgsCache'[m] = dgss'[m] /\ NoneAfter(0, m)'
                      \/ \E i \in 1..Len(dgsWatch') :
                            /\ dgsWatch'[i] = [name |-> m, obj |-> dgss'[m]]
                            /\ NoneAfter(i, m)'
      BY DEF DGSsInFlight
  <2>1. CASE m = n
    <3>1. Len(dgsWatch') \in 1..Len(dgsWatch') /\ NoneAfter(Len(dgsWatch), n)'
          BY <1>4 DEF NoneAfter
    <3> QED
        BY <2>1, <3>1, <1>3, <1>4
  <2>2. CASE m # n
    <3>1. \A i \in Nat : NoneAfter(i, m) => NoneAfter(i, m)'
          BY <2>2, <1>1, <1>4 DEF NoneAfter
    <3>2. dgss'[m] = dgss[m]
          BY <2>2, <1>3
    <3> QED
        BY <3>1, <3>2, <1>0, <1>4 DEF DGSPart, DGSsInFlight
  <2> QED
      BY <2>1, <2>2
<1> QED
    BY <1>0, <1>3, <1>4, <1>6, <1>7, <1>8, <1>9, <1>10, <1>11, <1>12 DEF DGSPart

LEMMA TailOf ==
    ASSUME NEW S, NEW s \in Seq(S), s # <<>>
    PROVE  /\ Head(s) = s[1] /\ Head(s) \in S /\ Tail(s) \in Seq(S)
           /\ Len(s) \in Nat /\ 1 \in 1..Len(s) /\ Len(Tail(s)) = Len(s) - 1
           /\ \A i \in 1..Len(Tail(s)) : i + 1 \in 1..Len(s) /\ Tail(s)[i] = s[i + 1]
           /\ \A i \in 1..Len(s) : i # 1 => i - 1 \in 1..Len(Tail(s)) /\ Tail(s)[i - 1] = s[i]
OBVIOUS

\* The first change of the watch goes to the cache.
Delivered(n, obj) ==
    /\ dgsWatch # <<>> /\ Head(dgsWatch) = [name |-> n, obj |-> obj]
    /\ dgsCache' = [dgsCache EXCEPT ![n] = obj]
    /\ dgsWatch' = Tail(dgsWatch)
    /\ UNCHANGED <<dgss, fresh>>

LEMMA DeliveryKeeps ==
    ASSUME DGSPart, NEW n \in Names, NEW obj \in Objects, Delivered(n, obj)
    PROVE  DGSPart'
<1>0. /\ dgss \in [Names -> Objects] /\ dgsCache \in [Names -> Objects]
      /\ fresh \subseteq Names /\ dgsWatch \in Seq(Events)
      /\ dgss' = dgss /\ fresh' = fresh
      BY DEF DGSPart, Delivered
<1>1. /\ dgsWatch[1].name = n /\ dgsWatch[1].obj = obj /\ 1 \in 1..Len(dgsWatch)
      /\ dgsWatch' \in Seq(Events) /\ Len(dgsWatch') = Len(dgsWatch) - 1
      /\ Len(dgsWatch) \in Nat
      /\ \A i \in 1..Len(dgsWatch') :
            i + 1 \in 1..Len(dgsWatch) /\ dgsWatch'[i] = dgsWatch[i + 1]
      /\ \A i \in 1..Len(dgsWatch) : i # 1 =>
            i - 1 \in 1..Len(dgsWatch') /\ dgsWatch'[i - 1] = dgsWatch[i]
      /\ \A i \in 1..Len(dgsWatch) : dgsWatch[i].name \in Names /\ dgsWatch[i].obj \in Objects
      BY <1>0, TailOf, EventFields DEF Delivered
<1>2. /\ dgsCache' \in [Names -> Objects] /\ dgsCache'[n] = obj
      /\ \A m \in Names : m # n => dgsCache'[m] = dgsCache[m]
      BY <1>0 DEF Delivered
<1>3. CopiesAreOld'
  <2>1. ASSUME NEW m \in Names PROVE IsCopy(m, dgsCache[m])'
    <3>1. IsCopy(m, dgsCache[m]) /\ IsCopy(n, obj)
          BY <1>1 DEF DGSPart, CopiesAreOld
    <3> QED
        BY <3>1, <1>0, <1>2 DEF IsCopy
  <2>2. ASSUME NEW i \in 1..Len(dgsWatch') PROVE IsCopy(dgsWatch[i].name, dgsWatch[i].obj)'
    <3>1. IsCopy(dgsWatch[i + 1].name, dgsWatch[i + 1].obj)
          BY <1>1 DEF DGSPart, CopiesAreOld
    <3> QED
        BY <3>1, <1>0, <1>1 DEF IsCopy
  <2> QED
      BY <2>1, <2>2 DEF CopiesAreOld
<1>4. FreshIsUnused'
      BY <1>0, <1>1, <1>2 DEF DGSPart, FreshIsUnused
<1>5. GoneIsGone'
  <2> SUFFICES ASSUME NEW i \in 1..Len(dgsWatch'), dgsWatch'[i].obj = None
               PROVE  /\ dgss'[dgsWatch'[i].name] = None
                      /\ \A j \in 1..Len(dgsWatch') :
                            j > i => dgsWatch'[j].name # dgsWatch'[i].name
      BY DEF GoneIsGone, NoneAfter
  <2> QED
      BY <1>0, <1>1 DEF DGSPart, GoneIsGone, NoneAfter
<1>6. LeftForGood'
  <2>1. \A m \in Names : StaysAway(dgsCache'[m], dgss'[m])
        BY <1>0, <1>1, <1>2 DEF DGSPart, LeftForGood
  <2>2. ASSUME NEW i \in 1..Len(dgsWatch')
        PROVE  /\ StaysAway(dgsCache'[dgsWatch'[i].name], dgsWatch'[i].obj)
               /\ StaysAway(dgsWatch'[i].obj, dgss'[dgsWatch'[i].name])
               /\ \A j \in 1..Len(dgsWatch') :
                    j > i /\ dgsWatch'[j].name = dgsWatch'[i].name
                        => StaysAway(dgsWatch'[i].obj, dgsWatch'[j].obj)
    <3> DEFINE m == dgsWatch[i + 1].name
               o == dgsWatch[i + 1].obj
    <3>1. /\ dgsWatch'[i] = dgsWatch[i + 1] /\ m \in Names /\ i + 1 \in 1..Len(dgsWatch)
          /\ StaysAway(dgsCache[m], o) /\ StaysAway(o, dgss[m])
          /\ \A j \in 1..Len(dgsWatch) :
                j > i + 1 /\ dgsWatch[j].name = m => StaysAway(o, dgsWatch[j].obj)
          BY <1>1 DEF DGSPart, LeftForGood
    <3>2. StaysAway(dgsCache'[m], o)
      <4>1. CASE m = n
        <5>1. i + 1 > 1
              BY <1>1
        <5>2. StaysAway(obj, o)
              BY <4>1, <5>1, <3>1, <1>1 DEF DGSPart, LeftForGood
        <5> QED
            BY <4>1, <5>2, <1>2
      <4>2. CASE m # n
            BY <4>2, <3>1, <1>2
      <4> QED
          BY <4>1, <4>2
    <3>3. ASSUME NEW j \in 1..Len(dgsWatch'), j > i, dgsWatch'[j].name = m
          PROVE  StaysAway(o, dgsWatch'[j].obj)
      <4>1. /\ j + 1 \in 1..Len(dgsWatch) /\ j + 1 > i + 1
            /\ dgsWatch'[j] = dgsWatch[j + 1]
            BY <3>3, <1>1
      <4> QED
          BY <4>1, <3>1, <3>3
    <3> QED
        BY <3>1, <3>2, <3>3, <1>0
  <2> QED
      BY <2>1, <2>2 DEF LeftForGood, StaysAway, HasLeft
<1>7. SilentHaveLeft'
  <2> SUFFICES ASSUME NEW i \in 1..Len(dgsWatch'), IsSilent(dgsWatch'[i].obj)
               PROVE  \/ HasLeft(dgsCache'[dgsWatch'[i].name])
                      \/ \E j \in 1..Len(dgsWatch') :
                            /\ j < i /\ dgsWatch'[j].name = dgsWatch'[i].name
                            /\ HasLeft(dgsWatch'[j].obj)
      BY DEF SilentHaveLeft, IsSilent, Enqueues, HasLeft
  <2> DEFINE m == dgsWatch'[i].name
  <2>1. /\ m \in Names /\ i + 1 \in 1..Len(dgsWatch) /\ dgsWatch'[i] = dgsWatch[i + 1]
        /\ m = n => obj # None
        BY <1>0, <1>1 DEF DGSPart, GoneIsGone, NoneAfter
  <2>2. CASE HasLeft(dgsCache[m])
        BY <2>1, <2>2, <1>1, <1>2 DEF DGSPart, LeftForGood, StaysAway
  <2>3. ASSUME NEW j \in 1..Len(dgsWatch), j < i + 1, dgsWatch[j].name = m,
               HasLeft(dgsWatch[j].obj)
        PROVE  \/ HasLeft(dgsCache'[m])
               \/ \E k \in 1..Len(dgsWatch') :
                    k < i /\ dgsWatch'[k].name = m /\ HasLeft(dgsWatch'[k].obj)
    <3>1. CASE j = 1
          BY <3>1, <2>3, <1>1, <1>2
    <3>2. CASE j # 1
          BY <3>2, <2>3, <1>1
    <3> QED
        BY <3>1, <3>2
  <2> QED
      BY <2>1, <2>2, <2>3 DEF DGSPart, SilentHaveLeft
<1>8. DGSsInFlight'
  <2> SUFFICES ASSUME NEW m \in Names
               PROVE  \/ dgsCache'[m] = dgss'[m] /\ NoneAfter(0, m)'
                      \/ \E i \in 1..Len(dgsWatch') :
                            /\ dgsWatch'[i] = [name |-> m, obj |-> dgss'[m]]
                            /\ NoneAfter(i, m)'
      BY DEF DGSsInFlight
  <2>1. ASSUME NEW i \in Nat, NoneAfter(i, m) PROVE NoneAfter(IF i = 0 THEN 0 ELSE i - 1, m)'
        BY <2>1, <1>1 DEF NoneAfter
  <2>2. CASE dgsCache[m] = dgss[m] /\ NoneAfter(0, m)
    <3>1. m # n
          BY <1>1, <2>2 DEF NoneAfter
    <3> QED
        BY <3>1, <1>0, <1>2, <2>1, <2>2
  <2>3. ASSUME NEW i \in 1..Len(dgsWatch), NoneAfter(i, m),
               dgsWatch[i] = [name |-> m, obj |-> dgss[m]]
        PROVE  \/ dgsCache'[m] = dgss'[m] /\ NoneAfter(0, m)'
               \/ \E j \in 1..Len(dgsWatch') :
                    /\ dgsWatch'[j] = [name |-> m, obj |-> dgss'[m]]
                    /\ NoneAfter(j, m)'
    <3>1. CASE i = 1
      <4>1. NoneAfter(0, m)'
            BY <3>1, <2>1, <2>3
      <4> QED
          BY <4>1, <3>1, <2>3, <1>0, <1>1, <1>2
    <3>2. CASE i # 1
      <4>1. i - 1 \in 1..Len(dgsWatch') /\ i \in Nat /\ i # 0
            /\ dgsWatch'[i - 1] = dgsWatch[i]
            BY <3>2, <1>1
      <4>2. NoneAfter(i - 1, m)'
            BY <4>1, <2>1, <2>3
      <4> QED
          BY <4>1, <4>2, <2>3, <1>0
    <3> QED
        BY <3>1, <3>2
  <2> QED
      BY <2>2, <2>3 DEF DGSPart, DGSsInFlight
<1> QED
    BY <1>0, <1>1, <1>2, <1>3, <1>4, <1>5, <1>6, <1>7, <1>8 DEF DGSPart

\* The parts of the invariant speak of the DGSs and their copies only.
LEMMA StillDGSPart ==
    ASSUME DGSPart, UNCHANGED <<dgsVars, dgsCache>>
    PROVE  /\ DGSPart'
           /\ \A m \in Names \ fresh, c \in Objects : IsCopy(m, c) => IsCopy(m, c)'
BY DEF DGSPart, CopiesAreOld, FreshIsUnused, DGSsInFlight, NoneAfter, GoneIsGone,
       LeftForGood, SilentHaveLeft, IsCopy, dgsVars

LEMMA UpdateKeeps ==
    ASSUME DGSPart, NEW n \in Names, NEW new \in DGSObjects, UpdateDGS(n, new),
           dgss[n] # None, new.rv = dgss[n].rv, StaysAway(dgss[n], new),
           IsSilent(new) => HasLeft(dgss[n]), UNCHANGED dgsCache
    PROVE  /\ DGSPart' /\ fresh' = fresh
           /\ \A m \in Names \ fresh, c \in Objects : IsCopy(m, c) => IsCopy(m, c)'
<1> DEFINE obj == [new EXCEPT !.rv = @ + 1]
<1>1. /\ obj \in DGSObjects /\ obj.rv = new.rv + 1 /\ obj.member = new.member
      /\ obj.health = new.health /\ obj.marked = new.marked
      BY DEF DGSObjects
<1>2. StaysAway(dgss[n], obj)
      BY <1>1, NoneAssumption DEF StaysAway, HasLeft
<1>3. IsSilent(obj) => HasLeft(dgss[n])
      BY <1>1, NoneAssumption DEF IsSilent, Enqueues
<1>4. Follows(n, obj)
      BY <1>1, <1>2, <1>3 DEF Follows
<1>5. n \notin fresh
      BY DEF DGSPart, FreshIsUnused
<1>6. SetDGS(n, obj) /\ fresh' = fresh \ {n} /\ fresh' = fresh
      BY <1>5 DEF UpdateDGS
<1> QED
    BY <1>4, <1>6, SetDGSKeeps

LEMMA DeleteKeeps ==
    ASSUME DGSPart, NEW n \in Names, DeleteDGS(n), dgss[n] # None, UNCHANGED dgsCache
    PROVE  /\ DGSPart' /\ fresh' = fresh
           /\ \A m \in Names \ fresh, c \in Objects : IsCopy(m, c) => IsCopy(m, c)'
<1>1. n \notin fresh
      BY DEF DGSPart, FreshIsUnused
<1>2. SetDGS(n, None) /\ fresh' = fresh \ {n} /\ fresh' = fresh
      BY <1>1 DEF DeleteDGS
<1> QED
    BY <1>2, SetDGSKeeps DEF Follows

-----------------------------------------------------------------------------
(* The worker: what each part of the invariant owes to its steps.          *)

\* The steps in which the worker stays where it is.
LEMMA StillCtlPart ==
    ASSUME CtlPart, UNCHANGED syncVars, requested' \in BOOLEAN
    PROVE  CtlPart'
BY DEF CtlPart, syncVars, LoopIsDue

LEMMA FinishKeeps ==
    ASSUME CtlPart, Finish, requested' \in BOOLEAN
    PROVE  CtlPart' /\ TodoIsOld' /\ pc' # "reconcile" /\ Uncounted' = 0 /\ pc' # "letgo"
BY DEF CtlPart, Finish, LoopIsDue, TodoIsOld, Uncounted

\* Going from one place to another where nothing is left to do.
LEMMA GotoKeeps ==
    ASSUME NEW l \in {"failed", "compare", "intervene", "drawing"}, CtlPart, Goto(l),
           pc \notin {"idle", "letgo", "mark"}, requested' \in BOOLEAN
    PROVE  CtlPart' /\ TodoIsOld' /\ pc' # "reconcile" /\ Uncounted' = 0 /\ pc' # "letgo"
<1>1. todo = {} /\ todo' = {}
      BY DEF CtlPart, Goto
<1> QED
    BY <1>1 DEF CtlPart, Goto, LoopIsDue, TodoIsOld, Uncounted

LEMMA TodoStaysOld ==
    ASSUME DGSPart, CtlPart, TodoIsOld, todo' \subseteq todo,
           pc' = "letgo" => pc = "letgo", fresh' \subseteq fresh,
           \A m \in Names \ fresh, c \in Objects : IsCopy(m, c) => IsCopy(m, c)'
    PROVE  TodoIsOld'
<1> SUFFICES ASSUME NEW t \in todo'
             PROVE  /\ t.name \notin fresh' /\ IsCopy(t.name, t.obj)'
                    /\ pc' = "letgo" => t.obj.health = "Failed"
    BY DEF TodoIsOld, IsCopy
<1>1. t \in todo /\ t.name \in Names /\ t.obj \in Objects
      BY DEF CtlPart, Objects
<1> QED
    BY <1>1 DEF TodoIsOld

LEMMA UncountedIsNat == ASSUME CtlPart, CountIsDue PROVE Uncounted \in Nat
<1>1. CASE pc = "letgo"
      BY <1>1, FS_CardinalityType DEF CountIsDue, CtlPart, Uncounted
<1>2. CASE pc # "letgo"
      BY <1>2 DEF CtlPart, Uncounted
<1> QED
    BY <1>1, <1>2

\* What is let go and counted stays, and what was in hand is forgotten.
LEMMA ForgettingKeepsCount ==
    ASSUME ColPart, CtlPart, NumPart, CountIsDue, Uncounted' = 0, pc' # "letgo",
           col'.timesFailed = col.timesFailed, letGo' \in {letGo, letGo + 1}
    PROVE  CountIsDue'
<1>1. col.timesFailed \in Nat /\ letGo \in Nat /\ Uncounted \in Nat
      BY UncountedIsNat DEF ColPart, Collections, NumPart
<1> QED
    BY <1>1 DEF CountIsDue

LEMMA StillCounted ==
    ASSUME CountIsDue, UNCHANGED <<syncVars, letGo>>, col'.timesFailed = col.timesFailed
    PROVE  CountIsDue'
BY DEF CountIsDue, Uncounted, syncVars

LEMMA StillOfCache ==
    ASSUME HealthIsOfCache, dgsCache' = dgsCache, col'.health = col.health,
           requested' = TRUE \/ pc' = "reconcile" \/ (requested' = requested /\ pc # "reconcile")
    PROVE  HealthIsOfCache'
BY DEF HealthIsOfCache, AllHealthy, Members

\* The steps of everybody else leave the worker alone.
LEMMA StillTheRest ==
    ASSUME IInv, UNCHANGED <<cacheVars, requested, syncVars, letGo>>, fresh' \subseteq fresh,
           col'.timesFailed = col.timesFailed, col'.health = col.health,
           \A m \in Names \ fresh, c \in Objects : IsCopy(m, c) => IsCopy(m, c)'
    PROVE  CtlPart' /\ TodoIsOld' /\ CountIsDue' /\ HealthIsOfCache'
<1>1. CtlPart'
      BY IInvHasParts, StillCtlPart DEF CtlPart
<1>2. TodoIsOld'
      BY IInvHasParts, TodoStaysOld DEF syncVars
<1>3. CountIsDue'
      BY IInvHasParts, StillCounted
<1>4. HealthIsOfCache'
      BY IInvHasParts, StillOfCache DEF HealthIsOfCache, AllHealthy, Members, syncVars, cacheVars
<1> QED
    BY <1>1, <1>2, <1>3, <1>4

\* A change of the collection is stored and put in the watch.
LEMMA StoreColIs ==
    ASSUME ColPart, NEW new \in Collections, StoreCol(new), UNCHANGED colCache
    PROVE  ColPart' /\ col' = new
<1>1. CASE new = col
      BY <1>1 DEF StoreCol, ColPart, colVars
<1>2. CASE new # col
      BY <1>2 DEF StoreCol, ColPart
<1> QED
    BY <1>1, <1>2

LEMMA StillColPart ==
    ASSUME ColPart, UNCHANGED <<colVars, colCache>> PROVE ColPart' /\ col' = col
BY DEF ColPart, colVars

LEMMA CallFailsKeeps ==
    ASSUME NumPart, CallFails PROVE faultsLeft' \in 0..MaxFaults
BY NumbersAssumption DEF NumPart, CallFails

-----------------------------------------------------------------------------
(* The invariant holds initially, and every action keeps it.               *)

LEMMA InitIInv == Init => IInv
<1> SUFFICES ASSUME Init PROVE IInv
    OBVIOUS
<1>1. col \in Collections /\ col.timesFailed = 0 /\ col.health = "Healthy"
      BY NumbersAssumption DEF Init, Collections, Healths
<1>2. /\ dgss \in [Names -> Objects] /\ dgsCache = dgss
      /\ \A n \in Names : /\ n \in Existing => /\ dgss[n] \in DGSObjects /\ dgss[n].member
                                              /\ dgss[n].health = "Healthy"
                        /\ n \notin Existing => dgss[n] = None
  <2> DEFINE d == [NewDedicatedGameServer EXCEPT !.health = "Healthy"]
  <2>1. d \in DGSObjects /\ d.member /\ d.health = "Healthy"
        BY DEF NewDedicatedGameServer, DGSObjects, Healths, Phases
  <2> HIDE DEF d
  <2>2. dgss = [n \in Names |-> IF n \in Existing THEN d ELSE None] /\ dgsCache = dgss
        BY DEF Init, d
  <2> QED
      BY <2>1, <2>2 DEF Objects
<1>3. TypeOK
  <2>1. /\ colWatch = <<>> /\ colCache = col /\ dgsWatch = <<>> /\ fresh \subseteq Names
        /\ requested = TRUE /\ pc = "idle" /\ dgsCol = None /\ todo = {}
        /\ left = 0 /\ letGo = 0 /\ postsLeft = MaxPosts /\ changesLeft = MaxChanges
        /\ faultsLeft = MaxFaults
        BY DEF Init
  <2> QED
      BY <2>1, <1>1, <1>2, NumbersAssumption DEF TypeOK, Objects
<1>4. /\ dgsWatch = <<>> /\ fresh = Names \ Existing /\ dgsCache = dgss /\ pc = "idle"
      /\ todo = {} /\ letGo = 0 /\ dgss \in [Names -> Objects]
      BY <1>2 DEF Init
<1>5. CopiesAreOld /\ DGSsInFlight /\ GoneIsGone /\ SilentHaveLeft
      BY <1>4 DEF CopiesAreOld, IsCopy, DGSsInFlight, NoneAfter, GoneIsGone, SilentHaveLeft
<1>6. FreshIsUnused
      BY <1>2, <1>4 DEF FreshIsUnused
<1>7. LeftForGood
      BY <1>2, <1>4 DEF LeftForGood, StaysAway, HasLeft
<1>8. TodoIsOld /\ LoopIsDue /\ CountIsDue
      BY <1>1, <1>4 DEF TodoIsOld, LoopIsDue, CountIsDue, Uncounted
<1>9. HealthIsOfCache
      BY DEF Init, HealthIsOfCache
<1> QED
    BY <1>3, <1>5, <1>6, <1>7, <1>8, <1>9 DEF IInv

LEMMA DeliverColKeeps == ASSUME IInv, DeliverCol PROVE IInv'
<1>1. ColPart' /\ col' = col
  <2>1. Head(colWatch) \in Collections /\ Tail(colWatch) \in Seq(Collections)
        BY IInvHasParts DEF DeliverCol, ColPart
  <2> QED
      BY <2>1, IInvHasParts DEF DeliverCol, ColPart
<1>2. /\ DGSPart'
      /\ \A m \in Names \ fresh, c \in Objects : IsCopy(m, c) => IsCopy(m, c)'
      BY IInvHasParts, StillDGSPart DEF DeliverCol
<1>3. requested' \in BOOLEAN /\ (requested' = TRUE \/ requested' = requested)
      BY IInvHasParts DEF DeliverCol, CtlPart
<1>4. CtlPart' /\ NumPart' /\ pc' = pc
      BY <1>3, IInvHasParts, StillCtlPart DEF DeliverCol, NumPart, bounds, syncVars
<1>5. TodoIsOld'
      BY <1>2, IInvHasParts, TodoStaysOld DEF DeliverCol, syncVars, dgsVars
<1>6. CountIsDue'
      BY <1>1, IInvHasParts, StillCounted DEF DeliverCol
<1>7. HealthIsOfCache'
      BY <1>1, <1>3, <1>4, IInvHasParts DEF DeliverCol, HealthIsOfCache, AllHealthy, Members
<1> QED
    BY <1>1, <1>2, <1>4, <1>5, <1>6, <1>7, PartsMakeIInv

\* A DGS the collection has and that is not healthy.
Unhealthy(o) == o # None /\ o.member /\ o.health # "Healthy"

LEMMA AllHealthyMeans ==
    ASSUME NEW objs PROVE AllHealthy(objs) <=> \A n \in Names : ~Unhealthy(objs[n])
BY DEF AllHealthy, Members, Unhealthy

\* An event that makes no request does not change which DGSs are unhealthy.
LEMMA UnnoticedIsHarmless ==
    ASSUME DGSPart, dgsWatch # <<>>, NEW n \in Names, NEW obj \in Objects,
           Head(dgsWatch) = [name |-> n, obj |-> obj],
           DGSEvent(dgsCache[n], obj), ~requested'
    PROVE  ~requested /\ (Unhealthy(obj) <=> Unhealthy(dgsCache[n]))
<1> DEFINE old == dgsCache[n]
<1>1. /\ ~requested /\ ~(old = None /\ obj # None /\ Enqueues(obj))
      /\ ~(old # None /\ obj # None /\ HasDGSStatusChanged(old, obj) /\ Enqueues(obj))
      /\ ~(old # None /\ obj = None /\ Enqueues(old))
      BY Zenon DEF DGSEvent
<1>2. CASE old = None \/ obj = None
      BY <1>1, <1>2, Zenon DEF Unhealthy, Enqueues
<1>3. CASE old # None /\ obj # None /\ HasDGSStatusChanged(old, obj)
  <2>1. IsSilent(obj)
        BY <1>1, <1>3 DEF IsSilent
  <2>2. /\ dgsWatch \in Seq(Events)
        /\ 1 \in 1..Len(dgsWatch) /\ dgsWatch[1].name = n /\ dgsWatch[1].obj = obj
        BY TailOf DEF DGSPart
  <2>3. HasLeft(old)
        BY <2>1, <2>2 DEF DGSPart, SilentHaveLeft
  <2> QED
      BY <1>1, <2>1, <2>3 DEF IsSilent, Enqueues, HasLeft, Unhealthy
<1>4. CASE old # None /\ obj # None /\ ~HasDGSStatusChanged(old, obj)
      BY <1>1, <1>4 DEF HasDGSStatusChanged, Unhealthy
<1> QED
    BY <1>2, <1>3, <1>4

LEMMA DeliverDGSKeeps == ASSUME IInv, DeliverDGS PROVE IInv'
<1> DEFINE n == Head(dgsWatch).name
           obj == Head(dgsWatch).obj
<1>1. /\ n \in Names /\ obj \in Objects /\ Head(dgsWatch) = [name |-> n, obj |-> obj]
      /\ dgsCache \in [Names -> Objects]
  <2>1. dgsWatch \in Seq(Events) /\ dgsWatch # <<>> /\ dgsCache \in [Names -> Objects]
        BY IInvHasParts DEF DGSPart, DeliverDGS
  <2>2. Head(dgsWatch) \in Events
        BY <2>1, TailOf
  <2> QED
      BY <2>1, <2>2 DEF Events
<1>2. Delivered(n, obj) /\ DGSEvent(dgsCache[n], obj)
      BY <1>1 DEF DeliverDGS, Delivered
<1> HIDE DEF n, obj
<1>3. DGSPart'
      BY <1>1, <1>2, IInvHasParts, DeliveryKeeps
<1>4. ColPart' /\ col' = col
      BY IInvHasParts, StillColPart DEF DeliverDGS
<1>5. requested' \in BOOLEAN
      BY <1>2, Zenon DEF DGSEvent
<1>6. CtlPart' /\ NumPart'
      BY <1>5, IInvHasParts, StillCtlPart DEF DeliverDGS, NumPart, bounds
<1>7. TodoIsOld'
  <2>1. \A m \in Names \ fresh, c \in Objects : IsCopy(m, c) => IsCopy(m, c)'
        BY DEF DeliverDGS, IsCopy
  <2> QED
      BY <2>1, IInvHasParts, TodoStaysOld DEF DeliverDGS, syncVars
<1>8. CountIsDue'
      BY <1>4, IInvHasParts, StillCounted DEF DeliverDGS
<1>9. HealthIsOfCache'
  <2> SUFFICES ASSUME pc' # "reconcile", ~requested', col'.health # "NeedsIntervention"
               PROVE  col'.health = "Healthy" <=> AllHealthy(dgsCache')
    BY DEF HealthIsOfCache, AllHealthy, Members
  <2>1. ~requested /\ (Unhealthy(obj) <=> Unhealthy(dgsCache[n]))
        BY <1>1, <1>2, IInvHasParts, UnnoticedIsHarmless DEF Delivered
  <2>2. pc = pc' /\ dgsCache' = [dgsCache EXCEPT ![n] = obj]
        BY <1>2 DEF DeliverDGS, syncVars, Delivered
  <2>3. col.health = "Healthy" <=> AllHealthy(dgsCache)
        BY <1>4, <2>1, <2>2, IInvHasParts DEF HealthIsOfCache
  <2>4. \A m \in Names : Unhealthy(dgsCache'[m]) <=> Unhealthy(dgsCache[m])
        BY <1>1, <2>1, <2>2
  <2> QED
      BY <1>4, <2>3, <2>4, AllHealthyMeans
<1> QED
    BY <1>3, <1>4, <1>6, <1>7, <1>8, <1>9, PartsMakeIInv

LEMMA BeginSyncKeeps == ASSUME IInv, BeginSync PROVE IInv'
<1>1. /\ DGSPart'
      /\ \A m \in Names \ fresh, c \in Objects : IsCopy(m, c) => IsCopy(m, c)'
      BY IInvHasParts, StillDGSPart DEF BeginSync, cacheVars
<1>2. ColPart' /\ col' = col
      BY IInvHasParts, StillColPart DEF BeginSync, cacheVars
<1>3. CtlPart'
  <2>1. dgsCol' \in Collections /\ dgsCol' # None
        BY IInvHasParts, NoneAssumption DEF BeginSync, ColPart
  <2>2. /\ requested' = FALSE /\ pc = "idle" /\ pc' = "reconcile"
        /\ todo' = todo /\ left' = left
        BY DEF BeginSync
  <2>3. todo = {} /\ left \in Nat
        BY <2>2, IInvHasParts DEF CtlPart
  <2>4. (dgsCol' = None) = (pc' = "idle")
        BY <2>1, <2>2
  <2>5. (todo' # {}) = (pc' \in {"letgo", "mark"})
        BY <2>3, <2>2
  <2>6. LoopIsDue'
        BY <2>2 DEF LoopIsDue
  <2>7. todo' \subseteq [name : Names, obj : DGSObjects] /\ left' \in Nat
        BY <2>2, <2>3
  <2>8. requested' \in BOOLEAN
        BY <2>2
  <2> QED
      BY <2>1, <2>2, <2>4, <2>5, <2>6, <2>7, <2>8 DEF CtlPart
<1>4. NumPart'
      BY IInvHasParts DEF BeginSync, NumPart, bounds
<1>5. todo' = {} /\ pc' = "reconcile"
      BY IInvHasParts DEF BeginSync, CtlPart
<1>6. TodoIsOld' /\ HealthIsOfCache'
      BY <1>5 DEF TodoIsOld, HealthIsOfCache
<1>7. CountIsDue'
      BY IInvHasParts DEF BeginSync, CountIsDue, Uncounted, colVars
<1> QED
    BY <1>1, <1>2, <1>3, <1>4, <1>6, <1>7, PartsMakeIInv

\* An error: the call that failed, or a conflict, and nothing is left to do.
LEMMA RetryKeeps ==
    ASSUME IInv, Retry, col'.timesFailed = col.timesFailed, letGo' \in {letGo, letGo + 1}
    PROVE  CtlPart' /\ TodoIsOld' /\ CountIsDue' /\ HealthIsOfCache'
<1>1. CtlPart' /\ TodoIsOld' /\ Uncounted' = 0 /\ pc' # "letgo" /\ requested'
      BY IInvHasParts, FinishKeeps DEF Retry
<1>2. CountIsDue'
      BY <1>1, IInvHasParts, ForgettingKeepsCount
<1> QED
    BY <1>1, <1>2 DEF HealthIsOfCache

\* What reconcileStatuses stores is healthy if and only if all DGSs are.
LEMMA HealthsAre ==
    ASSUME DGSPart, ColPart, NEW h \in HealthsFrom(col.health)
    PROVE  /\ h \in Healths \cup {"NeedsIntervention"}
           /\ col.health = "NeedsIntervention" => h = "NeedsIntervention"
           /\ col.health # "NeedsIntervention" => (h = "Healthy" <=> AllHealthy(dgsCache))
<1> DEFINE unhealthy == {n \in Members(dgsCache) : dgsCache[n].health # "Healthy"}
<1>1. \A n \in unhealthy : dgsCache[n].health \in Healths /\ dgsCache[n].health # "Healthy"
      BY DEF DGSPart, Members, Objects, DGSObjects
<1>2. AllHealthy(dgsCache) <=> unhealthy = {}
      BY DEF AllHealthy
<1>3. h \in (IF col.health = "NeedsIntervention" THEN {col.health}
             ELSE IF unhealthy = {} THEN {"Healthy"}
             ELSE {dgsCache[n].health : n \in unhealthy})
      BY DEF HealthsFrom
<1> HIDE DEF unhealthy
<1> QED
    BY <1>1, <1>2, <1>3 DEF Healths

LEMMA StoreHealth ==
    ASSUME ColPart, NEW h \in Healths \cup {"NeedsIntervention"},
           StoreCol([col EXCEPT !.health = h]), UNCHANGED colCache
    PROVE  ColPart' /\ col'.health = h /\ col'.timesFailed = col.timesFailed
<1> DEFINE new == [col EXCEPT !.health = h]
<1>1. new \in Collections /\ new.health = h /\ new.timesFailed = col.timesFailed
      BY DEF ColPart, Collections
<1>2. StoreCol(new)
      OBVIOUS
<1> HIDE DEF new
<1> QED
    BY <1>1, <1>2, StoreColIs

LEMMA ReconcileStatusesKeeps == ASSUME IInv, ReconcileStatuses PROVE IInv'
<1>1. /\ DGSPart' /\ dgsCache' = dgsCache
      /\ \A m \in Names \ fresh, c \in Objects : IsCopy(m, c) => IsCopy(m, c)'
      BY IInvHasParts, StillDGSPart DEF ReconcileStatuses, cacheVars
<1>2. ASSUME NEW h \in HealthsFrom(col.health), StoreCol([col EXCEPT !.health = h]),
             Goto("failed"), UNCHANGED <<requested, faultsLeft>>
      PROVE  IInv'
  <2>1. ColPart' /\ col'.health = h /\ col'.timesFailed = col.timesFailed
    <3>1. h \in Healths \cup {"NeedsIntervention"} /\ colCache' = colCache
          BY IInvHasParts, HealthsAre DEF ReconcileStatuses, cacheVars
    <3> QED
        BY <1>2, <3>1, IInvHasParts, StoreHealth
  <2>2. CtlPart' /\ TodoIsOld' /\ Uncounted' = 0 /\ pc' # "letgo"
        BY <1>2, IInvHasParts, GotoKeeps DEF ReconcileStatuses, CtlPart
  <2>3. CountIsDue'
        BY <2>1, <2>2, IInvHasParts, ForgettingKeepsCount DEF ReconcileStatuses
  <2>4. HealthIsOfCache'
        BY <1>1, <1>2, <2>1, IInvHasParts, HealthsAre DEF HealthIsOfCache, AllHealthy, Members
  <2>5. NumPart'
        BY <1>2, IInvHasParts DEF ReconcileStatuses, NumPart
  <2> QED
      BY <1>1, <2>1, <2>2, <2>3, <2>4, <2>5, PartsMakeIInv
<1>3. ASSUME CallFails, Retry, UNCHANGED colVars PROVE IInv'
  <2>1. ColPart' /\ col' = col
        BY <1>3, IInvHasParts, StillColPart DEF ReconcileStatuses, cacheVars
  <2>2. NumPart'
        BY <1>3, IInvHasParts, CallFailsKeeps DEF ReconcileStatuses, NumPart
  <2> QED
      BY <1>1, <1>3, <2>1, <2>2, IInvHasParts, RetryKeeps, PartsMakeIInv DEF ReconcileStatuses
<1> QED
    BY <1>2, <1>3 DEF ReconcileStatuses

LEMMA SetNeedsInterventionKeeps == ASSUME IInv, SetNeedsIntervention PROVE IInv'
<1>1. /\ DGSPart' /\ dgsCache' = dgsCache
      /\ \A m \in Names \ fresh, c \in Objects : IsCopy(m, c) => IsCopy(m, c)'
      BY IInvHasParts, StillDGSPart DEF SetNeedsIntervention, cacheVars
<1>2. ASSUME StoreCol([col EXCEPT !.health = "NeedsIntervention"]),
             Finish, UNCHANGED <<requested, faultsLeft>>
      PROVE  IInv'
  <2>1. ColPart' /\ col'.health = "NeedsIntervention" /\ col'.timesFailed = col.timesFailed
        BY <1>2, IInvHasParts, StoreHealth DEF SetNeedsIntervention, cacheVars
  <2>2. CtlPart' /\ TodoIsOld' /\ Uncounted' = 0 /\ pc' # "letgo"
        BY <1>2, IInvHasParts, FinishKeeps DEF CtlPart
  <2>3. CountIsDue'
        BY <2>1, <2>2, IInvHasParts, ForgettingKeepsCount DEF SetNeedsIntervention
  <2>4. HealthIsOfCache'
        BY <2>1 DEF HealthIsOfCache
  <2>5. NumPart'
        BY <1>2, IInvHasParts DEF SetNeedsIntervention, NumPart
  <2> QED
      BY <1>1, <2>1, <2>2, <2>3, <2>4, <2>5, PartsMakeIInv
<1>3. ASSUME CallFails, Retry, UNCHANGED colVars PROVE IInv'
  <2>1. ColPart' /\ col' = col
        BY <1>3, IInvHasParts, StillColPart DEF SetNeedsIntervention, cacheVars
  <2>2. NumPart'
        BY <1>3, IInvHasParts, CallFailsKeeps DEF SetNeedsIntervention, NumPart
  <2> QED
      BY <1>1, <1>3, <2>1, <2>2, IInvHasParts, RetryKeeps, PartsMakeIInv
      DEF SetNeedsIntervention
<1> QED
    BY <1>2, <1>3 DEF SetNeedsIntervention

LEMMA IncreaseTimesFailedKeeps == ASSUME IInv, IncreaseTimesFailed PROVE IInv'
<1>1. /\ DGSPart' /\ dgsCache' = dgsCache
      /\ \A m \in Names \ fresh, c \in Objects : IsCopy(m, c) => IsCopy(m, c)'
      BY IInvHasParts, StillDGSPart DEF IncreaseTimesFailed, cacheVars
<1>2. CtlPart' /\ TodoIsOld' /\ Uncounted' = 0 /\ pc' # "letgo"
      BY IInvHasParts, FinishKeeps DEF IncreaseTimesFailed, CtlPart
<1>3. ColPart' /\ col'.health = col.health
      /\ col'.timesFailed \in {col.timesFailed, col.timesFailed + left}
  <2>1. CASE UNCHANGED colVars
        BY <2>1, IInvHasParts, StillColPart DEF IncreaseTimesFailed, cacheVars
  <2>2. CASE StoreCol([col EXCEPT !.timesFailed = @ + left])
    <3> DEFINE new == [col EXCEPT !.timesFailed = @ + left]
    <3>1. left \in Nat /\ col \in Collections
          BY IInvHasParts DEF ColPart, CtlPart
    <3>2. /\ new \in Collections /\ new.health = col.health
          /\ new.timesFailed = col.timesFailed + left
          BY <3>1 DEF Collections
    <3> HIDE DEF new
    <3>3. StoreCol(new)
          BY <2>2 DEF new
    <3> QED
        BY <3>2, <3>3, IInvHasParts, StoreColIs DEF IncreaseTimesFailed, cacheVars
  <2> QED
      BY <2>1, <2>2 DEF IncreaseTimesFailed
<1>4. CountIsDue'
  <2>1. col.timesFailed \in Nat /\ left \in Nat /\ letGo \in Nat
        BY IInvHasParts DEF ColPart, Collections, CtlPart, NumPart
  <2>2. col.timesFailed + left <= letGo /\ letGo' = letGo
        BY IInvHasParts DEF IncreaseTimesFailed, CountIsDue, Uncounted
  <2> QED
      BY <1>2, <1>3, <2>1, <2>2 DEF CountIsDue
<1>5. HealthIsOfCache'
      BY <1>1, <1>3, IInvHasParts, StillOfCache DEF IncreaseTimesFailed
<1>6. NumPart'
      BY IInvHasParts, CallFailsKeeps DEF IncreaseTimesFailed, NumPart
<1> QED
    BY <1>1, <1>2, <1>3, <1>4, <1>5, <1>6, PartsMakeIInv

-----------------------------------------------------------------------------
(* The failed DGSs: finding them and letting them go.                      *)

\* The cached copies of some DGSs, as the loops take them in hand.
Copies(names) == {[name |-> n, obj |-> dgsCache[n]] : n \in names}

LEMMA CopiesOfNames ==
    ASSUME NEW names \in SUBSET Names
    PROVE  /\ IsFiniteSet(names) /\ Cardinality(names) \in Nat
           /\ IsFiniteSet(Copies(names)) /\ Cardinality(Copies(names)) = Cardinality(names)
           /\ Copies(names) = {} <=> names = {}
<1> DEFINE f == [n \in names |-> [name |-> n, obj |-> dgsCache[n]]]
<1>1. IsFiniteSet(names) /\ Cardinality(names) \in Nat
      BY NamesAssumption, FS_Subset, FS_CardinalityType
<1>2. f \in [names -> Copies(names)]
      BY DEF Copies
<1>3. \A t \in Copies(names) : \E n \in names : f[n] = t
      BY DEF Copies
<1>4. \A m, n \in names : f[m] = f[n] => m = n
      OBVIOUS
<1> HIDE DEF f
<1>5. f \in Bijection(names, Copies(names))
      BY <1>2, <1>3, <1>4 DEF Bijection, Injection, Surjection, IsInjective
<1>6. IsFiniteSet(Copies(names)) /\ Cardinality(Copies(names)) = Cardinality(names)
      BY <1>1, <1>5, FS_Bijection DEF ExistsBijection
<1> QED
    BY <1>1, <1>6 DEF Copies

\* They are of DGSs that exist or existed, and they are old.
LEMMA CopiesOfMembers ==
    ASSUME DGSPart, NEW names \in SUBSET Members(dgsCache)
    PROVE  /\ names \subseteq Names
           /\ Copies(names) \subseteq [name : Names, obj : DGSObjects]
           /\ \A t \in Copies(names) :
                /\ t.name \in names /\ t.name \notin fresh
                /\ t.obj = dgsCache[t.name] /\ IsCopy(t.name, t.obj)
<1>1. \A n \in names : n \in Names /\ dgsCache[n] # None /\ dgsCache[n] \in DGSObjects
      BY DEF Members, DGSPart, Objects
<1>2. \A n \in names : n \notin fresh /\ IsCopy(n, dgsCache[n])
      BY <1>1 DEF DGSPart, FreshIsUnused, CopiesAreOld
<1> QED
    BY <1>1, <1>2 DEF Copies

LEMMA FindFailedKeeps == ASSUME IInv, FindFailed PROVE IInv'
<1> DEFINE failed == FailedOnes(dgsCache)
<1>0. /\ pc = "failed" /\ dgsCache' = dgsCache /\ requested' = requested
      /\ requested \in BOOLEAN /\ letGo' = letGo /\ dgss' = dgss /\ fresh' = fresh
      BY IInvHasParts DEF FindFailed, CtlPart, cacheVars, dgsVars
<1>1. /\ DGSPart'
      /\ \A m \in Names \ fresh, c \in Objects : IsCopy(m, c) => IsCopy(m, c)'
      BY IInvHasParts, StillDGSPart DEF FindFailed, cacheVars
<1>2. ColPart' /\ col' = col
      BY IInvHasParts, StillColPart DEF FindFailed, cacheVars
<1>3. NumPart'
      BY IInvHasParts DEF FindFailed, NumPart, bounds
<1>4. HealthIsOfCache'
      BY <1>0, <1>2, IInvHasParts, StillOfCache
<1>5. CASE Finish \/ Goto("compare") \/ Goto("intervene")
  <2>1. CtlPart' /\ TodoIsOld' /\ Uncounted' = 0 /\ pc' # "letgo"
        BY <1>0, <1>5, IInvHasParts, FinishKeeps, GotoKeeps
  <2>2. CountIsDue'
        BY <1>0, <1>2, <2>1, IInvHasParts, ForgettingKeepsCount
  <2> QED
      BY <1>1, <1>2, <1>3, <1>4, <2>1, <2>2, PartsMakeIInv
<1>6. ASSUME failed # {}, pc' = "letgo", todo' = Copies(failed), left' = Cardinality(failed),
             dgsCol' = dgsCol
      PROVE  IInv'
  <2>1. failed \subseteq Members(dgsCache) /\ failed \subseteq Names
        /\ \A n \in failed : dgsCache[n].health = "Failed"
        BY DEF FailedOnes, Members
  <2> HIDE DEF failed
  <2>2. /\ left' \in Nat /\ IsFiniteSet(todo') /\ Cardinality(todo') = left' /\ todo' # {}
        BY <1>6, <2>1, CopiesOfNames
  <2>3. todo' \subseteq [name : Names, obj : DGSObjects]
        BY <1>6, <2>1, IInvHasParts, CopiesOfMembers
  <2>4. CtlPart'
    <3>1. dgsCol' \in Collections \cup {None} /\ dgsCol' # None
          BY <1>0, <1>6, IInvHasParts DEF CtlPart
    <3>2. (dgsCol' = None) = (pc' = "idle")
          BY <1>6, <3>1
    <3>3. (todo' # {}) = (pc' \in {"letgo", "mark"})
          BY <1>6, <2>2
    <3> QED
        BY <1>0, <1>6, <2>2, <2>3, <3>1, <3>2, <3>3 DEF CtlPart, LoopIsDue
  <2>5. TodoIsOld'
        BY <1>0, <1>6, <2>1, IInvHasParts, CopiesOfMembers DEF TodoIsOld, IsCopy
  <2>6. CountIsDue'
    <3>1. col.timesFailed <= letGo
          BY <1>0, IInvHasParts DEF CountIsDue, Uncounted, ColPart, Collections
    <3>2. Uncounted' = 0
          BY <1>6, <2>2 DEF Uncounted
    <3>3. col.timesFailed \in Nat /\ letGo \in Nat
          BY IInvHasParts DEF ColPart, Collections, NumPart
    <3> QED
        BY <1>0, <1>2, <2>2, <3>1, <3>2, <3>3 DEF CountIsDue
  <2> QED
      BY <1>1, <1>2, <1>3, <1>4, <2>4, <2>5, <2>6, PartsMakeIInv
<1> QED
    BY <1>5, <1>6 DEF FindFailed, Copies

\* An Update that is accepted was made from what is there, and letting a
\* failed DGS go is a change that is noticed.
LEMMA LetOneGoKeeps ==
    ASSUME IInv, NEW t \in todo, pc = "letgo", LetOneGo(t), UNCHANGED dgsCache
    PROVE  /\ DGSPart' /\ fresh' = fresh
           /\ \A m \in Names \ fresh, c \in Objects : IsCopy(m, c) => IsCopy(m, c)'
           /\ \A m \in Names : m # t.name => dgss'[m] = dgss[m]
           /\ dgsCol.failBehavior = "Remove" => dgss[t.name] = t.obj
           /\ t.obj.health = "Failed"
<1>1. /\ t.name \in Names /\ t.obj \in DGSObjects /\ t.obj # None
      /\ t.obj.health = "Failed" /\ IsCopy(t.name, t.obj)
      /\ DGSPart /\ dgss \in [Names -> Objects]
      BY IInvHasParts, NoneAssumption DEF CtlPart, TodoIsOld, DGSPart
<1>2. CASE /\ dgsCol.failBehavior = "Remove" /\ Current(t.name, t.obj)
           /\ UpdateDGS(t.name, [t.obj EXCEPT !.member = FALSE])
  <2> DEFINE new == [t.obj EXCEPT !.member = FALSE]
  <2>1. /\ new \in DGSObjects /\ new.rv = t.obj.rv /\ ~new.member /\ new.health = "Failed"
        /\ t.obj.rv \in Nat
        BY <1>1 DEF DGSObjects
  <2>2. dgss[t.name] # None /\ dgss[t.name].rv = t.obj.rv
        BY <1>2 DEF Current
  <2>3. dgss[t.name] = t.obj
        BY <1>1, <2>1, <2>2 DEF IsCopy
  <2>4. UpdateDGS(t.name, new)
        BY <1>2
  <2> HIDE DEF new
  <2>5. StaysAway(dgss[t.name], new) /\ ~IsSilent(new)
        BY <2>1, NoneAssumption DEF StaysAway, HasLeft, IsSilent, Enqueues
  <2>6. /\ DGSPart' /\ fresh' = fresh
        /\ \A m \in Names \ fresh, c \in Objects : IsCopy(m, c) => IsCopy(m, c)'
        BY <1>1, <2>1, <2>2, <2>4, <2>5, UpdateKeeps
  <2>7. \A m \in Names : m # t.name => dgss'[m] = dgss[m]
        BY <1>1, <2>4 DEF UpdateDGS, SetDGS
  <2> QED
      BY <1>1, <2>3, <2>6, <2>7
<1>3. CASE /\ dgsCol.failBehavior = "Delete" /\ dgss[t.name] # None /\ DeleteDGS(t.name)
  <2>1. \A m \in Names : m # t.name => dgss'[m] = dgss[m]
        BY <1>1, <1>3 DEF DeleteDGS, SetDGS
  <2> QED
      BY <1>1, <1>3, <2>1, DeleteKeeps
<1> QED
    BY <1>2, <1>3 DEF LetOneGo

LEMMA LetFailedGoKeeps == ASSUME IInv, LetFailedGo PROVE IInv'
<1>0. /\ pc = "letgo" /\ dgsCache' = dgsCache /\ requested \in BOOLEAN
      /\ ColPart' /\ col' = col /\ postsLeft' = postsLeft /\ changesLeft' = changesLeft
      BY IInvHasParts, StillColPart DEF LetFailedGo, CtlPart, cacheVars
<1>1. ASSUME NEW t \in todo, LetOneGo(t), todo' = todo \ {t},
             pc' = IF todo' = {} THEN "count" ELSE "letgo", letGo' = letGo + 1,
             UNCHANGED <<requested, dgsCol, left, faultsLeft>>
      PROVE  IInv'
  <2>1. /\ DGSPart' /\ fresh' = fresh
        /\ \A m \in Names \ fresh, c \in Objects : IsCopy(m, c) => IsCopy(m, c)'
        BY <1>0, <1>1, LetOneGoKeeps
  <2>2. TodoIsOld'
        BY <1>0, <1>1, <2>1, IInvHasParts, TodoStaysOld
  <2>3. CtlPart'
    <3>1. dgsCol' \in Collections \cup {None} /\ dgsCol' # None
          BY <1>0, <1>1, IInvHasParts DEF CtlPart
    <3>2. (dgsCol' = None) = (pc' = "idle")
          BY <1>1, <3>1
    <3>3. (todo' # {}) = (pc' \in {"letgo", "mark"})
          BY <1>1
    <3>4. left' \in Nat /\ todo' \subseteq [name : Names, obj : DGSObjects]
          BY <1>1, IInvHasParts DEF CtlPart
    <3> QED
        BY <1>0, <1>1, <3>1, <3>2, <3>3, <3>4 DEF CtlPart, LoopIsDue
  <2>4. CountIsDue'
    <3>1. /\ IsFiniteSet(todo) /\ Cardinality(todo) <= left /\ left \in Nat
          /\ col.timesFailed + (left - Cardinality(todo)) <= letGo
          /\ col.timesFailed \in Nat /\ letGo \in Nat
          BY <1>0, IInvHasParts DEF CountIsDue, Uncounted, CtlPart, ColPart, Collections, NumPart
    <3>2. /\ IsFiniteSet(todo') /\ Cardinality(todo') = Cardinality(todo) - 1
          /\ Cardinality(todo) \in Nat
          BY <1>1, <3>1, FS_RemoveElement, FS_CardinalityType
    <3>3. Uncounted' = left - Cardinality(todo')
      <4>1. CASE todo' = {}
            BY <1>1, <3>1, <4>1, FS_EmptySet DEF Uncounted
      <4>2. CASE todo' # {}
            BY <1>1, <4>2 DEF Uncounted
      <4> QED
          BY <4>1, <4>2
    <3> QED
        BY <1>0, <1>1, <3>1, <3>2, <3>3 DEF CountIsDue
  <2>5. HealthIsOfCache'
        BY <1>0, <1>1, IInvHasParts, StillOfCache
  <2>6. NumPart'
        BY <1>0, <1>1, IInvHasParts DEF NumPart
  <2> QED
      BY <1>0, <2>1, <2>2, <2>3, <2>4, <2>5, <2>6, PartsMakeIInv
<1>2. ASSUME Retry, UNCHANGED <<dgsVars, letGo>>, faultsLeft' = faultsLeft \/ CallFails
      PROVE  IInv'
  <2>1. DGSPart'
        BY <1>0, <1>2, IInvHasParts, StillDGSPart
  <2>2. NumPart'
        BY <1>0, <1>2, IInvHasParts, CallFailsKeeps DEF NumPart
  <2> QED
      BY <1>0, <1>2, <2>1, <2>2, RetryKeeps, PartsMakeIInv
<1>3. ASSUME NEW t \in todo, CallFails, Retry, LetOneGo(t), letGo' = letGo + 1
      PROVE  IInv'
  <2>1. DGSPart'
        BY <1>0, <1>3, LetOneGoKeeps
  <2>2. NumPart'
        BY <1>0, <1>3, IInvHasParts, CallFailsKeeps DEF NumPart
  <2> QED
      BY <1>0, <1>3, <2>1, <2>2, RetryKeeps, PartsMakeIInv
<1> QED
    BY <1>1, <1>2, <1>3 DEF LetFailedGo

-----------------------------------------------------------------------------
(* The replicas: comparing, adding and removing.                           *)

LEMMA CompareReplicasKeeps == ASSUME IInv, CompareReplicas PROVE IInv'
<1> DEFINE existing == NotFailed(dgsCache)
           present == Cardinality(existing)
<1>0. /\ pc = "compare" /\ dgsCache' = dgsCache /\ requested' = requested
      /\ requested \in BOOLEAN /\ letGo' = letGo /\ dgss' = dgss /\ fresh' = fresh
      /\ dgsCol \in Collections /\ dgsCol # None
      BY IInvHasParts DEF CompareReplicas, CtlPart, cacheVars, dgsVars
<1>1. /\ DGSPart'
      /\ \A m \in Names \ fresh, c \in Objects : IsCopy(m, c) => IsCopy(m, c)'
      BY IInvHasParts, StillDGSPart DEF CompareReplicas, cacheVars
<1>2. ColPart' /\ col' = col
      BY IInvHasParts, StillColPart DEF CompareReplicas, cacheVars
<1>3. NumPart'
      BY IInvHasParts DEF CompareReplicas, NumPart, bounds
<1>4. HealthIsOfCache'
      BY <1>0, <1>2, IInvHasParts, StillOfCache
<1>5. /\ existing \subseteq Members(dgsCache) /\ existing \subseteq Names
      /\ present \in Nat /\ dgsCol.replicas \in Nat
  <2>1. existing \subseteq Members(dgsCache) /\ existing \subseteq Names
        BY DEF NotFailed, Members
  <2> QED
      BY <1>0, <2>1, CopiesOfNames DEF Collections
<1> HIDE DEF existing
<1>6. CASE Finish \/ Goto("drawing")
  <2>1. CtlPart' /\ TodoIsOld' /\ Uncounted' = 0 /\ pc' # "letgo"
        BY <1>0, <1>6, IInvHasParts, FinishKeeps, GotoKeeps
  <2>2. CountIsDue'
        BY <1>0, <1>2, <2>1, IInvHasParts, ForgettingKeepsCount
  <2> QED
      BY <1>1, <1>2, <1>3, <1>4, <2>1, <2>2, PartsMakeIInv
<1>7. ASSUME present < dgsCol.replicas, pc' = "add", left' = dgsCol.replicas - present,
             UNCHANGED <<dgsCol, todo>>
      PROVE  IInv'
  <2>1. todo' = {} /\ left' \in Nat /\ left' > 0
        BY <1>0, <1>5, <1>7, IInvHasParts DEF CtlPart
  <2>2. CtlPart'
    <3>1. (dgsCol' = None) = (pc' = "idle")
          BY <1>0, <1>7
    <3>2. (todo' # {}) = (pc' \in {"letgo", "mark"})
          BY <1>7, <2>1
    <3> QED
        BY <1>0, <1>7, <2>1, <3>1, <3>2 DEF CtlPart, LoopIsDue
  <2>3. TodoIsOld' /\ Uncounted' = 0
        BY <1>7, <2>1 DEF TodoIsOld, Uncounted
  <2>4. CountIsDue'
        BY <1>0, <1>2, <1>7, <2>3, IInvHasParts, ForgettingKeepsCount
  <2> QED
      BY <1>1, <1>2, <1>3, <1>4, <2>2, <2>3, <2>4, PartsMakeIInv
<1>8. ASSUME NEW chosen \in SUBSET existing, present > dgsCol.replicas, pc' = "mark",
             Cardinality(chosen) = present - dgsCol.replicas, todo' = Copies(chosen),
             UNCHANGED <<dgsCol, left>>
      PROVE  IInv'
  <2>1. chosen \in SUBSET Members(dgsCache) /\ chosen \in SUBSET Names
        BY <1>5
  <2>2. todo' # {}
        BY <1>5, <1>8, <2>1, CopiesOfNames, FS_EmptySet
  <2>3. todo' \subseteq [name : Names, obj : DGSObjects]
        BY <1>8, <2>1, IInvHasParts, CopiesOfMembers
  <2>4. CtlPart'
    <3>1. (dgsCol' = None) = (pc' = "idle")
          BY <1>0, <1>8
    <3>2. (todo' # {}) = (pc' \in {"letgo", "mark"})
          BY <1>8, <2>2
    <3>3. left' \in Nat
          BY <1>8, IInvHasParts DEF CtlPart
    <3> QED
        BY <1>0, <1>8, <2>3, <3>1, <3>2, <3>3 DEF CtlPart, LoopIsDue
  <2>5. TodoIsOld'
        BY <1>0, <1>8, <2>1, IInvHasParts, CopiesOfMembers DEF TodoIsOld, IsCopy
  <2>6. Uncounted' = 0
        BY <1>8 DEF Uncounted
  <2>7. CountIsDue'
        BY <1>0, <1>2, <1>8, <2>6, IInvHasParts, ForgettingKeepsCount
  <2> QED
      BY <1>1, <1>2, <1>3, <1>4, <2>4, <2>5, <2>7, PartsMakeIInv
<1> QED
    BY <1>6, <1>7, <1>8 DEF CompareReplicas, Copies, existing

LEMMA AddDGSColReplicaKeeps == ASSUME IInv, AddDGSColReplica PROVE IInv'
<1>0. /\ pc = "add" /\ dgsCache' = dgsCache /\ requested \in BOOLEAN /\ letGo' = letGo
      /\ ColPart' /\ col' = col /\ postsLeft' = postsLeft /\ changesLeft' = changesLeft
      /\ todo = {} /\ left \in Nat /\ left > 0
      /\ dgsCol \in Collections /\ dgsCol # None
      BY IInvHasParts, StillColPart DEF AddDGSColReplica, CtlPart, LoopIsDue, cacheVars
<1>1. ASSUME NEW n \in fresh, SetDGS(n, NewDedicatedGameServer), fresh' = fresh \ {n}
      PROVE  DGSPart'
  <2>1. n \in Names /\ Follows(n, NewDedicatedGameServer)
        BY <1>1, IInvHasParts DEF DGSPart, Follows
  <2> QED
      BY <1>0, <1>1, <2>1, IInvHasParts, SetDGSKeeps
<1>2. ASSUME DGSPart', left' = left - 1, pc' = IF left' = 0 THEN "idle" ELSE "add",
             dgsCol' = IF left' = 0 THEN None ELSE dgsCol, UNCHANGED <<todo, requested, faultsLeft>>
      PROVE  IInv'
  <2>1. CtlPart'
    <3>1. (dgsCol' = None) = (pc' = "idle")
          BY <1>0, <1>2
    <3>2. (todo' # {}) = (pc' \in {"letgo", "mark"})
          BY <1>0, <1>2
    <3>3. left' \in Nat /\ LoopIsDue'
          BY <1>0, <1>2 DEF LoopIsDue
    <3>4. dgsCol' \in Collections \cup {None} /\ todo' = {}
          BY <1>0, <1>2
    <3> QED
        BY <1>0, <1>2, <3>1, <3>2, <3>3, <3>4 DEF CtlPart
  <2>2. TodoIsOld' /\ Uncounted' = 0 /\ pc' # "letgo"
        BY <1>0, <1>2 DEF TodoIsOld, Uncounted
  <2>3. CountIsDue'
        BY <1>0, <2>2, IInvHasParts, ForgettingKeepsCount
  <2>4. HealthIsOfCache'
        BY <1>0, <1>2, IInvHasParts, StillOfCache
  <2>5. NumPart'
        BY <1>0, <1>2, IInvHasParts DEF NumPart
  <2> QED
      BY <1>0, <1>2, <2>1, <2>2, <2>3, <2>4, <2>5, PartsMakeIInv
<1>3. ASSUME DGSPart', Retry, faultsLeft' = faultsLeft \/ CallFails PROVE IInv'
  <2>1. NumPart'
        BY <1>0, <1>3, IInvHasParts, CallFailsKeeps DEF NumPart
  <2> QED
      BY <1>0, <1>3, <2>1, RetryKeeps, PartsMakeIInv
<1>4. UNCHANGED dgsVars => DGSPart'
      BY <1>0, IInvHasParts, StillDGSPart
<1> QED
    BY <1>1, <1>2, <1>3, <1>4 DEF AddDGSColReplica

LEMMA RemoveDGSColReplicaKeeps == ASSUME IInv, RemoveDGSColReplica PROVE IInv'
<1>0. /\ pc = "mark" /\ dgsCache' = dgsCache /\ requested \in BOOLEAN /\ letGo' = letGo
      /\ ColPart' /\ col' = col /\ postsLeft' = postsLeft /\ changesLeft' = changesLeft
      /\ dgsCol \in Collections /\ dgsCol # None /\ left \in Nat
      BY IInvHasParts, StillColPart DEF RemoveDGSColReplica, CtlPart, cacheVars
<1>1. ASSUME NEW t \in todo, dgsCache[t.name] # None, Current(t.name, dgsCache[t.name]),
             UpdateDGS(t.name, [dgsCache[t.name] EXCEPT !.member = FALSE, !.marked = TRUE])
      PROVE  /\ DGSPart' /\ fresh' = fresh
             /\ \A m \in Names \ fresh, c \in Objects : IsCopy(m, c) => IsCopy(m, c)'
  <2> DEFINE copy == dgsCache[t.name]
             new == [copy EXCEPT !.member = FALSE, !.marked = TRUE]
  <2>1. t.name \in Names /\ DGSPart /\ copy \in DGSObjects
        BY <1>1, IInvHasParts DEF CtlPart, DGSPart, Objects
  <2>2. /\ new \in DGSObjects /\ new.rv = copy.rv /\ ~new.member /\ new.marked
        BY <2>1 DEF DGSObjects
  <2>3. dgss[t.name] # None /\ dgss[t.name].rv = copy.rv
        BY <1>1 DEF Current
  <2>4. UpdateDGS(t.name, new)
        BY <1>1
  <2> HIDE DEF new, copy
  <2>5. StaysAway(dgss[t.name], new) /\ ~IsSilent(new)
        BY <2>2, NoneAssumption DEF StaysAway, HasLeft, IsSilent, Enqueues
  <2> QED
      BY <1>0, <2>1, <2>2, <2>3, <2>4, <2>5, UpdateKeeps
<1>2. ASSUME DGSPart', fresh' = fresh, NEW t \in todo, todo' = todo \ {t},
             \A m \in Names \ fresh, c \in Objects : IsCopy(m, c) => IsCopy(m, c)',
             pc' = IF todo' = {} THEN "idle" ELSE "mark",
             dgsCol' = IF todo' = {} THEN None ELSE dgsCol,
             UNCHANGED <<left, requested, faultsLeft>>
      PROVE  IInv'
  <2>1. CtlPart'
    <3>1. (dgsCol' = None) = (pc' = "idle")
          BY <1>0, <1>2
    <3>2. (todo' # {}) = (pc' \in {"letgo", "mark"})
          BY <1>2
    <3>3. left' \in Nat /\ LoopIsDue'
          BY <1>0, <1>2 DEF LoopIsDue
    <3>4. /\ dgsCol' \in Collections \cup {None}
          /\ todo' \subseteq [name : Names, obj : DGSObjects]
          BY <1>0, <1>2, IInvHasParts DEF CtlPart
    <3> QED
        BY <1>0, <1>2, <3>1, <3>2, <3>3, <3>4 DEF CtlPart
  <2>2. TodoIsOld'
        BY <1>0, <1>2, IInvHasParts, TodoStaysOld
  <2>3. Uncounted' = 0 /\ pc' # "letgo"
        BY <1>2 DEF Uncounted
  <2>4. CountIsDue'
        BY <1>0, <2>3, IInvHasParts, ForgettingKeepsCount
  <2>5. HealthIsOfCache'
        BY <1>0, <1>2, IInvHasParts, StillOfCache
  <2>6. NumPart'
        BY <1>0, <1>2, IInvHasParts DEF NumPart
  <2> QED
      BY <1>0, <1>2, <2>1, <2>2, <2>4, <2>5, <2>6, PartsMakeIInv
<1>3. ASSUME DGSPart', Retry, faultsLeft' = faultsLeft \/ CallFails PROVE IInv'
  <2>1. NumPart'
        BY <1>0, <1>3, IInvHasParts, CallFailsKeeps DEF NumPart
  <2> QED
      BY <1>0, <1>3, <2>1, RetryKeeps, PartsMakeIInv
<1>4. UNCHANGED dgsVars => DGSPart'
      BY <1>0, IInvHasParts, StillDGSPart
<1> QED
    BY <1>1, <1>2, <1>3, <1>4 DEF RemoveDGSColReplica

-----------------------------------------------------------------------------
(* The process and everybody else.                                         *)

LEMMA RestartKeeps == ASSUME IInv, Restart PROVE IInv'
<1>0. /\ dgss' = dgss /\ fresh' = fresh /\ dgsCache' = dgss /\ dgsWatch' = <<>>
      /\ dgss \in [Names -> Objects] /\ fresh \subseteq Names
      /\ \A n \in fresh : dgss[n] = None
      BY IInvHasParts DEF Restart, DGSPart, FreshIsUnused
<1>1. DGSPart'
      BY <1>0 DEF DGSPart, CopiesAreOld, IsCopy, FreshIsUnused, DGSsInFlight, NoneAfter,
                  GoneIsGone, LeftForGood, StaysAway, HasLeft, SilentHaveLeft
<1>2. ColPart' /\ col' = col
      BY IInvHasParts DEF Restart, ColPart
<1>3. CtlPart' /\ TodoIsOld' /\ Uncounted' = 0 /\ pc' # "letgo"
      BY IInvHasParts, FinishKeeps DEF Restart
<1>4. CountIsDue'
      BY <1>2, <1>3, IInvHasParts, ForgettingKeepsCount DEF Restart
<1>5. HealthIsOfCache'
      BY DEF Restart, HealthIsOfCache
<1>6. NumPart'
      BY IInvHasParts, CallFailsKeeps DEF Restart, NumPart, CallFails
<1> QED
    BY <1>1, <1>2, <1>3, <1>4, <1>5, <1>6, PartsMakeIInv

\* A new version of a DGS by somebody else, who does not touch its owner.
LEMMA StatusUpdateKeeps ==
    ASSUME IInv, NEW n \in Names, NEW new \in DGSObjects, dgss[n] # None, UpdateDGS(n, new),
           new.rv = dgss[n].rv, new.member = dgss[n].member, UNCHANGED dgsCache
    PROVE  /\ DGSPart' /\ fresh' = fresh
           /\ \A m \in Names \ fresh, c \in Objects : IsCopy(m, c) => IsCopy(m, c)'
<1>1. StaysAway(dgss[n], new) /\ (IsSilent(new) => HasLeft(dgss[n]))
      BY NoneAssumption DEF StaysAway, HasLeft, IsSilent, Enqueues
<1> QED
    BY <1>1, IInvHasParts, UpdateKeeps

LEMMA PostHealthKeeps ==
    ASSUME IInv, NEW n \in Names, NEW h \in {"Healthy", "Failed"}, PostHealth(n, h)
    PROVE  IInv'
<1>1. dgss[n] \in DGSObjects /\ dgss[n] # None
      BY IInvHasParts DEF PostHealth, DGSPart, Objects
<1> DEFINE new == [dgss[n] EXCEPT !.health = h]
<1>2. new \in DGSObjects /\ new.rv = dgss[n].rv /\ new.member = dgss[n].member
      BY <1>1 DEF DGSObjects, Healths
<1>3. UpdateDGS(n, new)
      BY DEF PostHealth
<1> HIDE DEF new
<1>4. /\ DGSPart' /\ fresh' = fresh
      /\ \A m \in Names \ fresh, c \in Objects : IsCopy(m, c) => IsCopy(m, c)'
      BY <1>1, <1>2, <1>3, StatusUpdateKeeps DEF PostHealth, cacheVars
<1>5. ColPart' /\ col' = col
      BY IInvHasParts, StillColPart DEF PostHealth, cacheVars
<1>6. CtlPart' /\ TodoIsOld' /\ CountIsDue' /\ HealthIsOfCache'
      BY <1>4, <1>5, StillTheRest DEF PostHealth
<1>7. NumPart'
      BY IInvHasParts, NumbersAssumption DEF PostHealth, NumPart
<1> QED
    BY <1>4, <1>5, <1>6, <1>7, PartsMakeIInv

LEMMA UpdateStatusKeeps ==
    ASSUME IInv, NEW n \in Names, NEW phase \in Phases, UpdateStatus(n, phase) PROVE IInv'
<1>1. dgss[n] \in DGSObjects /\ dgss[n] # None
      BY IInvHasParts DEF UpdateStatus, DGSPart, Objects
<1> DEFINE new == [dgss[n] EXCEPT !.phase = phase]
<1>2. new \in DGSObjects /\ new.rv = dgss[n].rv /\ new.member = dgss[n].member
      BY <1>1 DEF DGSObjects
<1>3. UpdateDGS(n, new)
      BY DEF UpdateStatus
<1> HIDE DEF new
<1>4. /\ DGSPart' /\ fresh' = fresh
      /\ \A m \in Names \ fresh, c \in Objects : IsCopy(m, c) => IsCopy(m, c)'
      BY <1>1, <1>2, <1>3, StatusUpdateKeeps DEF UpdateStatus, cacheVars
<1>5. ColPart' /\ col' = col
      BY IInvHasParts, StillColPart DEF UpdateStatus, cacheVars
<1>6. CtlPart' /\ TodoIsOld' /\ CountIsDue' /\ HealthIsOfCache'
      BY <1>4, <1>5, StillTheRest DEF UpdateStatus
<1>7. NumPart'
      BY IInvHasParts, NumbersAssumption DEF UpdateStatus, NumPart
<1> QED
    BY <1>4, <1>5, <1>6, <1>7, PartsMakeIInv

LEMMA DeletionKeeps ==
    ASSUME IInv, NEW n \in Names, DeleteMarked(n) \/ DeletedByOthers(n) PROVE IInv'
<1>1. /\ dgss[n] # None /\ DeleteDGS(n)
      /\ UNCHANGED <<colVars, cacheVars, requested, syncVars, letGo>>
      BY DEF DeleteMarked, DeletedByOthers
<1>2. /\ DGSPart' /\ fresh' = fresh
      /\ \A m \in Names \ fresh, c \in Objects : IsCopy(m, c) => IsCopy(m, c)'
      BY <1>1, IInvHasParts, DeleteKeeps DEF cacheVars
<1>3. ColPart' /\ col' = col
      BY <1>1, IInvHasParts, StillColPart DEF cacheVars
<1>4. CtlPart' /\ TodoIsOld' /\ CountIsDue' /\ HealthIsOfCache'
      BY <1>1, <1>2, <1>3, StillTheRest
<1>5. NumPart'
      BY <1>1, IInvHasParts, NumbersAssumption DEF DeleteMarked, DeletedByOthers, NumPart, bounds
<1> QED
    BY <1>2, <1>3, <1>4, <1>5, PartsMakeIInv

LEMMA ChangeReplicasKeeps ==
    ASSUME IInv, NEW r \in ReplicaChoices, ChangeReplicas(r) PROVE IInv'
<1>1. /\ DGSPart' /\ fresh' = fresh
      /\ \A m \in Names \ fresh, c \in Objects : IsCopy(m, c) => IsCopy(m, c)'
      BY IInvHasParts, StillDGSPart DEF ChangeReplicas, cacheVars, dgsVars
<1> DEFINE new == [col EXCEPT !.replicas = r]
<1>2. new \in Collections /\ new.health = col.health /\ new.timesFailed = col.timesFailed
  <2>1. r \in Nat /\ col \in Collections
        BY IInvHasParts, NumbersAssumption DEF ColPart
  <2> QED
      BY <2>1 DEF Collections
<1>3. StoreCol(new)
      BY DEF ChangeReplicas
<1> HIDE DEF new
<1>4. ColPart' /\ col' = new
      BY <1>2, <1>3, IInvHasParts, StoreColIs DEF ChangeReplicas, cacheVars
<1>5. CtlPart' /\ TodoIsOld' /\ CountIsDue' /\ HealthIsOfCache'
      BY <1>1, <1>2, <1>4, StillTheRest DEF ChangeReplicas
<1>6. NumPart'
      BY IInvHasParts, NumbersAssumption DEF ChangeReplicas, NumPart
<1> QED
    BY <1>1, <1>4, <1>5, <1>6, PartsMakeIInv

LEMMA StutterKeeps == ASSUME IInv, UNCHANGED vars PROVE IInv'
<1>1. /\ DGSPart' /\ fresh' = fresh
      /\ \A m \in Names \ fresh, c \in Objects : IsCopy(m, c) => IsCopy(m, c)'
      BY IInvHasParts, StillDGSPart DEF vars, cacheVars, dgsVars
<1>2. ColPart' /\ col' = col
      BY IInvHasParts, StillColPart DEF vars, cacheVars
<1>3. CtlPart' /\ TodoIsOld' /\ CountIsDue' /\ HealthIsOfCache'
      BY <1>1, <1>2, StillTheRest DEF vars
<1>4. NumPart'
      BY IInvHasParts DEF vars, NumPart, bounds
<1> QED
    BY <1>1, <1>2, <1>3, <1>4, PartsMakeIInv

LEMMA NextKeepsIInv == IInv /\ [Next]_vars => IInv'
<1> SUFFICES ASSUME IInv, [Next]_vars PROVE IInv'
    OBVIOUS
<1>1. CASE Informers
      BY <1>1, DeliverColKeeps, DeliverDGSKeeps DEF Informers
<1>2. CASE SyncHandler
      BY <1>2, BeginSyncKeeps, ReconcileStatusesKeeps, FindFailedKeeps, SetNeedsInterventionKeeps,
         LetFailedGoKeeps, IncreaseTimesFailedKeeps, CompareReplicasKeeps,
         AddDGSColReplicaKeeps, RemoveDGSColReplicaKeeps
      DEF SyncHandler
<1>3. CASE Others
      BY <1>3, DeletionKeeps, PostHealthKeeps, UpdateStatusKeeps, ChangeReplicasKeeps
      DEF Others
<1> QED
    BY <1>1, <1>2, <1>3, RestartKeeps, StutterKeeps DEF Next

-----------------------------------------------------------------------------
(* What follows.                                                           *)

\* The inductive invariant holds in every behaviour of the controller.
THEOREM Invariance == Spec => []IInv
BY InitIInv, NextKeepsIInv, PTL DEF Spec

\* Every variable has its type: the worker has a collection in hand exactly
\* while it works, and DGSs exactly in its two loops.
THEOREM TypeCorrect == Spec => []TypeOK
<1>1. IInv => TypeOK
      BY DEF IInv
<1> QED
    BY <1>1, Invariance, PTL

\* TimesFailed never exceeds the number of DGSs that were let go as failed,
\* whatever is retried, restarted or read from a stale cache
\* (handleDGSFailed, increaseTimesFailed).
THEOREM NoOvercount == Spec => []NeverOvercounted
<1>1. ASSUME IInv PROVE NeverOvercounted
  <2>1. /\ col.timesFailed + Uncounted <= letGo /\ Uncounted \in Nat
        /\ col.timesFailed \in Nat /\ letGo \in Nat /\ left \in Nat
        BY <1>1, IInvHasParts, UncountedIsNat
        DEF CountIsDue, ColPart, Collections, NumPart, CtlPart
  <2>2. pc = "count" => Uncounted = left
        BY DEF Uncounted
  <2> QED
      BY <2>1, <2>2 DEF NeverOvercounted
<1> QED
    BY <1>1, Invariance, PTL

\* With empty watches the cache is what is stored.
LEMMA CacheIsTrue ==
    ASSUME DGSPart, dgsWatch = <<>> PROVE dgsCache = dgss
<1>1. \A n \in Names : dgsCache[n] = dgss[n]
      BY DEF DGSPart, DGSsInFlight
<1> QED
    BY <1>1 DEF DGSPart

\* Once the controller is quiet the collection's health is Healthy exactly
\* if all its DGSs are: no event that matters is filtered away by
\* hasDGSStatusChanged and handleDedicatedGameServer.
THEOREM HealthBecomesTrue == Spec => []QuietHealthIsTrue
<1>1. ASSUME IInv PROVE QuietHealthIsTrue
  <2> SUFFICES ASSUME Quiet, col.health # "NeedsIntervention"
               PROVE  (col.health = "Healthy")
                        = (\A n \in Members(dgss) : dgss[n].health = "Healthy")
    BY DEF QuietHealthIsTrue
  <2>1. dgsCache = dgss
        BY <1>1, IInvHasParts, CacheIsTrue DEF Quiet
  <2>2. col.health = "Healthy" <=> AllHealthy(dgss)
        BY <1>1, <2>1, IInvHasParts DEF HealthIsOfCache, Quiet
  <2> QED
      BY <2>2 DEF AllHealthy
<1> QED
    BY <1>1, Invariance, PTL

\* With the behaviour Remove only DGSs that are failed when it happens lose
\* their owner (handleDGSFailed, whose Update carries the version).
THEOREM OnlyFailedLeave == Spec => OnlyFailedAreLetGo
<1>1. ASSUME IInv, LetFailedGo, dgsCol.failBehavior = "Remove",
             NEW n \in Members(dgss) \ Members(dgss')
      PROVE  dgss[n].health = "Failed"
  <2>1. n \in Names /\ dgss'[n] # dgss[n]
        BY <1>1 DEF Members
  <2>2. pc = "letgo" /\ dgsCache' = dgsCache
        BY <1>1 DEF LetFailedGo, cacheVars
  <2>3. PICK t \in todo : LetOneGo(t)
        BY <1>1, <2>1 DEF LetFailedGo, dgsVars
  <2> QED
      BY <1>1, <2>1, <2>2, <2>3, LetOneGoKeeps
<1>2. IInv /\ [Next]_vars =>
        [LetFailedGo /\ dgsCol.failBehavior = "Remove" =>
            \A n \in Members(dgss) \ Members(dgss') : dgss[n].health = "Failed"]_vars
      BY <1>1
<1> QED
    BY <1>2, Invariance, PTL DEF Spec, OnlyFailedAreLetGo

\* No step brings a collection back from NeedsIntervention: neither the
\* health reconcileStatuses computes nor a write that is repeated.
THEOREM InterventionStays == Spec => InterventionIsSticky
<1>1. ASSUME ColPart, NEW new \in Collections, StoreCol(new) PROVE col' = new
      BY <1>1 DEF StoreCol, colVars
<1>2. ASSUME IInv, Next, col.health = "NeedsIntervention"
      PROVE  col'.health = "NeedsIntervention"
  <2>1. CASE UNCHANGED col
        BY <1>2, <2>1
  <2>2. CASE ReconcileStatuses
    <3>1. ASSUME NEW h \in HealthsFrom(col.health), StoreCol([col EXCEPT !.health = h])
          PROVE  col'.health = "NeedsIntervention"
          BY <1>2, <2>2, <3>1, IInvHasParts, HealthsAre, StoreHealth
          DEF ReconcileStatuses, cacheVars
    <3> QED
        BY <1>2, <2>2, <3>1 DEF ReconcileStatuses, colVars
  <2>3. CASE SetNeedsIntervention
        BY <1>2, <2>3, IInvHasParts, StoreHealth DEF SetNeedsIntervention, colVars, cacheVars
  <2>4. CASE IncreaseTimesFailed
    <3> DEFINE new == [col EXCEPT !.timesFailed = @ + left]
    <3>1. new \in Collections /\ new.health = col.health
      <4>1. left \in Nat /\ col \in Collections
            BY <1>2, IInvHasParts DEF ColPart, CtlPart
      <4> QED
          BY <4>1 DEF Collections
    <3> HIDE DEF new
    <3>2. col' = new \/ col' = col
          BY <1>2, <2>4, <1>1, <3>1, IInvHasParts DEF IncreaseTimesFailed, colVars, new
    <3> QED
        BY <1>2, <3>1, <3>2
  <2>5. ASSUME NEW r \in ReplicaChoices, ChangeReplicas(r) PROVE col'.health = col.health
        BY <2>5, <1>2, IInvHasParts DEF ChangeReplicas, StoreCol, colVars, ColPart, Collections
  <2> QED
      BY <1>2, <2>1, <2>2, <2>3, <2>4, <2>5
      DEF Next, Informers, DeliverCol, DeliverDGS, SyncHandler, BeginSync, FindFailed,
          LetFailedGo, CompareReplicas, AddDGSColReplica, RemoveDGSColReplica, Restart, Others,
          DeleteMarked, DeletedByOthers, PostHealth, UpdateStatus, colVars
<1>3. IInv /\ [Next]_vars =>
        [col.health = "NeedsIntervention" => col'.health = "NeedsIntervention"]_vars
      BY <1>2
<1> QED
    BY <1>3, Invariance, PTL DEF Spec, InterventionIsSticky
-----------------------------------------------------------------------------
(* When DGSMaxFailures does bound the failures.                            *)

\* DGSs fail one by one: the next is only seen when the last was let go.
OneFailureAtATime == Cardinality(FailedOnes(dgsCache)) <= 1

\* A sync starts with the number of failures that was counted last.
ReadsAreFresh == BeginSync => colCache.timesFailed = col.timesFailed

\* The sync goes by the current number, and one more may be added to it.
BoundInv ==
    /\ FailuresAreBounded
    /\ pc # "idle" => dgsCol.timesFailed = col.timesFailed
    /\ pc \in {"letgo", "count"} => left <= 1 /\ col.timesFailed < DGSMaxFailures

LEMMA SameCountKeepsBound ==
    ASSUME BoundInv, col'.timesFailed = col.timesFailed, pc' # "idle" => dgsCol' = dgsCol,
           pc' # "idle" => pc # "idle",
           pc' \in {"letgo", "count"} => pc \in {"letgo", "count"} /\ left' = left
    PROVE  BoundInv'
BY DEF BoundInv, FailuresAreBounded

LEMMA SyncKeepsBound ==
    ASSUME DGSMaxFailures \in Nat, IInv, BoundInv, OneFailureAtATime, SyncHandler, ReadsAreFresh
    PROVE  BoundInv'
<1>0. /\ ColPart /\ CtlPart /\ DGSPart /\ col.timesFailed \in Nat /\ left \in Nat
      /\ colCache.timesFailed \in Nat
      BY IInvHasParts DEF ColPart, CtlPart, Collections
<1>1. CASE BeginSync
      BY <1>1 DEF BeginSync, BoundInv, FailuresAreBounded, ReadsAreFresh, colVars
<1>2. CASE ReconcileStatuses
  <2>1. col'.timesFailed = col.timesFailed
    <3>1. ASSUME NEW h \in HealthsFrom(col.health), StoreCol([col EXCEPT !.health = h])
          PROVE  col'.timesFailed = col.timesFailed
          BY <1>0, <1>2, <3>1, HealthsAre, StoreHealth DEF ReconcileStatuses, cacheVars
    <3> QED
        BY <1>2, <3>1 DEF ReconcileStatuses, colVars
  <2> QED
      BY <1>2, <2>1, SameCountKeepsBound DEF ReconcileStatuses, Goto, Retry, Finish
<1>3. CASE FindFailed
  <2>1. col' = col /\ pc = "failed"
        BY <1>3 DEF FindFailed, colVars
  <2>2. CASE pc' = "letgo"
    <3>1. /\ dgsCol.timesFailed # DGSMaxFailures /\ dgsCol' = dgsCol
          /\ left' = Cardinality(FailedOnes(dgsCache))
          BY <1>3, <2>2 DEF FindFailed, Goto, Finish
    <3> QED
        BY <1>0, <2>1, <2>2, <3>1 DEF BoundInv, FailuresAreBounded, OneFailureAtATime
  <2>3. CASE pc' # "letgo"
        BY <1>3, <2>1, <2>3, SameCountKeepsBound DEF FindFailed, Goto, Finish
  <2> QED
      BY <2>2, <2>3
<1>4. CASE SetNeedsIntervention
  <2>1. col'.timesFailed = col.timesFailed
        BY <1>0, <1>4, StoreHealth DEF SetNeedsIntervention, colVars, cacheVars
  <2> QED
      BY <1>4, <2>1, SameCountKeepsBound DEF SetNeedsIntervention, Retry, Finish
<1>5. CASE LetFailedGo
  <2>1. col' = col /\ pc = "letgo"
        BY <1>5 DEF LetFailedGo, colVars
  <2>2. pc' = "idle" \/ (pc' \in {"letgo", "count"} /\ left' = left /\ dgsCol' = dgsCol)
        BY <1>5 DEF LetFailedGo, Retry, Finish
  <2> QED
      BY <2>1, <2>2, SameCountKeepsBound
<1>6. CASE IncreaseTimesFailed
  <2> DEFINE new == [col EXCEPT !.timesFailed = @ + left]
  <2>1. new \in Collections /\ new.timesFailed = col.timesFailed + left
        BY <1>0 DEF ColPart, Collections
  <2> HIDE DEF new
  <2>2. col' = new \/ col' = col
    <3>1. CASE StoreCol(new)
          BY <1>0, <2>1, <3>1, <1>6, StoreColIs DEF IncreaseTimesFailed, cacheVars
    <3> QED
        BY <1>6, <3>1 DEF IncreaseTimesFailed, colVars, new
  <2>3. pc = "count" /\ pc' = "idle"
        BY <1>6 DEF IncreaseTimesFailed, Finish
  <2> QED
      BY <1>0, <2>1, <2>2, <2>3 DEF BoundInv, FailuresAreBounded
<1>7. CASE CompareReplicas
      BY <1>7, SameCountKeepsBound DEF CompareReplicas, Goto, Finish, colVars
<1>8. CASE AddDGSColReplica
      BY <1>8, SameCountKeepsBound DEF AddDGSColReplica, Retry, Finish, colVars
<1>9. CASE RemoveDGSColReplica
      BY <1>9, SameCountKeepsBound DEF RemoveDGSColReplica, Retry, Finish, colVars
<1> QED
    BY <1>1, <1>2, <1>3, <1>4, <1>5, <1>6, <1>7, <1>8, <1>9 DEF SyncHandler

LEMMA OthersKeepBound ==
    ASSUME IInv, BoundInv, Informers \/ Restart \/ Others \/ UNCHANGED vars
    PROVE  BoundInv'
<1>1. CASE Restart
      BY <1>1, SameCountKeepsBound DEF Restart, Finish
<1>2. ASSUME NEW r \in ReplicaChoices, ChangeReplicas(r) PROVE BoundInv'
  <2>1. col'.timesFailed = col.timesFailed
        BY <1>2, IInvHasParts DEF ChangeReplicas, StoreCol, colVars, ColPart, Collections
  <2> QED
      BY <1>2, <2>1, SameCountKeepsBound DEF ChangeReplicas, syncVars
<1> QED
    BY <1>1, <1>2, SameCountKeepsBound
    DEF Informers, DeliverCol, DeliverDGS, Others, DeleteMarked, DeletedByOthers,
        PostHealth, UpdateStatus, colVars, syncVars, vars

\* The number of failures stays within DGSMaxFailures as long as DGSs fail
\* one at a time and every sync reads a collection whose count is up to date.
\* Without either the equality in handleDGSFailed can be jumped over.
THEOREM FailuresStayBounded ==
    DGSMaxFailures \in Nat =>
        (Spec /\ []OneFailureAtATime /\ [][ReadsAreFresh]_vars => []FailuresAreBounded)
<1> SUFFICES ASSUME DGSMaxFailures \in Nat
             PROVE  Spec /\ []OneFailureAtATime /\ [][ReadsAreFresh]_vars => []FailuresAreBounded
    OBVIOUS
<1>1. Init => BoundInv
  <2> SUFFICES ASSUME Init PROVE BoundInv
      OBVIOUS
  <2>1. col.timesFailed = 0 /\ pc = "idle"
        BY DEF Init
  <2> QED
      BY <2>1 DEF BoundInv, FailuresAreBounded
<1>2. IInv /\ BoundInv /\ OneFailureAtATime /\ [Next]_vars /\ [ReadsAreFresh]_vars => BoundInv'
  <2> SUFFICES ASSUME IInv, BoundInv, OneFailureAtATime, [Next]_vars, [ReadsAreFresh]_vars
               PROVE  BoundInv'
      OBVIOUS
  <2>1. CASE UNCHANGED vars
        BY <2>1, OthersKeepBound
  <2>2. CASE ReadsAreFresh /\ Next
        BY <2>2, SyncKeepsBound, OthersKeepBound DEF Next
  <2> QED
      BY <2>1, <2>2
<1>3. BoundInv => FailuresAreBounded
      BY DEF BoundInv
<1> QED
    BY <1>1, <1>2, <1>3, Invariance, PTL DEF Spec
-----------------------------------------------------------------------------
(* GetRandomIndexes, which removeDGSColReplicas calls.                     *)

\* The indexes found so far are different results of GetRandomInt, and fewer
\* than asked for until the loop ends.
IndexesInv ==
    /\ length \in Nat /\ count \in Nat /\ count <= length
    /\ at \in {"draw", "compare", "return"}
    /\ at = "compare" => rand \in GetRandomInt(0, length - 1)
    /\ sliceToReturn \in Seq(GetRandomInt(0, length - 1))
    /\ \A i, j \in 1..Len(sliceToReturn) :
        sliceToReturn[i] = sliceToReturn[j] => i = j
    /\ IF at = "return" THEN Len(sliceToReturn) = count ELSE Len(sliceToReturn) < count

\* The last index of two or more is not drawn.
LEMMA DrawnIndexes ==
    ASSUME length \in Nat \ {0}, NEW r \in GetRandomInt(0, length - 1)
    PROVE  r \in 0..length - 1 /\ (length >= 2 => r \in 0..length - 2)
BY DEF GetRandomInt

LEMMA IndexesInitial == IndexesInit => IndexesInv
<1> SUFFICES ASSUME IndexesInit PROVE IndexesInv
    OBVIOUS
<1>1. PICK a \in Arguments : length = a[1] /\ count = a[2]
      BY DEF IndexesInit
<1>2. length \in Nat /\ count \in Nat /\ count <= length
      BY <1>1, ArgumentsAssumption
<1>3. sliceToReturn = <<>> /\ Len(sliceToReturn) = 0
      BY DEF IndexesInit
<1> QED
    BY <1>2, <1>3 DEF IndexesInit, IndexesInv

LEMMA FoundOrNew ==
    ASSUME IndexesInv, Compare PROVE IndexesInv'
<1> DEFINE Drawable == GetRandomInt(0, length - 1)
<1>1. /\ length' = length /\ count' = count /\ rand' = rand
      /\ length \in Nat /\ count \in Nat /\ count <= length
      /\ rand \in Drawable /\ sliceToReturn \in Seq(Drawable)
      /\ Len(sliceToReturn) \in Nat /\ Len(sliceToReturn) < count
      BY DEF IndexesInv, Compare
<1>2. CASE Found
      BY <1>1, <1>2 DEF Compare, IndexesInv
<1>3. CASE ~Found
  <2>1. sliceToReturn' = Append(sliceToReturn, rand)
        BY <1>3 DEF Compare
  <2>2. at' = IF Len(sliceToReturn') = count THEN "return" ELSE "draw"
        BY <1>3 DEF Compare
  <2>3. \A i \in 1..Len(sliceToReturn) : sliceToReturn[i] # rand
        BY <1>3 DEF Found
  <2> HIDE DEF Drawable
  <2>4. /\ sliceToReturn' \in Seq(Drawable)
        /\ Len(sliceToReturn') = Len(sliceToReturn) + 1
        /\ \A i \in 1..Len(sliceToReturn) : sliceToReturn'[i] = sliceToReturn[i]
        /\ sliceToReturn'[Len(sliceToReturn) + 1] = rand
        BY <1>1, <2>1
  <2>5. \A i, j \in 1..Len(sliceToReturn') : sliceToReturn'[i] = sliceToReturn'[j] => i = j
    <3>1. \A i, j \in 1..Len(sliceToReturn) : sliceToReturn[i] = sliceToReturn[j] => i = j
          BY DEF IndexesInv
    <3> QED
        BY <1>1, <2>3, <2>4, <3>1
  <2>6. IF at' = "return" THEN Len(sliceToReturn') = count ELSE Len(sliceToReturn') < count
        BY <1>1, <2>2, <2>4
  <2> QED
      BY <1>1, <2>2, <2>4, <2>5, <2>6 DEF IndexesInv, Drawable
<1> QED
    BY <1>2, <1>3

\* The invariant of the double loop, for any arguments.
LEMMA IndexesInvariance == IndexesSpec => []IndexesInv
<1>1. IndexesInv /\ [IndexesNext]_indexesVars => IndexesInv'
  <2> SUFFICES ASSUME IndexesInv, [IndexesNext]_indexesVars PROVE IndexesInv'
      OBVIOUS
  <2>1. ASSUME NEW r \in 0..length, Draw(r) PROVE IndexesInv'
        BY <2>1 DEF Draw, IndexesInv
  <2>2. CASE UNCHANGED indexesVars
        BY <2>2 DEF indexesVars, IndexesInv
  <2> QED
      BY <2>1, <2>2, FoundOrNew DEF IndexesNext, DrawAny
<1> QED
    BY <1>1, IndexesInitial, PTL DEF IndexesSpec

\* What GetRandomIndexes returns are count different indexes of the slice,
\* never the last of two or more, whatever rand.Intn draws.
THEOREM IndexesCanBeUsed == IndexesSpec => []IndexesAreUsable
<1>1. IndexesInv => IndexesAreUsable
  <2> SUFFICES ASSUME IndexesInv PROVE IndexesAreUsable
      OBVIOUS
  <2>1. DOMAIN sliceToReturn = 1..Len(sliceToReturn) /\ Len(sliceToReturn) \in Nat
        BY DEF IndexesInv
  <2>2. ASSUME NEW i \in DOMAIN sliceToReturn
        PROVE  /\ sliceToReturn[i] \in 0..length - 1
               /\ length >= 2 => sliceToReturn[i] # length - 1
    <3>1. sliceToReturn[i] \in GetRandomInt(0, length - 1)
          BY <2>2 DEF IndexesInv
    <3>2. length \in Nat \ {0}
      <4> DEFINE n == Len(sliceToReturn)
      <4>1. i \in 1..n /\ n \in Nat
            BY <2>1, <2>2
      <4>2. /\ length \in Nat /\ count \in Nat /\ count <= length
            /\ n = count \/ n < count
            BY DEF IndexesInv
      <4> HIDE DEF n
      <4> QED
          BY <4>1, <4>2
    <3> QED
        BY <3>1, <3>2, DrawnIndexes
  <2> QED
      BY <2>1, <2>2 DEF IndexesInv, IndexesAreUsable
<1> QED
    BY <1>1, IndexesInvariance, PTL

\* GetRandomIndexes only returns when CanDraw says that it can: asked for all
\* of two or more DGSs it would have to draw the last index, so the worker of
\* CompareReplicas stays in "drawing" for ever.
THEOREM ReturnsOnlyIfCanDraw == IndexesSpec => [](at = "return" => CanDraw(length, count))
<1>1. IndexesInv => (at = "return" => CanDraw(length, count))
  <2> SUFFICES ASSUME IndexesInv, at = "return", length >= 2 PROVE count <= length - 1
      BY DEF IndexesInv, CanDraw
  <2>1. /\ sliceToReturn \in [1..count -> 0..length - 2]
        /\ length \in Nat \ {0} /\ count \in Nat
    <3>1. sliceToReturn \in [1..count -> GetRandomInt(0, length - 1)]
          BY DEF IndexesInv
    <3> QED
        BY <3>1, DrawnIndexes DEF IndexesInv
  <2>2. ASSUME Cardinality(0..length - 2) < Cardinality(1..count) PROVE FALSE
    <3>1. \E i, j \in 1..count : i # j /\ sliceToReturn[i] = sliceToReturn[j]
      <4>1. IsFiniteSet(1..count) /\ IsFiniteSet(0..length - 2)
            BY <2>1, FS_Interval
      <4> QED
          BY <2>1, <2>2, <4>1, FS_PigeonHole
    <3> QED
        BY <3>1 DEF IndexesInv
  <2>3. Cardinality(0..length - 2) = length - 1 /\ Cardinality(1..count) = count
    <3>1. 0 \in Int /\ length - 2 \in Int /\ 1 \in Int /\ count \in Int
          BY <2>1
    <3>2. Cardinality(0..length - 2) = IF 0 > length - 2 THEN 0 ELSE length - 2 - 0 + 1
          BY <3>1, FS_Interval
    <3>3. Cardinality(1..count) = IF 1 > count THEN 0 ELSE count - 1 + 1
          BY <3>1, FS_Interval
    <3> QED
        BY <2>1, <3>2, <3>3
  <2> QED
      BY <2>1, <2>2, <2>3
<1> QED
    BY <1>1, IndexesInvariance, PTL
=============================================================================
