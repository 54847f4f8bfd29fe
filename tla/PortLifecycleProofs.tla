------------------------- MODULE PortLifecycleProofs -------------------------
(***************************************************************************)
(* Proofs about PortLifecycle, for every range of ports, every set of      *)
(* templates and any number of DGSs.                                       *)
(*                                                                         *)
(* The argument is made for a set P of ports, of which nothing is known    *)
(* but that DeregisterServerPorts frees none of P that somebody has.  Then *)
(* whatever is stored in a DGS or in the object under construction is      *)
(* marked in Ports, as far as it is in P, and a port is only handed out    *)
(* when it is not marked.  Creations that fail and tombstones leave too    *)
(* much marked, which does no harm here, and a restart marks what the DGSs *)
(* have.  With the ports that no template exposes for P nothing has to be  *)
(* assumed; with the whole range it is an assumption on what is deleted.   *)
(*                                                                         *)
(* That the process can start again, and that the ring is whole then, is   *)
(* counted: host ports, slots and places in the gathered lists.            *)
(***************************************************************************)
EXTENDS PortLifecycle, PortRingProofs

USE RangeAssumption, MaxDGSsAssumption

\* Only exposed container ports have a host port.
IsSound(d) == \A i \in DOMAIN d.hostPorts : d.hostPorts[i] # 0 => IsExposed(d, i)

AllAreSound ==
    /\ \A n \in Live : IsSound(dgss[n])
    /\ dgs # None => IsSound(dgs)

UsedIsMarked(P) ==
    up => /\ InUse \cap P \subseteq ports
          /\ dgs # None => HostPorts(dgs) \cap P \subseteq ports

\* The inductive invariant, about the ports of P.
IInv(P) == TypeOK /\ AllAreSound /\ UsedIsMarked(P) /\ AreExclusive(P)

\* The port that is to be freed next is none of P that somebody has.
IsSpared(P) ==
    Head(releasing) \in P =>
        Head(releasing) \notin InUse /\ (dgs # None => Head(releasing) \notin HostPorts(dgs))

-----------------------------------------------------------------------------
(* Objects.                                                                *)

LEMMA ObjectIsTyped ==
    ASSUME NEW d \in DGSObjects
    PROVE  /\ d = [template |-> d.template, hostPorts |-> d.hostPorts]
           /\ d.template \in Templates
           /\ d.template.ports \in Seq(Nat \ {0}) /\ d.template.expose \in Seq(Nat \ {0})
           /\ d.hostPorts \in [DOMAIN d.template.ports -> PortRange \cup {0}]
           /\ d # None
<1>1. PICK t \in Templates :
        d \in [template : {t}, hostPorts : [DOMAIN t.ports -> PortRange \cup {0}]]
    BY DEF DGSObjects
<1>2. d.template = t
    BY <1>1
<1> QED BY <1>1, <1>2, TemplatesAssumption, NoneAssumption

LEMMA ObjectsAre ==
    ASSUME NEW t \in Templates, NEW h \in [DOMAIN t.ports -> PortRange \cup {0}]
    PROVE  [template |-> t, hostPorts |-> h] \in DGSObjects
BY DEF DGSObjects

\* What is found in a DGS is a list of ports of the range, filled with zeros.
LEMMA PortsExposedType ==
    ASSUME NEW d \in DGSObjects
    PROVE  PortsExposed(d) \in Seq(PortRange \cup {0})
<1>1. /\ d.template.expose \in Seq(Nat \ {0})
      /\ d.hostPorts \in [DOMAIN d.template.ports -> PortRange \cup {0}]
    BY ObjectIsTyped
<1> DEFINE found(i) == IF \E j \in Found(d) : IsNth(j, i, Found(d))
                       THEN d.hostPorts[CHOOSE j \in Found(d) : IsNth(j, i, Found(d))]
                       ELSE 0
<1>2. ASSUME NEW i PROVE found(i) \in PortRange \cup {0}
  <2>1. CASE \E j \in Found(d) : IsNth(j, i, Found(d))
    <3> DEFINE j0 == CHOOSE j \in Found(d) : IsNth(j, i, Found(d))
    <3>1. j0 \in Found(d)
        BY <2>1
    <3>2. j0 \in DOMAIN d.hostPorts
        BY <3>1 DEF Found
    <3>3. d.hostPorts[j0] \in PortRange \cup {0}
      <4> HIDE DEF j0
      <4> QED BY <1>1, <3>2
    <3> QED BY <2>1, <3>3
  <2>2. CASE ~ \E j \in Found(d) : IsNth(j, i, Found(d))
      BY <2>2
  <2> QED BY <2>1, <2>2
<1> HIDE DEF found
<1>3. PortsExposed(d) = [i \in 1..Len(d.template.expose) |-> found(i)]
    BY DEF PortsExposed, found
<1> QED BY <1>1, <1>2, <1>3

\* What NewPortRegistry gathers is a list the ring can be built from.
LEMMA GatheredIsList ==
    ASSUME TypeOK
    PROVE  Gathered \in [1..MaxDGSs -> Seq(PortRange \cup {0})]
<1>1. ASSUME NEW n \in Listed PROVE PortsExposed(dgss[n]) \in Seq(PortRange \cup {0})
    BY PortsExposedType DEF TypeOK, Listed, Live
<1> QED BY <1>1 DEF Gathered, Names

-----------------------------------------------------------------------------
(* What NewPortRegistry gathers.                                           *)

\* Of a set of indexes each has its place, and each place is taken.
LEMMA PlacesAreTaken ==
    ASSUME NEW m \in Nat, NEW S, S \subseteq 1..m
    PROVE  /\ IsFiniteSet(S) /\ Cardinality(S) \in Nat
           /\ \A i \in 1..Cardinality(S) : \E j \in S : IsNth(j, i, S)
           /\ \A j \in S : \E i \in 1..Cardinality(S) : IsNth(j, i, S)
           /\ \A j, k \in S : \A i \in Nat : IsNth(j, i, S) /\ IsNth(k, i, S) => j = k
<1> DEFINE below(j) == {k \in S : k < j}
           rank == [j \in S |-> Cardinality(below(j)) + 1]
<1>1. IsFiniteSet(S) /\ Cardinality(S) \in Nat
  <2>1. IsFiniteSet(1..m)
      BY FS_Interval
  <2> QED BY <2>1, FS_Subset, FS_CardinalityType
<1>2. \A j \in S : j \in Int
    OBVIOUS
<1>3. ASSUME NEW j \in S
      PROVE  /\ IsFiniteSet(below(j)) /\ Cardinality(below(j)) \in Nat
             /\ Cardinality(below(j)) < Cardinality(S)
  <2>1. IsFiniteSet(below(j)) /\ Cardinality(below(j)) \in Nat
      BY <1>1, FS_Subset, FS_CardinalityType
  <2>2. below(j) \subseteq S /\ j \notin below(j) /\ below(j) # S
      BY <1>2
  <2> HIDE DEF below
  <2>3. Cardinality(below(j)) <= Cardinality(S) /\ Cardinality(below(j)) # Cardinality(S)
      BY <1>1, <2>2, FS_Subset
  <2> QED BY <1>1, <2>1, <2>3
<1>4. ASSUME NEW j \in S, NEW k \in S, j < k PROVE Cardinality(below(j)) < Cardinality(below(k))
  <2>1. below(j) \subseteq below(k) /\ j \in below(k) /\ j \notin below(j)
    <3>1. \A x \in S : x < j => x < k
        BY <1>2, <1>4
    <3>2. ~ (j < j)
        BY <1>2
    <3> QED BY <1>4, <3>1, <3>2
  <2>2. below(j) # below(k)
      BY <2>1
  <2>3. IsFiniteSet(below(k)) /\ Cardinality(below(k)) \in Nat /\ Cardinality(below(j)) \in Nat
      BY <1>3
  <2> HIDE DEF below
  <2>4. /\ Cardinality(below(j)) <= Cardinality(below(k))
        /\ Cardinality(below(j)) # Cardinality(below(k))
      BY <2>1, <2>2, <2>3, FS_Subset
  <2> QED BY <2>3, <2>4
<1>5. \A j \in S, i \in Nat : IsNth(j, i, S) <=> rank[j] = i
  <2>1. \A j \in S, i \in Nat : IsNth(j, i, S) <=> Cardinality(below(j)) = i - 1
      BY DEF IsNth
  <2> HIDE DEF below
  <2> QED BY <1>3, <2>1
<1> HIDE DEF below
<1>6. rank \in [S -> 1..Cardinality(S)]
    BY <1>1, <1>3
<1>7. \A j, k \in S : rank[j] = rank[k] => j = k
  <2> SUFFICES ASSUME NEW j \in S, NEW k \in S, j # k PROVE rank[j] # rank[k]
      OBVIOUS
  <2>1. j < k \/ k < j
      BY <1>2
  <2> QED BY <1>3, <1>4, <2>1
<1> HIDE DEF rank
<1>8. rank \in Injection(S, 1..Cardinality(S))
    BY <1>6, <1>7 DEF Injection, IsInjective
<1>9. IsFiniteSet(1..Cardinality(S)) /\ Cardinality(1..Cardinality(S)) = Cardinality(S)
  <2>1. /\ 1 \in Int /\ Cardinality(S) \in Int /\ Cardinality(S) - 1 + 1 = Cardinality(S)
        /\ 1 > Cardinality(S) => Cardinality(S) = 0
      BY <1>1
  <2> QED BY <2>1, FS_Interval
<1>10. rank \in Surjection(S, 1..Cardinality(S))
    BY <1>8, <1>9, FS_Injection
<1>11. \A i \in 1..Cardinality(S) : i \in Nat /\ \E j \in S : rank[j] = i
    BY <1>1, <1>10 DEF Surjection
<1> QED BY <1>1, <1>5, <1>6, <1>7, <1>11

\* A DGS that has a host port for each port it is to expose gives its host
\* ports, each once.
LEMMA ExposedOfComplete ==
    ASSUME NEW d \in DGSObjects, IsExclusive(d, PortRange), IsComplete(d)
    PROVE  /\ PortsExposed(d) \in Seq(PortRange) /\ AreDistinct(PortsExposed(d))
           /\ InSeq(PortsExposed(d)) = HostPorts(d)
           /\ Len(PortsExposed(d)) = Len(d.template.expose)
<1> DEFINE S == Found(d)
           L == Len(d.template.expose)
           nth(i) == CHOOSE j \in S : IsNth(j, i, S)
<1>1. /\ d.template.expose \in Seq(Nat \ {0}) /\ d.template.ports \in Seq(Nat \ {0})
      /\ d.hostPorts \in [DOMAIN d.template.ports -> PortRange \cup {0}]
    BY ObjectIsTyped
<1>2. L \in Nat /\ Len(d.template.ports) \in Nat /\ S \subseteq 1..Len(d.template.ports)
      /\ S \subseteq DOMAIN d.hostPorts
    BY <1>1 DEF Found
<1>3. /\ \A i \in 1..L : \E j \in S : IsNth(j, i, S)
      /\ \A j \in S : \E i \in 1..L : IsNth(j, i, S)
      /\ \A j, k \in S : \A i \in Nat : IsNth(j, i, S) /\ IsNth(k, i, S) => j = k
  <2>1. L = Cardinality(S)
      BY DEF IsComplete
  <2> HIDE DEF S, L
  <2> QED BY <1>2, <2>1, PlacesAreTaken
<1>4. \A j \in S : d.hostPorts[j] \in PortRange /\ d.hostPorts[j] # 0
    BY <1>1 DEF Found
<1>5. \A j, k \in S : d.hostPorts[j] = d.hostPorts[k] => j = k
    BY <1>2, <1>4 DEF IsExclusive
<1>6. PortsExposed(d) = [i \in 1..L |-> IF \E j \in S : IsNth(j, i, S) THEN d.hostPorts[nth(i)] ELSE 0]
    BY DEF PortsExposed
<1>7. HostPorts(d) = {d.hostPorts[j] : j \in S}
    BY DEF HostPorts, InSeq, Found
<1> HIDE DEF S, L
<1>8. \A i \in 1..L : nth(i) \in S /\ IsNth(nth(i), i, S) /\ PortsExposed(d)[i] = d.hostPorts[nth(i)]
    BY <1>3, <1>6
<1>9. \A i \in 1..L : i \in Nat
    BY <1>2
<1> HIDE DEF nth
<1>10. DOMAIN PortsExposed(d) = 1..L /\ PortsExposed(d) = [i \in 1..L |-> PortsExposed(d)[i]]
    BY <1>6
<1>11. PortsExposed(d) \in Seq(PortRange) /\ Len(PortsExposed(d)) = L
  <2>1. \A i \in 1..L : PortsExposed(d)[i] \in PortRange
      BY <1>4, <1>8
  <2> QED BY <1>2, <1>10, <2>1
<1>12. AreDistinct(PortsExposed(d))
  <2>1. ASSUME NEW i \in 1..L, NEW k \in 1..L, PortsExposed(d)[i] = PortsExposed(d)[k]
        PROVE  i = k
    <3>1. nth(i) = nth(k)
        BY <1>5, <1>8, <2>1
    <3>2. Cardinality({x \in S : x < nth(i)}) = i - 1 /\ Cardinality({x \in S : x < nth(k)}) = k - 1
        BY <1>8 DEF IsNth
    <3>3. i - 1 = k - 1
        BY <3>1, <3>2
    <3> QED BY <1>9, <3>3
  <2> QED BY <1>10, <2>1 DEF AreDistinct
<1>13. InSeq(PortsExposed(d)) = HostPorts(d)
  <2>1. \A i \in 1..L : PortsExposed(d)[i] \in HostPorts(d)
      BY <1>7, <1>8
  <2>2. ASSUME NEW j \in S PROVE \E i \in 1..L : PortsExposed(d)[i] = d.hostPorts[j]
    <3>1. PICK i \in 1..L : IsNth(j, i, S)
        BY <1>3
    <3>2. nth(i) = j
        BY <1>3, <1>8, <1>9, <3>1
    <3> QED BY <1>8, <3>2
  <2> QED BY <1>7, <1>10, <2>1, <2>2 DEF InSeq
<1> QED BY <1>11, <1>12, <1>13 DEF L

\* Of complete DGSs that share no port all ports are different, and there is
\* room for them and for the free ones.
LEMMA GatheredOfComplete ==
    ASSUME TypeOK, DGSsAreExclusive(PortRange), \A n \in Listed : IsComplete(dgss[n])
    PROVE  /\ Gathered \in [1..MaxDGSs -> Seq(PortRange)]
           /\ \A n \in 1..MaxDGSs : AreDistinct(Gathered[n])
           /\ \A n, m \in 1..MaxDGSs : n # m => InSeq(Gathered[n]) \cap InSeq(Gathered[m]) = {}
           /\ \A n \in Listed : /\ InSeq(Gathered[n]) = HostPorts(dgss[n])
                               /\ Len(Gathered[n]) = Len(dgss[n].template.expose)
           /\ \A n \in 1..MaxDGSs : n \notin Listed => Gathered[n] = <<>>
<1>1. ASSUME NEW n \in Listed
      PROVE  /\ n \in Names /\ n \in Live /\ Gathered[n] = PortsExposed(dgss[n])
             /\ Gathered[n] \in Seq(PortRange) /\ AreDistinct(Gathered[n])
             /\ InSeq(Gathered[n]) = HostPorts(dgss[n])
             /\ Len(Gathered[n]) = Len(dgss[n].template.expose)
  <2>1. /\ n \in Names /\ n \in Live /\ dgss[n] \in DGSObjects
        /\ IsExclusive(dgss[n], PortRange) /\ IsComplete(dgss[n])
      BY DEF TypeOK, Listed, Live, DGSsAreExclusive
  <2>2. Gathered[n] = PortsExposed(dgss[n])
      BY <2>1 DEF Gathered
  <2> QED BY <2>1, <2>2, ExposedOfComplete
<1>2. ASSUME NEW n \in Names, n \notin Listed
      PROVE  /\ Gathered[n] = <<>> /\ <<>> \in Seq(PortRange) /\ AreDistinct(<<>>)
             /\ InSeq(<<>>) = {}
    BY <1>2 DEF Gathered, AreDistinct, InSeq
<1>3. Gathered = [n \in Names |-> Gathered[n]] /\ Names = 1..MaxDGSs
    BY DEF Gathered, Names
<1>4. \A n \in Names : Gathered[n] \in Seq(PortRange) /\ AreDistinct(Gathered[n])
    BY <1>1, <1>2
<1>5. ASSUME NEW n \in Names, NEW m \in Names, n # m
      PROVE  InSeq(Gathered[n]) \cap InSeq(Gathered[m]) = {}
  <2>1. CASE n \in Listed /\ m \in Listed
    <3>1. HostPorts(dgss[n]) \cap HostPorts(dgss[m]) \cap PortRange = {}
        BY <1>1, <1>5, <2>1 DEF DGSsAreExclusive
    <3>2. InSeq(Gathered[n]) \subseteq PortRange
        BY <1>1, <2>1, DistinctPorts
    <3> QED BY <1>1, <2>1, <3>1, <3>2
  <2>2. CASE n \notin Listed \/ m \notin Listed
      BY <1>2, <2>2
  <2> QED BY <2>1, <2>2
<1> QED BY <1>1, <1>2, <1>3, <1>4, <1>5

LEMMA CompleteCanStart ==
    ASSUME TypeOK, DGSsAreExclusive(PortRange), \A n \in Live : IsComplete(dgss[n])
    PROVE  CanStart
<1>1. \A n \in Listed : n \in Live /\ IsComplete(dgss[n])
    BY DEF Listed
<1>2. /\ TotalLength(Gathered) \in 0..N
      /\ Cardinality(Unregistered(Gathered)) = N - TotalLength(Gathered)
    BY <1>1, GatheredOfComplete, DistinctLists
<1>3. Advanced(0, TotalLength(Gathered)) + Cardinality(Unregistered(Gathered)) <= N
  <2>1. Advanced(0, TotalLength(Gathered)) <= TotalLength(Gathered)
      BY <1>2, AdvancedFromZero, RingIsNotEmpty
  <2>2. Advanced(0, TotalLength(Gathered)) \in Int
      BY <1>2, AdvancedFromZero, RingIsNotEmpty
  <2> QED BY <1>2, <2>1, <2>2, RingIsNotEmpty
<1>4. ASSUME NEW n \in Listed
      PROVE  /\ Cardinality(Found(dgss[n])) <= Len(dgss[n].template.expose)
             /\ Len(dgss[n].template.expose) <= N
  <2>1. n \in 1..MaxDGSs /\ dgss[n] \in DGSObjects
      BY DEF Listed, Live, Names, TypeOK
  <2>2. Gathered[n] \in Seq(PortRange) /\ AreDistinct(Gathered[n])
        /\ Len(Gathered[n]) = Len(dgss[n].template.expose)
      BY <1>1, <2>1, GatheredOfComplete
  <2>3. Len(Gathered[n]) \in 0..N
      BY <2>2, DistinctPorts
  <2> QED BY <1>1, <2>2, <2>3, RingIsNotEmpty DEF IsComplete
<1> QED BY <1>3, <1>4 DEF CanStart

-----------------------------------------------------------------------------
(* The steps.                                                              *)

LEMMA InitIInv == ASSUME NEW P, Init PROVE IInv(P)
<1>1. Live = {} /\ InUse = {}
    BY DEF Init, Live, InUse
<1>2. indexes \in [Slots -> PortRange \cup {0}]
  <2>1. <<>> \in [1..0 -> Seq(PortRange \cup {0})]
      OBVIOUS
  <2> QED BY <2>1, RingsType DEF Init
<1>3. TypeOK
    BY <1>2, RingIsNotEmpty DEF Init, TypeOK, Slots
<1> QED BY <1>1, <1>3 DEF Init, IInv, AllAreSound, UsedIsMarked, AreExclusive, DGSsAreExclusive

\* What is exclusive and marked depends on the objects, and on the registry.
LEMMA SameObjects ==
    ASSUME NEW P, IInv(P), UNCHANGED <<dgss, dgs>>, up' => up, ports \subseteq ports'
    PROVE  AllAreSound' /\ UsedIsMarked(P)' /\ AreExclusive(P)'
BY DEF IInv, AllAreSound, IsSound, IsExposed, UsedIsMarked, AreExclusive, DGSsAreExclusive,
       IsExclusive, HostPorts, InUse, Live

LEMMA NewDGSKeepsIInv ==
    ASSUME NEW P, P \subseteq PortRange, IInv(P), NEW t \in Templates, NewDGS(t)
    PROVE  IInv(P)'
<1> USE DEF NewDGS, processVars, registryVars
<1>1. t.ports \in Seq(Nat \ {0})
    BY TemplatesAssumption
<1>2. dgs' \in DGSObjects /\ dgs'.hostPorts = [j \in DOMAIN t.ports |-> 0] /\ 0 \notin P
    BY ObjectsAre DEF PortRange
<1>3. HostPorts(dgs)' = {}
    BY <1>2 DEF HostPorts, InSeq
<1>4. Live' = Live /\ InUse' = InUse
    BY DEF Live, InUse
<1>5. TypeOK'
    BY <1>2, RingIsNotEmpty DEF IInv, TypeOK, Slots
<1>6. AllAreSound'
    BY <1>2, <1>4 DEF IInv, AllAreSound, IsSound, IsExposed
<1>7. UsedIsMarked(P)'
    BY <1>3, <1>4 DEF IInv, UsedIsMarked
<1>8. AreExclusive(P)'
  <2>1. IsExclusive(dgs, P)'
      BY <1>2 DEF IsExclusive
  <2>2. DGSsAreExclusive(P)'
      BY <1>4 DEF IInv, AreExclusive, DGSsAreExclusive, IsExclusive, HostPorts
  <2> QED BY <1>3, <2>1, <2>2 DEF AreExclusive
<1> QED BY <1>5, <1>6, <1>7, <1>8 DEF IInv

\* A container port without a host port, or a slot whose port is taken.
LEMMA PassKeepsIInv ==
    ASSUME NEW P, IInv(P), SkipPort \/ (ScanTaken /\ scanned + 1 # N)
    PROVE  IInv(P)'
<1> USE DEF processVars, registryVars
<1>1. CASE SkipPort
  <2>1. TypeOK'
      BY <1>1 DEF IInv, TypeOK, SkipPort
  <2> QED BY <1>1, <2>1, SameObjects DEF SkipPort, IInv
<1>2. CASE ScanTaken /\ scanned + 1 # N
  <2>1. nextFreePortIndex' \in Slots
      BY <1>2, AdvancedInSlots, RingIsNotEmpty DEF IInv, TypeOK, ScanTaken, Slots
  <2>2. scanned + 1 \in Slots
      BY <1>2, RingIsNotEmpty DEF IInv, TypeOK, Slots
  <2>3. TypeOK'
      BY <1>2, <2>1, <2>2 DEF IInv, TypeOK, ScanTaken
  <2> QED BY <1>2, <2>3, SameObjects DEF ScanTaken, IInv
<1> QED BY <1>1, <1>2

\* The object under construction becomes nothing, and the rest stays.
LEMMA DiscardKeepsIInv ==
    ASSUME NEW P, IInv(P), Discard, UNCHANGED <<dgss, deletions, releasing, processVars, ports, indexes>>,
           nextFreePortIndex' \in Slots
    PROVE  IInv(P)'
<1>1. TypeOK'
    BY RingIsNotEmpty DEF IInv, TypeOK, Discard, processVars, Slots
<1>2. AllAreSound' /\ UsedIsMarked(P)' /\ AreExclusive(P)'
    BY DEF IInv, AllAreSound, IsSound, IsExposed, UsedIsMarked, AreExclusive, DGSsAreExclusive,
           IsExclusive, HostPorts, InUse, Live, Discard, processVars
<1> QED BY <1>1, <1>2 DEF IInv

\* The port is free, so nobody has it; it becomes one of the object's.
LEMMA ScanFreeKeepsIInv ==
    ASSUME NEW P, P \subseteq PortRange, IInv(P), ScanFree
    PROVE  IInv(P)'
<1> USE DEF ScanFree, Scanning, Building, processVars
<1> DEFINE port == NextPort
<1>1. /\ dgs \in DGSObjects /\ dgs # None /\ at \in Nat /\ at > 0 /\ up
      /\ at \in DOMAIN dgs.template.ports
    BY ObjectIsTyped DEF IInv, TypeOK
<1>2. /\ dgs = [template |-> dgs.template, hostPorts |-> dgs.hostPorts]
      /\ dgs.hostPorts \in [DOMAIN dgs.template.ports -> PortRange \cup {0}]
      /\ dgs.template \in Templates
    BY <1>1, ObjectIsTyped
<1>3. port \in PortRange \cup {0} /\ port \notin ports
    BY DEF IInv, TypeOK, NextPort
<1> HIDE DEF port
<1>4. /\ dgs'.template = dgs.template
      /\ dgs'.hostPorts = [dgs.hostPorts EXCEPT ![at] = port]
      /\ ports' = ports \cup {port} /\ indexes' = indexes
      /\ nextFreePortIndex' = Advanced(nextFreePortIndex, 1)
    BY <1>2 DEF port
<1>5. dgs' \in DGSObjects
  <2>1. [dgs.hostPorts EXCEPT ![at] = port]
            \in [DOMAIN dgs.template.ports -> PortRange \cup {0}]
      BY <1>2, <1>3
  <2>2. dgs' = [template |-> dgs.template,
                hostPorts |-> [dgs.hostPorts EXCEPT ![at] = port]]
      BY <1>2 DEF port
  <2>3. [template |-> dgs.template, hostPorts |-> [dgs.hostPorts EXCEPT ![at] = port]]
            \in DGSObjects
      BY <1>2, <2>1, ObjectsAre
  <2> QED BY <2>2, <2>3, Zenon
<1>6. HostPorts(dgs)' \subseteq HostPorts(dgs) \cup {port}
    BY <1>2, <1>4 DEF HostPorts, InSeq
<1>7. Live' = Live /\ InUse' = InUse /\ dgss' = dgss /\ up' = up
    BY DEF Live, InUse
<1>8. TypeOK'
  <2>1. nextFreePortIndex' \in Slots
      BY <1>4, AdvancedInSlots, RingIsNotEmpty DEF IInv, TypeOK, Slots
  <2> QED BY <1>1, <1>3, <1>4, <1>5, <1>7, <2>1, RingIsNotEmpty DEF IInv, TypeOK, Slots
<1>9. AllAreSound'
  <2>1. IsSound(dgs)'
      BY <1>1, <1>2, <1>4 DEF IInv, AllAreSound, IsSound, IsExposed
  <2> QED BY <1>7, <2>1 DEF IInv, AllAreSound, IsSound, IsExposed
<1>10. UsedIsMarked(P)'
    BY <1>1, <1>4, <1>6, <1>7 DEF IInv, UsedIsMarked
<1>11. IsExclusive(dgs, P)'
  <2>1. \A m \in DOMAIN dgs.hostPorts : dgs.hostPorts[m] \in P => dgs.hostPorts[m] # port
    <3>1. HostPorts(dgs) \cap P \subseteq ports /\ 0 \notin P
        BY <1>1 DEF IInv, UsedIsMarked, PortRange
    <3> QED BY <1>3, <3>1 DEF HostPorts, InSeq
  <2>2. IsExclusive(dgs, P)
      BY <1>1 DEF IInv, AreExclusive
  <2> QED BY <1>2, <1>4, <2>1, <2>2 DEF IsExclusive
<1>12. HostPorts(dgs)' \cap InUse \cap P = {}
    BY <1>1, <1>3, <1>6 DEF IInv, AreExclusive, UsedIsMarked
<1>13. AreExclusive(P)'
  <2>1. DGSsAreExclusive(P)'
      BY <1>7 DEF IInv, AreExclusive, DGSsAreExclusive, IsExclusive, HostPorts
  <2> QED BY <1>7, <1>11, <1>12, <2>1 DEF AreExclusive
<1> QED BY <1>8, <1>9, <1>10, <1>13 DEF IInv

\* The object under construction becomes a DGS.
LEMMA StoreKeepsIInv ==
    ASSUME NEW P, IInv(P), IsBuilt, NEW n \in Names, Store(n), Discard,
           UNCHANGED <<deletions, releasing, processVars, registryVars>>
    PROVE  IInv(P)'
<1> USE DEF processVars, registryVars
<1>1. dgs \in DGSObjects /\ dgs # None /\ up
    BY DEF IInv, TypeOK, IsBuilt
<1>2. /\ dgss \in [Names -> DGSObjects \cup {None}]
      /\ dgss[n] = None /\ dgss' = [dgss EXCEPT ![n] = dgs]
      /\ dgs' = None /\ at' = 0 /\ scanned' = 0
    BY DEF IInv, TypeOK, Store, Discard
<1>3. Live' = Live \cup {n} /\ n \notin Live
    BY <1>1, <1>2 DEF Live
<1>4. dgss'[n] = dgs /\ \A m \in Live : dgss'[m] = dgss[m]
    BY <1>2, <1>3 DEF Live
<1>5. InUse' = InUse \cup HostPorts(dgs)
    BY <1>3, <1>4 DEF InUse, HostPorts
<1>6. TypeOK'
    BY <1>1, <1>2, RingIsNotEmpty DEF IInv, TypeOK, Slots
<1>7. AllAreSound'
    BY <1>1, <1>2, <1>3, <1>4 DEF IInv, AllAreSound, IsSound, IsExposed
<1>8. UsedIsMarked(P)'
    BY <1>1, <1>2, <1>5 DEF IInv, UsedIsMarked
<1>9. AreExclusive(P)'
  <2>1. ASSUME NEW m \in Live PROVE HostPorts(dgss[m]) \cap HostPorts(dgs) \cap P = {}
      BY <1>1 DEF IInv, AreExclusive, InUse
  <2>2. IsExclusive(dgs, P) /\ DGSsAreExclusive(P)
      BY <1>1 DEF IInv, AreExclusive
  <2>3. ASSUME NEW m \in Live' PROVE IsExclusive(dgss[m], P)'
      BY <1>3, <1>4, <2>2 DEF DGSsAreExclusive, IsExclusive
  <2>4. ASSUME NEW m \in Live', NEW k \in Live', m # k
        PROVE  HostPorts(dgss[m])' \cap HostPorts(dgss[k])' \cap P = {}
      BY <1>3, <1>4, <2>1, <2>2, <2>4 DEF DGSsAreExclusive, HostPorts
  <2> QED BY <1>2, <2>3, <2>4 DEF AreExclusive, DGSsAreExclusive
<1> QED BY <1>6, <1>7, <1>8, <1>9 DEF IInv

LEMMA DeleteDGSKeepsIInv ==
    ASSUME NEW P, IInv(P), NEW n \in Names, DeleteDGS(n) PROVE IInv(P)'
<1> USE DEF DeleteDGS, processVars, registryVars, buildVars
<1>1. Live' = Live \ {n} /\ \A m \in Live' : dgss'[m] = dgss[m]
    BY DEF IInv, TypeOK, Live
<1>2. InUse' \subseteq InUse
    BY <1>1 DEF InUse, HostPorts
<1>3. TypeOK'
    BY DEF IInv, TypeOK
<1>4. AllAreSound'
    BY <1>1 DEF IInv, AllAreSound, IsSound, IsExposed
<1>5. UsedIsMarked(P)'
    BY <1>2 DEF IInv, UsedIsMarked, HostPorts
<1>6. AreExclusive(P)'
    BY <1>1, <1>2 DEF IInv, AreExclusive, DGSsAreExclusive, IsExclusive, HostPorts
<1> QED BY <1>3, <1>4, <1>5, <1>6 DEF IInv

LEMMA HandleDeleteKeepsIInv ==
    ASSUME NEW P, IInv(P), NEW n \in Names, HandleDelete(n) PROVE IInv(P)'
<1> USE DEF HandleDelete, processVars, registryVars, buildVars
<1>1. GivenBack(deletions[n]) \in Seq(GivenAway)
  <2>1. deletions[n] \in DGSObjects
      BY DEF IInv, TypeOK
  <2>2. /\ deletions[n].template \in Templates
        /\ deletions[n].template.expose \in Seq(Nat \ {0})
      BY <2>1, ObjectIsTyped
  <2> DEFINE expose == deletions[n].template.expose
  <2>3. expose \in Seq(Nat \ {0}) /\ \A i \in DOMAIN expose : expose[i] \in GivenAway
      BY <2>2 DEF GivenAway, InSeq
  <2> HIDE DEF expose, HandleDelete
  <2>4. expose \in Seq(GivenAway)
      BY <2>3
  <2> QED BY <2>4 DEF expose, GivenBack
<1>2. TypeOK'
    BY <1>1 DEF IInv, TypeOK
<1> QED BY <1>2, SameObjects DEF IInv

\* A port is freed that is not in P, or that nobody has.
LEMMA DeregisterKeepsIInv ==
    ASSUME NEW P, IInv(P), DeregisterServerPorts, IsSpared(P) PROVE IInv(P)'
<1> USE DEF DeregisterServerPorts, processVars, buildVars
<1>1. TypeOK'
    BY DEF IInv, TypeOK
<1>2. Live' = Live /\ InUse' = InUse /\ dgs' = dgs /\ up
    BY DEF Live, InUse, HostPorts
<1>3. UsedIsMarked(P)'
    BY <1>2 DEF IInv, UsedIsMarked, IsSpared, HostPorts
<1>4. AllAreSound' /\ AreExclusive(P)'
    BY <1>2 DEF IInv, AllAreSound, IsSound, IsExposed, AreExclusive, DGSsAreExclusive,
                IsExclusive, HostPorts
<1> QED BY <1>1, <1>3, <1>4 DEF IInv

\* A restart marks whatever the DGSs have.
LEMMA RestartKeepsIInv == ASSUME NEW P, IInv(P), Restart PROVE IInv(P)'
<1> USE DEF Restart, Start, Discard
<1>1. /\ Live' = Live /\ InUse' = InUse /\ dgss' = dgss
      /\ dgs' = None /\ at' = 0 /\ scanned' = 0 /\ releasing' = <<>>
    BY DEF Live, InUse, HostPorts
<1>2. \A n \in Live : dgss[n] \in DGSObjects
    BY DEF IInv, TypeOK, Live
<1>3. \A n \in Live : HostPorts(dgss[n]) # {} => n \in Listed
  <2> SUFFICES ASSUME NEW n \in Live, NEW j \in DOMAIN dgss[n].hostPorts,
                      dgss[n].hostPorts[j] # 0
               PROVE  dgss[n].template.expose # <<>>
      BY DEF HostPorts, InSeq, Listed
  <2>1. IsExposed(dgss[n], j)
      BY DEF IInv, AllAreSound, IsSound
  <2> QED BY <2>1 DEF IsExposed, InSeq
<1>4. AllAreSound' /\ AreExclusive(P)'
    BY <1>1 DEF IInv, AllAreSound, IsSound, IsExposed, AreExclusive, DGSsAreExclusive,
                IsExclusive, HostPorts
<1>5. CASE CanStart
  <2>1. InUse \subseteq Marked
      BY <1>3 DEF InUse, Marked
  <2>2. Marked \subseteq PortRange \cup {0}
    <3>1. \A d \in DGSObjects : HostPorts(d) \subseteq PortRange
        BY ObjectIsTyped DEF HostPorts, InSeq
    <3>2. \A n \in Listed : HostPorts(dgss[n]) \subseteq PortRange
        BY <1>2, <3>1 DEF Listed
    <3> HIDE DEF Restart, Start
    <3>3. ASSUME NEW p \in Marked PROVE p = 0 \/ \E n \in Listed : p \in HostPorts(dgss[n])
        BY DEF Marked
    <3> QED BY <3>2, <3>3
  <2>3. Gathered \in [1..MaxDGSs -> Seq(PortRange \cup {0})]
      BY GatheredIsList DEF IInv
  <2>4. indexes' \in [Slots -> PortRange \cup {0}]
      BY <1>5, <2>3, RingsType
  <2>5. nextFreePortIndex' \in Slots
    <3>1. TotalLength(Gathered) \in Nat
        BY <2>3, TotalLengthIsNat
    <3> QED BY <1>5, <3>1, AdvancedInSlots
  <2>6. TypeOK'
      BY <1>1, <1>5, <2>2, <2>4, <2>5, RingIsNotEmpty DEF IInv, TypeOK, Slots
  <2>7. UsedIsMarked(P)'
      BY <1>1, <1>5, <2>1 DEF UsedIsMarked
  <2> QED BY <1>4, <2>6, <2>7 DEF IInv
<1>6. CASE ~ CanStart
  <2>1. up' = FALSE
      BY <1>6 DEF CanStart
  <2>2. ports' = ports /\ indexes' = indexes /\ nextFreePortIndex' = nextFreePortIndex
      BY <1>6 DEF registryVars
  <2>3. TypeOK'
    <3>1. deletions' \in [Names -> DGSObjects \cup {None}]
        OBVIOUS
    <3> HIDE DEF Restart, Start
    <3> QED BY <1>1, <2>1, <2>2, <3>1, RingIsNotEmpty DEF IInv, TypeOK, Slots
  <2>4. UsedIsMarked(P)'
      BY <2>1 DEF UsedIsMarked
  <2> QED BY <1>4, <2>3, <2>4 DEF IInv
<1> QED BY <1>5, <1>6

-----------------------------------------------------------------------------
LEMMA NextKeepsIInv ==
    ASSUME NEW P, P \subseteq PortRange, IInv(P), [Next]_vars,
           DeregisterServerPorts => IsSpared(P)
    PROVE  IInv(P)'
<1>1. CASE \E t \in Templates : NewDGS(t)
    BY <1>1, NewDGSKeepsIInv
<1>2. CASE SkipPort
    BY <1>2, PassKeepsIInv
<1>3. CASE ScanFree
    BY <1>3, ScanFreeKeepsIInv
<1>4. CASE ScanTaken
  <2>1. CASE scanned + 1 = N
    <3>1. nextFreePortIndex' \in Slots
        BY <1>4, AdvancedInSlots, RingIsNotEmpty DEF IInv, TypeOK, ScanTaken, Slots
    <3> QED BY <1>4, <2>1, <3>1, DiscardKeepsIInv DEF ScanTaken
  <2> QED BY <1>4, <2>1, PassKeepsIInv
<1>5. CASE CreateFails
  <2>1. nextFreePortIndex' \in Slots
      BY <1>5 DEF IInv, TypeOK, CreateFails, registryVars
  <2> QED BY <1>5, <2>1, StoreKeepsIInv, DiscardKeepsIInv DEF CreateFails, registryVars
<1>6. CASE \E n \in Names : CreateDGS(n)
    BY <1>6, StoreKeepsIInv DEF CreateDGS
<1>7. CASE \E n \in Names : DeleteDGS(n) \/ HandleDelete(n)
    BY <1>7, DeleteDGSKeepsIInv, HandleDeleteKeepsIInv
<1>8. CASE DeregisterServerPorts
    BY <1>8, DeregisterKeepsIInv
<1>9. CASE Restart
    BY <1>9, RestartKeepsIInv
<1>10. CASE UNCHANGED vars
  <2>1. TypeOK'
      BY <1>10 DEF IInv, TypeOK, vars, processVars, registryVars, buildVars
  <2> QED BY <1>10, <2>1, SameObjects DEF IInv, vars, processVars, registryVars, buildVars
<1> QED BY <1>1, <1>2, <1>3, <1>4, <1>5, <1>6, <1>7, <1>8, <1>9, <1>10 DEF Next

\* Of the ports that no template exposes none is ever given back.
OthersInv == IInv(PortRange \ GivenAway)

LEMMA Invariance == Spec => []OthersInv
<1>1. Init => OthersInv
    BY InitIInv DEF OthersInv
<1>2. OthersInv /\ [Next]_vars => OthersInv'
  <2> SUFFICES ASSUME OthersInv, [Next]_vars PROVE OthersInv'
      OBVIOUS
  <2>1. DeregisterServerPorts => IsSpared(PortRange \ GivenAway)
      BY DEF OthersInv, IInv, TypeOK, DeregisterServerPorts, IsSpared
  <2> QED BY <2>1, NextKeepsIInv DEF OthersInv
<1> QED BY <1>1, <1>2, PTL DEF Spec

\* Type correctness: the registry is rebuilt and walked without leaving the
\* ring, over any creations, deletions, failures and restarts.
THEOREM TypeCorrect == Spec => []TypeOK
<1>1. OthersInv => TypeOK
    BY DEF OthersInv, IInv
<1> QED BY <1>1, Invariance, PTL

\* A host port that is no template's exposed container port is never in two
\* places: handleDedicatedGameServerDelete gives back what it should not, but
\* nothing else can go wrong.
THEOREM OtherPortsAreExclusive == Spec => []OthersAreExclusive
<1>1. OthersInv => OthersAreExclusive
    BY DEF OthersInv, IInv, OthersAreExclusive
<1> QED BY <1>1, Invariance, PTL

\* DeregisterServerPorts frees no host port that a DGS, or the object under
\* construction, has.
FreesAreUnused ==
    DeregisterServerPorts =>
        Head(releasing) \notin InUse /\ (dgs # None => Head(releasing) \notin HostPorts(dgs))

\* The one cause of the shared host ports: as long as what the deletions give
\* back is nobody's host port, every port of the range is in one place.  This
\* is about DGSController.go:200, which gives back PortsToExpose.
THEOREM OnlyDeletionsShare == Spec /\ [][FreesAreUnused]_vars => []HostPortsAreExclusive
<1> DEFINE Inv == IInv(PortRange)
<1>1. Init => Inv
    BY InitIInv
<1>2. Inv /\ [Next]_vars /\ [FreesAreUnused]_vars => Inv'
  <2> SUFFICES ASSUME Inv, [Next]_vars, [FreesAreUnused]_vars PROVE Inv'
      OBVIOUS
  <2>1. DeregisterServerPorts => IsSpared(PortRange)
    <3>1. CASE FreesAreUnused
        BY <3>1 DEF FreesAreUnused, IsSpared
    <3>2. CASE UNCHANGED vars
      <4>1. ASSUME DeregisterServerPorts PROVE FALSE
        <5>1. releasing \in Seq(GivenAway) /\ releasing # <<>>
            BY <4>1 DEF IInv, TypeOK, DeregisterServerPorts
        <5>2. Tail(releasing) # releasing
            BY <5>1
        <5> QED BY <3>2, <4>1, <5>2 DEF DeregisterServerPorts, vars
      <4> QED BY <4>1
    <3> QED BY <3>1, <3>2
  <2> QED BY <2>1, NextKeepsIInv
<1>3. Inv => HostPortsAreExclusive
    BY DEF IInv, HostPortsAreExclusive
<1> QED BY <1>1, <1>2, <1>3, PTL DEF Spec

\* The process can be started again whenever every DGS is complete, unless two
\* DGSs, or two ports of one, share a host port that a deletion has given
\* back: no index of NewPortRegistry is out of range then.
THEOREM RestartsAreSafe == Spec => []CanStartAgain
<1>1. ASSUME OthersInv, \A n \in Live : IsComplete(dgss[n]), DGSsAreExclusive(GivenAway)
      PROVE  CanStart
  <2>1. DGSsAreExclusive(PortRange \ GivenAway)
      BY <1>1 DEF OthersInv, IInv, AreExclusive
  <2>2. DGSsAreExclusive(PortRange)
      BY <1>1, <2>1 DEF DGSsAreExclusive, IsExclusive
  <2> QED BY <1>1, <2>2, CompleteCanStart DEF OthersInv, IInv
<1>2. OthersInv => CanStartAgain
    BY <1>1 DEF CanStartAgain
<1> QED BY <1>2, Invariance, PTL

-----------------------------------------------------------------------------
(* The whole ring.                                                         *)

\* No template exposes as many ports as the range has.
LessThanTheRange == \A t \in Templates : Len(t.expose) < N

\* A start that lists one DGS or none makes the ring whole: if that DGS lacked
\* a host port, or had one twice, there would be no room for the free ports.
LEMMA LoneStartIsWhole ==
    ASSUME LessThanTheRange, TypeOK, CanStart, Cardinality(Listed) <= 1,
           NEW ring \in Rings(Gathered)
    PROVE  InSeq(ring) = PortRange
<1>1. Gathered \in [1..MaxDGSs -> Seq(PortRange \cup {0})]
    BY GatheredIsList
<1>2. \A n \in 1..MaxDGSs : n \notin Listed => Gathered[n] = <<>>
    BY DEF Gathered, Names
<1>3. \A n, m \in Listed : n = m
  <2> SUFFICES ASSUME NEW n \in Listed, NEW m \in Listed, n # m PROVE FALSE
      OBVIOUS
  <2>1. IsFiniteSet(Listed) /\ Cardinality(Listed) \in Nat
    <3>1. IsFiniteSet(1..MaxDGSs)
        BY FS_Interval
    <3>2. Listed \subseteq 1..MaxDGSs
        BY DEF Listed, Live, Names
    <3> QED BY <3>1, <3>2, FS_Subset, FS_CardinalityType
  <2>2. IsFiniteSet({n} \cup {m}) /\ Cardinality({n} \cup {m}) = 2
    <3>1. IsFiniteSet({n}) /\ Cardinality({n}) = 1 /\ m \notin {n}
        BY FS_Singleton
    <3> QED BY <3>1, FS_AddElement
  <2>3. {n} \cup {m} \subseteq Listed
      OBVIOUS
  <2>4. Cardinality({n} \cup {m}) <= Cardinality(Listed)
      BY <2>1, <2>3, FS_Subset
  <2> QED BY <2>1, <2>2, <2>4
<1>4. ASSUME NEW n \in Listed PROVE Gathered[n] \in Seq(PortRange) /\ AreDistinct(Gathered[n])
  <2> DEFINE s == Gathered[n]
  <2>1. /\ n \in 1..MaxDGSs /\ dgss[n] \in DGSObjects
        /\ dgss[n].template \in Templates
        /\ dgss[n].template.expose \in Seq(Nat \ {0})
      BY ObjectIsTyped DEF TypeOK, Listed, Live, Names
  <2>2. s = PortsExposed(dgss[n]) /\ s \in Seq(PortRange \cup {0})
      BY <1>1, <2>1 DEF Gathered, Names
  <2>3. Len(s) = Len(dgss[n].template.expose) /\ Len(s) \in 0..N /\ Len(s) < N
    <3>1. DOMAIN s = 1..Len(dgss[n].template.expose)
        BY <2>2 DEF PortsExposed
    <3>2. Len(dgss[n].template.expose) \in Nat /\ Len(dgss[n].template.expose) < N
        BY <2>1 DEF LessThanTheRange
    <3> HIDE DEF s
    <3> QED BY <2>2, <3>1, <3>2, RingIsNotEmpty
  <2>4. Registered(Gathered) = InSeq(s) /\ TotalLength(Gathered) = Len(s)
    <3>1. \A e \in 1..MaxDGSs : e # n => Gathered[e] = <<>>
        BY <1>2, <1>3
    <3> QED BY <1>1, <2>1, <3>1, MaxDGSsAssumption, LoneList
  <2> HIDE DEF s
  <2>5. Len(s) + Cardinality(PortRange \ InSeq(s)) <= N
      BY <2>3, <2>4, AdvancedFromZero DEF CanStart, Unregistered
  <2>6. s \in Seq(PortRange) /\ AreDistinct(s)
      BY <2>2, <2>5, RoomMeansDistinct
  <2> QED BY <2>6 DEF s
<1>5. Gathered \in [1..MaxDGSs -> Seq(PortRange)] /\ \A n \in 1..MaxDGSs : AreDistinct(Gathered[n])
  <2>1. <<>> \in Seq(PortRange) /\ AreDistinct(<<>>)
      BY DEF AreDistinct
  <2>2. \A n \in 1..MaxDGSs : Gathered[n] \in Seq(PortRange) /\ AreDistinct(Gathered[n])
      BY <1>2, <1>4, <2>1
  <2> QED BY <1>1, <2>2
<1>6. \A n, m \in 1..MaxDGSs : Gathered[n] # <<>> /\ Gathered[m] # <<>> => n = m
    BY <1>2, <1>3
<1> QED BY <1>5, <1>6, MaxDGSsAssumption, LoneListFillsRing

LEMMA RestartKeepsRing ==
    ASSUME LessThanTheRange, TypeOK, Restart PROVE RingIsWhole'
<1>1. CASE CanStart
  <2>1. indexes' \in Rings(Gathered) /\ startedWith' = Cardinality(Listed)
      BY <1>1 DEF Restart, Start
  <2> QED BY <1>1, <2>1, LoneStartIsWhole DEF RingIsWhole
<1>2. CASE ~ CanStart
  <2>1. ~ up'
      BY <1>2 DEF Restart, Start, CanStart
  <2> QED BY <2>1 DEF RingIsWhole
<1> QED BY <1>1, <1>2

\* Nothing but a start writes the ring.
LEMMA NextKeepsRing ==
    ASSUME LessThanTheRange, TypeOK, RingIsWhole, [Next]_vars PROVE RingIsWhole'
<1>1. CASE Restart
    BY <1>1, RestartKeepsRing
<1>2. CASE UNCHANGED <<up, startedWith, indexes>>
    BY <1>2 DEF RingIsWhole
<1>3. [Next]_vars /\ ~ Restart => UNCHANGED <<up, startedWith, indexes>>
    BY DEF Next, NewDGS, SkipPort, ScanFree, ScanTaken, CreateFails, CreateDGS, DeleteDGS,
           HandleDelete, DeregisterServerPorts, vars, processVars, registryVars
<1> QED BY <1>1, <1>2, <1>3

LEMMA InitRing == Init => RingIsWhole
<1> SUFFICES ASSUME Init PROVE RingIsWhole
    OBVIOUS
<1>1. <<>> \in [1..0 -> Seq(PortRange)] /\ \A d, e \in 1..0 : FALSE
    OBVIOUS
<1>2. InSeq(indexes) = PortRange
    BY <1>1, LoneListFillsRing DEF Init
<1> QED BY <1>2 DEF RingIsWhole

\* A registry that was started with at most one DGS that exposes ports loses
\* no port, whatever was given back or handed out twice before.
THEOREM NoPortIsLost == LessThanTheRange => (Spec => []RingIsWhole)
<1> SUFFICES ASSUME LessThanTheRange PROVE Spec => []RingIsWhole
    OBVIOUS
<1>1. TypeOK /\ RingIsWhole /\ [Next]_vars => RingIsWhole'
    BY NextKeepsRing
<1> QED BY <1>1, InitRing, TypeCorrect, PTL DEF Spec

-----------------------------------------------------------------------------
(* Where the zeros come from.                                              *)
(*                                                                         *)
(* A container port that is exposed gets the zero only from a ring that    *)
(* has one, and the rings of a process that lists at most one DGS whenever *)
(* it starts have none.                                                    *)

\* Container ports that are exposed and have no host port, of a DGS, and of
\* the object under construction as far as it has come.
Missing(d) == {j \in DOMAIN d.hostPorts : IsExposed(d, j) /\ d.hostPorts[j] = 0}
Passed == {j \in Missing(dgs) : j < at}

AllAreOpen ==
    /\ \A n \in Live : Missing(dgss[n]) = {}
    /\ dgs # None => Passed = {}

LEMMA NewDGSKeepsOpen ==
    ASSUME AllAreOpen, NEW t \in Templates, NewDGS(t) PROVE AllAreOpen'
<1>1. t.ports \in Seq(Nat \ {0})
    BY TemplatesAssumption
<1>2. dgs'.hostPorts = [j \in DOMAIN t.ports |-> 0] /\ at' = 1 /\ dgss' = dgss
    BY DEF NewDGS
<1>3. Passed' = {}
    BY <1>1, <1>2 DEF Passed, Missing
<1> QED BY <1>2, <1>3 DEF AllAreOpen, Live, Missing, IsExposed

\* A container port that is not exposed misses nothing.
LEMMA SkipKeepsOpen == ASSUME TypeOK, AllAreOpen, SkipPort PROVE AllAreOpen'
<1> USE DEF SkipPort, Building
<1>1. \A j \in DOMAIN dgs.hostPorts : j \in Nat
  <2>1. dgs \in DGSObjects
      BY DEF TypeOK
  <2>2. /\ dgs.template.ports \in Seq(Nat \ {0})
        /\ DOMAIN dgs.hostPorts = DOMAIN dgs.template.ports
      BY <2>1, ObjectIsTyped
  <2> QED BY <2>2
<1>2. at \in Nat /\ dgs # None
    BY DEF TypeOK
<1>3. \A j \in Missing(dgs) : j \in Nat /\ j # at
    BY <1>1 DEF Missing
<1>4. Missing(dgs)' = Missing(dgs)
    BY DEF Missing, IsExposed
<1>5. Passed' = {}
    BY <1>2, <1>3, <1>4 DEF AllAreOpen, Passed
<1> QED BY <1>5 DEF AllAreOpen, Live, Missing, IsExposed

\* A whole ring gives a port of the range.
LEMMA ScanFreeKeepsOpen ==
    ASSUME TypeOK, RingIsWhole, AllAreOpen, startedWith <= 1, ScanFree PROVE AllAreOpen'
<1> USE DEF ScanFree, Scanning, Building
<1> DEFINE port == NextPort
<1>1. /\ dgs \in DGSObjects /\ dgs # None /\ at \in Nat /\ up
      /\ dgs = [template |-> dgs.template, hostPorts |-> dgs.hostPorts]
      /\ dgs.hostPorts \in [DOMAIN dgs.template.ports -> PortRange \cup {0}]
      /\ dgs.template.ports \in Seq(Nat \ {0})
    BY ObjectIsTyped DEF TypeOK
<1>2. port \in PortRange /\ port # 0
  <2>1. nextFreePortIndex \in DOMAIN indexes
      BY DEF TypeOK
  <2>2. InSeq(indexes) = PortRange
      BY <1>1 DEF RingIsWhole
  <2> QED BY <2>1, <2>2 DEF InSeq, PortRange, NextPort
<1>3. dgs' = [dgs EXCEPT !.hostPorts[at] = port]
    OBVIOUS
<1> HIDE DEF port
<1>4. dgs'.template = dgs.template /\ dgs'.hostPorts = [dgs.hostPorts EXCEPT ![at] = port]
    BY <1>1, <1>3
<1>5. Passed' = {}
  <2> SUFFICES ASSUME NEW j \in Passed' PROVE FALSE
      OBVIOUS
  <2>1. /\ j \in DOMAIN dgs.hostPorts /\ j \in Nat /\ j < at + 1
        /\ dgs'.hostPorts[j] = 0 /\ IsExposed(dgs, j)
      BY <1>1, <1>4 DEF Passed, Missing, IsExposed
  <2>2. j # at
      BY <1>1, <1>2, <1>4, <2>1
  <2>3. dgs.hostPorts[j] = 0 /\ j < at
      BY <1>1, <1>4, <2>1, <2>2
  <2> QED BY <1>1, <2>1, <2>3 DEF AllAreOpen, Passed, Missing
<1> QED BY <1>5 DEF AllAreOpen, Live, Missing, IsExposed

\* What is built has been passed as a whole.
LEMMA StoreKeepsOpen ==
    ASSUME TypeOK, AllAreOpen, IsBuilt, NEW n \in Names, Store(n), Discard
    PROVE  AllAreOpen'
<1>1. /\ dgs \in DGSObjects /\ dgs # None
      /\ dgs.hostPorts \in [DOMAIN dgs.template.ports -> PortRange \cup {0}]
      /\ dgs.template.ports \in Seq(Nat \ {0})
    BY ObjectIsTyped DEF TypeOK, IsBuilt
<1>2. Missing(dgs) = {}
  <2>1. \A j \in DOMAIN dgs.hostPorts : j \in Nat /\ j <= Len(dgs.template.ports)
      BY <1>1
  <2>2. Len(dgs.template.ports) \in Nat /\ at \in Nat /\ at > Len(dgs.template.ports)
      BY <1>1 DEF TypeOK, IsBuilt
  <2>3. \A j \in Missing(dgs) : j < at
      BY <2>1, <2>2 DEF Missing
  <2> QED BY <1>1, <2>3 DEF AllAreOpen, Passed
<1>3. /\ dgss \in [Names -> DGSObjects \cup {None}]
      /\ dgss' = [dgss EXCEPT ![n] = dgs] /\ dgs' = None
    BY DEF TypeOK, Store, Discard
<1>4. ASSUME NEW m \in Live' PROVE dgss'[m] = dgs \/ (m \in Live /\ dgss'[m] = dgss[m])
  <2>1. m \in Names /\ dgss'[m] # None
      BY DEF Live
  <2>2. CASE m = n
      BY <1>3, <2>2
  <2>3. CASE m # n
      BY <1>3, <2>1, <2>3 DEF Live
  <2> QED BY <2>2, <2>3
<1> QED BY <1>2, <1>3, <1>4 DEF AllAreOpen, Missing, IsExposed

\* What remains is what was there, and the object under construction has got
\* no further, or is gone.
LEMMA RemainsOpen ==
    ASSUME AllAreOpen, Live' \subseteq Live, \A m \in Live' : dgss'[m] = dgss[m],
           dgs' = None \/ (dgs' = dgs /\ at' = at)
    PROVE  AllAreOpen'
BY DEF AllAreOpen, Passed, Missing, IsExposed

LEMMA NextKeepsOpen ==
    ASSUME TypeOK, RingIsWhole, AllAreOpen, startedWith <= 1, [Next]_vars PROVE AllAreOpen'
<1>1. CASE \E t \in Templates : NewDGS(t)
    BY <1>1, NewDGSKeepsOpen
<1>2. CASE SkipPort
    BY <1>2, SkipKeepsOpen
<1>3. CASE ScanFree
    BY <1>3, ScanFreeKeepsOpen
<1>4. CASE ScanTaken
    BY <1>4, RemainsOpen DEF ScanTaken, Discard, Live
<1>5. CASE CreateFails
  <2>1. CASE UNCHANGED dgss
      BY <1>5, <2>1, RemainsOpen DEF CreateFails, Discard, Live
  <2>2. CASE \E n \in Names : Store(n)
      BY <1>5, <2>2, StoreKeepsOpen DEF CreateFails
  <2> QED BY <1>5, <2>1, <2>2 DEF CreateFails
<1>6. CASE \E n \in Names : CreateDGS(n)
    BY <1>6, StoreKeepsOpen DEF CreateDGS
<1>7. CASE \E n \in Names : DeleteDGS(n)
  <2>1. PICK n \in Names : DeleteDGS(n)
      BY <1>7
  <2>2. Live' \subseteq Live /\ \A m \in Live' : dgss'[m] = dgss[m]
      BY <2>1 DEF TypeOK, Live, DeleteDGS
  <2> QED BY <2>1, <2>2, RemainsOpen DEF DeleteDGS, buildVars
<1>8. CASE (\E n \in Names : HandleDelete(n)) \/ DeregisterServerPorts
    BY <1>8, RemainsOpen DEF HandleDelete, DeregisterServerPorts, buildVars, Live
<1>9. CASE Restart
    BY <1>9, RemainsOpen DEF Restart, Start, Discard, Live
<1>10. CASE UNCHANGED vars
    BY <1>10, RemainsOpen DEF vars, buildVars, Live
<1> QED BY <1>1, <1>2, <1>3, <1>4, <1>5, <1>6, <1>7, <1>8, <1>9, <1>10 DEF Next

\* What docs/architecture.md says, that a container port of portsToExpose is
\* exposed by means of a host port, holds as long as no process starts with
\* two DGSs that expose ports: the rings that a restart builds from several
\* are all that can refute it.
THEOREM ExposedPortsStayOpen ==
    LessThanTheRange => (Spec /\ [](startedWith <= 1) => []ExposedPortsAreOpen)
<1> SUFFICES ASSUME LessThanTheRange
             PROVE  Spec /\ [](startedWith <= 1) => []ExposedPortsAreOpen
    OBVIOUS
<1>1. Init => AllAreOpen
    BY DEF Init, AllAreOpen, Live
<1>2. TypeOK /\ RingIsWhole /\ AllAreOpen /\ startedWith <= 1 /\ [Next]_vars => AllAreOpen'
    BY NextKeepsOpen
<1>3. TypeOK /\ AllAreOpen => ExposedPortsAreOpen
  <2> SUFFICES ASSUME TypeOK, AllAreOpen, NEW n \in Live, NEW i \in DOMAIN dgss[n].hostPorts,
                      IsExposed(dgss[n], i)
               PROVE  dgss[n].hostPorts[i] \in PortRange
      BY DEF ExposedPortsAreOpen
  <2>1. dgss[n] \in DGSObjects
      BY DEF TypeOK, Live
  <2>2. dgss[n].hostPorts \in [DOMAIN dgss[n].template.ports -> PortRange \cup {0}]
      BY <2>1, ObjectIsTyped
  <2>3. dgss[n].hostPorts[i] # 0
      BY DEF AllAreOpen, Missing
  <2> QED BY <2>2, <2>3
<1>4. Spec => []RingIsWhole
    BY NoPortIsLost
<1> QED BY <1>1, <1>2, <1>3, <1>4, TypeCorrect, PTL DEF Spec
=============================================================================
