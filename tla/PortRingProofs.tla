--------------------------- MODULE PortRingProofs ---------------------------
(***************************************************************************)
(* Facts about the ring of ports, for every range and every list of host   *)
(* ports it may be built from.                                             *)
(***************************************************************************)
EXTENDS PortRing, FiniteSetTheorems, WellFoundedInduction, TLAPS

USE RangeAssumption

\* The ring has at least one slot.
LEMMA RingIsNotEmpty == N \in Nat \ {0}
BY DEF N

\* increaseNextFreePortIndex stays on the ring.
LEMMA AdvancedInSlots ==
    ASSUME NEW i \in Nat, NEW n \in Nat
    PROVE  Advanced(i, n) \in Slots
<1>1. i + n \in Nat
    OBVIOUS
<1>2. \A a \in Nat, b \in Nat \ {0} : a % b \in 0..b - 1
    OBVIOUS
<1> QED BY <1>1, <1>2, RingIsNotEmpty DEF Advanced, Slots

\* A set of natural numbers that is not empty has a least element.
LEMMA LeastOfNaturals ==
    ASSUME NEW T, T \subseteq Nat, T # {}
    PROVE  \E m \in T : \A n \in T : m <= n
<1>1. PICK m \in T : \A n \in T : ~ (<<n, m>> \in OpToRel(<, Nat))
    BY NatLessThanWellFounded, WFMin
<1>2. \A n \in T : ~ (n < m)
    BY <1>1 DEF OpToRel
<1> QED BY <1>2

\* A set of indexes that is not empty has a last element.
LEMMA LastOfIndexes ==
    ASSUME NEW n \in Nat, NEW T, T \subseteq 1..n, T # {}
    PROVE  \E m \in T : \A k \in T : k <= m
<1> DEFINE Mirror == {n - k : k \in T}
<1>1. Mirror \subseteq Nat /\ Mirror # {}
    <2>1. \A k \in T : k \in Int /\ 1 <= k /\ k <= n
        OBVIOUS
    <2>2. \A k \in T : n - k \in Nat
        BY <2>1
    <2>3. PICK k \in T : TRUE
        OBVIOUS
    <2>4. n - k \in Mirror
        OBVIOUS
    <2> QED BY <2>2, <2>4
<1> HIDE DEF Mirror
<1>2. PICK l \in Mirror : \A j \in Mirror : l <= j
    BY <1>1, LeastOfNaturals
<1>3. PICK m \in T : l = n - m
    BY DEF Mirror
<1>4. \A k \in T : n - m <= n - k
    BY <1>2, <1>3 DEF Mirror
<1> QED BY <1>4

\* The number of ports in a list is a number.
LEMMA TotalLengthIsNat ==
    ASSUME NEW n \in Nat, NEW list \in [1..n -> Seq(PortRange \cup {0})]
    PROVE  TotalLength(list) \in Nat
<1> DEFINE Places(d) == {d} \X DOMAIN list[d]
           All == UNION {Places(d) : d \in 1..n}
<1>1. ASSUME NEW d \in 1..n PROVE IsFiniteSet(Places(d))
  <2>1. DOMAIN list[d] = 1..Len(list[d]) /\ Len(list[d]) \in Nat
      OBVIOUS
  <2>2. IsFiniteSet(1..Len(list[d]))
      BY <2>1, FS_Interval
  <2>3. IsFiniteSet({d})
      BY FS_Singleton
  <2> QED BY <2>1, <2>2, <2>3, FS_Product
<1> HIDE DEF Places
<1>2. IsFiniteSet({Places(d) : d \in 1..n})
  <2> DEFINE place == [d \in 1..n |-> Places(d)]
  <2>1. place \in Surjection(1..n, {Places(d) : d \in 1..n})
      BY DEF Surjection
  <2> QED BY <2>1, FS_Interval, FS_Surjection
<1>3. IsFiniteSet(All)
    BY <1>1, <1>2, FS_UNION
<1>4. DOMAIN list = 1..n
    OBVIOUS
<1> QED BY <1>3, <1>4, FS_CardinalityType DEF TotalLength, Places

\* Every slot of the ring first holds a registered port or zero.
LEMMA RegisteredSlotsType ==
    ASSUME NEW n \in Nat, NEW list \in [1..n -> Seq(PortRange \cup {0})]
    PROVE  RegisteredSlots(list) \in [Slots -> PortRange \cup {0}]
<1> SUFFICES ASSUME NEW i \in Slots
             PROVE  RegisteredSlots(list)[i] \in PortRange \cup {0}
    BY DEF RegisteredSlots
<1> DEFINE writers == {d \in DOMAIN list : i < Len(list[d])}
           last == CHOOSE d \in writers : \A e \in writers : e <= d
<1>1. CASE writers = {}
    BY <1>1 DEF RegisteredSlots
<1>2. CASE writers # {}
    <2>1. writers \subseteq 1..n
        OBVIOUS
    <2>2. last \in writers
        <3> HIDE DEF writers
        <3> QED BY <1>2, <2>1, LastOfIndexes
    <2>3. list[last] \in Seq(PortRange \cup {0}) /\ i \in Nat /\ i < Len(list[last])
        BY <2>2, RingIsNotEmpty DEF Slots
    <2>4. list[last][i + 1] \in PortRange \cup {0}
        <3> HIDE DEF last
        <3> QED BY <2>3
    <2> QED BY <1>2, <2>4 DEF RegisteredSlots
<1> QED BY <1>1, <1>2

\* Whatever the random order of the free ports, every slot holds a port of
\* the range or zero.
LEMMA RingsType ==
    ASSUME NEW n \in Nat, NEW list \in [1..n -> Seq(PortRange \cup {0})],
           NEW ring \in Rings(list)
    PROVE  ring \in [Slots -> PortRange \cup {0}]
<1> DEFINE first == Advanced(0, TotalLength(list))
           fill == first..first + Cardinality(Unregistered(list)) - 1
<1>1. PICK f \in [fill -> Unregistered(list)] :
        ring = [i \in Slots |-> IF i \in fill THEN f[i] ELSE RegisteredSlots(list)[i]]
    BY DEF Rings
<1> HIDE DEF fill
<1> QED BY <1>1, RegisteredSlotsType DEF Unregistered

-----------------------------------------------------------------------------
(* The whole ring: what is needed for no port to be lost.                  *)

\* One call of increaseNextFreePortIndex.
LEMMA NextSlot ==
    ASSUME NEW i \in Slots
    PROVE  Advanced(i, 1) = IF i + 1 < N THEN i + 1 ELSE 0
<1>1. \A b \in Nat \ {0} : b % b = 0
    OBVIOUS
<1>2. \A b \in Nat \ {0} : \A a \in 0..b - 1 : a % b = a
    OBVIOUS
<1>3. i \in 0..N - 1 /\ (i + 1 < N => i + 1 \in 0..N - 1) /\ (~ (i + 1 < N) => i + 1 = N)
    BY RingIsNotEmpty DEF Slots
<1> QED BY <1>1, <1>2, <1>3, RingIsNotEmpty DEF Advanced

\* As many calls from slot 0 as there are registered ports.
LEMMA AdvancedFromZero ==
    ASSUME NEW n \in 0..N
    PROVE  Advanced(0, n) = IF n < N THEN n ELSE 0
<1>1. \A b \in Nat \ {0} : b % b = 0
    OBVIOUS
<1>2. \A b \in Nat \ {0} : \A a \in 0..b - 1 : a % b = a
    OBVIOUS
<1>3. 0 + n = n /\ (n < N => n \in 0..N - 1) /\ (~ (n < N) => n = N)
    BY RingIsNotEmpty
<1> QED BY <1>1, <1>2, <1>3, RingIsNotEmpty DEF Advanced

\* There are as many ports in the range as slots in the ring.
LEMMA RangeHasN == IsFiniteSet(PortRange) /\ Cardinality(PortRange) = N
<1>1. Min \in Int /\ Max \in Int /\ ~ (Min > Max)
    OBVIOUS
<1> QED BY <1>1, FS_Interval DEF PortRange, N

AreDistinct(s) == \A i, j \in DOMAIN s : s[i] = s[j] => i = j

\* Ports that are all different are as many as the list is long.
LEMMA DistinctPorts ==
    ASSUME NEW s \in Seq(PortRange), AreDistinct(s)
    PROVE  /\ Len(s) \in 0..N /\ InSeq(s) \subseteq PortRange
           /\ IsFiniteSet(InSeq(s)) /\ Cardinality(InSeq(s)) = Len(s)
<1>1. /\ DOMAIN s = 1..Len(s) /\ Len(s) \in Nat
      /\ \A i \in 1..Len(s) : s[i] \in PortRange
    OBVIOUS
<1>2. InSeq(s) \subseteq PortRange
    BY <1>1 DEF InSeq
<1>3. s \in Bijection(1..Len(s), InSeq(s))
    BY <1>1 DEF Bijection, Injection, Surjection, IsInjective, InSeq, AreDistinct
<1>4. IsFiniteSet(1..Len(s)) /\ Cardinality(1..Len(s)) = Len(s)
  <2>1. 1 \in Int /\ Len(s) \in Int /\ Len(s) - 1 + 1 = Len(s) /\ (1 > Len(s) => Len(s) = 0)
      BY <1>1
  <2> QED BY <2>1, FS_Interval
<1>5. IsFiniteSet(InSeq(s)) /\ Cardinality(InSeq(s)) = Len(s)
    BY <1>3, <1>4, FS_Bijection DEF ExistsBijection
<1>6. Len(s) <= N
    BY <1>2, <1>5, RangeHasN, FS_Subset
<1> QED BY <1>1, <1>2, <1>5, <1>6, RingIsNotEmpty

\* If the slots before the free ports hold every registered port, nothing is
\* overwritten: the ring holds each port of the range.
LEMMA RingIsFilled ==
    ASSUME NEW list, NEW s \in Seq(PortRange), AreDistinct(s),
           Registered(list) = InSeq(s), TotalLength(list) = Len(s),
           \A i \in Slots : i < Len(s) => RegisteredSlots(list)[i] = s[i + 1],
           NEW ring \in Rings(list)
    PROVE  InSeq(ring) = PortRange
<1> DEFINE rest == Unregistered(list)
           first == Advanced(0, TotalLength(list))
           fill == first..first + Cardinality(rest) - 1
<1>1. /\ Len(s) \in 0..N /\ InSeq(s) \subseteq PortRange
      /\ IsFiniteSet(InSeq(s)) /\ Cardinality(InSeq(s)) = Len(s)
      /\ InSeq(s) = {s[i] : i \in 1..Len(s)}
  <2>1. DOMAIN s = 1..Len(s)
      OBVIOUS
  <2> QED BY <2>1, DistinctPorts DEF InSeq
<1>2. rest = PortRange \ InSeq(s)
    BY DEF Unregistered
<1>3. IsFiniteSet(rest) /\ Cardinality(rest) = N - Len(s)
  <2>1. PortRange \cap InSeq(s) = InSeq(s)
      BY <1>1
  <2>2. /\ IsFiniteSet(PortRange \ InSeq(s))
        /\ Cardinality(PortRange \ InSeq(s)) = N - Cardinality(PortRange \cap InSeq(s))
      BY RangeHasN, FS_Difference
  <2> QED BY <1>1, <1>2, <2>1, <2>2
<1>4. fill = Len(s)..N - 1
  <2>1. CASE Len(s) < N
    <3>1. first = Len(s)
        BY <1>1, <2>1, AdvancedFromZero
    <3>2. first + Cardinality(rest) - 1 = N - 1
        BY <1>1, <1>3, <3>1, RingIsNotEmpty
    <3> QED BY <3>1, <3>2
  <2>2. CASE Len(s) = N
    <3>1. first = 0
        BY <1>1, <2>2, AdvancedFromZero
    <3>2. fill = 0..-1 /\ Len(s)..N - 1 = 0..-1
        BY <1>3, <2>2, <3>1, RingIsNotEmpty
    <3> QED BY <3>2
  <2> QED BY <1>1, <2>1, <2>2, RingIsNotEmpty
<1>5. PICK f \in [fill -> rest] :
        /\ \A i, j \in fill : f[i] = f[j] => i = j
        /\ ring = [i \in Slots |-> IF i \in fill THEN f[i] ELSE RegisteredSlots(list)[i]]
    BY DEF Rings
<1> HIDE DEF fill, rest, first
<1>6. \A p \in rest : \E i \in fill : f[i] = p
  <2>1. f \in Injection(fill, rest)
      BY <1>5 DEF Injection, IsInjective
  <2>2. Cardinality(fill) = N - Len(s)
    <3>1. Len(s) \in Int /\ N - 1 \in Int
        BY <1>1, RingIsNotEmpty
    <3> QED BY <1>1, <1>4, <3>1, FS_Interval, RingIsNotEmpty
  <2>3. f \in Surjection(fill, rest)
      BY <1>3, <2>1, <2>2, FS_Injection
  <2> QED BY <2>3 DEF Surjection
<1>7. \A i \in Slots : i \in fill \/ i < Len(s)
    BY <1>1, <1>4, RingIsNotEmpty DEF Slots
<1>8. /\ \A i \in fill : i \in Slots /\ ring[i] = f[i]
      /\ \A i \in Slots : i < Len(s) => i + 1 \in 1..Len(s) /\ ring[i] = s[i + 1]
      /\ DOMAIN ring = Slots
    BY <1>1, <1>4, <1>5, RingIsNotEmpty DEF Slots
<1>9. ASSUME NEW i \in Slots PROVE ring[i] \in PortRange
    BY <1>1, <1>2, <1>5, <1>7, <1>8
<1>10. ASSUME NEW p \in PortRange PROVE \E i \in Slots : ring[i] = p
  <2>1. CASE p \in rest
      BY <1>6, <1>8, <2>1
  <2>2. ASSUME NEW i \in 1..Len(s), p = s[i] PROVE \E j \in Slots : ring[j] = p
    <3>1. i - 1 \in Slots /\ i - 1 < Len(s) /\ (i - 1) + 1 = i
        BY <1>1, RingIsNotEmpty DEF Slots
    <3> QED BY <1>8, <2>2, <3>1
  <2> QED BY <1>1, <1>2, <2>1, <2>2
<1> QED BY <1>8, <1>9, <1>10 DEF InSeq

\* What the ring is built from when at most one DGS has host ports.
LEMMA LoneList ==
    ASSUME NEW n \in Nat, NEW list \in [1..n -> Seq(PortRange \cup {0})], NEW d \in 1..n,
           \A e \in 1..n : e # d => list[e] = <<>>
    PROVE  /\ Registered(list) = InSeq(list[d])
           /\ TotalLength(list) = Len(list[d])
           /\ \A i \in Slots : i < Len(list[d]) => RegisteredSlots(list)[i] = list[d][i + 1]
<1> DEFINE s == list[d]
<1>1. /\ s \in Seq(PortRange \cup {0}) /\ Len(s) \in Nat /\ DOMAIN s = 1..Len(s)
      /\ DOMAIN list = 1..n
    OBVIOUS
<1>2. \A e \in 1..n : e # d => DOMAIN list[e] = {} /\ Len(list[e]) = 0 /\ InSeq(list[e]) = {}
    BY DEF InSeq
<1>3. Registered(list) = InSeq(s)
    BY <1>1, <1>2 DEF Registered
<1>4. TotalLength(list) = Len(s)
  <2>1. UNION {{e} \X DOMAIN list[e] : e \in DOMAIN list} = {d} \X DOMAIN s
      BY <1>1, <1>2
  <2>2. 1 \in Int /\ Len(s) \in Int /\ Len(s) - 1 + 1 = Len(s) /\ (1 > Len(s) => Len(s) = 0)
      BY <1>1
  <2>3. IsFiniteSet(1..Len(s)) /\ Cardinality(1..Len(s)) = Len(s)
      BY <2>2, FS_Interval
  <2>4. IsFiniteSet(DOMAIN s) /\ Cardinality(DOMAIN s) = Len(s)
      BY <1>1, <2>3
  <2>5. IsFiniteSet({d}) /\ Cardinality({d}) = 1
      BY FS_Singleton
  <2>6. Cardinality({d} \X DOMAIN s) = Cardinality({d}) * Cardinality(DOMAIN s)
      BY <2>4, <2>5, FS_Product, Zenon
  <2>7. 1 * Len(s) = Len(s)
    <3>1. \A k \in Nat : 1 * k = k
        OBVIOUS
    <3> QED BY <1>1, <3>1, Zenon
  <2>8. Cardinality({d} \X DOMAIN s) = Len(s)
      BY <2>4, <2>5, <2>6, <2>7, Zenon
  <2> QED BY <2>1, <2>8, Zenon DEF TotalLength
<1>5. ASSUME NEW i \in Slots, i < Len(s) PROVE RegisteredSlots(list)[i] = s[i + 1]
  <2> DEFINE writers == {e \in DOMAIN list : i < Len(list[e])}
  <2>1. i \in Nat
      BY RingIsNotEmpty DEF Slots
  <2>2. writers = {d}
      BY <1>1, <1>2, <1>5, <2>1
  <2>3. (CHOOSE e \in {d} : \A k \in {d} : k <= e) = d
      OBVIOUS
  <2> HIDE DEF writers
  <2>4. RegisteredSlots(list)[i] =
            IF writers = {} THEN 0
            ELSE list[CHOOSE e \in writers : \A k \in writers : k <= e][i + 1]
      BY DEF RegisteredSlots, writers
  <2> QED BY <2>2, <2>3, <2>4
<1> QED BY <1>3, <1>4, <1>5

\* A ring that is built from the ports of one DGS at most, all different,
\* holds each port of the range.
LEMMA LoneListFillsRing ==
    ASSUME NEW n \in Nat, NEW list \in [1..n -> Seq(PortRange)],
           \A d, e \in 1..n : list[d] # <<>> /\ list[e] # <<>> => d = e,
           \A d \in 1..n : AreDistinct(list[d]),
           NEW ring \in Rings(list)
    PROVE  InSeq(ring) = PortRange
<1>1. CASE n = 0
  <2>1. DOMAIN list = {}
      BY <1>1
  <2>2. Registered(list) = {} /\ TotalLength(list) = 0
      BY <2>1, FS_EmptySet DEF Registered, TotalLength
  <2>3. /\ <<>> \in Seq(PortRange) /\ AreDistinct(<<>>) /\ InSeq(<<>>) = {} /\ Len(<<>>) = 0
        /\ \A i \in Slots : ~ (i < 0)
      BY RingIsNotEmpty DEF AreDistinct, InSeq, Slots
  <2> QED BY <2>2, <2>3, RingIsFilled
<1>2. CASE n # 0
  <2>1. PICK d \in 1..n : \A e \in 1..n : e # d => list[e] = <<>>
    <3>1. CASE \E d \in 1..n : list[d] # <<>>
        BY <3>1
    <3>2. CASE \A d \in 1..n : list[d] = <<>>
      <4>1. 1 \in 1..n
          BY <1>2
      <4> QED BY <3>2, <4>1
    <3> QED BY <3>1, <3>2
  <2>2. list[d] \in Seq(PortRange) /\ AreDistinct(list[d])
      OBVIOUS
  <2>3. list \in [1..n -> Seq(PortRange \cup {0})]
    <3>1. \A s \in Seq(PortRange) : s \in Seq(PortRange \cup {0})
        OBVIOUS
    <3> QED BY <3>1
  <2>4. /\ Registered(list) = InSeq(list[d])
        /\ TotalLength(list) = Len(list[d])
        /\ \A i \in Slots : i < Len(list[d]) => RegisteredSlots(list)[i] = list[d][i + 1]
      BY <2>1, <2>3, LoneList
  <2> QED BY <2>2, <2>4, RingIsFilled
<1> QED BY <1>1, <1>2

\* Lists of ports that are all different: as many ports as places, and the
\* free ones fit behind them.
LEMMA DistinctLists ==
    ASSUME NEW n \in Nat, NEW list \in [1..n -> Seq(PortRange)],
           \A d \in 1..n : AreDistinct(list[d]),
           \A d, e \in 1..n : d # e => InSeq(list[d]) \cap InSeq(list[e]) = {}
    PROVE  /\ Registered(list) \subseteq PortRange
           /\ IsFiniteSet(Registered(list))
           /\ TotalLength(list) = Cardinality(Registered(list))
           /\ TotalLength(list) \in 0..N
           /\ Cardinality(Unregistered(list)) = N - TotalLength(list)
<1> DEFINE Places == UNION {{d} \X DOMAIN list[d] : d \in DOMAIN list}
           portAt == [x \in Places |-> list[x[1]][x[2]]]
<1>1. /\ DOMAIN list = 1..n
      /\ \A d \in 1..n : DOMAIN list[d] = 1..Len(list[d])
      /\ \A d \in 1..n : \A i \in DOMAIN list[d] : list[d][i] \in PortRange
    OBVIOUS
<1>2. \A x \in Places : \E d \in 1..n : \E i \in DOMAIN list[d] : x = <<d, i>>
    BY <1>1
<1>3. \A d \in 1..n : \A i \in DOMAIN list[d] : <<d, i>> \in Places
    BY <1>1
<1> HIDE DEF Places
<1>4. /\ \A d \in 1..n : \A i \in DOMAIN list[d] : portAt[<<d, i>>] = list[d][i]
      /\ portAt = [x \in Places |-> portAt[x]]
    BY <1>3
<1> HIDE DEF portAt
<1>5. \A p : p \in Registered(list) <=> \E d \in 1..n : \E i \in DOMAIN list[d] : p = list[d][i]
  <2>1. \A d \in 1..n : \A p : p \in InSeq(list[d]) <=> \E i \in DOMAIN list[d] : p = list[d][i]
      BY DEF InSeq
  <2>2. \A p : p \in Registered(list) <=> \E d \in 1..n : p \in InSeq(list[d])
      BY <1>1 DEF Registered
  <2> QED BY <2>1, <2>2
<1>6. Registered(list) \subseteq PortRange
    BY <1>1, <1>5
<1>7. IsFiniteSet(Registered(list))
    BY <1>6, RangeHasN, FS_Subset
<1>8. portAt \in [Places -> Registered(list)]
  <2>1. ASSUME NEW x \in Places PROVE portAt[x] \in Registered(list)
    <3>1. PICK d \in 1..n : \E i \in DOMAIN list[d] : x = <<d, i>>
        BY <1>2
    <3>2. PICK i \in DOMAIN list[d] : x = <<d, i>>
        BY <3>1
    <3>3. portAt[x] = list[d][i]
        BY <1>4, <3>2
    <3> QED BY <1>5, <3>3
  <2> QED BY <1>4, <2>1
<1>9. ASSUME NEW x \in Places, NEW y \in Places, portAt[x] = portAt[y] PROVE x = y
  <2>1. PICK d \in 1..n, e \in 1..n : \E i \in DOMAIN list[d], j \in DOMAIN list[e] :
            x = <<d, i>> /\ y = <<e, j>>
      BY <1>2
  <2>2. PICK i \in DOMAIN list[d], j \in DOMAIN list[e] : x = <<d, i>> /\ y = <<e, j>>
      BY <2>1
  <2>3. list[d][i] = list[e][j]
      BY <1>4, <1>9, <2>2
  <2>4. list[d][i] \in InSeq(list[d]) /\ list[e][j] \in InSeq(list[e])
      BY DEF InSeq
  <2>5. d = e
      BY <2>3, <2>4
  <2> QED BY <2>2, <2>3, <2>5 DEF AreDistinct
<1>10. ASSUME NEW p \in Registered(list) PROVE \E x \in Places : portAt[x] = p
  <2>1. PICK d \in 1..n : \E i \in DOMAIN list[d] : p = list[d][i]
      BY <1>5
  <2>2. PICK i \in DOMAIN list[d] : p = list[d][i]
      BY <2>1
  <2>3. <<d, i>> \in Places /\ portAt[<<d, i>>] = p
      BY <1>3, <1>4, <2>2
  <2> QED BY <2>3
<1>11. portAt \in Injection(Places, Registered(list)) /\ portAt \in Surjection(Places, Registered(list))
    BY <1>8, <1>9, <1>10 DEF Injection, IsInjective, Surjection
<1>12. TotalLength(list) = Cardinality(Registered(list))
    BY <1>7, <1>11, FS_Injection DEF TotalLength, Places
<1>13. Cardinality(Registered(list)) \in Nat /\ Cardinality(Registered(list)) <= N
    BY <1>6, <1>7, RangeHasN, FS_Subset, FS_CardinalityType
<1>14. Cardinality(Unregistered(list)) = N - Cardinality(Registered(list))
  <2>1. PortRange \cap Registered(list) = Registered(list)
      BY <1>6
  <2>2. Cardinality(PortRange \ Registered(list)) = N - Cardinality(PortRange \cap Registered(list))
      BY RangeHasN, FS_Difference
  <2> QED BY <2>1, <2>2 DEF Unregistered
<1> QED BY <1>6, <1>7, <1>12, <1>13, <1>14, RingIsNotEmpty

\* A list that leaves room for the ports it lacks has no zero, and no port
\* twice.
LEMMA RoomMeansDistinct ==
    ASSUME NEW s \in Seq(PortRange \cup {0}), Len(s) + Cardinality(PortRange \ InSeq(s)) <= N
    PROVE  s \in Seq(PortRange) /\ AreDistinct(s)
<1> DEFINE T == PortRange \cap InSeq(s)
<1>1. DOMAIN s = 1..Len(s) /\ Len(s) \in Nat /\ \A i \in 1..Len(s) : s[i] \in PortRange \cup {0}
    OBVIOUS
<1>2. IsFiniteSet(1..Len(s)) /\ Cardinality(1..Len(s)) = Len(s)
  <2>1. 1 \in Int /\ Len(s) \in Int /\ Len(s) - 1 + 1 = Len(s) /\ (1 > Len(s) => Len(s) = 0)
      BY <1>1
  <2> QED BY <2>1, FS_Interval
<1>3. s \in Surjection(1..Len(s), InSeq(s))
    BY <1>1 DEF Surjection, InSeq
<1>4. /\ IsFiniteSet(InSeq(s)) /\ Cardinality(InSeq(s)) <= Len(s)
      /\ Cardinality(InSeq(s)) = Len(s) => s \in Injection(1..Len(s), InSeq(s))
    BY <1>2, <1>3, FS_Surjection
<1>5. Cardinality(InSeq(s)) \in Nat
    BY <1>4, FS_CardinalityType
<1>6. /\ T \subseteq InSeq(s) /\ IsFiniteSet(T) /\ Cardinality(T) \in Nat
      /\ Cardinality(T) <= Cardinality(InSeq(s))
      /\ Cardinality(InSeq(s)) = Cardinality(T) => InSeq(s) = T
    BY <1>4, FS_Subset, FS_CardinalityType
<1>7. Cardinality(PortRange \ InSeq(s)) = N - Cardinality(T)
    BY RangeHasN, FS_Difference
<1> HIDE DEF T
<1>8. Cardinality(InSeq(s)) = Len(s) /\ Cardinality(InSeq(s)) = Cardinality(T)
    BY <1>1, <1>4, <1>5, <1>6, <1>7, RingIsNotEmpty
<1>9. InSeq(s) \subseteq PortRange
    BY <1>6, <1>8 DEF T
<1>10. s \in Seq(PortRange)
  <2>1. \A i \in 1..Len(s) : s[i] \in PortRange
      BY <1>1, <1>9 DEF InSeq
  <2> QED BY <1>1, <2>1
<1>11. AreDistinct(s)
    BY <1>1, <1>4, <1>8 DEF Injection, IsInjective, AreDistinct
<1> QED BY <1>10, <1>11
=============================================================================
