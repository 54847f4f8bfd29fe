------------------------------ MODULE PortRing ------------------------------
(***************************************************************************)
(* portregistry.go: the ring of port numbers and how NewPortRegistry       *)
(* builds it from the host ports of the DGSs that exist.                   *)
(***************************************************************************)
EXTENDS Integers, Sequences, FiniteSets

CONSTANTS Min, Max      \* the range of ports

ASSUME RangeAssumption == Min \in Nat \ {0} /\ Max \in Nat /\ Min <= Max

PortRange == Min..Max
N == Max - Min + 1      \* length of the ring
Slots == 0..N-1         \* indexes into the ring

\* In what follows list has one entry for each DGS that exists, the sequence
\* of its host ports.
InSeq(s) == {s[i] : i \in DOMAIN s}
Registered(list) == UNION {InSeq(list[d]) : d \in DOMAIN list}
Unregistered(list) == PortRange \ Registered(list)

\* Mutant of Advanced: the index does not wrap.
AdvancedNoWrap(i, n) == i + n

\* nextFreePortIndex after n calls of increaseNextFreePortIndex from i.
Advanced(i, n) == (i + n) % N

\* How many ports there are, counted with their repetitions.
TotalLength(list) == Cardinality(UNION {{d} \X DOMAIN list[d] : d \in DOMAIN list})

\* Mutant of RegisteredSlots: the ports are written one slot too far.
RegisteredSlotsShifted(list) ==
    [i \in Slots |->
        LET writers == {d \in DOMAIN list : i <= Len(list[d]) /\ i > 0}
        IN  IF writers = {} THEN 0
            ELSE list[CHOOSE d \in writers : \A e \in writers : e <= d][i]]

\* assignRegisteredPorts, called once per DGS, writes every DGS's ports from
\* slot 0 on: a slot ends up with the port of the last DGS that reaches it,
\* and slots no DGS reaches keep the zero value.
RegisteredSlots(list) ==
    [i \in Slots |->
        LET writers == {d \in DOMAIN list : i < Len(list[d])}
        IN  IF writers = {} THEN 0
            ELSE list[CHOOSE d \in writers : \A e \in writers : e <= d][i + 1]]

\* assignUnregisteredPorts: the free ports, in a random order, follow from
\* nextFreePortIndex on.
Rings(list) ==
    LET base == RegisteredSlots(list)
        first == Advanced(0, TotalLength(list))
        fill == first..first + Cardinality(Unregistered(list)) - 1
    IN  {[i \in Slots |-> IF i \in fill THEN f[i] ELSE base[i]] :
            f \in {g \in [fill -> Unregistered(list)] :
                    \A i, j \in fill : g[i] = g[j] => i = j}}
=============================================================================
