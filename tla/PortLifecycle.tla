---------------------------- MODULE PortLifecycle ----------------------------
(***************************************************************************)
(* The life of a host port: the collection controller asks the registry    *)
(* for one per exposed container port and stores it in the DGS it creates, *)
(* the DGS controller's delete handler gives ports back, and a restarted   *)
(* process rebuilds the registry from the DGSs that exist.                 *)
(*                                                                         *)
(* The scan of the ring goes slot by slot, and the informer's goroutine    *)
(* gives ports back in the middle of it.  What it gives back are container *)
(* ports, which may well lie in the range of the host ports: port 22222 of *)
(* the examples does.  By default one worker asks for ports, so the        *)
(* channels to the registry and back, which PortRegistry is about, are     *)
(* left out.  The process can also fail to start: an index out of range in *)
(* NewPortRegistry is a panic, and it is started again and again until the *)
(* DGSs have changed.                                                      *)
(***************************************************************************)
EXTENDS PortRing

CONSTANTS
    MaxDGSs,        \* bound on DGSs, which are listed in this order
    Templates,      \* [ports |-> container ports, expose |-> PortsToExpose]
    None,           \* no DGS
    MaxFaults       \* bound on failing calls and restarts

Names == 1..MaxDGSs

\* The host ports are those of the container ports of the template, in the
\* order of the containers; 0 means that a container port has none.
DGSObjects ==
    UNION {[template : {t}, hostPorts : [DOMAIN t.ports -> PortRange \cup {0}]] :
              t \in Templates}

ASSUME MaxDGSsAssumption == MaxDGSs \in Nat
ASSUME TemplatesAssumption ==
    Templates \subseteq [ports : Seq(Nat \ {0}), expose : Seq(Nat \ {0})]
ASSUME NoneAssumption == None \notin DGSObjects

VARIABLES
    dgss,               \* the DGSs in the API server
    deletions,          \* deleted DGSs the informer has not noticed yet
    up,                 \* the last start succeeded
    ports,              \* the keys of Ports mapped to true
    indexes,            \* the ring
    nextFreePortIndex,
    dgs,                \* addDGSColReplicas: the object it is building
    at,                 \* and the container port it has come to
    scanned,            \* taken slots that the scan for this port has passed
    releasing,          \* DeregisterServerPorts: ports it has yet to free
    startedWith,        \* history: DGSs that the last start has listed
    faultsLeft

registryVars == <<ports, indexes, nextFreePortIndex>>
processVars == <<up, startedWith>>
buildVars == <<dgs, at, scanned>>
vars == <<dgss, deletions, releasing, processVars, registryVars, buildVars, faultsLeft>>

Live == {n \in Names : dgss[n] # None}

HostPorts(d) == InSeq(d.hostPorts) \ {0}
InUse == UNION {HostPorts(dgss[n]) : n \in Live}

\* Whatever a deletion may give back.
GivenAway == UNION {InSeq(t.expose) : t \in Templates}

-----------------------------------------------------------------------------
(* NewPortRegistry.                                                        *)

\* Container ports with a host port.
Found(d) == {j \in DOMAIN d.hostPorts : d.hostPorts[j] # 0}
IsNth(j, i, S) == Cardinality({k \in S : k < j}) = i - 1

\* portsExposed: the host ports that are found, in the order of the container
\* ports.  It has the length of PortsToExpose; what is not found stays 0.
PortsExposed(d) ==
    [i \in 1..Len(d.template.expose) |->
        IF \E j \in Found(d) : IsNth(j, i, Found(d))
        THEN d.hostPorts[CHOOSE j \in Found(d) : IsNth(j, i, Found(d))]
        ELSE 0]

\* DGSs that expose no port are skipped.
Listed == {n \in Live : dgss[n].template.expose # <<>>}
Gathered == [n \in Names |-> IF n \in Listed THEN PortsExposed(dgss[n]) ELSE <<>>]

\* No index is out of range: that of portsExposed, nor that of Indexes in
\* assignRegisteredPorts and in assignUnregisteredPorts.
CanStart ==
    /\ \A n \in Listed :
        /\ Cardinality(Found(dgss[n])) <= Len(dgss[n].template.expose)
        /\ Len(dgss[n].template.expose) <= N
    /\ Advanced(0, TotalLength(Gathered)) + Cardinality(Unregistered(Gathered)) <= N

\* Mutant of Marked: only the ports of the DGS that is listed last.
MarkedLast ==
    UNION {HostPorts(dgss[n]) : n \in {m \in Listed : \A k \in Listed : k <= m}}

\* What is found is marked in Ports, and so is 0 for what is not found.
IsShort(d) == Cardinality(Found(d)) < Len(d.template.expose)
Marked ==
    (UNION {HostPorts(dgss[n]) : n \in Listed})
    \cup {0 : n \in {m \in Listed : IsShort(dgss[m])}}

\* The object under construction is gone.
Discard == dgs' = None /\ at' = 0 /\ scanned' = 0

\* Nothing but the DGSs survives a restart.
Start ==
    /\ deletions' = [n \in Names |-> None]
    /\ releasing' = <<>>
    /\ Discard
    /\ up' = CanStart
    /\ startedWith' = Cardinality(Listed)
    /\ IF CanStart
       THEN /\ ports' = Marked
            /\ indexes' \in Rings(Gathered)
            /\ nextFreePortIndex' = Advanced(0, TotalLength(Gathered))
       ELSE UNCHANGED registryVars
    /\ UNCHANGED dgss

Restart ==
    /\ IF up THEN faultsLeft > 0 /\ faultsLeft' = faultsLeft - 1 ELSE UNCHANGED faultsLeft
    /\ Start

Init ==
    /\ dgss = [n \in Names |-> None]
    /\ deletions = [n \in Names |-> None]
    /\ up = TRUE
    /\ ports = {}
    /\ indexes \in Rings(<<>>)
    /\ nextFreePortIndex = 0
    /\ dgs = None /\ at = 0 /\ scanned = 0
    /\ releasing = <<>>
    /\ startedWith = 0
    /\ faultsLeft = MaxFaults

-----------------------------------------------------------------------------
(* addDGSColReplicas.                                                      *)

\* A DGS is built from the collection's template, which has no host ports.
NewDGS(t) ==
    /\ up /\ dgs = None
    /\ dgs' = [template |-> t, hostPorts |-> [j \in DOMAIN t.ports |-> 0]]
    /\ at' = 1 /\ scanned' = 0
    /\ UNCHANGED <<dgss, deletions, releasing, processVars, registryVars, faultsLeft>>

Building == up /\ dgs # None /\ at <= Len(dgs.template.ports)
IsBuilt == up /\ dgs # None /\ at > Len(dgs.template.ports)
IsExposed(d, j) == d.template.ports[j] \in InSeq(d.template.expose)

\* A container port that is not exposed gets no host port.
SkipPort ==
    /\ Building /\ ~ IsExposed(dgs, at)
    /\ at' = at + 1
    /\ UNCHANGED <<dgss, deletions, releasing, processVars, registryVars, dgs, scanned, faultsLeft>>

\* One that is exposed gets the next free port of the ring.
Scanning == Building /\ IsExposed(dgs, at)
NextPort == indexes[nextFreePortIndex]

\* Mutant of ScanFree: the port is not marked.
ScanFreeUnmarked ==
    /\ Scanning /\ NextPort \notin ports
    /\ dgs' = [dgs EXCEPT !.hostPorts[at] = NextPort]
    /\ at' = at + 1 /\ scanned' = 0
    /\ nextFreePortIndex' = Advanced(nextFreePortIndex, 1)
    /\ UNCHANGED <<dgss, deletions, releasing, processVars, ports, indexes, faultsLeft>>

\* The port of this slot is free: it is marked and assigned.
ScanFree ==
    /\ Scanning /\ NextPort \notin ports
    /\ ports' = ports \cup {NextPort}
    /\ dgs' = [dgs EXCEPT !.hostPorts[at] = NextPort]
    /\ at' = at + 1 /\ scanned' = 0
    /\ nextFreePortIndex' = Advanced(nextFreePortIndex, 1)
    /\ UNCHANGED <<dgss, deletions, releasing, processVars, indexes, faultsLeft>>

\* It is taken.  After a full loop the sync fails: what it has marked before
\* stays marked.
ScanTaken ==
    /\ Scanning /\ NextPort \in ports
    /\ nextFreePortIndex' = Advanced(nextFreePortIndex, 1)
    /\ IF scanned + 1 = N THEN Discard ELSE scanned' = scanned + 1 /\ UNCHANGED <<dgs, at>>
    /\ UNCHANGED <<dgss, deletions, releasing, processVars, ports, indexes, faultsLeft>>

\* Under a name that was never used.
Store(n) ==
    /\ dgss[n] = None /\ deletions[n] = None
    /\ dgss' = [dgss EXCEPT ![n] = dgs]

CreateDGS(n) ==
    /\ IsBuilt
    /\ Store(n)
    /\ Discard
    /\ UNCHANGED <<deletions, releasing, processVars, registryVars, faultsLeft>>

\* Create fails, before or after it was carried out.
CreateFails ==
    /\ IsBuilt
    /\ faultsLeft > 0 /\ faultsLeft' = faultsLeft - 1
    /\ UNCHANGED dgss \/ \E n \in Names : Store(n)
    /\ Discard
    /\ UNCHANGED <<deletions, releasing, processVars, registryVars>>

-----------------------------------------------------------------------------
(* Deletion.                                                               *)

\* By the DGS controller, the collection controller or a person.
DeleteDGS(n) ==
    /\ dgss[n] # None
    /\ dgss' = [dgss EXCEPT ![n] = None]
    /\ deletions' = [deletions EXCEPT ![n] = IF up THEN dgss[n] ELSE None]
    /\ UNCHANGED <<releasing, processVars, registryVars, buildVars, faultsLeft>>

\* What handleDedicatedGameServerDelete gives back: the container ports that
\* are to be exposed, not the host ports.
GivenBack(d) == d.template.expose

\* A deletion that is only seen by listing comes as a tombstone, which the
\* handler ignores.  The informer calls one handler at a time.
HandleDelete(n) ==
    /\ up /\ releasing = <<>> /\ deletions[n] # None
    /\ releasing' \in {GivenBack(deletions[n]), <<>>}
    /\ deletions' = [deletions EXCEPT ![n] = None]
    /\ UNCHANGED <<dgss, processVars, registryVars, buildVars, faultsLeft>>

DeregisterServerPorts ==
    /\ up /\ releasing # <<>>
    /\ ports' = ports \ {Head(releasing)}
    /\ releasing' = Tail(releasing)
    /\ UNCHANGED <<dgss, deletions, processVars, indexes, nextFreePortIndex, buildVars, faultsLeft>>

-----------------------------------------------------------------------------
Next ==
    \/ \E t \in Templates : NewDGS(t)
    \/ SkipPort \/ ScanFree \/ ScanTaken
    \/ CreateFails
    \/ \E n \in Names : CreateDGS(n) \/ DeleteDGS(n) \/ HandleDelete(n)
    \/ DeregisterServerPorts
    \/ Restart

Spec == Init /\ [][Next]_vars

-----------------------------------------------------------------------------
(* What must hold.                                                         *)

\* Each variable has its type, and only a process that is up builds a DGS.
TypeOK ==
    /\ dgss \in [Names -> DGSObjects \cup {None}]
    /\ deletions \in [Names -> DGSObjects \cup {None}]
    /\ up \in BOOLEAN
    /\ ports \subseteq PortRange \cup {0}
    /\ indexes \in [Slots -> PortRange \cup {0}]
    /\ nextFreePortIndex \in Slots
    /\ dgs \in DGSObjects \cup {None}
    /\ at \in Nat /\ scanned \in Slots
    /\ releasing \in Seq(GivenAway)
    /\ dgs # None => up /\ at > 0

\* A port of P is in one place: never in two DGSs, nor twice in one, nor in a
\* DGS and in the object that is being built.
IsExclusive(d, P) ==
    \A i, j \in DOMAIN d.hostPorts :
        d.hostPorts[i] = d.hostPorts[j] /\ d.hostPorts[i] \in P => i = j
DGSsAreExclusive(P) ==
    /\ \A n \in Live : IsExclusive(dgss[n], P)
    /\ \A n, m \in Live : n # m => HostPorts(dgss[n]) \cap HostPorts(dgss[m]) \cap P = {}
AreExclusive(P) ==
    /\ DGSsAreExclusive(P)
    /\ dgs # None => IsExclusive(dgs, P) /\ HostPorts(dgs) \cap InUse \cap P = {}

\* A host port that no deletion gives back is in one place, whatever is given
\* back in the middle of a scan, and whatever failed or restarted in between.
OthersAreExclusive == AreExclusive(PortRange \ GivenAway)

\* A registry that was started with at most one DGS that exposes ports loses
\* none: its ring holds every port of the range.
RingIsWhole == up /\ startedWith <= 1 => InSeq(indexes) = PortRange

\* A DGS has a host port for each port it is to expose, and no more.
IsComplete(d) == Cardinality(Found(d)) = Len(d.template.expose)

\* The process can be started again whenever every DGS is complete, unless two
\* host ports are the same one that a deletion has given back.
CanStartAgain ==
    (\A n \in Live : IsComplete(dgss[n])) /\ DGSsAreExclusive(GivenAway) => CanStart

-----------------------------------------------------------------------------
(* What the documentation says and the code does not do.                   *)

\* The comment of GetNewPort: it registers the port for the DGS it is for.
\* Then a host port is in one place until that DGS is gone, and this holds of
\* all of the range.
HostPortsAreExclusive == AreExclusive(PortRange)

\* docs/architecture.md: a container port that is listed in portsToExpose is
\* exposed by means of a host port.
ExposedPortsAreOpen ==
    \A n \in Live : \A i \in DOMAIN dgss[n].hostPorts :
        IsExposed(dgss[n], i) => dgss[n].hostPorts[i] \in PortRange
=============================================================================
