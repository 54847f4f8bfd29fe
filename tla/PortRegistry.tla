---------------------------- MODULE PortRegistry ----------------------------
(***************************************************************************)
(* portregistry.go: the registry that hands out host ports.  A single      *)
(* goroutine, portProducer, scans a ring of port numbers for a free one;   *)
(* GetNewPort talks to it over two buffered channels; the DGS informer's   *)
(* goroutine frees ports with DeregisterServerPorts, which takes no lock   *)
(* and so interleaves with the scan.                                       *)
(*                                                                         *)
(* Clients use the registry the way portregistry_test.go does: they get    *)
(* ports one by one and give all of them back.  How the controllers really *)
(* use it is the subject of PortLifecycle.                                 *)
(***************************************************************************)
EXTENDS PortRing

CONSTANTS
    Clients,    \* concurrent callers of GetNewPort
    ChanCap,    \* capacity of portRequests and portResponses (100)
    Existing    \* host ports of the DGSs that exist when the registry starts:
                \* a sequence, one entry per DGS, of sequences of ports

ASSUME ChanCapAssumption == ChanCap \in Nat \ {0}
ASSUME ExistingAssumption == Existing \in Seq(Seq(Min..Max))

NoPort == -1            \* what portProducer answers after a full loop

VARIABLES
    ports,              \* the keys of Ports mapped to true
    indexes,            \* the ring
    nextFreePortIndex,
    portRequests,       \* number of requests in the channel
    portResponses,      \* answers in the channel
    producer,           \* portProducer: "idle", "scan" or "respond"
    initialIndex,       \* its local variable: where the scan began
    answer,             \* its local variable: what it is about to send
    calling,            \* clients between the two channel operations
    held,               \* ports each client has got
    releasing,          \* clients inside DeregisterServerPorts
    portsAtScan         \* history: ports when the current scan began

registryVars == <<ports, indexes, nextFreePortIndex>>
producerVars == <<producer, initialIndex, answer, portsAtScan>>
channelVars == <<portRequests, portResponses>>
clientVars == <<calling, held, releasing>>
vars == <<registryVars, producerVars, channelVars, clientVars>>

-----------------------------------------------------------------------------
(* NewPortRegistry.                                                        *)

\* No host port is used twice among the existing DGSs; otherwise
\* assignUnregisteredPorts runs off the ring and the process panics.
ASSUME NoPortTwice == TotalLength(Existing) = Cardinality(Registered(Existing))

\* The registry as NewPortRegistry leaves it, portProducer started.
NewPortRegistry(list) ==
    /\ ports = Registered(list)
    /\ indexes \in Rings(list)
    /\ nextFreePortIndex = Advanced(0, TotalLength(list))
    /\ portRequests = 0
    /\ portResponses = <<>>
    /\ producer = "idle"
    /\ initialIndex = 0
    /\ answer = NoPort
    /\ portsAtScan = {}

Init ==
    /\ NewPortRegistry(Existing)
    /\ calling = {}
    /\ held = [c \in Clients |-> {}]
    /\ releasing = {}

-----------------------------------------------------------------------------
(* portProducer.                                                           *)

TakeRequest ==
    /\ producer = "idle"
    /\ portRequests > 0
    /\ portRequests' = portRequests - 1
    /\ initialIndex' = nextFreePortIndex
    /\ portsAtScan' = ports
    /\ producer' = "scan"
    /\ UNCHANGED <<registryVars, answer, portResponses, clientVars>>

\* Mutant of ScanFree: the port is not marked in Ports.
ScanFreeUnmarked ==
    /\ producer = "scan"
    /\ indexes[nextFreePortIndex] \notin ports
    /\ answer' = indexes[nextFreePortIndex]
    /\ nextFreePortIndex' = Advanced(nextFreePortIndex, 1)
    /\ producer' = "respond"
    /\ UNCHANGED <<ports, indexes, initialIndex, portsAtScan, channelVars, clientVars>>

\* The port under the index is free: register it.
ScanFree ==
    /\ producer = "scan"
    /\ indexes[nextFreePortIndex] \notin ports
    /\ ports' = ports \cup {indexes[nextFreePortIndex]}
    /\ answer' = indexes[nextFreePortIndex]
    /\ nextFreePortIndex' = Advanced(nextFreePortIndex, 1)
    /\ producer' = "respond"
    /\ UNCHANGED <<indexes, initialIndex, portsAtScan, channelVars, clientVars>>

\* Mutant of ScanTaken: the end of the loop is tested before the increment.
ScanTakenTestedEarly ==
    /\ producer = "scan"
    /\ indexes[nextFreePortIndex] \in ports
    /\ nextFreePortIndex' = Advanced(nextFreePortIndex, 1)
    /\ IF nextFreePortIndex = initialIndex
       THEN producer' = "respond" /\ answer' = NoPort
       ELSE UNCHANGED <<producer, answer>>
    /\ UNCHANGED <<ports, indexes, initialIndex, portsAtScan, channelVars, clientVars>>

\* Mutant of ScanTaken: after a full loop nothing is answered.
ScanTakenUnanswered ==
    /\ producer = "scan"
    /\ indexes[nextFreePortIndex] \in ports
    /\ nextFreePortIndex' = Advanced(nextFreePortIndex, 1)
    /\ producer' = IF nextFreePortIndex' = initialIndex THEN "idle" ELSE "scan"
    /\ UNCHANGED <<ports, indexes, initialIndex, answer, portsAtScan, channelVars, clientVars>>

\* The port is taken: go on, and give up after a full loop.
ScanTaken ==
    /\ producer = "scan"
    /\ indexes[nextFreePortIndex] \in ports
    /\ nextFreePortIndex' = Advanced(nextFreePortIndex, 1)
    /\ IF nextFreePortIndex' = initialIndex
       THEN producer' = "respond" /\ answer' = NoPort
       ELSE UNCHANGED <<producer, answer>>
    /\ UNCHANGED <<ports, indexes, initialIndex, portsAtScan, channelVars, clientVars>>

Respond ==
    /\ producer = "respond"
    /\ Len(portResponses) < ChanCap
    /\ portResponses' = Append(portResponses, answer)
    /\ producer' = "idle"
    /\ UNCHANGED <<registryVars, initialIndex, answer, portsAtScan,
                   portRequests, clientVars>>

PortProducer == TakeRequest \/ ScanFree \/ ScanTaken \/ Respond

-----------------------------------------------------------------------------
(* The clients' side.                                                      *)

\* GetNewPort, first half: send the request.
RequestPort(c) ==
    /\ c \notin calling \cup releasing
    /\ portRequests < ChanCap
    /\ portRequests' = portRequests + 1
    /\ calling' = calling \cup {c}
    /\ UNCHANGED <<registryVars, producerVars, portResponses, held, releasing>>

\* GetNewPort, second half: any waiting caller receives the oldest answer.
ReceivePort(c) ==
    /\ c \in calling
    /\ portResponses # <<>>
    /\ portResponses' = Tail(portResponses)
    /\ calling' = calling \ {c}
    /\ held' = [held EXCEPT ![c] = @ \cup ({Head(portResponses)} \ {NoPort})]
    /\ UNCHANGED <<registryVars, producerVars, portRequests, releasing>>

BeginRelease(c) ==
    /\ c \notin calling \cup releasing
    /\ held[c] # {}
    /\ releasing' = releasing \cup {c}
    /\ UNCHANGED <<registryVars, producerVars, channelVars, calling, held>>

\* Mutant of DeregisterServerPorts: it returns after the first port.
DeregisterServerPortsOnce(c) ==
    /\ c \in releasing
    /\ \E p \in held[c] : ports' = ports \ {p}
    /\ held' = [held EXCEPT ![c] = {}]
    /\ releasing' = releasing \ {c}
    /\ UNCHANGED <<indexes, nextFreePortIndex, producerVars, channelVars, calling>>

\* One iteration of DeregisterServerPorts.
DeregisterServerPorts(c) ==
    /\ c \in releasing
    /\ \E p \in held[c] :
        /\ ports' = ports \ {p}
        /\ held' = [held EXCEPT ![c] = @ \ {p}]
    /\ releasing' = IF held'[c] = {} THEN releasing \ {c} ELSE releasing
    /\ UNCHANGED <<indexes, nextFreePortIndex, producerVars, channelVars, calling>>

Client(c) ==
    RequestPort(c) \/ ReceivePort(c) \/ BeginRelease(c) \/ DeregisterServerPorts(c)

Next == PortProducer \/ \E c \in Clients : Client(c)

\* portProducer is a goroutine of its own; a caller that is in GetNewPort
\* receives when it can.
Fairness ==
    /\ WF_vars(PortProducer)
    /\ \A c \in Clients : WF_vars(DeregisterServerPorts(c)) /\ SF_vars(ReceivePort(c))

Spec == Init /\ [][Next]_vars
FairSpec == Spec /\ Fairness
-----------------------------------------------------------------------------
(* What must hold.                                                         *)

TypeOK ==
    /\ ports \subseteq PortRange \cup {0}
    /\ indexes \in [Slots -> PortRange \cup {0}]
    /\ nextFreePortIndex \in Slots
    /\ portRequests \in 0..ChanCap
    /\ portResponses \in Seq(PortRange \cup {0, NoPort})
    /\ producer \in {"idle", "scan", "respond"}
    /\ initialIndex \in Slots
    /\ answer \in PortRange \cup {0, NoPort}
    /\ calling \subseteq Clients
    /\ held \in [Clients -> SUBSET (PortRange \cup {0})]
    /\ releasing \subseteq Clients
    /\ portsAtScan \subseteq PortRange \cup {0}

\* Ports that have been registered for a caller which has not got them yet.
Answered == (IF producer = "respond" THEN {answer} ELSE {}) \ {NoPort}
Sent == InSeq(portResponses) \ {NoPort}
Held == UNION {held[c] : c \in Clients}

\* A port goes to one client at a time: whether it is about to be sent, in
\* the response channel or received, nobody else has it or is sent it.
GrantsAreExclusive ==
    /\ \A c, d \in Clients : c # d => held[c] \cap held[d] = {}
    /\ Answered \cap (Sent \cup Held) = {}
    /\ Sent \cap Held = {}
    /\ \A i, j \in DOMAIN portResponses :
        portResponses[i] = portResponses[j] /\ portResponses[i] # NoPort => i = j

\* The registry's books balance: a port is registered exactly when a client
\* has it, is being sent it, or a DGS already had it at the start.
BooksBalance == ports = Answered \cup Sent \cup Held \cup Registered(Existing)

\* The answers that have been made and not received.
Promised == portResponses \o (IF producer = "respond" THEN <<answer>> ELSE <<>>)

Pool == INSTANCE PortPool WITH
    Callers <- Clients,
    Ports <- PortRange,
    Refusal <- NoPort,
    taken <- ports,
    owed <- portRequests + (IF producer = "scan" THEN 1 ELSE 0),
    seen <- IF producer = "scan" THEN portsAtScan ELSE {},
    answers <- Promised

\* portregistry.go keeps what a pool of ports promises its callers.  A refusal,
\* above all, is true: every port was taken at the moment the scan began,
\* however many are freed behind it.
ImplementsPool == Pool!Spec

\* Callers and answers are never out of step: for each call under way there
\* is one request queued, one scan under way or one answer in the channel.
OneAnswerPerCall ==
    Cardinality(calling) =
        portRequests + Len(portResponses) + (IF producer = "idle" THEN 0 ELSE 1)

\* GetNewPort returns, with a port or with an error.
CallsReturn == \A c \in Clients : c \in calling ~> c \notin calling
=============================================================================
