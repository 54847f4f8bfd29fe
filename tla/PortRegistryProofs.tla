------------------------- MODULE PortRegistryProofs -------------------------
(***************************************************************************)
(* Proofs about PortRegistry for every range of ports, every number of     *)
(* clients and every capacity of the channels: the type invariant, that a  *)
(* port goes to one client at a time, that the registry's books balance,   *)
(* that callers and answers match, and that a refusal is justified.        *)
(***************************************************************************)
EXTENDS PortRegistry, PortRingProofs

USE RangeAssumption

Granted == Answered \cup Sent \cup Held

\* No port of a DGS that existed at the start is granted.
GrantsAreNotRegistered == Granted \cap Registered(Existing) = {}

\* The inductive invariant.
IInv ==
    /\ TypeOK
    /\ GrantsAreExclusive
    /\ BooksBalance
    /\ GrantsAreNotRegistered

-----------------------------------------------------------------------------
(* The registry as it is built.                                            *)

\* The ports of the existing DGSs are in the range.
LEMMA RegisteredInRange == Registered(Existing) \subseteq PortRange
<1>1. \A d \in DOMAIN Existing : Existing[d] \in Seq(PortRange)
    BY ExistingAssumption DEF PortRange
<1>2. \A d \in DOMAIN Existing : InSeq(Existing[d]) \subseteq PortRange
    BY <1>1 DEF InSeq
<1> QED BY <1>2 DEF Registered

\* Existing is a list the ring can be built from.
LEMMA ExistingIsList ==
    /\ Len(Existing) \in Nat
    /\ Existing \in [1..Len(Existing) -> Seq(PortRange \cup {0})]
<1>1. Existing \in Seq(Seq(PortRange))
    BY ExistingAssumption DEF PortRange
<1>2. Seq(PortRange) \subseteq Seq(PortRange \cup {0})
    OBVIOUS
<1> QED BY <1>1, <1>2

\* The invariant holds of the registry as NewPortRegistry leaves it.
LEMMA InitIInv == Init => IInv
<1> SUFFICES ASSUME Init
             PROVE  IInv
    OBVIOUS
<1> USE DEF Init, NewPortRegistry
<1>1. Answered = {} /\ Sent = {} /\ Held = {}
    BY DEF Answered, Sent, Held, InSeq
<1>2. TypeOK
    <2>1. nextFreePortIndex \in Slots
        BY ExistingIsList, TotalLengthIsNat, AdvancedInSlots
    <2>2. 0 \in Slots
        BY RingIsNotEmpty DEF Slots
    <2> QED BY <2>1, <2>2, RegisteredInRange, ExistingIsList, RingsType, ChanCapAssumption DEF TypeOK
<1>3. GrantsAreExclusive
    BY <1>1 DEF GrantsAreExclusive
<1>4. BooksBalance /\ GrantsAreNotRegistered
    BY <1>1 DEF BooksBalance, GrantsAreNotRegistered, Granted
<1> QED BY <1>2, <1>3, <1>4 DEF IInv

-----------------------------------------------------------------------------
(* The response channel.                                                   *)

Answers == PortRange \cup {0, NoPort}

\* No port is in the channel twice.
Distinct(s) == \A i, j \in DOMAIN s : s[i] = s[j] /\ s[i] # NoPort => i = j

\* Sending an answer adds it to the channel.
LEMMA SendAddsAnswer ==
    ASSUME NEW s \in Seq(Answers), NEW a \in Answers
    PROVE  /\ Append(s, a) \in Seq(Answers)
           /\ InSeq(Append(s, a)) = InSeq(s) \cup {a}
<1>1. InSeq(Append(s, a)) \subseteq InSeq(s) \cup {a}
    BY DEF InSeq
<1>2. InSeq(s) \subseteq InSeq(Append(s, a))
    BY DEF InSeq
<1>3. a \in InSeq(Append(s, a))
    <2>1. Len(s) + 1 \in DOMAIN Append(s, a) /\ Append(s, a)[Len(s) + 1] = a
        OBVIOUS
    <2> QED BY <2>1 DEF InSeq
<1> QED BY <1>1, <1>2, <1>3

\* Sending a port that is not in the channel.
LEMMA SendKeepsDistinct ==
    ASSUME NEW s \in Seq(Answers), NEW a \in Answers, Distinct(s),
           a \notin InSeq(s) \ {NoPort}
    PROVE  Distinct(Append(s, a))
BY DEF Distinct, InSeq

\* Receiving takes the oldest answer, and its port leaves the channel.
LEMMA ReceiveTakesAnswer ==
    ASSUME NEW s \in Seq(Answers), s # <<>>, Distinct(s)
    PROVE  /\ Head(s) \in Answers
           /\ Head(s) \in InSeq(s)
           /\ Tail(s) \in Seq(Answers)
           /\ Distinct(Tail(s))
           /\ InSeq(Tail(s)) \ {NoPort} = (InSeq(s) \ {NoPort}) \ {Head(s)}
<1>1. /\ Head(s) = s[1] /\ Head(s) \in Answers
      /\ Tail(s) \in Seq(Answers)
      /\ Len(Tail(s)) = Len(s) - 1 /\ Len(s) \in Nat \ {0}
      /\ DOMAIN s = 1..Len(s) /\ DOMAIN Tail(s) = 1..Len(s) - 1
      /\ \A i \in DOMAIN Tail(s) : Tail(s)[i] = s[i + 1]
    OBVIOUS
<1>2. Head(s) \in InSeq(s)
    BY <1>1 DEF InSeq
<1>3. Distinct(Tail(s))
    BY <1>1 DEF Distinct
<1>4. ASSUME NEW a \in InSeq(Tail(s)) \ {NoPort}
      PROVE  a \in (InSeq(s) \ {NoPort}) \ {Head(s)}
    <2>1. PICK i \in DOMAIN Tail(s) : a = s[i + 1]
        BY <1>1 DEF InSeq
    <2>2. i + 1 \in DOMAIN s /\ 1 \in DOMAIN s /\ i + 1 # 1
        BY <1>1
    <2>3. a # s[1]
        BY <2>1, <2>2 DEF Distinct
    <2> QED BY <1>1, <2>1, <2>2, <2>3 DEF InSeq
<1>5. ASSUME NEW a \in (InSeq(s) \ {NoPort}) \ {Head(s)}
      PROVE  a \in InSeq(Tail(s)) \ {NoPort}
    <2>1. PICK i \in DOMAIN s : a = s[i]
        BY DEF InSeq
    <2>2. i # 1
        BY <1>1, <2>1
    <2>3. i - 1 \in DOMAIN Tail(s) /\ Tail(s)[i - 1] = s[i]
        BY <1>1, <2>2
    <2> QED BY <2>1, <2>3 DEF InSeq
<1> QED BY <1>1, <1>2, <1>3, <1>4, <1>5

-----------------------------------------------------------------------------
(* Each step preserves the invariant.                                      *)

\* What GrantsAreExclusive says of the channel.
LEMMA ChannelIsDistinct == GrantsAreExclusive => Distinct(portResponses)
BY DEF GrantsAreExclusive, Distinct

\* A step that grants nothing and takes nothing back.
LEMMA SameGrants ==
    ASSUME IInv, TypeOK', Answered' = Answered,
           UNCHANGED <<ports, portResponses, held>>
    PROVE  IInv'
<1>1. Sent' = Sent /\ Held' = Held
    BY DEF Sent, Held
<1> QED BY <1>1 DEF IInv, GrantsAreExclusive, BooksBalance, GrantsAreNotRegistered, Granted

\* portProducer takes a request: nothing is granted yet.
LEMMA TakeRequestIInv == IInv /\ TakeRequest => IInv'
<1> SUFFICES ASSUME IInv, TakeRequest
             PROVE  IInv'
    OBVIOUS
<1> USE DEF TakeRequest, registryVars, clientVars
<1>1. TypeOK'
    BY ChanCapAssumption DEF IInv, TypeOK
<1>2. Answered' = Answered
    BY DEF Answered
<1> QED BY <1>1, <1>2, SameGrants

\* portProducer finds a free port: nobody had it, since what is granted is
\* registered.
LEMMA ScanFreeIInv == IInv /\ ScanFree => IInv'
<1> SUFFICES ASSUME IInv, ScanFree
             PROVE  IInv'
    OBVIOUS
<1> USE DEF ScanFree, channelVars, clientVars
<1> DEFINE p == indexes[nextFreePortIndex]
<1>1. /\ p \in PortRange \cup {0} /\ p # NoPort
      /\ p \notin Answered \cup Sent \cup Held \cup Registered(Existing)
    BY DEF IInv, TypeOK, BooksBalance, PortRange, NoPort
<1>2. Answered = {} /\ Answered' = {p} /\ Sent' = Sent /\ Held' = Held
    BY <1>1 DEF Answered, Sent, Held
<1>3. TypeOK'
    <2>1. nextFreePortIndex' \in Slots
        BY AdvancedInSlots DEF IInv, TypeOK, Slots
    <2> QED BY <1>1, <2>1 DEF IInv, TypeOK
<1>4. GrantsAreExclusive'
    BY <1>1, <1>2 DEF IInv, GrantsAreExclusive
<1>5. BooksBalance'
    BY <1>2 DEF IInv, BooksBalance
<1>6. GrantsAreNotRegistered'
    BY <1>1, <1>2 DEF IInv, GrantsAreNotRegistered, Granted
<1> QED BY <1>3, <1>4, <1>5, <1>6 DEF IInv

\* portProducer finds a port taken: a refusal grants nothing.
LEMMA ScanTakenIInv == IInv /\ ScanTaken => IInv'
<1> SUFFICES ASSUME IInv, ScanTaken
             PROVE  IInv'
    OBVIOUS
<1> USE DEF ScanTaken, channelVars, clientVars
<1>1. TypeOK'
    <2>1. nextFreePortIndex' \in Slots
        BY AdvancedInSlots DEF IInv, TypeOK, Slots
    <2>2. producer' \in {"scan", "respond"} /\ answer' \in {answer, NoPort}
        OBVIOUS
    <2> QED BY <2>1, <2>2 DEF IInv, TypeOK
<1>2. Answered' = Answered
    BY DEF Answered
<1> QED BY <1>1, <1>2, SameGrants

\* portProducer answers: the port moves to the channel.
LEMMA RespondIInv == IInv /\ Respond => IInv'
<1> SUFFICES ASSUME IInv, Respond
             PROVE  IInv'
    OBVIOUS
<1> USE DEF Respond, registryVars, clientVars
<1>1. portResponses \in Seq(Answers) /\ answer \in Answers
    BY DEF IInv, TypeOK, Answers
<1>2. /\ portResponses' \in Seq(Answers)
      /\ InSeq(portResponses') = InSeq(portResponses) \cup {answer}
    BY <1>1, SendAddsAnswer
<1>3. /\ Answered = {answer} \ {NoPort} /\ Answered' = {}
      /\ Sent' = Sent \cup Answered /\ Held' = Held
    BY <1>2 DEF Answered, Sent, Held
<1>4. TypeOK'
    BY <1>2 DEF IInv, TypeOK, Answers
<1>5. GrantsAreExclusive'
    <2>1. answer \notin InSeq(portResponses) \ {NoPort}
        BY <1>3 DEF IInv, GrantsAreExclusive, Sent
    <2>2. Distinct(portResponses')
        BY <1>1, <2>1, ChannelIsDistinct, SendKeepsDistinct DEF IInv
    <2> QED BY <1>3, <2>2 DEF IInv, GrantsAreExclusive, Distinct
<1>6. BooksBalance'
    BY <1>3 DEF IInv, BooksBalance
<1>7. GrantsAreNotRegistered'
    BY <1>3 DEF IInv, GrantsAreNotRegistered, Granted
<1> QED BY <1>4, <1>5, <1>6, <1>7 DEF IInv

\* A client asks for a port: it has none yet.
LEMMA RequestPortIInv ==
    ASSUME NEW c \in Clients
    PROVE  IInv /\ RequestPort(c) => IInv'
<1> SUFFICES ASSUME IInv, RequestPort(c)
             PROVE  IInv'
    OBVIOUS
<1> USE DEF RequestPort, registryVars, producerVars
<1>1. TypeOK'
    BY ChanCapAssumption DEF IInv, TypeOK
<1>2. Answered' = Answered
    BY DEF Answered
<1> QED BY <1>1, <1>2, SameGrants

\* A client receives an answer: its port moves from the channel to it.
LEMMA ReceivePortIInv ==
    ASSUME NEW c \in Clients
    PROVE  IInv /\ ReceivePort(c) => IInv'
<1> SUFFICES ASSUME IInv, ReceivePort(c)
             PROVE  IInv'
    OBVIOUS
<1> USE DEF ReceivePort, registryVars, producerVars
<1> DEFINE p == Head(portResponses)
           got == {p} \ {NoPort}
<1>1. portResponses \in Seq(Answers) /\ Distinct(portResponses)
    BY ChannelIsDistinct DEF IInv, TypeOK, Answers
<1>2. /\ p \in Answers /\ p \in InSeq(portResponses)
      /\ portResponses' \in Seq(Answers)
      /\ Distinct(portResponses')
      /\ Sent' = Sent \ {p}
    BY <1>1, ReceiveTakesAnswer DEF Sent
<1>3. got \subseteq Sent /\ got \subseteq PortRange \cup {0} /\ Sent' = Sent \ got
    BY <1>2 DEF Sent, Answers
<1> HIDE DEF got
<1>4. /\ held' \in [Clients -> SUBSET (PortRange \cup {0})]
      /\ held'[c] = held[c] \cup got
      /\ \A d \in Clients : d # c => held'[d] = held[d]
    BY <1>3 DEF IInv, TypeOK, got
<1>5. Answered' = Answered /\ Held' = Held \cup got
    BY <1>4 DEF Answered, Held
<1>6. TypeOK'
    BY <1>2, <1>4 DEF IInv, TypeOK, Answers
<1>7. GrantsAreExclusive'
    <2>1. \A d \in Clients : held[d] \cap got = {}
        BY <1>3 DEF IInv, GrantsAreExclusive, Held
    <2>2. \A d, e \in Clients : d # e => held'[d] \cap held'[e] = {}
        BY <1>4, <2>1 DEF IInv, GrantsAreExclusive
    <2>3. Answered' \cap (Sent' \cup Held') = {} /\ Sent' \cap Held' = {}
        BY <1>3, <1>5 DEF IInv, GrantsAreExclusive
    <2> QED BY <1>2, <2>2, <2>3 DEF GrantsAreExclusive, Distinct
<1>8. Answered' \cup Sent' \cup Held' = Answered \cup Sent \cup Held
    BY <1>3, <1>5
<1>9. BooksBalance' /\ GrantsAreNotRegistered'
    BY <1>8 DEF IInv, BooksBalance, GrantsAreNotRegistered, Granted
<1> QED BY <1>6, <1>7, <1>9 DEF IInv

\* A client starts to give its ports back: it still has them all.
LEMMA BeginReleaseIInv ==
    ASSUME NEW c \in Clients
    PROVE  IInv /\ BeginRelease(c) => IInv'
<1> SUFFICES ASSUME IInv, BeginRelease(c)
             PROVE  IInv'
    OBVIOUS
<1> USE DEF BeginRelease, registryVars, producerVars, channelVars
<1>1. TypeOK'
    BY DEF IInv, TypeOK
<1>2. Answered' = Answered
    BY DEF Answered
<1> QED BY <1>1, <1>2, SameGrants

\* A port is given back: since nobody else had it, and no existing DGS, it
\* leaves the books everywhere.
LEMMA DeregisterServerPortsIInv ==
    ASSUME NEW c \in Clients
    PROVE  IInv /\ DeregisterServerPorts(c) => IInv'
<1> SUFFICES ASSUME IInv, DeregisterServerPorts(c)
             PROVE  IInv'
    OBVIOUS
<1> USE DEF DeregisterServerPorts, producerVars, channelVars
<1>1. PICK p \in held[c] : /\ ports' = ports \ {p}
                           /\ held' = [held EXCEPT ![c] = @ \ {p}]
    OBVIOUS
<1>2. /\ held' \in [Clients -> SUBSET (PortRange \cup {0})]
      /\ held'[c] = held[c] \ {p}
      /\ \A d \in Clients : d # c => held'[d] = held[d]
    BY <1>1 DEF IInv, TypeOK
<1>3. \A d \in Clients : d # c => p \notin held[d]
    BY DEF IInv, GrantsAreExclusive
<1>4. Answered' = Answered /\ Sent' = Sent /\ Held' = Held \ {p}
    BY <1>2, <1>3 DEF Answered, Sent, Held
<1>5. TypeOK'
    <2>1. releasing' \subseteq Clients
        BY DEF IInv, TypeOK
    <2> QED BY <1>1, <1>2, <2>1 DEF IInv, TypeOK
<1>6. GrantsAreExclusive'
    <2>1. \A d, e \in Clients : d # e => held'[d] \cap held'[e] = {}
        BY <1>2 DEF IInv, GrantsAreExclusive
    <2> QED BY <1>4, <2>1 DEF IInv, GrantsAreExclusive
<1>7. p \in Held /\ p \notin Answered /\ p \notin Sent /\ p \notin Registered(Existing)
    BY DEF IInv, GrantsAreExclusive, GrantsAreNotRegistered, Granted, Held
<1>8. BooksBalance'
    BY <1>1, <1>4, <1>7 DEF IInv, BooksBalance
<1>9. GrantsAreNotRegistered'
    BY <1>4 DEF IInv, GrantsAreNotRegistered, Granted
<1> QED BY <1>5, <1>6, <1>8, <1>9 DEF IInv

-----------------------------------------------------------------------------
(* Callers and answers.                                                    *)

\* Inductive next to IInv, whose types it needs.  That calling is finite holds
\* even when Clients is not.
CallsInv == IsFiniteSet(calling) /\ OneAnswerPerCall

\* At the start nobody calls and nothing is on its way.
LEMMA InitCallsInv == Init => CallsInv
BY FS_EmptySet DEF Init, NewPortRegistry, CallsInv, OneAnswerPerCall

\* portProducer turns a request into one answer, whatever it finds.
LEMMA PortProducerCallsInv == IInv /\ CallsInv /\ PortProducer => CallsInv'
<1> SUFFICES ASSUME IInv, CallsInv, PortProducer
             PROVE  CallsInv'
    OBVIOUS
<1> USE DEF CallsInv, OneAnswerPerCall, clientVars, channelVars, registryVars
<1>1. portRequests \in Nat /\ Len(portResponses) \in Nat
    BY ChanCapAssumption DEF IInv, TypeOK
<1>2. CASE TakeRequest
    BY <1>1, <1>2 DEF TakeRequest
<1>3. CASE ScanFree
    BY <1>3 DEF ScanFree
<1>4. CASE ScanTaken
    <2>1. producer = "scan" /\ producer' \in {"scan", "respond"}
        BY <1>4 DEF ScanTaken
    <2> QED BY <1>4, <2>1 DEF ScanTaken
<1>5. CASE Respond
    <2>1. Len(portResponses') = Len(portResponses) + 1
        BY <1>5 DEF Respond, IInv, TypeOK
    <2> QED BY <1>1, <1>5, <2>1 DEF Respond
<1> QED BY <1>2, <1>3, <1>4, <1>5 DEF PortProducer

\* A client enters GetNewPort with a request and leaves it with an answer.
LEMMA ClientCallsInv ==
    ASSUME NEW c \in Clients
    PROVE  IInv /\ CallsInv /\ Client(c) => CallsInv'
<1> SUFFICES ASSUME IInv, CallsInv, Client(c)
             PROVE  CallsInv'
    OBVIOUS
<1> USE DEF CallsInv, OneAnswerPerCall, producerVars, channelVars, registryVars
<1>1. portRequests \in Nat /\ Len(portResponses) \in Nat
    BY ChanCapAssumption DEF IInv, TypeOK
<1>2. CASE RequestPort(c)
    <2>1. c \notin calling /\ calling' = calling \cup {c}
        BY <1>2 DEF RequestPort
    <2>2. /\ IsFiniteSet(calling')
          /\ Cardinality(calling') = Cardinality(calling) + 1
        BY <2>1, FS_AddElement
    <2> QED BY <1>1, <1>2, <2>2 DEF RequestPort
<1>3. CASE ReceivePort(c)
    <2>1. c \in calling /\ calling' = calling \ {c}
        BY <1>3 DEF ReceivePort
    <2>2. /\ IsFiniteSet(calling')
          /\ Cardinality(calling') = Cardinality(calling) - 1
        BY <2>1, FS_RemoveElement
    <2>3. Len(portResponses') = Len(portResponses) - 1
        BY <1>3 DEF ReceivePort, IInv, TypeOK
    <2> QED BY <1>1, <1>3, <2>2, <2>3 DEF ReceivePort
<1>4. CASE BeginRelease(c) \/ DeregisterServerPorts(c)
    BY <1>4 DEF BeginRelease, DeregisterServerPorts
<1> QED BY <1>2, <1>3, <1>4 DEF Client

\* Every step keeps callers and answers in step.
LEMMA NextCallsInv == IInv /\ CallsInv /\ [Next]_vars => CallsInv'
<1>1. IInv /\ CallsInv /\ UNCHANGED vars => CallsInv'
    BY DEF CallsInv, OneAnswerPerCall, vars, producerVars, channelVars, clientVars
<1> QED BY <1>1, PortProducerCallsInv, ClientCallsInv DEF Next

-----------------------------------------------------------------------------
(* Refusals.                                                               *)

\* "No available ports" is only answered when every port was taken at the
\* moment the scan began, however many are freed behind it.
RefusedOnlyWhenFull ==
    producer = "respond" /\ answer = NoPort => PortRange \subseteq portsAtScan

\* Existing DGSs that would not overwrite each other's ports in the ring.
OneServerAtMost ==
    \A d, e \in DOMAIN Existing : Existing[d] # <<>> /\ Existing[e] # <<>> => d = e

\* Slots the scan has gone through.
Scanned ==
    IF initialIndex <= nextFreePortIndex
    THEN initialIndex..nextFreePortIndex - 1
    ELSE (initialIndex..N - 1) \cup (0..nextFreePortIndex - 1)

\* Inductive next to IInv: while it scans ports are only freed, so what the
\* scan has found taken was taken when it began.
ScanInv ==
    /\ InSeq(indexes) = PortRange
    /\ producer = "scan" =>
        /\ ports \subseteq portsAtScan
        /\ \A i \in Scanned : indexes[i] \in portsAtScan
    /\ producer = "respond" /\ answer = NoPort =>
        \A i \in Slots : indexes[i] \in portsAtScan

\* The ring is built from one DGS at most, whose ports are all different.
LEMMA InitScanInv == OneServerAtMost /\ Init => ScanInv
<1> SUFFICES ASSUME OneServerAtMost, Init
             PROVE  ScanInv
    OBVIOUS
<1> DEFINE n == Len(Existing)
<1>1. n \in Nat /\ Existing \in [1..n -> Seq(PortRange)] /\ DOMAIN Existing = 1..n
    BY ExistingAssumption DEF PortRange
<1>2. ASSUME NEW d \in 1..n
      PROVE  AreDistinct(Existing[d])
    <2> DEFINE s == Existing[d]
    <2>1. s \in Seq(PortRange) /\ Len(s) \in Nat /\ DOMAIN s = 1..Len(s)
        BY <1>1
    <2>2. CASE s = <<>>
        BY <2>2 DEF AreDistinct
    <2>3. CASE s # <<>>
        <3>1. \A e \in 1..n : e # d => Existing[e] = <<>>
            BY <1>1, <2>3 DEF OneServerAtMost
        <3>2. Cardinality(InSeq(s)) = Len(s)
            <4>1. Existing \in [1..n -> Seq(PortRange \cup {0})]
                <5>1. \A t \in Seq(PortRange) : t \in Seq(PortRange \cup {0})
                    OBVIOUS
                <5> QED BY <1>1, <5>1
            <4>2. Registered(Existing) = InSeq(s) /\ TotalLength(Existing) = Len(s)
                BY <1>1, <3>1, <4>1, LoneList
            <4> QED BY <4>2, NoPortTwice
        <3>3. s \in Surjection(1..Len(s), InSeq(s))
            BY <2>1 DEF Surjection, InSeq
        <3>4. IsFiniteSet(1..Len(s)) /\ Cardinality(1..Len(s)) = Len(s)
            <4>1. /\ 1 \in Int /\ Len(s) \in Int /\ Len(s) - 1 + 1 = Len(s)
                  /\ 1 > Len(s) => Len(s) = 0
                BY <2>1
            <4> QED BY <4>1, FS_Interval
        <3>5. s \in Injection(1..Len(s), InSeq(s))
            BY <3>2, <3>3, <3>4, FS_Surjection
        <3> QED BY <2>1, <3>5 DEF Injection, IsInjective, AreDistinct
    <2> QED BY <2>2, <2>3
<1>3. InSeq(indexes) = PortRange
    BY <1>1, <1>2, LoneListFillsRing DEF OneServerAtMost, Init, NewPortRegistry
<1> QED BY <1>3 DEF ScanInv, Init, NewPortRegistry

\* Going on from a slot adds it to those that are scanned, and coming back to
\* the first one completes them.
LEMMA ScanGoesOn ==
    ASSUME TypeOK, producer = "scan", nextFreePortIndex' = Advanced(nextFreePortIndex, 1),
           initialIndex' = initialIndex
    PROVE  IF nextFreePortIndex' = initialIndex
           THEN Slots \subseteq Scanned \cup {nextFreePortIndex}
           ELSE Scanned' \subseteq Scanned \cup {nextFreePortIndex}
<1> DEFINE i == nextFreePortIndex
           first == initialIndex
<1>1. i \in 0..N - 1 /\ first \in 0..N - 1 /\ N \in Nat \ {0} /\ Slots = 0..N - 1
    BY RingIsNotEmpty DEF TypeOK, Slots
<1>2. i' = IF i + 1 < N THEN i + 1 ELSE 0
    BY NextSlot DEF TypeOK
<1> QED BY <1>1, <1>2 DEF Scanned

\* portProducer either finds a free port or, having gone through the whole
\* ring, refuses.
LEMMA PortProducerScanInv == IInv /\ ScanInv /\ PortProducer => ScanInv'
<1> SUFFICES ASSUME IInv, ScanInv, PortProducer
             PROVE  ScanInv'
    OBVIOUS
<1>1. CASE TakeRequest
    <2>1. /\ initialIndex' = nextFreePortIndex /\ nextFreePortIndex' = nextFreePortIndex
          /\ nextFreePortIndex \in Slots
        BY <1>1 DEF TakeRequest, registryVars, IInv, TypeOK
    <2>2. Scanned' = {}
        BY <2>1, RingIsNotEmpty DEF Scanned, Slots
    <2> QED BY <1>1, <2>2 DEF TakeRequest, registryVars, ScanInv
<1>2. CASE ScanFree
    <2>1. answer' # NoPort
        BY <1>2 DEF ScanFree, IInv, TypeOK, PortRange, NoPort
    <2> QED BY <1>2, <2>1 DEF ScanFree, ScanInv
<1>3. CASE ScanTaken
    <2>1. /\ producer = "scan" /\ nextFreePortIndex' = Advanced(nextFreePortIndex, 1)
          /\ UNCHANGED <<ports, indexes, initialIndex, portsAtScan>>
          /\ indexes[nextFreePortIndex] \in portsAtScan
        BY <1>3 DEF ScanTaken, ScanInv
    <2>2. \A i \in Scanned \cup {nextFreePortIndex} : indexes[i] \in portsAtScan
        BY <2>1 DEF ScanInv
    <2>3. CASE nextFreePortIndex' = initialIndex
        <3>1. Slots \subseteq Scanned \cup {nextFreePortIndex} /\ producer' = "respond"
            BY <1>3, <2>1, <2>3, ScanGoesOn DEF IInv, ScanTaken
        <3> QED BY <2>1, <2>2, <3>1 DEF ScanInv
    <2>4. CASE nextFreePortIndex' # initialIndex
        <3>1. Scanned' \subseteq Scanned \cup {nextFreePortIndex} /\ producer' = "scan"
            BY <1>3, <2>1, <2>4, ScanGoesOn DEF IInv, ScanTaken
        <3> QED BY <2>1, <2>2, <3>1 DEF ScanInv
    <2> QED BY <2>3, <2>4
<1>4. CASE Respond
    BY <1>4 DEF Respond, registryVars, ScanInv
<1> QED BY <1>1, <1>2, <1>3, <1>4 DEF PortProducer

\* Clients do not touch the ring, and only free ports.
LEMMA NextScanInv == IInv /\ ScanInv /\ [Next]_vars => ScanInv'
<1>1. ASSUME ScanInv, ports' \subseteq ports,
             UNCHANGED <<indexes, nextFreePortIndex, producerVars>>
      PROVE  ScanInv'
    BY <1>1 DEF ScanInv, Scanned, producerVars
<1>2. ASSUME ScanInv, NEW c \in Clients, Client(c)
      PROVE  ScanInv'
    BY <1>1, <1>2 DEF Client, RequestPort, ReceivePort, BeginRelease, DeregisterServerPorts,
                      registryVars
<1>3. ASSUME ScanInv, UNCHANGED vars
      PROVE  ScanInv'
    BY <1>1, <1>3 DEF vars, registryVars
<1> QED BY <1>2, <1>3, PortProducerScanInv DEF Next

-----------------------------------------------------------------------------
(* The theorems.                                                           *)

\* Every step of the registry and its clients preserves the invariant.
LEMMA NextIInv == IInv /\ [Next]_vars => IInv'
<1> SUFFICES ASSUME IInv, [Next]_vars
             PROVE  IInv'
    OBVIOUS
<1>1. CASE PortProducer
    BY <1>1, TakeRequestIInv, ScanFreeIInv, ScanTakenIInv, RespondIInv DEF PortProducer
<1>2. CASE \E c \in Clients : Client(c)
    BY <1>2, RequestPortIInv, ReceivePortIInv, BeginReleaseIInv,
       DeregisterServerPortsIInv DEF Client
<1>3. CASE UNCHANGED vars
    <2> USE <1>3 DEF vars, registryVars, producerVars, channelVars, clientVars
    <2>1. TypeOK'
        BY DEF IInv, TypeOK
    <2>2. Answered' = Answered
        BY DEF Answered
    <2> QED BY <2>1, <2>2, SameGrants
<1> QED BY <1>1, <1>2, <1>3 DEF Next

\* The inductive invariant holds of every behaviour of the registry.
THEOREM SpecIInv == Spec => []IInv
<1>1. Init => IInv
    BY InitIInv
<1>2. IInv /\ [Next]_vars => IInv'
    BY NextIInv
<1> QED BY <1>1, <1>2, PTL DEF Spec

\* portregistry.go keeps its variables in their types: the index stays on the
\* ring and every answer is a port, zero or the error.
THEOREM TypeCorrect == Spec => []TypeOK
<1>1. IInv => TypeOK
    BY DEF IInv
<1> QED BY <1>1, SpecIInv, PTL

\* GetNewPort never hands a port to two callers, however their calls and
\* DeregisterServerPorts interleave with portProducer's scan.
THEOREM ExclusiveGrants == Spec => []GrantsAreExclusive
<1>1. IInv => GrantsAreExclusive
    BY DEF IInv
<1> QED BY <1>1, SpecIInv, PTL

\* Ports never loses a port nor forgets one: it is registered exactly when
\* someone has it or is being sent it.
THEOREM BalancedBooks == Spec => []BooksBalance
<1>1. IInv => BooksBalance
    BY DEF IInv
<1> QED BY <1>1, SpecIInv, PTL

\* GetNewPort's callers and portProducer's answers are never out of step, so
\* every caller is owed exactly one answer.
THEOREM CallsMatchAnswers == Spec => []OneAnswerPerCall
<1>1. Init => CallsInv
    BY InitCallsInv
<1>2. IInv /\ CallsInv /\ [Next]_vars => CallsInv'
    BY NextCallsInv
<1>3. CallsInv => OneAnswerPerCall
    BY DEF CallsInv
<1> QED BY <1>1, <1>2, <1>3, SpecIInv, PTL DEF Spec

\* "No available ports" is only answered when every port of the range was
\* taken when the scan began.  This needs a ring that holds every port: with
\* two DGSs at the start assignRegisteredPorts overwrites some.
THEOREM RefusalsAreTrue == OneServerAtMost => (Spec => []RefusedOnlyWhenFull)
<1> SUFFICES ASSUME OneServerAtMost
             PROVE  Spec => []RefusedOnlyWhenFull
    OBVIOUS
<1>1. Init => ScanInv
    BY InitScanInv
<1>2. IInv /\ ScanInv /\ [Next]_vars => ScanInv'
    BY NextScanInv
<1>3. IInv /\ ScanInv => RefusedOnlyWhenFull
    <2>1. ASSUME IInv, ScanInv, producer = "respond", answer = NoPort, NEW p \in PortRange
          PROVE  p \in portsAtScan
        <3>1. DOMAIN indexes = Slots /\ p \in InSeq(indexes)
            BY <2>1 DEF IInv, TypeOK, ScanInv
        <3> QED BY <2>1, <3>1 DEF ScanInv, InSeq
    <2> QED BY <2>1 DEF RefusedOnlyWhenFull
<1> QED BY <1>1, <1>2, <1>3, SpecIInv, PTL DEF Spec

-----------------------------------------------------------------------------
(* A scan in one step.                                                     *)
(*                                                                         *)
(* peekNextPort of portregistry_test.go foretells the answer of GetNewPort *)
(* from the registry as it is before the call.  The answer is that one if  *)
(* nothing is freed behind the scan, and while it scans nothing else       *)
(* happens to Ports: what is marked at its end is what was marked at its   *)
(* beginning exactly if nothing has been freed.                            *)

\* Slots of the ring, counted from where the scan began, that were free then.
FreeStepsAtScan ==
    {k \in 0..N - 1 : indexes[Advanced(initialIndex, k)] \notin portsAtScan}

\* Inductive next to IInv: the slots that the scan has passed were taken.
PassedInv ==
    producer = "scan" =>
        /\ ports \subseteq portsAtScan
        /\ \E k \in 0..N - 1 :
            /\ nextFreePortIndex = Advanced(initialIndex, k)
            /\ \A j \in FreeStepsAtScan : k <= j

\* A scan goes k slots from where it began; N slots are the whole ring.
LEMMA SlotsFromStart ==
    ASSUME NEW i \in Slots, NEW k \in 0..N - 1
    PROVE  /\ Advanced(Advanced(i, k), 1) = Advanced(i, k + 1)
           /\ Advanced(i, k + 1) = i <=> k + 1 = N
           /\ Advanced(i, 0) = i
<1>1. N \in Nat \ {0} /\ i \in 0..N - 1
    BY RingIsNotEmpty DEF Slots
<1>2. \A b \in Nat \ {0} : \A a \in 0..b - 1 : a % b = a
    OBVIOUS
<1>3. \A b \in Nat \ {0} : \A a \in 0..b - 1 : (a + b) % b = a
    OBVIOUS
<1>4. ASSUME NEW n \in 0..N
      PROVE  Advanced(i, n) = IF i + n < N THEN i + n ELSE i + n - N
  <2>1. CASE i + n < N
    <3>1. i + n \in 0..N - 1
        BY <1>1, <2>1
    <3> QED BY <1>1, <1>2, <2>1, <3>1 DEF Advanced
  <2>2. CASE ~ (i + n < N)
    <3>1. i + n - N \in 0..N - 1 /\ (i + n - N) + N = i + n
        BY <1>1, <2>2
    <3>2. (i + n) % N = i + n - N
        BY <1>1, <1>3, <3>1
    <3> QED BY <2>2, <3>2 DEF Advanced
  <2> QED BY <2>1, <2>2
<1>5. k \in 0..N /\ k + 1 \in 0..N /\ 0 \in 0..N
    BY <1>1
<1>6. Advanced(i, k) \in Slots
    BY <1>1, <1>4, <1>5 DEF Slots
<1>7. Advanced(Advanced(i, k), 1) = IF Advanced(i, k) + 1 < N THEN Advanced(i, k) + 1 ELSE 0
    BY <1>6, NextSlot
<1> QED BY <1>1, <1>4, <1>5, <1>7

\* Where the scan is, and that what it finds taken there was taken.
LEMMA ScanPasses ==
    ASSUME IInv, PassedInv, producer = "scan"
    PROVE  \E k \in 0..N - 1 :
             /\ nextFreePortIndex = Advanced(initialIndex, k)
             /\ Advanced(nextFreePortIndex, 1) = Advanced(initialIndex, k + 1)
             /\ Advanced(nextFreePortIndex, 1) = initialIndex <=> k + 1 = N
             /\ \A j \in FreeStepsAtScan : k <= j
             /\ indexes[nextFreePortIndex] \in ports => \A j \in FreeStepsAtScan : k + 1 <= j
<1>1. PICK k \in 0..N - 1 : /\ nextFreePortIndex = Advanced(initialIndex, k)
                            /\ \A j \in FreeStepsAtScan : k <= j
    BY DEF PassedInv
<1>2. initialIndex \in Slots
    BY DEF IInv, TypeOK
<1>3. /\ Advanced(nextFreePortIndex, 1) = Advanced(initialIndex, k + 1)
      /\ Advanced(nextFreePortIndex, 1) = initialIndex <=> k + 1 = N
    BY <1>1, <1>2, SlotsFromStart
<1>4. ASSUME indexes[nextFreePortIndex] \in ports, NEW j \in FreeStepsAtScan
      PROVE  k + 1 <= j
  <2>1. indexes[Advanced(initialIndex, k)] \in portsAtScan
      BY <1>1, <1>4 DEF PassedInv
  <2>2. j # k /\ j \in 0..N - 1
      BY <2>1 DEF FreeStepsAtScan
  <2>3. k <= j /\ N \in Nat
      BY <1>1, RingIsNotEmpty
  <2> QED BY <2>2, <2>3
<1> QED BY <1>1, <1>3, <1>4

LEMMA PortProducerPassedInv == IInv /\ PassedInv /\ PortProducer => PassedInv'
<1> SUFFICES ASSUME IInv, PassedInv, PortProducer
             PROVE  PassedInv'
    OBVIOUS
<1>1. CASE TakeRequest
  <2>1. /\ initialIndex' = nextFreePortIndex /\ nextFreePortIndex' = nextFreePortIndex
        /\ nextFreePortIndex \in Slots /\ ports' = ports /\ portsAtScan' = ports
      BY <1>1 DEF TakeRequest, registryVars, IInv, TypeOK
  <2>2. 0 \in 0..N - 1 /\ nextFreePortIndex' = Advanced(initialIndex', 0)
      BY <2>1, RingIsNotEmpty, SlotsFromStart
  <2>3. \A j \in FreeStepsAtScan' : 0 <= j
      BY RingIsNotEmpty DEF FreeStepsAtScan
  <2> QED BY <2>1, <2>2, <2>3 DEF PassedInv
<1>2. CASE ScanFree \/ Respond
    BY <1>2 DEF ScanFree, Respond, PassedInv
<1>3. CASE ScanTaken
  <2> SUFFICES ASSUME producer' = "scan" PROVE PassedInv'
      BY DEF PassedInv
  <2>1. /\ producer = "scan" /\ nextFreePortIndex' = Advanced(nextFreePortIndex, 1)
        /\ indexes[nextFreePortIndex] \in ports /\ nextFreePortIndex' # initialIndex
        /\ UNCHANGED <<ports, indexes, initialIndex, portsAtScan>>
      BY <1>3 DEF ScanTaken
  <2>2. PICK k \in 0..N - 1 : /\ nextFreePortIndex' = Advanced(initialIndex, k + 1)
                              /\ k + 1 # N
                              /\ \A j \in FreeStepsAtScan : k + 1 <= j
      BY <2>1, ScanPasses
  <2>3. k + 1 \in 0..N - 1
      BY <2>2, RingIsNotEmpty
  <2>4. FreeStepsAtScan' = FreeStepsAtScan
      BY <2>1 DEF FreeStepsAtScan
  <2> QED BY <2>1, <2>2, <2>3, <2>4 DEF PassedInv
<1> QED BY <1>1, <1>2, <1>3 DEF PortProducer

\* Clients do not touch the ring, and only free ports.
LEMMA NextPassedInv == IInv /\ PassedInv /\ [Next]_vars => PassedInv'
<1>1. ASSUME PassedInv, ports' \subseteq ports,
             UNCHANGED <<indexes, nextFreePortIndex, producerVars>>
      PROVE  PassedInv'
    BY <1>1 DEF PassedInv, FreeStepsAtScan, producerVars
<1>2. ASSUME PassedInv, NEW c \in Clients, Client(c)
      PROVE  PassedInv'
    BY <1>1, <1>2 DEF Client, RequestPort, ReceivePort, BeginRelease, DeregisterServerPorts,
                      registryVars
<1>3. ASSUME PassedInv, UNCHANGED vars
      PROVE  PassedInv'
    BY <1>1, <1>3 DEF vars, registryVars
<1> QED BY <1>2, <1>3, PortProducerPassedInv DEF Next

\* The answer that peekNextPort gives in the state in which the scan has begun: the first port of the ring that was free is
\* marked, and nextFreePortIndex follows it; or none was.
AnswersAtOnce ==
    \/ \E k \in FreeStepsAtScan :
        /\ \A j \in FreeStepsAtScan : k <= j
        /\ answer' = indexes[Advanced(initialIndex, k)]
        /\ ports' = portsAtScan \cup {answer'}
        /\ nextFreePortIndex' = Advanced(initialIndex, k + 1)
    \/ /\ FreeStepsAtScan = {}
       /\ answer' = NoPort
       /\ ports' = portsAtScan
       /\ nextFreePortIndex' = initialIndex

\* If no port was freed since the scan began, the step that ends it answers as
\* the single step would have.
EndsAsOneStep ==
    producer = "scan" /\ producer' = "respond" /\ ports = portsAtScan => AnswersAtOnce

\* portProducer's scan, however its steps interleave with those of the callers,
\* ends with the port that peekNextPort finds at its beginning, unless
\* DeregisterServerPorts has freed a port meanwhile.  The test relies on it
\* for a single caller.
THEOREM ScanIsOneStep == Spec => [][EndsAsOneStep]_vars
<1>1. Init => PassedInv
    BY DEF Init, NewPortRegistry, PassedInv
<1>2. IInv /\ PassedInv /\ [Next]_vars => PassedInv'
    BY NextPassedInv
<1>3. IInv /\ PassedInv /\ [Next]_vars => EndsAsOneStep
  <2> SUFFICES ASSUME IInv, PassedInv, [Next]_vars, producer = "scan", producer' = "respond",
                      ports = portsAtScan
               PROVE  AnswersAtOnce
      BY DEF EndsAsOneStep
  <2>1. PICK k \in 0..N - 1 :
          /\ nextFreePortIndex = Advanced(initialIndex, k)
          /\ Advanced(nextFreePortIndex, 1) = Advanced(initialIndex, k + 1)
          /\ Advanced(nextFreePortIndex, 1) = initialIndex <=> k + 1 = N
          /\ \A j \in FreeStepsAtScan : k <= j
          /\ indexes[nextFreePortIndex] \in ports => \A j \in FreeStepsAtScan : k + 1 <= j
      BY ScanPasses
  <2>2. CASE ScanFree
    <3>1. k \in FreeStepsAtScan
        BY <2>1, <2>2 DEF ScanFree, FreeStepsAtScan
    <3> QED BY <2>1, <2>2, <3>1 DEF ScanFree, AnswersAtOnce
  <2>3. CASE ScanTaken
    <3>1. /\ nextFreePortIndex' = Advanced(nextFreePortIndex, 1)
          /\ nextFreePortIndex' = initialIndex /\ answer' = NoPort /\ ports' = ports
          /\ indexes[nextFreePortIndex] \in ports
        BY <2>3 DEF ScanTaken
    <3>2. FreeStepsAtScan = {}
      <4>1. k + 1 = N /\ \A j \in FreeStepsAtScan : k + 1 <= j
          BY <2>1, <3>1
      <4>2. \A j \in FreeStepsAtScan : j <= N - 1 /\ j \in Int
          BY DEF FreeStepsAtScan
      <4> QED BY <4>1, <4>2, RingIsNotEmpty
    <3> QED BY <3>1, <3>2 DEF AnswersAtOnce
  <2>4. ScanFree \/ ScanTaken
      BY DEF Next, PortProducer, TakeRequest, Respond, Client, RequestPort, ReceivePort,
             BeginRelease, DeregisterServerPorts, producerVars, vars
  <2> QED BY <2>2, <2>3, <2>4
<1> QED BY <1>1, <1>2, <1>3, SpecIInv, PTL DEF Spec

-----------------------------------------------------------------------------
(* The registry implements the pool.                                       *)

LEMMA InitRefines == Init => Pool!Init
<1> SUFFICES ASSUME Init PROVE Pool!Init
    OBVIOUS
<1>1. ports \subseteq PortRange
    BY RegisteredInRange DEF Init, NewPortRegistry
<1>2. Promised = <<>>
    BY DEF Init, NewPortRegistry, Promised
<1> QED BY <1>1, <1>2 DEF Init, NewPortRegistry, Pool!Init

\* What is promised: an answer about to be sent is promised already.
LEMMA PromisedIs ==
    ASSUME IInv
    PROVE  /\ Promised \in Seq(Answers)
           /\ Promised = IF producer = "respond" THEN Append(portResponses, answer) ELSE portResponses
<1>1. portResponses \in Seq(Answers) /\ answer \in Answers
    BY DEF IInv, TypeOK, Answers
<1>2. portResponses \o <<>> = portResponses /\ portResponses \o <<answer>> = Append(portResponses, answer)
    BY <1>1
<1> QED BY <1>1, <1>2 DEF Promised

LEMMA PortProducerRefines ==
    ASSUME IInv, ScanInv, IInv', ScanInv', PortProducer
    PROVE  Pool!Next \/ UNCHANGED Pool!vars
<1> USE DEF clientVars, channelVars, registryVars
<1>1. CASE TakeRequest
  <2>1. portRequests \in Nat
      BY <1>1 DEF IInv, TypeOK
  <2>2. Promised' = Promised
      BY <1>1 DEF TakeRequest, Promised
  <2>3. Pool!Look
      BY <1>1, <2>1, <2>2 DEF TakeRequest, Pool!Look
  <2> QED BY <2>3, Zenon DEF Pool!Next
<1>2. CASE ScanFree
  <2> DEFINE p == indexes[nextFreePortIndex]
  <2>1. p \in PortRange
      BY <1>2 DEF ScanInv, IInv, TypeOK, InSeq
  <2>2. portRequests \in Nat
      BY DEF IInv, TypeOK
  <2>3. Promised' = Append(Promised, p)
    <3>1. Promised' = Append(portResponses, p) /\ Promised = portResponses
        BY <1>2, PromisedIs DEF ScanFree, Promised, IInv, TypeOK
    <3> QED BY <3>1
  <2>4. Pool!Grant(p)
      BY <1>2, <2>2, <2>3 DEF ScanFree, Pool!Grant, Pool!Answer
  <2> QED BY <2>1, <2>4, Zenon DEF Pool!Next
<1>3. CASE ScanTaken /\ producer' = "scan"
  <2>1. Promised' = Promised
      BY <1>3 DEF ScanTaken, Promised
  <2> QED BY <1>3, <2>1 DEF ScanTaken, Pool!vars
<1>4. CASE ScanTaken /\ producer' # "scan"
  <2>1. producer = "scan" /\ producer' = "respond" /\ answer' = NoPort
      BY <1>4 DEF ScanTaken
  <2>2. PortRange \subseteq portsAtScan
    <3>1. indexes' = indexes /\ portsAtScan' = portsAtScan /\ DOMAIN indexes = Slots
        BY <1>4 DEF ScanTaken, IInv, TypeOK
    <3>2. \A i \in Slots : indexes[i] \in portsAtScan
        BY <2>1, <3>1 DEF ScanInv
    <3> QED BY <3>1, <3>2 DEF ScanInv, InSeq
  <2>3. portRequests \in Nat
      BY DEF IInv, TypeOK
  <2>4. Promised' = Append(Promised, NoPort)
      BY <1>4, <2>1, PromisedIs DEF ScanTaken, Promised, IInv, TypeOK
  <2>5. Pool!Refuse
      BY <1>4, <2>1, <2>2, <2>3, <2>4 DEF ScanTaken, Pool!Refuse, Pool!Answer
  <2> QED BY <2>5, Zenon DEF Pool!Next
<1>5. CASE Respond
  <2>1. portResponses' \in Seq(Answers) /\ producer' = "idle"
      BY <1>5 DEF Respond, IInv, TypeOK, Answers
  <2>2. Promised' = portResponses' /\ Promised = portResponses'
      BY <1>5, <2>1, PromisedIs DEF Respond, Promised
  <2> QED BY <1>5, <2>2 DEF Respond, Pool!vars
<1> QED BY <1>1, <1>2, <1>3, <1>4, <1>5 DEF PortProducer

LEMMA ClientRefines ==
    ASSUME IInv, NEW c \in Clients, Client(c)
    PROVE  Pool!Next \/ UNCHANGED Pool!vars
<1> USE DEF producerVars, channelVars, registryVars
<1>1. CASE RequestPort(c)
  <2>1. Promised' = Promised
      BY <1>1 DEF RequestPort, Promised
  <2>2. portRequests \in Nat
      BY DEF IInv, TypeOK
  <2>3. Pool!Call(c)
      BY <1>1, <2>1, <2>2 DEF RequestPort, Pool!Call
  <2> QED BY <2>3, Zenon DEF Pool!Next
<1>2. CASE ReceivePort(c)
  <2>1. portResponses \in Seq(Answers) /\ portResponses # <<>> /\ answer \in Answers
      BY <1>2 DEF ReceivePort, IInv, TypeOK, Answers
  <2>2. /\ Promised # <<>> /\ Head(Promised) = Head(portResponses)
        /\ Promised' = Tail(Promised)
    <3> DEFINE rest == IF producer = "respond" THEN <<answer>> ELSE <<>>
    <3>1. rest \in Seq(Answers)
        BY <2>1
    <3>2. Promised = portResponses \o rest /\ Promised' = Tail(portResponses) \o rest
        BY <1>2 DEF ReceivePort, Promised
    <3> HIDE DEF rest
    <3>3. /\ portResponses \o rest # <<>>
          /\ Head(portResponses \o rest) = Head(portResponses)
          /\ Tail(portResponses \o rest) = Tail(portResponses) \o rest
        BY <2>1, <3>1
    <3> QED BY <3>2, <3>3
  <2>3. Pool!Receive(c)
      BY <1>2, <2>2 DEF ReceivePort, Pool!Receive
  <2> QED BY <2>3, Zenon DEF Pool!Next
<1>3. CASE BeginRelease(c)
  <2>1. Promised' = Promised
      BY <1>3 DEF BeginRelease, Promised
  <2> QED BY <1>3, <2>1 DEF BeginRelease, Pool!vars
<1>4. CASE DeregisterServerPorts(c)
  <2>1. Promised' = Promised
      BY <1>4 DEF DeregisterServerPorts, Promised
  <2>2. PICK p \in held[c] : /\ ports' = ports \ {p}
                             /\ held' = [held EXCEPT ![c] = @ \ {p}]
      BY <1>4 DEF DeregisterServerPorts
  <2>3. Pool!GiveBack(c, p)
      BY <1>4, <2>1, <2>2 DEF DeregisterServerPorts, Pool!GiveBack
  <2> QED BY <2>3, Zenon DEF Pool!Next
<1> QED BY <1>1, <1>2, <1>3, <1>4 DEF Client

LEMMA NextRefines ==
    ASSUME IInv, ScanInv, IInv', ScanInv', [Next]_vars
    PROVE  [Pool!Next]_Pool!vars
<1>1. CASE PortProducer
    BY <1>1, PortProducerRefines
<1>2. CASE \E c \in Clients : Client(c)
    BY <1>2, ClientRefines
<1>3. CASE UNCHANGED vars
  <2>1. Promised' = Promised
      BY <1>3 DEF vars, producerVars, channelVars, Promised
  <2> QED BY <1>3, <2>1 DEF vars, registryVars, producerVars, channelVars, clientVars, Pool!vars
<1> QED BY <1>1, <1>2, <1>3 DEF Next

\* portregistry.go with its goroutine, its channels and its ring implements the
\* pool that its callers rely on: one answer for each call, free ports only,
\* and no refusal unless a look at the pool found every port taken.  As in
\* RefusalsAreTrue the registry was started with at most one DGS that has
\* ports.
THEOREM PoolIsImplemented == OneServerAtMost => (Spec => ImplementsPool)
<1> SUFFICES ASSUME OneServerAtMost
             PROVE  Spec => ImplementsPool
    OBVIOUS
<1>1. Init => ScanInv /\ Pool!Init
    BY InitScanInv, InitRefines
<1>2. IInv /\ ScanInv /\ [Next]_vars => ScanInv'
    BY NextScanInv
<1>3. IInv /\ ScanInv /\ IInv' /\ ScanInv' /\ [Next]_vars => [Pool!Next]_Pool!vars
    BY NextRefines
<1> QED BY <1>1, <1>2, <1>3, SpecIInv, PTL DEF Spec, ImplementsPool, Pool!Spec
=============================================================================
