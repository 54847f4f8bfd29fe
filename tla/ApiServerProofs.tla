--------------------------- MODULE ApiServerProofs ---------------------------
(***************************************************************************)
(* Proofs about ApiServer: its types, that everything stored has been      *)
(* admitted, that a shutdown loses nothing, and that the handlers          *)
(* implement StatusBoard, for any clients, DGSs, calls, templates, number  *)
(* of attempts and number of faults.                                       *)
(***************************************************************************)
EXTENDS ApiServer, TLAPS

\* The copy that a handler is about to write back differs from the DGS in
\* nothing, unless Kubernetes will answer that there is a conflict.
FreshIsCurrent ==
    \A c \in fresh : pc[c] = "update" =>
        /\ dgss[call[c].name] # None
        /\ seen[c] = dgss[call[c].name].status

IInv == TypeOK /\ FreshIsCurrent

-----------------------------------------------------------------------------
(* The data.                                                               *)

\* A call has what its handler looks at.
LEMMA CallsAreTyped ==
    ASSUME NEW k \in Calls
    PROVE  /\ k.kind \in {"set", "create", "delete", "running", "healthz"}
           /\ k.kind = "set" => k.name \in Names /\ k.field \in Fields /\ k.value \in Values
           /\ k.kind = "create" => k.name \in Collections /\ k.template \in PodSpecs
           /\ k.kind = "delete" => k.name \in Collections
BY CallsAssumption, TemplatesAssumption

\* The patch changes nothing but the affinity.
LEMMA PatchedTemplates ==
    ASSUME NEW t \in PodSpecs
    PROVE  /\ Mutated(t) \in PodSpecs
           /\ Mutated(t).containers = t.containers
           /\ Mutated(t).affinity = "together"
BY DEF Mutated, PodSpecs

\* One field of a status can be changed to any value.
LEMMA StatusWithChange ==
    ASSUME NEW s \in Statuses, NEW f \in Fields, NEW v \in Values
    PROVE  [s EXCEPT ![f] = v] \in Statuses
BY DEF Statuses

-----------------------------------------------------------------------------
(* The invariant.                                                          *)

LEMMA InitHasIInv == Init => IInv
<1> SUFFICES ASSUME Init PROVE IInv
    OBVIOUS
<1>1. ASSUME NEW c \in Clients PROVE IsSound(c)
  <2>1. pc[c] = "idle" /\ call[c] = None /\ attempts[c] = 0 /\ seen[c] = None /\ code[c] = 0
      BY DEF Init
  <2> QED BY <2>1 DEF IsSound
<1>2. HandlersAreTyped
    BY <1>1, StepsAssumption DEF Init, HandlersAreTyped, PCs
<1>3. TypeOK
  <2>1. webhook \in BOOLEAN /\ accesscode \in BOOLEAN
      BY Zenon DEF Init
  <2>2. dgss \in [Names -> Objects \cup {None}] /\ cols \in [Collections -> PodSpecs \cup {None}]
      BY Zenon DEF Init
  <2>3. fresh \subseteq Clients /\ stage = "down" /\ faultsLeft = MaxFaults
      BY Zenon DEF Init
  <2> QED BY <1>2, <2>1, <2>2, <2>3, StepsAssumption DEF TypeOK
<1>4. FreshIsCurrent
    BY DEF Init, FreshIsCurrent
<1> QED BY <1>3, <1>4 DEF IInv

\* Only the handler of c moves.
OnlyMoves(c) ==
    /\ pc' = [pc EXCEPT ![c] = pc'[c]] /\ pc'[c] \in PCs
    /\ call' = [call EXCEPT ![c] = call'[c]] /\ call'[c] \in Calls \cup {None}
    /\ attempts' = [attempts EXCEPT ![c] = attempts'[c]] /\ attempts'[c] \in 0..Steps
    /\ seen' = [seen EXCEPT ![c] = seen'[c]] /\ seen'[c] \in Statuses \cup {None}
    /\ code' = [code EXCEPT ![c] = code'[c]] /\ code'[c] \in {0, 200, 400, 401, 500}
    /\ listed' = [listed EXCEPT ![c] = listed'[c]] /\ listed'[c] \in SUBSET Names

LEMMA OneHandlerMoves ==
    ASSUME HandlersAreTyped, NEW c \in Clients, OnlyMoves(c), IsSound(c)'
    PROVE  HandlersAreTyped'
<1>1. ASSUME NEW d \in Clients, d # c PROVE IsSound(d)'
  <2>1. /\ pc'[d] = pc[d] /\ call'[d] = call[d] /\ attempts'[d] = attempts[d]
        /\ seen'[d] = seen[d] /\ code'[d] = code[d]
      BY <1>1 DEF HandlersAreTyped, OnlyMoves
  <2>2. IsSound(d)
      BY DEF HandlersAreTyped
  <2> QED BY <2>1, <2>2 DEF IsSound
<1>2. \A d \in Clients : IsSound(d)'
    BY <1>1
<1> QED BY <1>2 DEF HandlersAreTyped, OnlyMoves

LEMMA HandlerIsTyped ==
    ASSUME HandlersAreTyped, NEW c \in Clients
    PROVE  /\ pc[c] \in PCs /\ call[c] \in Calls \cup {None} /\ attempts[c] \in 0..Steps
           /\ seen[c] \in Statuses \cup {None} /\ code[c] \in {0, 200, 400, 401, 500}
           /\ listed[c] \in SUBSET Names
           /\ IsSound(c)
BY DEF HandlersAreTyped

LEMMA AskKeepsIInv ==
    ASSUME IInv, NEW c \in Clients, NEW k \in Calls, Ask(c, k) PROVE IInv'
<1> USE DEF Ask, Goto, IInv, storeVars, processVars, retryVars
<1>1. HandlersAreTyped /\ k # None
    BY NoneAssumption DEF TypeOK
<1>2. FirstStep(k) \in {"reply", "list", "auth"}
      /\ (FirstStep(k) = "list" => k.kind = "running")
      /\ (FirstStep(k) = "reply" <=> k.kind = "healthz")
    BY CallsAreTyped DEF FirstStep
<1>3. OnlyMoves(c)
    BY <1>1, <1>2, HandlerIsTyped DEF OnlyMoves, HandlersAreTyped, PCs
<1>4. IsSound(c)'
    BY <1>1, <1>2, HandlerIsTyped DEF IsSound, HandlersAreTyped
<1>5. HandlersAreTyped'
    BY <1>1, <1>3, <1>4, OneHandlerMoves
<1>6. TypeOK'
    BY <1>5 DEF TypeOK
<1>7. FreshIsCurrent'
    BY <1>1, <1>2 DEF FreshIsCurrent, HandlersAreTyped, TypeOK
<1> QED BY <1>6, <1>7

LEMMA ForgetKeepsIInv ==
    ASSUME IInv, NEW cs \in SUBSET Clients, Forget(cs),
           stage' \in {"down", "serving", "draining", "closing"},
           webhook' \in BOOLEAN, accesscode' \in BOOLEAN, faultsLeft' \in 0..MaxFaults
    PROVE  IInv'
<1> USE DEF Forget, IInv
<1>1. HandlersAreTyped
    BY DEF TypeOK
<1>2. ASSUME NEW c \in Clients PROVE IsSound(c)'
  <2>1. CASE c \in cs
    <3>1. /\ pc'[c] = "idle" /\ call'[c] = None /\ attempts'[c] = 0
          /\ seen'[c] = None /\ code'[c] = 0
        BY <2>1
    <3> QED BY <3>1 DEF IsSound
  <2>2. CASE c \notin cs
    <3>1. /\ pc'[c] = pc[c] /\ call'[c] = call[c] /\ attempts'[c] = attempts[c]
          /\ seen'[c] = seen[c] /\ code'[c] = code[c]
        BY <2>2
    <3> QED BY <1>1, <3>1, HandlerIsTyped DEF IsSound
  <2> QED BY <2>1, <2>2
<1>3. HandlersAreTyped'
  <2> HIDE DEF IInv
  <2> USE DEF PCs
  <2>1. pc' \in [Clients -> PCs] /\ call' \in [Clients -> Calls \cup {None}]
      BY <1>1 DEF HandlersAreTyped
  <2>2. attempts' \in [Clients -> 0..Steps] /\ seen' \in [Clients -> Statuses \cup {None}]
      BY <1>1, StepsAssumption DEF HandlersAreTyped
  <2>3. code' \in [Clients -> {0, 200, 400, 401, 500}] /\ listed' \in [Clients -> SUBSET Names]
      BY <1>1 DEF HandlersAreTyped
  <2> QED BY <1>2, <2>1, <2>2, <2>3 DEF HandlersAreTyped
<1>4. TypeOK'
    BY <1>3 DEF TypeOK
<1>5. FreshIsCurrent'
    BY DEF FreshIsCurrent, TypeOK
<1> QED BY <1>4, <1>5

\* A handler that neither reads nor writes a DGS leaves the copies of all
\* handlers as they are.
LEMMA StoreIsUnchanged ==
    ASSUME IInv, NEW c \in Clients, UNCHANGED <<dgss, fresh>>,
           OnlyMoves(c), call'[c] = call[c], pc'[c] # "update"
    PROVE  FreshIsCurrent'
<1> SUFFICES ASSUME NEW d \in fresh, pc'[d] = "update"
             PROVE  /\ dgss[call'[d].name] # None
                    /\ seen'[d] = dgss[call'[d].name].status
    BY DEF FreshIsCurrent
<1>1. d \in Clients /\ d # c
    BY DEF IInv, TypeOK
<1>2. pc'[d] = pc[d] /\ call'[d] = call[d] /\ seen'[d] = seen[d]
    BY <1>1 DEF OnlyMoves, IInv, TypeOK, HandlersAreTyped
<1> QED BY <1>2 DEF IInv, FreshIsCurrent

\* All of IInv', for such a handler.
LEMMA MoveKeepsIInv ==
    ASSUME IInv, NEW c \in Clients, UNCHANGED <<dgss, fresh, stage, webhook>>,
           OnlyMoves(c), call'[c] = call[c], pc'[c] # "update", IsSound(c)',
           cols' \in [Collections -> PodSpecs \cup {None}],
           accesscode' \in BOOLEAN, faultsLeft' \in 0..MaxFaults
    PROVE  IInv'
<1>1. FreshIsCurrent'
    BY StoreIsUnchanged
<1>2. HandlersAreTyped'
    BY OneHandlerMoves DEF IInv, TypeOK
<1>3. TypeOK'
    BY <1>2 DEF IInv, TypeOK
<1> QED BY <1>1, <1>3 DEF IInv

LEMMA FaultIsTyped == ASSUME IInv, Fault PROVE faultsLeft' \in 0..MaxFaults
BY StepsAssumption DEF IInv, TypeOK, Fault

LEMMA AuthenticationKeepsIInv ==
    ASSUME IInv, NEW c \in Clients, Authenticate(c) \/ ReadCode(c) \/ StoreCode(c)
    PROVE  IInv'
<1> USE DEF Goto, AnswerWith, storeVars, processVars, callVars, retryVars
<1>1. /\ HandlersAreTyped /\ faultsLeft \in 0..MaxFaults
      /\ cols \in [Collections -> PodSpecs \cup {None}]
      /\ stage \in {"down", "serving", "draining", "closing"}
      /\ webhook \in BOOLEAN /\ accesscode \in BOOLEAN
    BY DEF IInv, TypeOK
<1>2. CASE /\ pc[c] \in {"auth", "readCode", "storeCode"}
           /\ \E p \in {"decode", "readCode", "storeCode"} : Goto(c, p)
           /\ UNCHANGED <<storeVars, stage, webhook, callVars, faultsLeft>>
           /\ accesscode' \in BOOLEAN
  <2>1. OnlyMoves(c) /\ call'[c] = call[c] /\ pc'[c] # "update"
      BY <1>1, <1>2, HandlerIsTyped DEF OnlyMoves, PCs, HandlersAreTyped
  <2>2. IsSound(c)'
      BY <1>1, <1>2, HandlerIsTyped DEF IsSound, HandlersAreTyped
  <2> QED BY <1>1, <1>2, <2>1, <2>2, MoveKeepsIInv
<1>3. CASE /\ pc[c] = "auth" /\ Fault /\ AnswerWith(c, 500)
           /\ UNCHANGED <<storeVars, processVars, call, retryVars, listed>>
  <2>1. OnlyMoves(c) /\ call'[c] = call[c] /\ pc'[c] # "update"
      BY <1>1, <1>3, HandlerIsTyped DEF OnlyMoves, PCs, HandlersAreTyped
  <2>2. IsSound(c)'
      BY <1>1, <1>3, HandlerIsTyped DEF IsSound, HandlersAreTyped
  <2> QED BY <1>1, <1>3, <2>1, <2>2, MoveKeepsIInv, FaultIsTyped
<1>4. CASE Forget({c}) /\ UNCHANGED <<processVars, faultsLeft>>
    BY <1>1, <1>4, ForgetKeepsIInv
<1> QED BY <1>1, <1>2, <1>3, <1>4 DEF Authenticate, ReadCode, StoreCode

LEMMA DecodeKeepsIInv ==
    ASSUME IInv, NEW c \in Clients, Decode(c) PROVE IInv'
<1> USE DEF Decode, Goto, AnswerWith, storeVars, processVars
<1>1. /\ HandlersAreTyped /\ faultsLeft \in 0..MaxFaults
      /\ cols \in [Collections -> PodSpecs \cup {None}] /\ accesscode \in BOOLEAN
    BY DEF IInv, TypeOK
<1>2. /\ call[c] \in Calls /\ pc[c] = "decode"
      /\ seen[c] = None /\ attempts[c] = 0 /\ code[c] = 0
      /\ call[c].kind # "healthz"
    BY <1>1, HandlerIsTyped DEF IsSound
<1>3. Refusal(call[c]) \in {400, 500}
    BY DEF Refusal
<1>4. /\ HandlerOf(call[c]) \in PCs \ {"idle", "update", "reply"}
      /\ HandlerOf(call[c]) = "get" <=> call[c].kind = "set"
      /\ HandlerOf(call[c]) \in {"create", "delete"} => call[c].kind = HandlerOf(call[c])
      /\ HandlerOf(call[c]) = "list" => call[c].kind = "running"
  <2>1. /\ call[c].kind = "set" => HandlerOf(call[c]) = "get"
        /\ call[c].kind = "running" => HandlerOf(call[c]) = "list"
        /\ call[c].kind \notin {"set", "running"} => HandlerOf(call[c]) = call[c].kind
      BY DEF HandlerOf
  <2>2. call[c].kind \in {"set", "create", "delete", "running"}
      BY <1>1, <1>2, CallsAreTyped DEF HandlersAreTyped
  <2> QED BY <2>1, <2>2 DEF PCs
<1>5. OnlyMoves(c) /\ call'[c] = call[c] /\ pc'[c] # "update"
  <2>1. Steps \in 0..Steps
      BY StepsAssumption
  <2> QED BY <1>1, <1>2, <1>3, <1>4, <2>1, HandlerIsTyped DEF OnlyMoves, PCs, HandlersAreTyped
<1>6. IsSound(c)'
    BY <1>1, <1>2, <1>3, <1>4, NoneAssumption, StepsAssumption DEF IsSound, HandlersAreTyped, PCs
<1> QED BY <1>1, <1>5, <1>6, MoveKeepsIInv

-----------------------------------------------------------------------------
(* Steps that write DGSs.                                                  *)

\* After Put, a copy that is still current is that of a DGS that has not
\* changed.
LEMMA PutKeepsCopies ==
    ASSUME IInv, NEW n \in Names, NEW d \in Objects \cup {None}, Put(n, d),
           NEW e \in fresh', pc[e] = "update"
    PROVE  /\ dgss'[call[e].name] # None
           /\ seen[e] = dgss'[call[e].name].status
<1>1. e \in fresh /\ e \in Clients /\ call[e] # None /\ call[e].kind = "set"
    BY HandlerIsTyped DEF Put, IInv, TypeOK, IsSound, HandlersAreTyped
<1>2. /\ dgss[call[e].name] # None
      /\ seen[e] = dgss[call[e].name].status
    BY <1>1 DEF IInv, FreshIsCurrent
<1>3. dgss \in [Names -> Objects \cup {None}]
    BY DEF IInv, TypeOK
<1>4. dgss'[call[e].name] = dgss[call[e].name]
  <2>1. CASE d = dgss[n]
      BY <1>3, <2>1 DEF Put
  <2>2. CASE d # dgss[n]
    <3>1. call[e].name # n
        BY <1>1, <2>2 DEF Put, Stale
    <3> QED BY <1>3, <3>1 DEF Put
  <2> QED BY <2>1, <2>2
<1> QED BY <1>2, <1>4

LEMMA PutIsTyped ==
    ASSUME TypeOK, NEW n \in Names, NEW d \in Objects \cup {None}, Put(n, d)
    PROVE  dgss' \in [Names -> Objects \cup {None}] /\ fresh' \subseteq Clients
BY DEF TypeOK, Put

\* What UpdateDGS writes is a DGS.
LEMMA WrittenIsTyped ==
    ASSUME TypeOK, NEW c \in Clients, pc[c] = "update", dgss[call[c].name] # None
    PROVE  /\ call[c] \in Calls /\ call[c].kind = "set"
           /\ call[c].name \in Names /\ dgss[call[c].name] \in Objects
           /\ Written(c) \in Objects
<1>1. /\ call[c] \in Calls \cup {None} /\ seen[c] \in Statuses \cup {None}
      /\ IsSound(c)
    BY HandlerIsTyped DEF TypeOK
<1>2. call[c] \in Calls /\ call[c].kind = "set" /\ seen[c] \in Statuses
    BY <1>1 DEF IsSound
<1>3. call[c].name \in Names /\ call[c].field \in Fields /\ call[c].value \in Values
    BY <1>2, CallsAreTyped
<1>4. dgss[call[c].name] \in Objects
    BY <1>3 DEF TypeOK
<1>5. Mutated(dgss[call[c].name].template) \in PodSpecs
    BY <1>4, PatchedTemplates DEF Objects
<1>6. [seen[c] EXCEPT ![call[c].field] = call[c].value] \in Statuses
    BY <1>2, <1>3, StatusWithChange
<1> QED BY <1>2, <1>3, <1>4, <1>5, <1>6 DEF Written, Objects

\* RetryOnConflict returns with an error or without.
LEMMA FinishIsSound ==
    ASSUME HandlersAreTyped, NEW c \in Clients, pc[c] \in {"get", "update"},
           NEW o \in {200, 500}, Finish(c, o), UNCHANGED <<call, listed>>
    PROVE  /\ OnlyMoves(c) /\ IsSound(c)'
           /\ pc'[c] = "reply" /\ call'[c] = call[c] /\ code'[c] = o
<1> USE DEF Finish, AnswerWith, Goto
<1>1. pc'[c] = "reply" /\ call'[c] = call[c] /\ code'[c] = o
      /\ attempts'[c] = 0 /\ seen'[c] = None
    BY DEF HandlersAreTyped
<1>2. OnlyMoves(c)
    BY <1>1, HandlerIsTyped, StepsAssumption DEF OnlyMoves, PCs, HandlersAreTyped
<1>3. IsSound(c)'
    BY <1>1, HandlerIsTyped DEF IsSound
<1> QED BY <1>1, <1>2, <1>3

LEMMA UpdateDGSKeepsIInv ==
    ASSUME IInv, NEW c \in Clients, UpdateDGS(c) PROVE IInv'
<1> USE DEF UpdateDGS, processVars
<1>1. HandlersAreTyped /\ TypeOK /\ faultsLeft' \in 0..MaxFaults
    BY FaultIsTyped DEF IInv, TypeOK
<1>2. call[c].name \in Names /\ Written(c) \in Objects
    BY <1>1, WrittenIsTyped
<1>3. OnlyMoves(c) /\ IsSound(c)' /\ pc'[c] = "reply"
    BY <1>1, FinishIsSound
<1>4. HandlersAreTyped'
    BY <1>1, <1>3, OneHandlerMoves
<1>5. TypeOK'
    BY <1>1, <1>2, <1>4, PutIsTyped DEF TypeOK
<1>6. FreshIsCurrent'
  <2> SUFFICES ASSUME NEW e \in fresh', pc'[e] = "update"
               PROVE  /\ dgss'[call'[e].name] # None
                      /\ seen'[e] = dgss'[call'[e].name].status
      BY DEF FreshIsCurrent
  <2>1. e \in Clients /\ e # c
      BY <1>3, <1>5 DEF TypeOK
  <2>2. pc[e] = "update" /\ call'[e] = call[e] /\ seen'[e] = seen[e]
      BY <1>1, <1>3, <2>1 DEF OnlyMoves, HandlersAreTyped
  <2> QED BY <1>2, <2>2, PutKeepsCopies
<1> QED BY <1>5, <1>6 DEF IInv

LEMMA GetDGSKeepsIInv ==
    ASSUME IInv, NEW c \in Clients, GetDGS(c) PROVE IInv'
<1> USE DEF GetDGS, processVars
<1>1. /\ HandlersAreTyped /\ faultsLeft \in 0..MaxFaults
      /\ cols \in [Collections -> PodSpecs \cup {None}]
      /\ webhook \in BOOLEAN /\ accesscode \in BOOLEAN
    BY DEF IInv, TypeOK
<1>2. CASE /\ dgss[call[c].name] # None
           /\ Goto(c, "update")
           /\ seen' = [seen EXCEPT ![c] = dgss[call[c].name].status]
           /\ fresh' = fresh \cup {c}
           /\ UNCHANGED <<attempts, code, faultsLeft>>
  <2> HIDE DEF GetDGS
  <2> USE DEF Goto
  <2>0. pc[c] = "get" /\ UNCHANGED <<dgss, cols, processVars, call, listed>>
      BY DEF GetDGS
  <2>1. call[c] \in Calls /\ call[c].kind = "set" /\ attempts[c] # 0 /\ code[c] = 0
      BY <1>1, <2>0, HandlerIsTyped DEF IsSound
  <2>2. dgss[call[c].name] \in Objects /\ dgss[call[c].name].status \in Statuses
      BY <2>0, <2>1, <1>2, CallsAreTyped DEF IInv, TypeOK, Objects
  <2>3. OnlyMoves(c)
      BY <1>1, <2>0, <1>2, <2>2, HandlerIsTyped DEF OnlyMoves, PCs, HandlersAreTyped
  <2>4. IsSound(c)'
      BY <1>1, <2>0, <1>2, <2>1, <2>2, NoneAssumption DEF IsSound, HandlersAreTyped
  <2>5. HandlersAreTyped'
      BY <1>1, <2>0, <2>3, <2>4, OneHandlerMoves
  <2>6. TypeOK'
      BY <1>2, <2>0, <2>5 DEF IInv, TypeOK
  <2>7. FreshIsCurrent'
    <3> SUFFICES ASSUME NEW e \in fresh', pc'[e] = "update"
                 PROVE  /\ dgss[call[e].name] # None
                        /\ seen'[e] = dgss[call[e].name].status
        BY <2>0 DEF FreshIsCurrent
    <3>1. CASE e = c
        BY <1>1, <2>0, <1>2, <3>1 DEF HandlersAreTyped
    <3>2. CASE e # c
        BY <1>1, <2>0, <1>2, <3>2 DEF IInv, TypeOK, FreshIsCurrent, HandlersAreTyped
    <3> QED BY <3>1, <3>2
  <2> QED BY <2>6, <2>7 DEF IInv
<1>3. CASE Finish(c, 500) /\ UNCHANGED fresh /\ faultsLeft' \in 0..MaxFaults
  <2>1. OnlyMoves(c) /\ IsSound(c)' /\ pc'[c] # "update" /\ call'[c] = call[c]
      BY <1>1, <1>3, FinishIsSound
  <2> QED BY <1>1, <1>3, <2>1, MoveKeepsIInv
<1> QED BY <1>1, <1>2, <1>3, FaultIsTyped

LEMMA ConflictKeepsIInv ==
    ASSUME IInv, NEW c \in Clients, Conflict(c) PROVE IInv'
<1> USE DEF Conflict, processVars, storeVars
<1>1. /\ HandlersAreTyped /\ faultsLeft \in 0..MaxFaults
      /\ cols \in [Collections -> PodSpecs \cup {None}]
      /\ webhook \in BOOLEAN /\ accesscode \in BOOLEAN
    BY DEF IInv, TypeOK
<1>2. CASE attempts[c] > 1 /\ ~Finish(c, 500)
  <2> USE DEF Goto
  <2>1. attempts[c] \in 0..Steps /\ call[c].kind = "set" /\ call[c] # None /\ code[c] = 0
      BY <1>1, HandlerIsTyped DEF IsSound
  <2>2. OnlyMoves(c) /\ call'[c] = call[c] /\ pc'[c] # "update"
      BY <1>1, <1>2, <2>1, HandlerIsTyped, StepsAssumption DEF OnlyMoves, PCs, HandlersAreTyped
  <2>3. IsSound(c)'
      BY <1>1, <1>2, <2>1, StepsAssumption DEF IsSound, HandlersAreTyped
  <2> QED BY <1>1, <2>2, <2>3, MoveKeepsIInv
<1>3. CASE Finish(c, 500)
  <2>1. OnlyMoves(c) /\ IsSound(c)' /\ pc'[c] # "update" /\ call'[c] = call[c]
      BY <1>1, <1>3, FinishIsSound
  <2> QED BY <1>1, <1>3, <2>1, MoveKeepsIInv
<1> QED BY <1>2, <1>3

LEMMA UpdateFailsKeepsIInv ==
    ASSUME IInv, NEW c \in Clients, UpdateFails(c) PROVE IInv'
<1> USE DEF UpdateFails, processVars
<1>1. /\ HandlersAreTyped /\ TypeOK /\ faultsLeft' \in 0..MaxFaults
    BY FaultIsTyped DEF IInv, TypeOK
<1>2. OnlyMoves(c) /\ IsSound(c)' /\ pc'[c] = "reply" /\ call'[c] = call[c]
    BY <1>1, FinishIsSound
<1>3. HandlersAreTyped'
    BY <1>1, <1>2, OneHandlerMoves
<1>4. TypeOK'
    BY <1>1, <1>3 DEF TypeOK
<1>5. FreshIsCurrent'
  <2> SUFFICES ASSUME NEW e \in fresh \ {c}, pc'[e] = "update"
               PROVE  /\ dgss[call'[e].name] # None
                      /\ seen'[e] = dgss[call'[e].name].status
      BY DEF FreshIsCurrent
  <2>1. pc[e] = "update" /\ call'[e] = call[e] /\ seen'[e] = seen[e]
      BY <1>1, <1>2 DEF OnlyMoves, HandlersAreTyped, TypeOK
  <2> QED BY <2>1 DEF IInv, FreshIsCurrent
<1> QED BY <1>4, <1>5 DEF IInv

\* The three handlers that do not touch DGSs.
LEMMA OtherHandlersKeepIInv ==
    ASSUME IInv, NEW c \in Clients, ListReady(c) \/ CreateCollection(c) \/ DeleteCollection(c)
    PROVE  IInv'
<1> USE DEF AnswerWith, Goto, processVars, storeVars, retryVars
<1>1. /\ HandlersAreTyped /\ faultsLeft \in 0..MaxFaults
      /\ cols \in [Collections -> PodSpecs \cup {None}]
      /\ webhook \in BOOLEAN /\ accesscode \in BOOLEAN
    BY DEF IInv, TypeOK
<1>2. /\ pc[c] \in {"list", "create", "delete"} /\ UNCHANGED <<dgss, fresh, processVars, call, retryVars>>
      /\ \E o \in {200, 500} : AnswerWith(c, o)
      /\ listed' = [listed EXCEPT ![c] = listed'[c]] /\ listed'[c] \in SUBSET Names
    BY <1>1, HandlerIsTyped DEF ListReady, CreateCollection, DeleteCollection, Ready, HandlersAreTyped
<1>3. faultsLeft' \in 0..MaxFaults
    BY <1>1, FaultIsTyped DEF ListReady, CreateCollection, DeleteCollection
<1>4. cols' \in [Collections -> PodSpecs \cup {None}]
  <2>1. CASE cols' = cols
      BY <1>1, <2>1
  <2>2. CASE CreateCollection(c) /\ cols' = [cols EXCEPT ![call[c].name] = Mutated(call[c].template)]
    <3>1. call[c] \in Calls /\ call[c].kind = "create"
        BY <1>1, <2>2, HandlerIsTyped DEF CreateCollection, IsSound
    <3>2. Mutated(call[c].template) \in PodSpecs
        BY <3>1, CallsAreTyped, PatchedTemplates
    <3> QED BY <1>1, <2>2, <3>2
  <2>3. CASE cols' = [cols EXCEPT ![call[c].name] = None]
      BY <1>1, <2>3
  <2> QED BY <2>1, <2>2, <2>3 DEF ListReady, CreateCollection, DeleteCollection
<1>5. OnlyMoves(c) /\ call'[c] = call[c] /\ pc'[c] # "update"
    BY <1>1, <1>2, HandlerIsTyped DEF OnlyMoves, PCs, HandlersAreTyped
<1>6. IsSound(c)'
    BY <1>1, <1>2, HandlerIsTyped DEF IsSound, HandlersAreTyped
<1> QED BY <1>1, <1>2, <1>3, <1>4, <1>5, <1>6, MoveKeepsIInv

LEMMA ReplyKeepsIInv ==
    ASSUME IInv, NEW c \in Clients, Reply(c) PROVE IInv'
BY ForgetKeepsIInv DEF Reply, processVars, IInv, TypeOK

LEMMA ProcessKeepsIInv ==
    ASSUME IInv, Process PROVE IInv'
<1>1. CASE Crash
  <2>1. faultsLeft' \in 0..MaxFaults
      BY <1>1, FaultIsTyped DEF Crash
  <2> QED BY <1>1, <2>1, ForgetKeepsIInv DEF Crash
<1>2. CASE /\ UNCHANGED <<storeVars, pc, callVars, faultsLeft>>
           /\ stage' \in {"down", "serving", "draining", "closing"}
           /\ webhook' \in BOOLEAN /\ accesscode' \in BOOLEAN
  <2> USE DEF storeVars, callVars, retryVars
  <2>1. HandlersAreTyped'
      BY <1>2 DEF IInv, TypeOK, HandlersAreTyped, IsSound
  <2>2. TypeOK'
      BY <1>2, <2>1 DEF IInv, TypeOK
  <2>3. FreshIsCurrent'
      BY <1>2 DEF IInv, FreshIsCurrent
  <2> QED BY <2>2, <2>3 DEF IInv
<1>3. webhook \in BOOLEAN /\ accesscode \in BOOLEAN
      /\ stage \in {"down", "serving", "draining", "closing"}
    BY DEF IInv, TypeOK
<1> QED BY <1>1, <1>2, <1>3
    DEF Process, Start, WebhookListens, Signal, ShutdownReturns, Exit, storeVars, callVars

\* The controllers and people leave the handlers alone.
LEMMA OthersKeepIInv ==
    ASSUME IInv, OthersAct PROVE IInv'
<1> USE DEF OtherVars, processVars, callVars, retryVars
<1>1. TypeOK /\ HandlersAreTyped
    BY DEF IInv, TypeOK
<1>2. UNCHANGED OtherVars
    BY DEF OthersAct, UpdateStatus, DeleteDGS, CreateDGS, RemoveCollection, ApplyCollection
<1>3. HandlersAreTyped'
    BY <1>1, <1>2 DEF HandlersAreTyped, IsSound
<1>4. CASE /\ UNCHANGED cols
           /\ \E n \in Names, d \in Objects \cup {None} : Put(n, d)
  <2>1. PICK n \in Names, d \in Objects \cup {None} : Put(n, d)
      BY <1>4
  <2>2. TypeOK'
      BY <1>1, <1>2, <1>3, <1>4, <2>1, PutIsTyped DEF TypeOK
  <2>3. FreshIsCurrent'
      BY <1>2, <2>1, PutKeepsCopies DEF FreshIsCurrent
  <2> QED BY <2>2, <2>3 DEF IInv
<1>5. CASE UNCHANGED <<dgss, fresh>> /\ cols' \in [Collections -> PodSpecs \cup {None}]
  <2>1. TypeOK'
      BY <1>1, <1>2, <1>3, <1>5 DEF TypeOK
  <2>2. FreshIsCurrent'
      BY <1>2, <1>5 DEF IInv, FreshIsCurrent
  <2> QED BY <2>1, <2>2 DEF IInv
<1>6. ASSUME NEW n \in Names, UpdateStatus(n)
      PROVE  UNCHANGED cols /\ \E d \in Objects : Put(n, d)
  <2>1. dgss[n] \in Objects
      BY <1>1, <1>6 DEF UpdateStatus, TypeOK
  <2>2. PICK f \in {"podPhase"} \X {"Pending", "Running"} \cup {<<"markedForDeletion", "true">>} :
            Put(n, [status |-> [dgss[n].status EXCEPT ![f[1]] = f[2]],
                    template |-> Mutated(dgss[n].template)])
      BY <1>6 DEF UpdateStatus
  <2>3. f[1] \in Fields /\ f[2] \in Values
      BY <2>2, FieldsAssumption
  <2>4. [dgss[n].status EXCEPT ![f[1]] = f[2]] \in Statuses
      BY <2>1, <2>3, StatusWithChange DEF Objects
  <2>5. Mutated(dgss[n].template) \in PodSpecs
      BY <2>1, PatchedTemplates DEF Objects
  <2> QED BY <1>6, <2>2, <2>4, <2>5 DEF Objects, UpdateStatus
<1>7. ASSUME NEW n \in Names, NEW t \in PodSpecs, CreateDGS(n, t)
      PROVE  UNCHANGED cols /\ \E d \in Objects : Put(n, d)
  <2>1. Mutated(t) \in PodSpecs /\ InitialStatus \in Statuses
      BY FieldsAssumption, PatchedTemplates
  <2> QED BY <1>7, <2>1 DEF Objects, CreateDGS
<1>8. ASSUME NEW l \in Collections, NEW t \in Templates, ApplyCollection(l, t)
      PROVE  UNCHANGED <<dgss, fresh>> /\ cols' \in [Collections -> PodSpecs \cup {None}]
  <2>1. t \in PodSpecs /\ Mutated(t) \in PodSpecs
      BY TemplatesAssumption, PatchedTemplates
  <2> QED BY <1>1, <1>8, <2>1 DEF ApplyCollection, TypeOK
<1>9. ASSUME NEW l \in Collections, RemoveCollection(l)
      PROVE  UNCHANGED <<dgss, fresh>> /\ cols' \in [Collections -> PodSpecs \cup {None}]
    BY <1>1, <1>9 DEF RemoveCollection, TypeOK
<1>10. \A l \in Collections : cols[l] # None => cols[l] \in PodSpecs
    BY <1>1 DEF TypeOK
<1>11. ASSUME NEW n \in Names, DeleteDGS(n) PROVE UNCHANGED cols /\ Put(n, None)
    BY <1>11 DEF DeleteDGS
<1> QED BY <1>4, <1>5, <1>6, <1>7, <1>8, <1>9, <1>10, <1>11 DEF OthersAct

LEMMA StutteringKeepsIInv == ASSUME IInv, UNCHANGED vars PROVE IInv'
<1> USE DEF vars, storeVars, processVars, callVars, retryVars
<1>1. HandlersAreTyped'
    BY DEF IInv, TypeOK, HandlersAreTyped, IsSound
<1>2. TypeOK'
    BY <1>1 DEF IInv, TypeOK
<1>3. FreshIsCurrent'
    BY DEF IInv, FreshIsCurrent
<1> QED BY <1>2, <1>3 DEF IInv

THEOREM Invariance == Spec => []IInv
<1>1. ASSUME IInv, [Next]_vars PROVE IInv'
  <2> USE <1>1
  <2>1. ASSUME NEW c \in Clients, Handle(c) PROVE IInv'
      BY <2>1, AuthenticationKeepsIInv, DecodeKeepsIInv, GetDGSKeepsIInv, UpdateDGSKeepsIInv,
         ConflictKeepsIInv, UpdateFailsKeepsIInv, OtherHandlersKeepIInv, ReplyKeepsIInv
         DEF Handle
  <2> QED BY <1>1, <2>1, AskKeepsIInv, ProcessKeepsIInv, OthersKeepIInv, StutteringKeepsIInv
          DEF Next
<1> QED BY <1>1, InitHasIInv, PTL DEF Spec

\* Each variable has its type, and each handler what its next step needs.
THEOREM TypeCorrect == Spec => []TypeOK
BY Invariance, PTL DEF IInv

-----------------------------------------------------------------------------
(* What is stored has been admitted.                                       *)

\* What the webhook leaves of a template.
IsAdmitted(t) == IsComplete(t) /\ t.affinity = "together"

AInv ==
    /\ \A n \in Names : dgss[n] # None => IsAdmitted(dgss[n].template)
    /\ \A l \in Collections : cols[l] # None => IsAdmitted(cols[l])

LEMMA MutatedIsAdmitted ==
    ASSUME NEW t \in PodSpecs, Admitted(t) PROVE IsAdmitted(Mutated(t))
BY PatchedTemplates DEF IsAdmitted, Admitted, IsComplete

LEMMA PutKeepsAInv ==
    ASSUME IInv, AInv, NEW n \in Names, NEW d \in Objects \cup {None}, Put(n, d),
           d # None => IsAdmitted(d.template), UNCHANGED cols
    PROVE  AInv'
BY DEF AInv, IInv, TypeOK, Put

LEMMA ColsKeepAInv ==
    ASSUME IInv, AInv, NEW l \in Collections, NEW t \in PodSpecs \cup {None},
           cols' = [cols EXCEPT ![l] = t],
           t # None => IsAdmitted(t), UNCHANGED dgss
    PROVE  AInv'
BY DEF AInv, IInv, TypeOK

LEMMA HandlersKeepAInv ==
    ASSUME IInv, AInv, NEW c \in Clients, Handle(c) PROVE AInv'
<1>1. CASE UNCHANGED <<dgss, cols>>
    BY <1>1 DEF AInv
<1>2. CASE UpdateDGS(c)
  <2> DEFINE d == dgss[call[c].name]
  <2>1. call[c].name \in Names /\ d \in Objects /\ Written(c) \in Objects
      BY <1>2, WrittenIsTyped DEF UpdateDGS, IInv
  <2>2. IsAdmitted(Mutated(d.template))
      BY <1>2, <2>1, MutatedIsAdmitted DEF UpdateDGS, Objects
  <2>3. IsAdmitted(Written(c).template)
      BY <2>2 DEF Written
  <2> QED BY <1>2, <2>1, <2>3, PutKeepsAInv DEF UpdateDGS
<1>3. CASE CreateCollection(c)
  <2>1. call[c] \in Calls /\ call[c].kind = "create"
      BY <1>3, HandlerIsTyped DEF CreateCollection, IsSound, IInv, TypeOK
  <2>2. call[c].name \in Collections /\ call[c].template \in PodSpecs
      BY <2>1, CallsAreTyped
  <2>3. CASE UNCHANGED cols
      BY <1>3, <1>1, <2>3 DEF CreateCollection
  <2>4. CASE /\ Admitted(call[c].template)
             /\ cols' = [cols EXCEPT ![call[c].name] = Mutated(call[c].template)]
      BY <1>3, <2>2, <2>4, MutatedIsAdmitted, PatchedTemplates, ColsKeepAInv DEF CreateCollection
  <2> QED BY <1>3, <2>3, <2>4 DEF CreateCollection
<1>4. CASE DeleteCollection(c)
    BY <1>4 DEF DeleteCollection, AInv, IInv, TypeOK
<1> QED BY <1>1, <1>2, <1>3, <1>4
    DEF Handle, Authenticate, ReadCode, StoreCode, Decode, GetDGS, Conflict, UpdateFails,
        ListReady, Reply, Forget, storeVars

LEMMA OthersKeepAInv ==
    ASSUME IInv, AInv, OthersAct PROVE AInv'
<1>1. TypeOK
    BY DEF IInv
<1>2. ASSUME NEW n \in Names, UpdateStatus(n) PROVE AInv'
  <2>1. dgss[n] \in Objects /\ Admitted(dgss[n].template)
      BY <1>1, <1>2 DEF UpdateStatus, TypeOK
  <2>2. PICK f \in {"podPhase"} \X {"Pending", "Running"} \cup {<<"markedForDeletion", "true">>} :
            Put(n, [status |-> [dgss[n].status EXCEPT ![f[1]] = f[2]],
                    template |-> Mutated(dgss[n].template)])
      BY <1>2 DEF UpdateStatus
  <2>3. f[1] \in Fields /\ f[2] \in Values
      BY <2>2, FieldsAssumption
  <2>4. [dgss[n].status EXCEPT ![f[1]] = f[2]] \in Statuses
      BY <2>1, <2>3, StatusWithChange DEF Objects
  <2>5. /\ Mutated(dgss[n].template) \in PodSpecs
        /\ IsAdmitted(Mutated(dgss[n].template))
      BY <2>1, PatchedTemplates, MutatedIsAdmitted DEF Objects
  <2> QED BY <1>2, <2>2, <2>4, <2>5, PutKeepsAInv DEF Objects, UpdateStatus
<1>3. ASSUME NEW n \in Names, NEW t \in PodSpecs, CreateDGS(n, t) PROVE AInv'
  <2>1. Mutated(t) \in PodSpecs /\ IsAdmitted(Mutated(t)) /\ InitialStatus \in Statuses
      BY <1>3, FieldsAssumption, PatchedTemplates, MutatedIsAdmitted DEF CreateDGS
  <2> QED BY <1>3, <2>1, PutKeepsAInv DEF Objects, CreateDGS
<1>4. ASSUME NEW n \in Names, DeleteDGS(n) PROVE AInv'
    BY <1>4, PutKeepsAInv DEF DeleteDGS
<1>5. ASSUME NEW l \in Collections, NEW t \in Templates, ApplyCollection(l, t) PROVE AInv'
  <2>1. t \in PodSpecs
      BY TemplatesAssumption
  <2> QED BY <1>5, <2>1, PatchedTemplates, MutatedIsAdmitted, ColsKeepAInv DEF ApplyCollection
<1>6. ASSUME NEW l \in Collections, RemoveCollection(l) PROVE AInv'
    BY <1>6, ColsKeepAInv DEF RemoveCollection
<1>7. \A l \in Collections : cols[l] # None => cols[l] \in PodSpecs
    BY <1>1 DEF TypeOK
<1> QED BY <1>2, <1>3, <1>4, <1>5, <1>6, <1>7 DEF OthersAct

LEMMA AInvIsEnough == ASSUME IInv, AInv PROVE StoredAreAdmitted
<1> SUFFICES ASSUME NEW t \in Stored
             PROVE  /\ IsComplete(t)
                    /\ t.affinity = "together"
    BY DEF StoredAreAdmitted, IsComplete
<1>1. t \in PodSpecs /\ IsAdmitted(t)
    BY DEF Stored, AInv, IInv, TypeOK, Objects
<1> QED BY <1>1 DEF IsAdmitted

\* docs/architecture.md, Webhook: every collection and every DGS that is stored
\* has requests and limits and the affinity, however it got there.
THEOREM EverythingIsAdmitted == Spec => []StoredAreAdmitted
<1>1. Init => AInv
    BY DEF Init, AInv
<1>2. ASSUME IInv, AInv, [Next]_vars PROVE AInv'
  <2>1. CASE UNCHANGED <<dgss, cols>>
      BY <1>2, <2>1 DEF AInv
  <2>2. Process => UNCHANGED <<dgss, cols>>
      BY DEF Process, Start, WebhookListens, Signal, ShutdownReturns, Exit, Crash, Forget, storeVars
  <2> QED BY <1>2, <2>1, <2>2, HandlersKeepAInv, OthersKeepAInv
          DEF Next, Ask, vars, storeVars
<1> QED BY <1>1, <1>2, Invariance, AInvIsEnough, PTL DEF Spec

-----------------------------------------------------------------------------
(* The shutdown.                                                           *)

\* Once Shutdown has returned there is no handler.
SInv == stage \in {"closing", "down"} => \A c \in Clients : pc[c] = "idle"

LEMMA HandlersKeepSInv ==
    ASSUME IInv, SInv, NEW c \in Clients, Handle(c)
    PROVE  SInv' /\ UNCHANGED <<stage, webhook>>
<1>1. pc[c] # "idle"
    BY DEF Handle, Authenticate, ReadCode, StoreCode, Decode, GetDGS, UpdateDGS, Conflict,
           UpdateFails, ListReady, CreateCollection, DeleteCollection, Reply
<1>2. UNCHANGED <<stage, webhook>>
    BY DEF Handle, Authenticate, ReadCode, StoreCode, Decode, GetDGS, UpdateDGS, Conflict,
           UpdateFails, ListReady, CreateCollection, DeleteCollection, Reply, processVars
<1> QED BY <1>1, <1>2 DEF SInv

\* A process that is told to end, and is not killed, answers all requests it
\* has taken and keeps the webhook, which they depend on, until then.
THEOREM GracefulShutdown == Spec => ShutdownIsGraceful
<1> DEFINE Graceful ==
        ((webhook /\ ~webhook') \/ (stage # "down" /\ stage' = "down")) /\ faultsLeft' = faultsLeft
            => Handling = {}
<1>1. Init => SInv
    BY DEF Init, SInv
<1>2. ASSUME IInv, SInv, [Next]_vars PROVE SInv' /\ Graceful
  <2> USE <1>2 DEF processVars
  <2>1. ASSUME NEW c \in Clients, Handle(c) PROVE SInv' /\ Graceful
      BY <2>1, HandlersKeepSInv
  <2>2. ASSUME NEW c \in Clients, NEW k \in Calls, Ask(c, k) PROVE SInv' /\ Graceful
      BY <2>2 DEF Ask, SInv
  <2>3. CASE Crash
    <3>1. faultsLeft' # faultsLeft
        BY <2>3 DEF Crash, Fault, IInv, TypeOK
    <3> QED BY <2>3, <3>1 DEF Crash, Forget, SInv
  <2>4. CASE Exit \/ ShutdownReturns
      BY <2>4 DEF Exit, ShutdownReturns, SInv, Handling
  <2>5. CASE Start \/ WebhookListens \/ Signal
      BY <2>5 DEF Start, WebhookListens, Signal, SInv
  <2>6. CASE OthersAct
    <3>1. UNCHANGED <<stage, webhook, pc>>
        BY <2>6 DEF OthersAct, UpdateStatus, DeleteDGS, CreateDGS, RemoveCollection,
                    ApplyCollection, OtherVars
    <3> QED BY <3>1 DEF SInv
  <2>7. CASE UNCHANGED vars
      BY <2>7 DEF vars, SInv
  <2> QED BY <2>1, <2>2, <2>3, <2>4, <2>5, <2>6, <2>7 DEF Next, Process
<1>3. IInv /\ SInv /\ [Next]_vars => [Graceful]_vars
    BY <1>2
<1> QED BY <1>1, <1>2, <1>3, Invariance, PTL DEF Spec, ShutdownIsGraceful

-----------------------------------------------------------------------------
(* The refinement: each step is one of StatusBoard's or changes nothing    *)
(* that it shows.                                                          *)

Shown == [n \in Names |-> IF dgss[n] = None THEN None ELSE dgss[n].status]
Existing == {l \in Collections : cols[l] # None}

\* What is shown of a changed DGS.
LEMMA PutIsShown ==
    ASSUME TypeOK, NEW n \in Names, NEW d \in Objects \cup {None}, Put(n, d)
    PROVE  Shown' = [Shown EXCEPT ![n] = IF d = None THEN None ELSE d.status]
BY DEF Shown, Put, TypeOK

\* And of DGSs and collections that have not changed.
LEMMA NothingIsShown ==
    /\ UNCHANGED dgss => UNCHANGED Shown
    /\ UNCHANGED cols => UNCHANGED Existing
BY DEF Shown, Existing

LEMMA StutterSteps ==
    ASSUME UNCHANGED <<dgss, cols, call, code, listed>> PROVE UNCHANGED Board!vars
BY NothingIsShown DEF Board!vars, Shown, Existing

LEMMA InitImplements == Init => Board!Init
BY DEF Init, Board!Init

LEMMA AskImplements ==
    ASSUME IInv, NEW c \in Clients, NEW k \in Calls, Ask(c, k) PROVE Board!Ask(c, k)
<1>1. call[c] = None
    BY HandlerIsTyped DEF Ask, IInv, TypeOK, IsSound
<1>2. UNCHANGED <<Shown, Existing>>
    BY NothingIsShown DEF Ask, storeVars
<1> QED BY <1>1, <1>2 DEF Ask, Board!Ask, Shown, Existing

\* A handler that gives up, or that has nothing to do.
LEMMA NoEffectImplements ==
    ASSUME IInv, NEW c \in Clients, NEW o \in {200, 400, 401, 500},
           pc[c] \notin {"idle", "reply"}, AnswerWith(c, o),
           o = 200 => call[c].kind \in {"create", "delete"},
           UNCHANGED <<dgss, cols, call, listed>>
    PROVE  Board!Next
<1>1. call[c] # None /\ code[c] = 0
    BY HandlerIsTyped DEF IInv, TypeOK, IsSound
<1>2. UNCHANGED <<Shown, Existing>>
    BY NothingIsShown
<1>3. Board!HasNoEffect(c, o)
    BY <1>1, <1>2 DEF Board!HasNoEffect, AnswerWith, Shown, Existing
<1> QED BY <1>3 DEF Board!Next

\* A handler that returns, without an answer or with one.
LEMMA ForgetImplements ==
    ASSUME NEW cs \in SUBSET Clients, Forget(cs) PROVE Board!Next
<1>1. UNCHANGED <<Shown, Existing>>
    BY NothingIsShown DEF Forget
<1>2. Board!End(cs)
    BY <1>1 DEF Forget, Board!End, Shown, Existing
<1> QED BY <1>2 DEF Board!Next

\* The update of a DGS that has not changed since it was read.
LEMMA UpdateImplements ==
    ASSUME IInv, NEW c \in Clients, UpdateDGS(c) PROVE Board!Next
<1> DEFINE k == call[c]
           d == dgss[k.name]
<1>1. TypeOK /\ c \in fresh /\ pc[c] = "update" /\ d # None
    BY DEF UpdateDGS, IInv
<1>2. k \in Calls /\ k.kind = "set" /\ k.name \in Names /\ d \in Objects /\ Written(c) \in Objects
    BY <1>1, WrittenIsTyped
<1>3. seen[c] = d.status
    BY <1>1 DEF IInv, FreshIsCurrent
<1>4. k # None /\ code[c] = 0
    BY <1>1, HandlerIsTyped DEF TypeOK, IsSound
<1>5. Shown' = [Shown EXCEPT ![k.name][k.field] = k.value]
  <2>1. Shown[k.name] = d.status
      BY <1>1, <1>2 DEF Shown
  <2>2. Shown' = [Shown EXCEPT ![k.name] = Written(c).status]
      BY <1>1, <1>2, PutIsShown, NoneAssumption DEF UpdateDGS
  <2>3. Written(c).status = [d.status EXCEPT ![k.field] = k.value]
      BY <1>3 DEF Written
  <2> QED BY <2>1, <2>2, <2>3
<1>6. UNCHANGED <<Existing, listed, call>>
    BY NothingIsShown DEF UpdateDGS
<1>7. code' \in {[code EXCEPT ![c] = 200], [code EXCEPT ![c] = 500]}
    BY DEF UpdateDGS, Finish, AnswerWith
<1>8. Shown[k.name] # None
    BY <1>1, <1>2, NoneAssumption DEF Shown, Objects
<1>9. Board!TakeEffect(c)
    BY <1>2, <1>4, <1>5, <1>6, <1>7, <1>8 DEF Board!TakeEffect, Board!Set, Shown, Existing
<1> QED BY <1>9 DEF Board!Next

\* The list of the DGSs that players can be sent to.
LEMMA ListImplements ==
    ASSUME IInv, NEW c \in Clients, ListReady(c) PROVE Board!Next
<1>1. call[c] # None /\ code[c] = 0 /\ pc[c] = "list" /\ call[c].kind = "running"
    BY HandlerIsTyped DEF ListReady, IInv, TypeOK, IsSound
<1>2. UNCHANGED <<Shown, Existing>>
    BY NothingIsShown DEF ListReady, storeVars
<1>3. CASE listed' = [listed EXCEPT ![c] = Ready] /\ AnswerWith(c, 200)
  <2>1. Ready = Board!Ready
    <3>1. \A n \in Names : /\ Shown[n] = None <=> dgss[n] = None
                           /\ dgss[n] # None => Shown[n] = dgss[n].status
        BY NoneAssumption DEF Shown, IInv, TypeOK, Objects
    <3> QED BY <3>1 DEF Ready, Board!Ready, Shown
  <2>2. Board!TakeEffect(c)
      BY <1>1, <1>2, <1>3, <2>1
         DEF Board!TakeEffect, Board!List, ListReady, AnswerWith, Shown, Existing
  <2> QED BY <2>2 DEF Board!Next
<1>4. CASE AnswerWith(c, 500) /\ UNCHANGED listed
    BY <1>1, <1>4, NoEffectImplements DEF ListReady, storeVars
<1> QED BY <1>3, <1>4 DEF ListReady

\* What is created exists, and what is deleted does not.
LEMMA ColsAreShown ==
    ASSUME TypeOK, NEW l \in Collections, NEW t \in PodSpecs \cup {None},
           cols' = [cols EXCEPT ![l] = t]
    PROVE  Existing' = IF t = None THEN Existing \ {l} ELSE Existing \cup {l}
BY DEF TypeOK, Existing

LEMMA CreateImplements ==
    ASSUME IInv, NEW c \in Clients, CreateCollection(c) PROVE Board!Next
<1> DEFINE k == call[c]
<1>1. k # None /\ code[c] = 0 /\ pc[c] = "create" /\ k.kind = "create" /\ k \in Calls
    BY HandlerIsTyped DEF CreateCollection, IInv, TypeOK, IsSound
<1>2. k.name \in Collections /\ Mutated(k.template) \in PodSpecs
    BY <1>1, CallsAreTyped, PatchedTemplates
<1>3. AnswerWith(c, 200) /\ UNCHANGED <<dgss, call, listed>> /\ UNCHANGED Shown
    BY NothingIsShown DEF CreateCollection
<1>4. CASE UNCHANGED cols
    BY <1>1, <1>3, <1>4, NoEffectImplements
<1>5. CASE cols[k.name] = None /\ cols' = [cols EXCEPT ![k.name] = Mutated(k.template)]
  <2>1. Existing' = Existing \cup {k.name} /\ k.name \notin Existing
      BY <1>2, <1>5, ColsAreShown, NoneAssumption DEF IInv, Existing
  <2>2. Board!TakeEffect(c)
      BY <1>1, <1>3, <2>1 DEF Board!TakeEffect, Board!Create, AnswerWith, Shown, Existing
  <2> QED BY <2>2 DEF Board!Next
<1> QED BY <1>4, <1>5 DEF CreateCollection

LEMMA DeleteImplements ==
    ASSUME IInv, NEW c \in Clients, DeleteCollection(c) PROVE Board!Next
<1> DEFINE k == call[c]
<1>1. k # None /\ code[c] = 0 /\ pc[c] = "delete" /\ k.kind = "delete" /\ k \in Calls
    BY HandlerIsTyped DEF DeleteCollection, IInv, TypeOK, IsSound
<1>2. k.name \in Collections
    BY <1>1, CallsAreTyped
<1>3. UNCHANGED <<dgss, call, listed>> /\ UNCHANGED Shown
    BY NothingIsShown DEF DeleteCollection
<1>4. CASE UNCHANGED cols /\ (AnswerWith(c, 200) \/ AnswerWith(c, 500))
    BY <1>1, <1>3, <1>4, NoEffectImplements
<1>5. CASE /\ cols[k.name] # None /\ cols' = [cols EXCEPT ![k.name] = None]
           /\ AnswerWith(c, 200)
  <2>1. Existing' = Existing \ {k.name} /\ k.name \in Existing
      BY <1>2, <1>5, ColsAreShown DEF IInv, Existing
  <2>2. Board!TakeEffect(c)
      BY <1>1, <1>3, <1>5, <2>1 DEF Board!TakeEffect, Board!Delete, AnswerWith, Shown, Existing
  <2> QED BY <2>2 DEF Board!Next
<1> QED BY <1>4, <1>5 DEF DeleteCollection

LEMMA HandlersImplement ==
    ASSUME IInv, NEW c \in Clients, Handle(c) PROVE [Board!Next]_Board!vars
<1> USE DEF storeVars, processVars, callVars, retryVars
<1>1. CASE Authenticate(c)
    BY <1>1, StutterSteps, NoEffectImplements, ForgetImplements DEF Authenticate
<1>2. CASE ReadCode(c) \/ StoreCode(c)
    BY <1>2, StutterSteps DEF ReadCode, StoreCode
<1>3. CASE Decode(c)
  <2>1. Refusal(call[c]) \in {400, 500}
      BY DEF Refusal
  <2> QED BY <1>3, <2>1, StutterSteps, NoEffectImplements DEF Decode
<1>4. CASE GetDGS(c)
    BY <1>4, StutterSteps, NoEffectImplements DEF GetDGS, Finish
<1>5. CASE Conflict(c)
    BY <1>5, StutterSteps, NoEffectImplements DEF Conflict, Finish
<1>6. CASE UpdateFails(c)
    BY <1>6, NoEffectImplements DEF UpdateFails, Finish
<1>7. CASE Reply(c)
    BY <1>7, ForgetImplements DEF Reply
<1> QED BY <1>1, <1>2, <1>3, <1>4, <1>5, <1>6, <1>7,
           UpdateImplements, ListImplements, CreateImplements, DeleteImplements DEF Handle

LEMMA ProcessImplements ==
    ASSUME Process PROVE [Board!Next]_Board!vars
<1>1. CASE Crash
    BY <1>1, ForgetImplements DEF Crash
<1>2. CASE UNCHANGED <<storeVars, pc, callVars, faultsLeft>>
    BY <1>2, StutterSteps DEF storeVars, callVars
<1> QED BY <1>1, <1>2
    DEF Process, Start, WebhookListens, Signal, ShutdownReturns, Exit

LEMMA OthersImplement ==
    ASSUME IInv, OthersAct PROVE Board!Next
<1> USE DEF OtherVars, callVars
<1>1. TypeOK /\ UNCHANGED <<call, code, listed>>
    BY DEF IInv, OthersAct, UpdateStatus, DeleteDGS, CreateDGS, RemoveCollection, ApplyCollection
<1>2. ASSUME NEW n \in Names, Board!OthersChange(n) PROVE Board!Next
    BY <1>2 DEF Board!Next
<1>3. ASSUME NEW l \in Collections, Board!OthersCreateOrDelete(l) PROVE Board!Next
    BY <1>3 DEF Board!Next
<1>4. ASSUME NEW n \in Names, UpdateStatus(n) PROVE Board!OthersChange(n)
  <2>1. dgss[n] \in Objects /\ dgss[n] # None /\ UNCHANGED Existing
      BY <1>1, <1>4, NothingIsShown DEF UpdateStatus, TypeOK
  <2>2. PICK f \in {"podPhase"} \X {"Pending", "Running"} \cup {<<"markedForDeletion", "true">>} :
            Put(n, [status |-> [dgss[n].status EXCEPT ![f[1]] = f[2]],
                    template |-> Mutated(dgss[n].template)])
      BY <1>4 DEF UpdateStatus
  <2>3. /\ f[1] \in Fields /\ f[2] \in Values
        /\ f[1] = "podPhase" \/ (f[1] = "markedForDeletion" /\ f[2] = "true")
      BY <2>2, FieldsAssumption
  <2> DEFINE s == [dgss[n].status EXCEPT ![f[1]] = f[2]]
             d == [status |-> s, template |-> Mutated(dgss[n].template)]
  <2>4. s \in Statuses
      BY <2>1, <2>3, StatusWithChange DEF Objects
  <2>5. d \in Objects /\ d # None
      BY <2>1, <2>4, PatchedTemplates, NoneAssumption DEF Objects
  <2>6. Shown' = [Shown EXCEPT ![n] = s]
      BY <1>1, <2>2, <2>5, PutIsShown
  <2>7. Shown[n] = dgss[n].status /\ Shown[n] # None /\ Shown[n] \in Statuses
      BY <2>1, NoneAssumption DEF Shown, Objects
  <2>8. Shown'[n] = s /\ s # None
      BY <2>4, <2>6, NoneAssumption DEF Shown
  <2>9. s[f[1]] = f[2]
      BY <2>3, <2>7 DEF Statuses
  <2>10. Shown' = [Shown EXCEPT ![n] = [Shown[n] EXCEPT ![f[1]] = f[2]]]
      BY <2>6, <2>7
  <2>11. CASE f[1] = "podPhase"
      BY <1>1, <2>1, <2>3, <2>7, <2>8, <2>9, <2>10, <2>11 DEF Board!OthersChange, Shown, Existing
  <2>12. CASE f[1] = "markedForDeletion" /\ f[2] = "true"
      BY <1>1, <2>1, <2>7, <2>10, <2>12 DEF Board!OthersChange, Shown, Existing
  <2> QED BY <2>3, <2>11, <2>12
<1>5. ASSUME NEW n \in Names, NEW t \in PodSpecs, CreateDGS(n, t) PROVE Board!OthersChange(n)
  <2> DEFINE d == [status |-> InitialStatus, template |-> Mutated(t)]
  <2>1. d \in Objects /\ d # None /\ dgss[n] = None /\ UNCHANGED Existing
      BY <1>5, FieldsAssumption, PatchedTemplates, NoneAssumption, NothingIsShown
         DEF Objects, CreateDGS
  <2>2. Shown' = [Shown EXCEPT ![n] = InitialStatus]
      BY <1>1, <1>5, <2>1, PutIsShown DEF CreateDGS
  <2>3. Shown[n] = None /\ Shown'[n] = InitialStatus /\ InitialStatus \in Statuses
      BY <2>1, <2>2, FieldsAssumption DEF Shown
  <2> QED BY <1>1, <2>1, <2>2, <2>3 DEF Board!OthersChange, Board!Statuses, Statuses, Shown, Existing
<1>6. ASSUME NEW n \in Names, DeleteDGS(n) PROVE Board!OthersChange(n)
  <2>1. Shown' = [Shown EXCEPT ![n] = None] /\ UNCHANGED Existing
      BY <1>1, <1>6, PutIsShown, NothingIsShown DEF DeleteDGS
  <2> QED BY <1>1, <2>1 DEF Board!OthersChange, Shown, Existing
<1>7. ASSUME NEW l \in Collections, NEW t \in Templates, ApplyCollection(l, t)
      PROVE  Board!OthersCreateOrDelete(l)
  <2>1. t \in PodSpecs
      BY TemplatesAssumption
  <2>2. Existing' = Existing \cup {l} /\ UNCHANGED Shown
      BY <1>1, <1>7, <2>1, PatchedTemplates, NoneAssumption, ColsAreShown, NothingIsShown
         DEF ApplyCollection
  <2> QED BY <1>1, <2>2 DEF Board!OthersCreateOrDelete, Shown, Existing
<1>8. ASSUME NEW l \in Collections, RemoveCollection(l) PROVE Board!OthersCreateOrDelete(l)
  <2>1. Existing' = Existing \ {l} /\ UNCHANGED Shown
      BY <1>1, <1>8, ColsAreShown, NothingIsShown DEF RemoveCollection
  <2> QED BY <1>1, <2>1 DEF Board!OthersCreateOrDelete, Shown, Existing
<1>9. \A l \in Collections : cols[l] # None => cols[l] \in PodSpecs
    BY <1>1 DEF TypeOK
<1> QED BY <1>2, <1>3, <1>4, <1>5, <1>6, <1>7, <1>8, <1>9 DEF OthersAct

\* The handlers do what StatusBoard promises: each call takes effect once at
\* most, changes what it names and nothing else, and is not answered with 200
\* unless it did or the handler does not look.
THEOREM Implements == Spec => ImplementsStatusBoard
<1>1. ASSUME IInv, [Next]_vars PROVE [Board!Next]_Board!vars
  <2>1. ASSUME NEW c \in Clients, NEW k \in Calls, Ask(c, k) PROVE Board!Next
      BY <1>1, <2>1, AskImplements DEF Board!Next
  <2>2. UNCHANGED vars => UNCHANGED Board!vars
      BY StutterSteps DEF vars, storeVars, callVars
  <2> QED BY <1>1, <2>1, <2>2, HandlersImplement, ProcessImplements, OthersImplement DEF Next
<1> QED BY <1>1, InitImplements, Invariance, PTL DEF Spec, ImplementsStatusBoard, Board!Spec
=============================================================================
