------------------------------ MODULE ApiServer ------------------------------
(***************************************************************************)
(* The API server process (cmd/apiserver): the HTTP handlers that game     *)
(* servers and matchmakers call, the admission webhook in the same         *)
(* process, the access code they share, and the start and the end of the   *)
(* process.                                                                *)
(*                                                                         *)
(* Handlers run concurrently and write DGSs that the controllers write     *)
(* too.  Each create and each update, theirs and everybody else's, is      *)
(* admitted by the webhook, so that the handlers depend on the process     *)
(* they are part of.                                                       *)
(***************************************************************************)
EXTENDS Naturals, Sequences

CONSTANTS
    Clients,        \* callers, each with one call at a time
    Names,          \* names of DGSs
    Collections,    \* names of collections
    Fields,         \* fields of a DGS's status, as in the object's JSON
    Values,         \* what they hold
    InitialStatus,  \* of a new DGS
    Templates,      \* [containers, affinity] of the collections that are posted
    Calls,          \* the requests that clients make
    ListingAuth,    \* the flag listingauth
    Steps,          \* attempts of RetryOnConflict; 5 in retry.DefaultRetry
    None,           \* no object, no call
    MaxFaults       \* bound on calls to Kubernetes that fail and on crashes

\* What the models and the webhook look at in a pod template: whether a
\* container has requests, and limits, for both CPU and memory, and whether
\* there is an affinity, the author's own or the webhook's.
Containers == [requests : BOOLEAN, limits : BOOLEAN]
PodSpecs == [containers : Seq(Containers), affinity : {"none", "own", "together"}]
Statuses == [Fields -> Values]
Objects == [status : Statuses, template : PodSpecs]
Bodies == {"good", "wrong", "garbled"}

ASSUME FieldsAssumption ==
    /\ {"health", "markedForDeletion", "dgsState", "activePlayers", "podPhase"} = Fields
    /\ {"true", "Pending", "Running"} \subseteq Values /\ InitialStatus \in Statuses
ASSUME TemplatesAssumption ==
    Templates \subseteq PodSpecs
ASSUME CallsAssumption ==
    Calls \subseteq
        [kind : {"set"}, name : Names, field : Fields \ {"podPhase"}, value : Values,
         codeIsRight : BOOLEAN, body : Bodies]
        \cup [kind : {"create"}, name : Collections, template : Templates,
              codeIsRight : BOOLEAN, body : Bodies]
        \cup [kind : {"delete"}, name : Collections, codeIsRight : BOOLEAN]
        \cup [kind : {"running"}, codeIsRight : BOOLEAN]
        \cup [kind : {"healthz"}]
ASSUME StepsAssumption == Steps \in Nat \ {0} /\ ListingAuth \in BOOLEAN /\ MaxFaults \in Nat
ASSUME NoneAssumption ==
    None \notin Calls /\ None \notin Statuses /\ None \notin Objects /\ None \notin PodSpecs

VARIABLES
    dgss,           \* the DGSs in Kubernetes: [status, template], or None
    cols,           \* the templates of the collections in Kubernetes, or None
    stage,          \* of main: "down", "serving", "draining" or "closing"
    webhook,        \* the webhook server listens
    accesscode,     \* the access code has been read and kept
    pc,             \* how far each client's handler is
    call,           \* the request it handles, or None
    attempts,       \* attempts RetryOnConflict has left, while it runs
    seen,           \* the status of the DGS that UpdateDGSStatus has read
    fresh,          \* clients whose copy still has the DGS's resource version
    code,           \* the status code the handler answers with, or 0
    listed,         \* the DGSs it answers with
    faultsLeft

storeVars == <<dgss, cols, fresh>>
processVars == <<stage, webhook, accesscode>>
retryVars == <<attempts, seen>>
callVars == <<call, retryVars, code, listed>>
vars == <<storeVars, processVars, pc, callVars, faultsLeft>>

Handling == {c \in Clients : pc[c] # "idle"}

-----------------------------------------------------------------------------
(* The webhook: mutate and addAffinity.                                    *)

\* Mutant of IsComplete: the limits are not looked at.
HasRequests(t) == \A i \in DOMAIN t.containers : t.containers[i].requests

\* Each container has requests and limits, for CPU and memory.
IsComplete(t) ==
    \A i \in DOMAIN t.containers : t.containers[i].requests /\ t.containers[i].limits

\* Kubernetes asks the webhook and refuses what it cannot ask about
\* (failurePolicy Fail) and what it rejects.
Admitted(t) ==
    /\ webhook
    /\ IsComplete(t)

\* The patch adds an affinity or replaces the one that is there.  A DGS and a
\* collection have their template in the same place of the object, so that
\* mutate finds the affinity of either in what it decodes as a collection.
Mutated(t) == [t EXCEPT !.affinity = "together"]

-----------------------------------------------------------------------------
(* Kubernetes.                                                             *)

\* An update changes the resource version if it changes anything.
Stale(n) == {c \in Clients : call[c] # None /\ call[c].kind = "set" /\ call[c].name = n}

Put(n, d) ==
    /\ dgss' = [dgss EXCEPT ![n] = d]
    /\ fresh' = IF d = dgss[n] THEN fresh ELSE fresh \ Stale(n)

Ready ==
    {n \in Names : /\ dgss[n] # None
                   /\ dgss[n].status["health"] = "Healthy"
                   /\ dgss[n].status["podPhase"] = "Running"
                   /\ dgss[n].status["markedForDeletion"] = "false"}

\* The call fails; whoever made it gets an error.
Fault == faultsLeft > 0 /\ faultsLeft' = faultsLeft - 1

-----------------------------------------------------------------------------
(* Requests arrive and are answered.                                       *)

Goto(c, label) == pc' = [pc EXCEPT ![c] = label]

AnswerWith(c, status) ==
    /\ Goto(c, "reply")
    /\ code' = [code EXCEPT ![c] = status]

\* /healthz answers at once; all other handlers but, by default, /running
\* authenticate first.
FirstStep(k) ==
    IF k.kind = "healthz" THEN "reply"
    ELSE IF k.kind = "running" /\ ~ListingAuth THEN "list"
    ELSE "auth"

Ask(c, k) ==
    /\ stage = "serving" /\ pc[c] = "idle"
    /\ Goto(c, FirstStep(k))
    /\ call' = [call EXCEPT ![c] = k]
    /\ code' = [code EXCEPT ![c] = IF k.kind = "healthz" THEN 200 ELSE 0]
    /\ UNCHANGED <<storeVars, processVars, retryVars, listed, faultsLeft>>

\* What a handler forgets when it returns, and when it is killed.
Forget(cs) ==
    /\ pc' = [c \in Clients |-> IF c \in cs THEN "idle" ELSE pc[c]]
    /\ call' = [c \in Clients |-> IF c \in cs THEN None ELSE call[c]]
    /\ seen' = [c \in Clients |-> IF c \in cs THEN None ELSE seen[c]]
    /\ attempts' = [c \in Clients |-> IF c \in cs THEN 0 ELSE attempts[c]]
    /\ code' = [c \in Clients |-> IF c \in cs THEN 0 ELSE code[c]]
    /\ listed' = [c \in Clients |-> IF c \in cs THEN {} ELSE listed[c]]
    /\ fresh' = fresh \ cs
    /\ UNCHANGED <<dgss, cols>>

Reply(c) ==
    /\ pc[c] = "reply"
    /\ Forget({c})
    /\ UNCHANGED <<processVars, faultsLeft>>

-----------------------------------------------------------------------------
(* IsAPICallAuthenticated, AuthenticateWebServerCode and GetAccessCode.    *)

\* The access code is read on first use.  A handler that looks at it while
\* another one stores it may see a length without a string; comparing them
\* is a panic, which net/http turns into a broken connection.
Authenticate(c) ==
    /\ pc[c] = "auth"
    /\ \/ /\ accesscode
          /\ Goto(c, "decode")
          /\ UNCHANGED <<storeVars, callVars, faultsLeft>>
       \/ /\ ~accesscode
          /\ Goto(c, "readCode")
          /\ UNCHANGED <<storeVars, callVars, faultsLeft>>
       \/ /\ ~accesscode
          /\ Fault
          /\ AnswerWith(c, 500)
          /\ UNCHANGED <<storeVars, call, retryVars, listed>>
       \/ /\ \E d \in Clients : pc[d] = "storeCode"
          /\ Forget({c})
          /\ UNCHANGED faultsLeft
    /\ UNCHANGED processVars

\* A secret that cannot be read ends the process (log.Fatalf): see Crash.
ReadCode(c) ==
    /\ pc[c] = "readCode"
    /\ Goto(c, IF accesscode THEN "decode" ELSE "storeCode")
    /\ UNCHANGED <<storeVars, processVars, callVars, faultsLeft>>

StoreCode(c) ==
    /\ pc[c] = "storeCode"
    /\ accesscode' = TRUE
    /\ Goto(c, "decode")
    /\ UNCHANGED <<storeVars, stage, webhook, callVars, faultsLeft>>

-----------------------------------------------------------------------------
(* The handlers, after authentication.                                     *)

\* The two handlers that know the values of their field look at the value
\* first, and what could not be decoded is no value.
Refusal(k) ==
    IF k.body = "wrong" \/ k.kind = "create" THEN 400
    ELSE IF k.field \in {"health", "dgsState"} THEN 400 ELSE 500

HasBody(k) == k.kind \in {"set", "create"}

HandlerOf(k) == CASE k.kind = "set" -> "get"
                  [] k.kind = "running" -> "list"
                  [] OTHER -> k.kind

Decode(c) ==
    /\ pc[c] = "decode"
    /\ \/ /\ ~call[c].codeIsRight
          /\ AnswerWith(c, 401)
          /\ UNCHANGED attempts
       \/ /\ call[c].codeIsRight /\ HasBody(call[c]) /\ call[c].body # "good"
          /\ AnswerWith(c, Refusal(call[c]))
          /\ UNCHANGED attempts
       \/ /\ call[c].codeIsRight /\ (HasBody(call[c]) => call[c].body = "good")
          /\ Goto(c, HandlerOf(call[c]))
          /\ attempts' = [attempts EXCEPT ![c] = IF call[c].kind = "set" THEN Steps ELSE 0]
          /\ UNCHANGED code
    /\ UNCHANGED <<storeVars, processVars, call, seen, listed, faultsLeft>>

\* RetryOnConflict returns.
Finish(c, status) ==
    /\ AnswerWith(c, status)
    /\ attempts' = [attempts EXCEPT ![c] = 0]
    /\ seen' = [seen EXCEPT ![c] = None]

\* UpdateDGSStatus: the function that RetryOnConflict calls reads the DGS ...
GetDGS(c) ==
    /\ pc[c] = "get"
    /\ \/ /\ dgss[call[c].name] # None
          /\ Goto(c, "update")
          /\ seen' = [seen EXCEPT ![c] = dgss[call[c].name].status]
          /\ fresh' = fresh \cup {c}
          /\ UNCHANGED <<attempts, code, faultsLeft>>
       \/ /\ dgss[call[c].name] = None
          /\ Finish(c, 500)
          /\ UNCHANGED <<fresh, faultsLeft>>
       \/ /\ Fault
          /\ Finish(c, 500)
          /\ UNCHANGED fresh
    /\ UNCHANGED <<dgss, cols, processVars, call, listed>>

\* ... changes one field of its copy ...
Written(c) ==
    [status |-> [seen[c] EXCEPT ![call[c].field] = call[c].value],
     template |-> Mutated(dgss[call[c].name].template)]

\* Mutant of UpdateDGS: a DGS that has changed since is overwritten.
UpdateDGSUnchecked(c) ==
    /\ pc[c] = "update"
    /\ dgss[call[c].name] # None /\ Admitted(dgss[call[c].name].template)
    /\ Put(call[c].name, Written(c))
    /\ Finish(c, 200)
    /\ UNCHANGED <<cols, processVars, call, listed, faultsLeft>>

\* ... and writes it back, if the DGS has not changed since.  The answer of
\* Kubernetes may get lost.
UpdateDGS(c) ==
    /\ pc[c] = "update" /\ c \in fresh
    /\ dgss[call[c].name] # None /\ Admitted(dgss[call[c].name].template)
    /\ Put(call[c].name, Written(c))
    /\ \/ Finish(c, 200) /\ UNCHANGED faultsLeft
       \/ Finish(c, 500) /\ Fault
    /\ UNCHANGED <<cols, processVars, call, listed>>

\* Mutant of Conflict: one attempt more.
ConflictOnceMore(c) ==
    /\ pc[c] = "update" /\ c \notin fresh
    /\ dgss[call[c].name] # None
    /\ \/ /\ attempts[c] >= 1
          /\ Goto(c, "get")
          /\ attempts' = [attempts EXCEPT ![c] = @ - 1]
          /\ seen' = [seen EXCEPT ![c] = None]
          /\ UNCHANGED code
       \/ /\ attempts[c] = 0
          /\ Finish(c, 500)
    /\ UNCHANGED <<storeVars, processVars, call, listed, faultsLeft>>

\* Mutant of Conflict: as often as it takes.
ConflictAgain(c) ==
    /\ pc[c] = "update" /\ c \notin fresh
    /\ dgss[call[c].name] # None
    /\ Goto(c, "get")
    /\ seen' = [seen EXCEPT ![c] = None]
    /\ UNCHANGED <<storeVars, processVars, call, attempts, code, listed, faultsLeft>>

\* If it has changed, everything is tried again, but not for ever.
Conflict(c) ==
    /\ pc[c] = "update" /\ c \notin fresh
    /\ dgss[call[c].name] # None
    /\ \/ /\ attempts[c] > 1
          /\ Goto(c, "get")
          /\ attempts' = [attempts EXCEPT ![c] = @ - 1]
          /\ seen' = [seen EXCEPT ![c] = None]
          /\ UNCHANGED code
       \/ /\ attempts[c] = 1
          /\ Finish(c, 500)
    /\ UNCHANGED <<storeVars, processVars, call, listed, faultsLeft>>

\* The DGS is gone, the webhook rejects it or is not there, or the call fails.
UpdateFails(c) ==
    /\ pc[c] = "update"
    /\ \/ dgss[call[c].name] = None /\ UNCHANGED faultsLeft
       \/ /\ dgss[call[c].name] # None /\ ~Admitted(dgss[call[c].name].template)
          /\ UNCHANGED faultsLeft
       \/ Fault
    /\ Finish(c, 500)
    /\ fresh' = fresh \ {c}
    /\ UNCHANGED <<dgss, cols, processVars, call, listed>>

\* getPodPhaseRunningDGSHandler.  When the list fails it goes on to write
\* what it has, which is null.
ListReady(c) ==
    /\ pc[c] = "list"
    /\ \/ /\ listed' = [listed EXCEPT ![c] = Ready]
          /\ AnswerWith(c, 200)
          /\ UNCHANGED faultsLeft
       \/ /\ Fault
          /\ AnswerWith(c, 500)
          /\ UNCHANGED listed
    /\ UNCHANGED <<storeVars, processVars, call, retryVars>>

\* createDGSColHandler, which says 200 to whatever Kubernetes says.  The
\* object it makes has the name, the replicas and the template it was sent.
CreateCollection(c) ==
    /\ pc[c] = "create"
    /\ \/ /\ cols[call[c].name] = None /\ Admitted(call[c].template)
          /\ cols' = [cols EXCEPT ![call[c].name] = Mutated(call[c].template)]
          /\ UNCHANGED faultsLeft \/ Fault
       \/ /\ cols[call[c].name] # None \/ ~Admitted(call[c].template)
          /\ UNCHANGED <<cols, faultsLeft>>
       \/ Fault /\ UNCHANGED cols
    /\ AnswerWith(c, 200)
    /\ UNCHANGED <<dgss, fresh, processVars, call, retryVars, listed>>

\* deleteDGSColHandler, likewise; only without a client does it say 500.
DeleteCollection(c) ==
    /\ pc[c] = "delete"
    /\ \/ /\ cols[call[c].name] # None
          /\ cols' = [cols EXCEPT ![call[c].name] = None]
          /\ AnswerWith(c, 200)
          /\ UNCHANGED faultsLeft \/ Fault
       \/ /\ cols[call[c].name] = None
          /\ AnswerWith(c, 200)
          /\ UNCHANGED <<cols, faultsLeft>>
       \/ /\ Fault
          /\ AnswerWith(c, 200) \/ AnswerWith(c, 500)
          /\ UNCHANGED cols
    /\ UNCHANGED <<dgss, fresh, processVars, call, retryVars, listed>>

-----------------------------------------------------------------------------
(* The process: main, and both servers' Run and Shutdown.                  *)

\* The first server is up before the second one ...
Start ==
    /\ stage = "down"
    /\ stage' = "serving"
    /\ UNCHANGED <<storeVars, webhook, accesscode, pc, callVars, faultsLeft>>

\* ... which listens some time later, or never without its certificate.
WebhookListens ==
    /\ stage \in {"serving", "draining"}
    /\ webhook' = TRUE
    /\ UNCHANGED <<storeVars, stage, accesscode, pc, callVars, faultsLeft>>

\* Mutant of Signal: the webhook is shut down first.
SignalWebhookFirst ==
    /\ stage = "serving"
    /\ stage' = "draining" /\ webhook' = FALSE
    /\ UNCHANGED <<storeVars, accesscode, pc, callVars, faultsLeft>>

\* SIGINT or SIGTERM: the API server's Shutdown takes no more requests ...
Signal ==
    /\ stage = "serving"
    /\ stage' = "draining"
    /\ UNCHANGED <<storeVars, webhook, accesscode, pc, callVars, faultsLeft>>

\* ... and returns when those it has are answered.
ShutdownReturns ==
    /\ stage = "draining" /\ Handling = {}
    /\ stage' = "closing"
    /\ UNCHANGED <<storeVars, webhook, accesscode, pc, callVars, faultsLeft>>

\* The webhook's Shutdown, and the end of main.
Exit ==
    /\ stage = "closing"
    /\ stage' = "down" /\ webhook' = FALSE /\ accesscode' = FALSE
    /\ UNCHANGED <<storeVars, pc, callVars, faultsLeft>>

\* The process is killed, or ends because the secret cannot be read.
Crash ==
    /\ stage # "down"
    /\ Fault
    /\ stage' = "down" /\ webhook' = FALSE /\ accesscode' = FALSE
    /\ Forget(Clients)

-----------------------------------------------------------------------------
(* The controllers and people with kubectl.                                *)

OtherVars == <<processVars, pc, callVars, faultsLeft>>

CreateDGS(n, t) ==
    /\ dgss[n] = None /\ Admitted(t)
    /\ Put(n, [status |-> InitialStatus, template |-> Mutated(t)])
    /\ UNCHANGED <<cols, OtherVars>>

\* The controllers change the phase of the pod and mark for deletion.
UpdateStatus(n) ==
    /\ dgss[n] # None /\ Admitted(dgss[n].template)
    /\ \E f \in {"podPhase"} \X {"Pending", "Running"} \cup {<<"markedForDeletion", "true">>} :
        Put(n, [status |-> [dgss[n].status EXCEPT ![f[1]] = f[2]],
                template |-> Mutated(dgss[n].template)])
    /\ UNCHANGED <<cols, OtherVars>>

DeleteDGS(n) ==
    /\ dgss[n] # None
    /\ Put(n, None)
    /\ UNCHANGED <<cols, OtherVars>>

\* kubectl apply: a collection is created, or its template is changed.
ApplyCollection(l, t) ==
    /\ Admitted(t)
    /\ cols' = [cols EXCEPT ![l] = Mutated(t)]
    /\ UNCHANGED <<dgss, fresh, OtherVars>>

RemoveCollection(l) ==
    /\ cols[l] # None
    /\ cols' = [cols EXCEPT ![l] = None]
    /\ UNCHANGED <<dgss, fresh, OtherVars>>

\* The collection controller's DGSs have the template of a collection.
OthersAct ==
    \/ \E n \in Names : UpdateStatus(n) \/ DeleteDGS(n)
    \/ \E n \in Names, l \in Collections : cols[l] # None /\ CreateDGS(n, cols[l])
    \/ \E l \in Collections : RemoveCollection(l)
    \/ \E l \in Collections, t \in Templates : ApplyCollection(l, t)

-----------------------------------------------------------------------------
Init ==
    /\ dgss = [n \in Names |-> None]
    /\ cols = [l \in Collections |-> None]
    /\ fresh = {}
    /\ stage = "down" /\ webhook = FALSE /\ accesscode = FALSE
    /\ pc = [c \in Clients |-> "idle"]
    /\ call = [c \in Clients |-> None]
    /\ attempts = [c \in Clients |-> 0]
    /\ seen = [c \in Clients |-> None]
    /\ code = [c \in Clients |-> 0]
    /\ listed = [c \in Clients |-> {}]
    /\ faultsLeft = MaxFaults

Handle(c) ==
    \/ Authenticate(c) \/ ReadCode(c) \/ StoreCode(c) \/ Decode(c)
    \/ GetDGS(c) \/ UpdateDGS(c) \/ Conflict(c) \/ UpdateFails(c)
    \/ ListReady(c) \/ CreateCollection(c) \/ DeleteCollection(c)
    \/ Reply(c)

Process == Start \/ WebhookListens \/ Signal \/ ShutdownReturns \/ Exit \/ Crash

Next ==
    \/ \E c \in Clients : Handle(c)
    \/ \E c \in Clients, k \in Calls : Ask(c, k)
    \/ Process
    \/ OthersAct

Spec == Init /\ [][Next]_vars

\* The handler can go on only when its client does: FormValue and the decoder
\* read the request's body, and the answer is written.  The server has no
\* timeout for either.
WaitsForClient(c) ==
    \/ pc[c] \in {"auth", "decode"} /\ HasBody(call[c])
    \/ pc[c] = "reply"

\* Handlers run until they return or have to wait for their client, and so
\* does main after the signal.  Calls to Kubernetes return, if with an error.
FairSpec ==
    /\ Spec
    /\ \A c \in Clients : WF_vars(~WaitsForClient(c) /\ Handle(c))
    /\ WF_vars(ShutdownReturns) /\ WF_vars(Exit)

-----------------------------------------------------------------------------
(* What must hold.                                                         *)

PCs == {"idle", "auth", "readCode", "storeCode", "decode", "get", "update", "list",
        "create", "delete", "reply"}

\* What a handler keeps at each of its steps.
IsSound(c) ==
    /\ pc[c] = "idle" <=> call[c] = None
    /\ pc[c] \in {"auth", "readCode", "storeCode", "decode"} => call[c].kind # "healthz"
    /\ pc[c] \in {"get", "update"} => call[c].kind = "set"
    /\ pc[c] \in {"create", "delete"} => call[c].kind = pc[c]
    /\ pc[c] = "list" => call[c].kind = "running"
    /\ pc[c] = "update" <=> seen[c] # None
    /\ pc[c] \in {"get", "update"} <=> attempts[c] # 0
    /\ pc[c] = "reply" <=> code[c] # 0

\* Each variable has its type, and each handler what its next step needs.
HandlersAreTyped ==
    /\ pc \in [Clients -> PCs]
    /\ call \in [Clients -> Calls \cup {None}]
    /\ attempts \in [Clients -> 0..Steps]
    /\ seen \in [Clients -> Statuses \cup {None}]
    /\ code \in [Clients -> {0, 200, 400, 401, 500}]
    /\ listed \in [Clients -> SUBSET Names]
    /\ \A c \in Clients : IsSound(c)
TypeOK ==
    /\ dgss \in [Names -> Objects \cup {None}]
    /\ cols \in [Collections -> PodSpecs \cup {None}]
    /\ fresh \subseteq Clients
    /\ stage \in {"down", "serving", "draining", "closing"}
    /\ webhook \in BOOLEAN /\ accesscode \in BOOLEAN
    /\ HandlersAreTyped
    /\ faultsLeft \in 0..MaxFaults

\* docs/architecture.md, Webhook: every collection, and every DGS made from
\* one, has requests and limits and prefers to run next to other DGSs, whoever
\* created it and whatever was up at the time.
Stored ==
    {dgss[n].template : n \in {m \in Names : dgss[m] # None}}
    \cup {cols[l] : l \in {m \in Collections : cols[m] # None}}

StoredAreAdmitted ==
    \A t \in Stored :
        /\ \A i \in DOMAIN t.containers : t.containers[i].requests /\ t.containers[i].limits
        /\ t.affinity = "together"

\* A process that is told to end, and is not killed, answers all requests it
\* has taken and keeps the webhook, which they depend on, until then.
ShutdownIsGraceful ==
    [][((webhook /\ ~webhook') \/ (stage # "down" /\ stage' = "down")) /\ faultsLeft' = faultsLeft
            => Handling = {}]_vars

\* No client keeps its handler waiting for ever.
ClientsGoOn == \A c \in Clients : []<>~WaitsForClient(c)

\* A process that is told to end does end, as long as no client stalls: main
\* calls Shutdown without a deadline, but no handler that it waits for goes on
\* for ever by itself, by its retries or because the webhook is gone.
ShutdownEnds == ClientsGoOn => (stage = "draining" ~> stage = "down")

Board == INSTANCE StatusBoard WITH
    board <- [n \in Names |-> IF dgss[n] = None THEN None ELSE dgss[n].status],
    collections <- {l \in Collections : cols[l] # None},
    asked <- call,
    answer <- code

\* The handlers do what StatusBoard promises.
ImplementsStatusBoard == Board!Spec
=============================================================================
