------------------------------ MODULE WorkQueue ------------------------------
(***************************************************************************)
(* The rate limited work queue behind every controller and the workers     *)
(* that drain it: processNextWorkItem and runWorker of the controller      *)
(* helper, over the client-go queue (queue.go), its delaying layer         *)
(* (delaying_queue.go) and its rate limiter.                               *)
(*                                                                         *)
(* Time is abstracted: an entry of the delaying layer becomes ready at     *)
(* some moment.  What is kept is who holds which key, what is dirty, what  *)
(* sits in the channel to waitingLoop, and which workers sleep on the      *)
(* queue's condition variable.                                             *)
(***************************************************************************)
EXTENDS Naturals, Sequences

CONSTANTS
    Keys,           \* namespace/name strings of the watched objects
    Workers,        \* goroutines started by Run (controllerThreadiness)
    NoKey,          \* what a worker holds between two keys
    ChanCap,        \* capacity of waitingForAddCh
    MaxFailures     \* failures after which the back-off is at maxDelay

ASSUME NoKeyAssumption == NoKey \notin Keys
ASSUME BoundsAssumption == ChanCap \in Nat \ {0} /\ MaxFailures \in Nat \ {0}

VARIABLES
    queue,              \* queue.go: the order in which keys are worked on
    dirty,              \* queue.go: keys that need to be processed
    processing,         \* queue.go: keys handed out by Get and not yet Done
    shuttingDown,       \* queue.go: set once by ShutDown
    waitingForAddCh,    \* delaying_queue.go: channel into waitingLoop
    waitingForQueue,    \* delaying_queue.go: entries whose time has not come
    failures,           \* default_rate_limiters.go: failures per key
    pc,                 \* where each worker is in processNextWorkItem
    item                \* the key each worker got from Get

queueVars == <<queue, dirty, processing, shuttingDown>>
delayVars == <<waitingForAddCh, waitingForQueue>>
vars == <<queueVars, delayVars, failures, pc, item>>

PCs == {"ready", "asleep", "syncing", "synced", "failed", "exited"}

TypeOK ==
    /\ queue \in Seq(Keys)
    /\ dirty \subseteq Keys
    /\ processing \subseteq Keys
    /\ shuttingDown \in BOOLEAN
    /\ waitingForAddCh \in Seq(Keys)
    /\ waitingForQueue \subseteq Keys
    /\ failures \in [Keys -> 0..MaxFailures]
    /\ pc \in [Workers -> PCs]
    /\ item \in [Workers -> Keys \cup {NoKey}]

Init ==
    /\ queue = <<>>
    /\ dirty = {}
    /\ processing = {}
    /\ shuttingDown = FALSE
    /\ waitingForAddCh = <<>>
    /\ waitingForQueue = {}
    /\ failures = [k \in Keys |-> 0]
    /\ pc = [w \in Workers |-> "ready"]
    /\ item = [w \in Workers |-> NoKey]

InSeq(s) == {s[i] : i \in DOMAIN s}

-----------------------------------------------------------------------------
(* The queue's critical sections.                                          *)

\* sync.Cond.Signal: of the worker locations wk, one sleeper wakes, if any.
Signalled(wk) ==
    LET sleepers == {w \in Workers : wk[w] = "asleep"}
    IN  IF sleepers = {} THEN {wk}
        ELSE {[wk EXCEPT ![w] = "ready"] : w \in sleepers}

\* Mutant of Push: the key is appended but nobody is woken.
PushUnsignalled(k, wk) ==
    /\ queue' = Append(queue, k)
    /\ pc' = wk

\* Append k to the queue and signal, the workers otherwise being at wk.
Push(k, wk) ==
    /\ queue' = Append(queue, k)
    /\ pc' \in Signalled(wk)

\* Mutant of Add: a key being processed is queued at once.
AddWhileProcessing(k) ==
    \/ /\ shuttingDown \/ k \in dirty
       /\ UNCHANGED <<queue, dirty, pc>>
    \/ /\ ~shuttingDown /\ k \notin dirty
       /\ dirty' = dirty \cup {k}
       /\ Push(k, pc)

\* A key that is dirty already is dropped, one that is being processed is
\* only made dirty.
Add(k) ==
    \/ /\ shuttingDown \/ k \in dirty
       /\ UNCHANGED <<queue, dirty, pc>>
    \/ /\ ~shuttingDown /\ k \notin dirty
       /\ k \in processing
       /\ dirty' = dirty \cup {k}
       /\ UNCHANGED <<queue, pc>>
    \/ /\ ~shuttingDown /\ k \notin dirty
       /\ k \notin processing
       /\ dirty' = dirty \cup {k}
       /\ Push(k, pc)

\* AddAfter always sees a positive delay: the limiter's base is 5 ms.  It
\* blocks while the channel is full.
AddRateLimited(k) ==
    /\ failures' = [failures EXCEPT ![k] = IF @ < MaxFailures THEN @ + 1 ELSE @]
    /\ \/ shuttingDown /\ UNCHANGED waitingForAddCh
       \/ /\ ~shuttingDown
          /\ Len(waitingForAddCh) < ChanCap
          /\ waitingForAddCh' = Append(waitingForAddCh, k)

-----------------------------------------------------------------------------
(* Event handlers, the waiting loop and shutdown.                          *)

\* An informer's event handler enqueues k.
Enqueue(k) ==
    /\ AddRateLimited(k)
    /\ UNCHANGED <<queueVars, waitingForQueue, pc, item>>

\* waitingLoop takes the next entry off the channel: its time has come and
\* it is added at once, or it is inserted among the waiting ones.
ReceiveReady ==
    /\ waitingForAddCh # <<>>
    /\ Add(Head(waitingForAddCh))
    /\ waitingForAddCh' = Tail(waitingForAddCh)
    /\ UNCHANGED <<processing, shuttingDown, waitingForQueue, failures, item>>

ReceiveEarly ==
    /\ waitingForAddCh # <<>>
    /\ waitingForQueue' = waitingForQueue \cup {Head(waitingForAddCh)}
    /\ waitingForAddCh' = Tail(waitingForAddCh)
    /\ UNCHANGED <<queueVars, failures, pc, item>>

\* The time of a waiting entry has come.
Ripen(k) ==
    /\ k \in waitingForQueue
    /\ waitingForQueue' = waitingForQueue \ {k}
    /\ Add(k)
    /\ UNCHANGED <<processing, shuttingDown, waitingForAddCh, failures, item>>

\* stopCh closes, Run returns and its deferred ShutDown broadcasts.
ShutDown ==
    /\ ~shuttingDown
    /\ shuttingDown' = TRUE
    /\ pc' = [w \in Workers |-> IF pc[w] = "asleep" THEN "ready" ELSE pc[w]]
    /\ UNCHANGED <<queue, dirty, processing, delayVars, failures, item>>

-----------------------------------------------------------------------------
(* processNextWorkItem.                                                    *)

\* Get finds nothing to do and waits on the condition variable.
GetWait(w) ==
    /\ pc[w] = "ready"
    /\ queue = <<>> /\ ~shuttingDown
    /\ pc' = [pc EXCEPT ![w] = "asleep"]
    /\ UNCHANGED <<queueVars, delayVars, failures, item>>

\* Get reports the shutdown; runWorker's loop ends.
GetShutdown(w) ==
    /\ pc[w] = "ready"
    /\ queue = <<>> /\ shuttingDown
    /\ pc' = [pc EXCEPT ![w] = "exited"]
    /\ UNCHANGED <<queueVars, delayVars, failures, item>>

\* Get hands out the oldest key, also while shutting down.  Every key is a
\* string, so processNextWorkItem's branch for other items is unreachable.
Get(w) ==
    /\ pc[w] = "ready"
    /\ queue # <<>>
    /\ item' = [item EXCEPT ![w] = Head(queue)]
    /\ queue' = Tail(queue)
    /\ processing' = processing \cup {Head(queue)}
    /\ dirty' = dirty \ {Head(queue)}
    /\ pc' = [pc EXCEPT ![w] = "syncing"]
    /\ UNCHANGED <<shuttingDown, delayVars, failures>>

\* Mutant of SyncOK: Forget takes back one failure instead of all.
SyncOKDecrement(w) ==
    /\ pc[w] = "syncing"
    /\ failures' = [failures EXCEPT ![item[w]] = @ - 1]
    /\ pc' = [pc EXCEPT ![w] = "synced"]
    /\ UNCHANGED <<queueVars, delayVars, item>>

\* syncHandler returns nil: Forget.
SyncOK(w) ==
    /\ pc[w] = "syncing"
    /\ failures' = [failures EXCEPT ![item[w]] = 0]
    /\ pc' = [pc EXCEPT ![w] = "synced"]
    /\ UNCHANGED <<queueVars, delayVars, item>>

\* Mutant of SyncError: the error is returned without AddRateLimited.
SyncErrorDropped(w) ==
    /\ pc[w] = "syncing"
    /\ pc' = [pc EXCEPT ![w] = "failed"]
    /\ UNCHANGED <<queueVars, delayVars, failures, item>>

\* syncHandler returns an error: the key goes round through the limiter.
SyncError(w) ==
    /\ pc[w] = "syncing"
    /\ AddRateLimited(item[w])
    /\ pc' = [pc EXCEPT ![w] = "failed"]
    /\ UNCHANGED <<queueVars, waitingForQueue, item>>

\* Mutant of Done: a key made dirty meanwhile is not queued.
DoneWithoutPush(w) ==
    /\ pc[w] \in {"synced", "failed"}
    /\ processing' = processing \ {item[w]}
    /\ item' = [item EXCEPT ![w] = NoKey]
    /\ pc' = [pc EXCEPT ![w] = "ready"]
    /\ UNCHANGED <<queue, dirty, shuttingDown, delayVars, failures>>

\* The deferred Done: a key made dirty meanwhile goes back on the queue.
Done(w) ==
    /\ pc[w] \in {"synced", "failed"}
    /\ processing' = processing \ {item[w]}
    /\ item' = [item EXCEPT ![w] = NoKey]
    /\ LET free == [pc EXCEPT ![w] = "ready"]
       IN  IF item[w] \in dirty
           THEN Push(item[w], free)
           ELSE pc' = free /\ UNCHANGED queue
    /\ UNCHANGED <<dirty, shuttingDown, delayVars, failures>>

-----------------------------------------------------------------------------
WaitingLoop == ReceiveReady \/ ReceiveEarly \/ \E k \in Keys : Ripen(k)

Worker(w) ==
    GetWait(w) \/ GetShutdown(w) \/ Get(w) \/ SyncOK(w) \/ SyncError(w) \/ Done(w)

Next ==
    \/ \E k \in Keys : Enqueue(k)
    \/ WaitingLoop
    \/ ShutDown
    \/ \E w \in Workers : Worker(w)

\* Goroutines are scheduled fairly, timers expire, the channel is drained,
\* and a syncHandler that was called returns.
Fairness ==
    /\ WF_vars(ReceiveReady \/ ReceiveEarly)
    /\ \A k \in Keys : WF_vars(Ripen(k))
    /\ \A w \in Workers :
        /\ WF_vars(GetWait(w) \/ GetShutdown(w) \/ Get(w) \/ Done(w))
        /\ WF_vars(SyncOK(w) \/ SyncError(w))

Spec == Init /\ [][Next]_vars
FairSpec == Spec /\ Fairness

-----------------------------------------------------------------------------
(* What must hold.                                                         *)

\* The comment on Type.queue: every element of the queue is dirty and not
\* being processed.  No key is queued twice either.
QueueOrder ==
    /\ InSeq(queue) \subseteq dirty \ processing
    /\ \A i, j \in DOMAIN queue : queue[i] = queue[j] => i = j

\* A dirty key is never stranded: it is queued, or a worker holds it and
\* its Done will queue it.
DirtyIsScheduled == dirty \subseteq InSeq(queue) \cup processing

\* processing is exactly what the workers hold, and no two of them hold the
\* same key: syncHandler never runs twice at once for one object.
OneSyncPerKey ==
    /\ processing = {item[w] : w \in {v \in Workers : item[v] # NoKey}}
    /\ \A v, w \in Workers : item[v] = item[w] /\ item[v] # NoKey => v = w

\* The queue seen as a set of sync requests.
Pending == InSeq(waitingForAddCh) \cup waitingForQueue \cup dirty

Requests == INSTANCE SyncRequests WITH
    pending <- Pending,
    active <- item,
    failed <- {w \in Workers : pc[w] = "failed"},
    stopped <- shuttingDown

\* The queue and its workers implement the abstract specification: requests
\* are only lost to a shutdown, and a failed key is still asked for when its
\* worker lets go of it.
ImplementsRequests == Requests!Spec

\* Under fair scheduling every key that stays asked for is picked up again
\* and again, whatever the other keys do.
RequestsAreServed == Requests!Fairness
=============================================================================
