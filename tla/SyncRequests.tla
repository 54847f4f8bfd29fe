---------------------------- MODULE SyncRequests ----------------------------
(***************************************************************************)
(* What the controllers rely on when they hand a key to their work queue,  *)
(* without any of the queue's machinery: a key asked for is synced later   *)
(* by some worker, one worker at a time, and a sync that failed leaves the *)
(* key asked for when its worker moves on.  WorkQueue is shown to          *)
(* implement this specification.                                           *)
(***************************************************************************)
CONSTANTS
    Keys,       \* namespace/name strings of the watched objects
    Workers,    \* goroutines running runWorker
    NoKey       \* what a worker holds between two keys; not a key

VARIABLES
    pending,    \* keys asked for and not yet picked up
    active,     \* the key each worker is syncing, or NoKey
    failed,     \* workers whose current sync has returned an error
    stopped     \* the queue has been shut down

vars == <<pending, active, failed, stopped>>

TypeOK ==
    /\ pending \subseteq Keys
    /\ active \in [Workers -> Keys \cup {NoKey}]
    /\ failed \subseteq Workers
    /\ stopped \in BOOLEAN

Init ==
    /\ pending = {}
    /\ active = [w \in Workers |-> NoKey]
    /\ failed = {}
    /\ stopped = FALSE

\* An event handler asks for k.
Request(k) ==
    /\ ~stopped
    /\ pending' = pending \cup {k}
    /\ UNCHANGED <<active, failed, stopped>>

\* Worker w picks k up.  Requests made since the previous pick-up may be
\* served together or one of them may stay behind.
Start(w, k) ==
    /\ active[w] = NoKey
    /\ k \in pending
    /\ \A v \in Workers : active[v] # k
    /\ active' = [active EXCEPT ![w] = k]
    /\ pending' \in {pending, pending \ {k}}
    /\ UNCHANGED <<failed, stopped>>

\* The sync of w's key returns an error and the key is asked for again.
Fail(w) ==
    /\ active[w] # NoKey
    /\ w \notin failed
    /\ failed' = failed \cup {w}
    /\ pending' = IF stopped THEN pending ELSE pending \cup {active[w]}
    /\ UNCHANGED <<active, stopped>>

\* w lets go of its key; a failed one must still be asked for.
Release(w) ==
    /\ active[w] # NoKey
    /\ w \in failed => stopped \/ active[w] \in pending
    /\ active' = [active EXCEPT ![w] = NoKey]
    /\ failed' = failed \ {w}
    /\ UNCHANGED <<pending, stopped>>

Stop ==
    /\ stopped' = TRUE
    /\ UNCHANGED <<pending, active, failed>>

\* Only a stopped queue forgets what it was asked for.
Drop(k) ==
    /\ stopped
    /\ pending' = pending \ {k}
    /\ UNCHANGED <<active, failed, stopped>>

Next ==
    \/ Stop
    \/ \E k \in Keys : Request(k) \/ Drop(k)
    \/ \E w \in Workers : Fail(w) \/ Release(w)
    \/ \E w \in Workers, k \in Keys : Start(w, k)

\* No key that can be picked up again and again is passed over for ever.
Fairness == \A k \in Keys : SF_vars(~stopped /\ \E w \in Workers : Start(w, k))

Spec == Init /\ [][Next]_vars
FairSpec == Spec /\ Fairness
=============================================================================
