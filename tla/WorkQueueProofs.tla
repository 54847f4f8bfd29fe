--------------------------- MODULE WorkQueueProofs ---------------------------
(***************************************************************************)
(* Proofs about WorkQueue for every set of keys and workers and every      *)
(* capacity: the type invariant, the safety invariants of the queue, and   *)
(* that it implements SyncRequests.                                        *)
(***************************************************************************)
EXTENDS WorkQueue, TLAPS

\* A worker holds a key exactly between Get and Done.
HoldsBetweenGetAndDone ==
    \A w \in Workers : item[w] # NoKey <=> pc[w] \in {"syncing", "synced", "failed"}

\* A worker whose sync failed has seen to it that its key is asked for.
FailedIsPending ==
    \A w \in Workers : pc[w] = "failed" => shuttingDown \/ item[w] \in Pending

\* The inductive invariant.
IInv ==
    /\ TypeOK
    /\ QueueOrder
    /\ DirtyIsScheduled
    /\ OneSyncPerKey
    /\ HoldsBetweenGetAndDone
    /\ FailedIsPending

-----------------------------------------------------------------------------
(* Sequences.                                                              *)

Distinct(s) == \A i, j \in DOMAIN s : s[i] = s[j] => i = j

\* What Append adds to the elements of a sequence.
LEMMA InSeqAppend ==
    ASSUME NEW S, NEW s \in Seq(S), NEW e \in S
    PROVE  InSeq(Append(s, e)) = InSeq(s) \cup {e}
<1>1. InSeq(Append(s, e)) \subseteq InSeq(s) \cup {e}
    BY DEF InSeq
<1>2. InSeq(s) \subseteq InSeq(Append(s, e))
    BY DEF InSeq
<1>3. e \in InSeq(Append(s, e))
    <2>1. Len(s) + 1 \in DOMAIN Append(s, e) /\ Append(s, e)[Len(s) + 1] = e
        OBVIOUS
    <2> QED BY <2>1 DEF InSeq
<1> QED BY <1>1, <1>2, <1>3

\* Appending a new element keeps the elements distinct.
LEMMA DistinctAppend ==
    ASSUME NEW S, NEW s \in Seq(S), NEW e \in S, Distinct(s), e \notin InSeq(s)
    PROVE  Distinct(Append(s, e))
BY DEF Distinct, InSeq

\* Taking the head off a sequence of distinct elements.
LEMMA DistinctTail ==
    ASSUME NEW S, NEW s \in Seq(S), s # <<>>, Distinct(s)
    PROVE  /\ Head(s) \in S
           /\ Head(s) \in InSeq(s)
           /\ Tail(s) \in Seq(S)
           /\ Distinct(Tail(s))
           /\ InSeq(Tail(s)) = InSeq(s) \ {Head(s)}
<1>1. /\ Head(s) \in S
      /\ Tail(s) \in Seq(S)
      /\ Len(s) \in Nat \ {0}
      /\ Head(s) = s[1]
      /\ Len(Tail(s)) = Len(s) - 1
      /\ \A i \in 1..Len(s) - 1 : Tail(s)[i] = s[i + 1]
    OBVIOUS
<1>2. DOMAIN s = 1..Len(s) /\ DOMAIN Tail(s) = 1..Len(s) - 1
    BY <1>1
<1>3. Distinct(Tail(s))
    BY <1>1, <1>2 DEF Distinct
<1>4. InSeq(Tail(s)) \subseteq InSeq(s) \ {Head(s)}
    BY <1>1, <1>2 DEF Distinct, InSeq
<1>5. InSeq(s) \ {Head(s)} \subseteq InSeq(Tail(s))
    <2> SUFFICES ASSUME NEW i \in 1..Len(s), s[i] # s[1]
                 PROVE  s[i] \in InSeq(Tail(s))
        BY <1>1, <1>2 DEF InSeq
    <2>1. i - 1 \in 1..Len(s) - 1 /\ Tail(s)[i - 1] = s[i]
        BY <1>1
    <2> QED BY <2>1, <1>2 DEF InSeq
<1>6. Head(s) \in InSeq(s)
    BY <1>1, <1>2 DEF InSeq
<1> QED BY <1>1, <1>3, <1>4, <1>5, <1>6

\* Taking the head off any sequence.
LEMMA InSeqHeadTail ==
    ASSUME NEW S, NEW s \in Seq(S), s # <<>>
    PROVE  /\ Head(s) \in S
           /\ Tail(s) \in Seq(S)
           /\ InSeq(s) = InSeq(Tail(s)) \cup {Head(s)}
<1>1. /\ Head(s) \in S
      /\ Tail(s) \in Seq(S)
      /\ Len(s) \in Nat \ {0}
      /\ Head(s) = s[1]
      /\ Len(Tail(s)) = Len(s) - 1
      /\ \A i \in 1..Len(s) - 1 : Tail(s)[i] = s[i + 1]
    OBVIOUS
<1>2. DOMAIN s = 1..Len(s) /\ DOMAIN Tail(s) = 1..Len(s) - 1
    BY <1>1
<1>3. InSeq(Tail(s)) \cup {Head(s)} \subseteq InSeq(s)
    BY <1>1, <1>2 DEF InSeq
<1>4. InSeq(s) \subseteq InSeq(Tail(s)) \cup {Head(s)}
    <2> SUFFICES ASSUME NEW i \in 1..Len(s), i # 1
                 PROVE  s[i] \in InSeq(Tail(s))
        BY <1>1, <1>2 DEF InSeq
    <2>1. i - 1 \in 1..Len(s) - 1 /\ Tail(s)[i - 1] = s[i]
        BY <1>1
    <2> QED BY <2>1, <1>2 DEF InSeq
<1> QED BY <1>1, <1>3, <1>4

-----------------------------------------------------------------------------
(* The critical sections.                                                  *)

\* Signal only moves a worker from "asleep" to "ready".
LEMMA SignalWakesSleepers ==
    ASSUME NEW wk \in [Workers -> PCs], NEW new \in Signalled(wk)
    PROVE  /\ new \in [Workers -> PCs]
           /\ \A w \in Workers :
                new[w] = wk[w] \/ (wk[w] = "asleep" /\ new[w] = "ready")
BY DEF Signalled, PCs

\* Pushing a dirty key that is neither queued nor processed keeps the order.
LEMMA PushKeepsOrder ==
    ASSUME queue \in Seq(Keys), NEW k \in Keys, k \notin InSeq(queue),
           Distinct(queue), queue' = Append(queue, k)
    PROVE  /\ queue' \in Seq(Keys)
           /\ InSeq(queue') = InSeq(queue) \cup {k}
           /\ Distinct(queue')
<1>1. queue' \in Seq(Keys)
    OBVIOUS
<1>2. InSeq(queue') = InSeq(queue) \cup {k}
    BY InSeqAppend
<1>3. Distinct(queue')
    BY DistinctAppend
<1> QED BY <1>1, <1>2, <1>3

\* QueueOrder in terms of Distinct, in the current and in the next state.
LEMMA QueueOrderIsDistinct ==
    /\ QueueOrder <=> InSeq(queue) \subseteq dirty \ processing /\ Distinct(queue)
    /\ QueueOrder' <=> InSeq(queue') \subseteq dirty' \ processing' /\ Distinct(queue')
BY DEF QueueOrder, Distinct, InSeq

\* What Add does to the parts of the inductive invariant.
LEMMA AddKeepsIInv ==
    ASSUME IInv, NEW k \in Keys, Add(k),
           UNCHANGED <<processing, shuttingDown, item>>
    PROVE  /\ queue' \in Seq(Keys) /\ dirty' \subseteq Keys
           /\ pc' \in [Workers -> PCs]
           /\ QueueOrder' /\ DirtyIsScheduled' /\ OneSyncPerKey'
           /\ HoldsBetweenGetAndDone'
           /\ \A w \in Workers : pc'[w] = "failed" <=> pc[w] = "failed"
           /\ dirty' = IF shuttingDown THEN dirty ELSE dirty \cup {k}
<1> USE DEF IInv, TypeOK
<1>1. OneSyncPerKey'
    BY DEF OneSyncPerKey
<1>2. CASE (shuttingDown \/ k \in dirty) /\ UNCHANGED <<queue, dirty, pc>>
    BY <1>1, <1>2 DEF QueueOrder, DirtyIsScheduled, HoldsBetweenGetAndDone, InSeq
<1>3. CASE /\ ~shuttingDown /\ k \notin dirty /\ k \in processing
           /\ dirty' = dirty \cup {k}
           /\ UNCHANGED <<queue, pc>>
    <2>1. QueueOrder'
        BY <1>3 DEF QueueOrder
    <2>2. DirtyIsScheduled'
        BY <1>3 DEF DirtyIsScheduled
    <2> QED BY <1>1, <1>3, <2>1, <2>2 DEF HoldsBetweenGetAndDone
<1>4. CASE /\ ~shuttingDown /\ k \notin dirty /\ k \notin processing
           /\ dirty' = dirty \cup {k}
           /\ Push(k, pc)
    <2>1. k \notin InSeq(queue) /\ Distinct(queue) /\ InSeq(queue) \subseteq dirty \ processing
        BY <1>4, QueueOrderIsDistinct
    <2>2. queue' \in Seq(Keys) /\ InSeq(queue') = InSeq(queue) \cup {k} /\ Distinct(queue')
        BY <1>4, <2>1, PushKeepsOrder DEF Push
    <2>3. QueueOrder'
        BY <1>4, <2>1, <2>2, QueueOrderIsDistinct
    <2>4. DirtyIsScheduled'
        BY <1>4, <2>2 DEF DirtyIsScheduled
    <2>5. /\ pc' \in [Workers -> PCs]
          /\ \A w \in Workers :
                pc'[w] = pc[w] \/ (pc[w] = "asleep" /\ pc'[w] = "ready")
        BY <1>4, SignalWakesSleepers DEF Push
    <2>6. HoldsBetweenGetAndDone'
        BY <2>5 DEF HoldsBetweenGetAndDone
    <2> QED BY <1>1, <1>4, <2>2, <2>3, <2>4, <2>5, <2>6
<1> QED BY <1>2, <1>3, <1>4 DEF Add

\* AddRateLimited keeps the types, and the key is asked for afterwards
\* unless the queue is shutting down.
LEMMA AddRateLimitedKeepsTypes ==
    ASSUME TypeOK, NEW k \in Keys, AddRateLimited(k)
    PROVE  /\ failures' \in [Keys -> 0..MaxFailures]
           /\ waitingForAddCh' \in Seq(Keys)
           /\ InSeq(waitingForAddCh') =
                IF shuttingDown THEN InSeq(waitingForAddCh)
                ELSE InSeq(waitingForAddCh) \cup {k}
<1> USE DEF TypeOK, AddRateLimited
<1>1. failures' \in [Keys -> 0..MaxFailures]
    BY BoundsAssumption
<1>2. CASE shuttingDown
    BY <1>1, <1>2
<1>3. CASE ~shuttingDown
    <2>1. waitingForAddCh' = Append(waitingForAddCh, k)
        BY <1>3
    <2>2. InSeq(waitingForAddCh') = InSeq(waitingForAddCh) \cup {k}
        BY <2>1, InSeqAppend
    <2> QED BY <1>1, <1>3, <2>1, <2>2
<1> QED BY <1>2, <1>3

-----------------------------------------------------------------------------
(* The inductive invariant.                                                *)

\* The inductive invariant holds initially.
LEMMA InitIInv == Init => IInv
<1> SUFFICES ASSUME Init PROVE IInv
    OBVIOUS
<1> USE DEF Init
<1>1. TypeOK
    <2>1. 0 \in 0..MaxFailures
        BY BoundsAssumption
    <2>2. <<>> \in Seq(Keys)
        OBVIOUS
    <2>3. failures \in [Keys -> 0..MaxFailures]
        BY <2>1
    <2>4. pc \in [Workers -> PCs] /\ item \in [Workers -> Keys \cup {NoKey}]
        BY DEF PCs
    <2> QED BY <2>2, <2>3, <2>4, Zenon DEF TypeOK
<1>2. QueueOrder /\ DirtyIsScheduled
    BY DEF QueueOrder, DirtyIsScheduled, InSeq
<1>3. OneSyncPerKey /\ HoldsBetweenGetAndDone /\ FailedIsPending
    BY DEF OneSyncPerKey, HoldsBetweenGetAndDone, FailedIsPending
<1> QED BY <1>1, <1>2, <1>3 DEF IInv

\* Steps that leave the queue, the workers and their keys alone.
LEMMA EnqueueIInv ==
    ASSUME IInv, NEW k \in Keys, Enqueue(k)
    PROVE  IInv'
<1> USE DEF IInv, Enqueue, queueVars
<1>1. TypeOK'
    BY AddRateLimitedKeepsTypes DEF TypeOK
<1>2. QueueOrder' /\ DirtyIsScheduled' /\ OneSyncPerKey' /\ HoldsBetweenGetAndDone'
    BY DEF QueueOrder, DirtyIsScheduled, OneSyncPerKey, HoldsBetweenGetAndDone, InSeq
<1>3. FailedIsPending'
    BY AddRateLimitedKeepsTypes DEF FailedIsPending, Pending
<1> QED BY <1>1, <1>2, <1>3

\* waitingLoop's steps.
LEMMA ReceiveReadyIInv ==
    ASSUME IInv, ReceiveReady
    PROVE  IInv'
<1> DEFINE k == Head(waitingForAddCh)
<1>1. /\ k \in Keys
      /\ waitingForAddCh' \in Seq(Keys)
      /\ InSeq(waitingForAddCh) = InSeq(waitingForAddCh') \cup {k}
    BY InSeqHeadTail DEF IInv, TypeOK, ReceiveReady
<1>2. /\ queue' \in Seq(Keys) /\ dirty' \subseteq Keys
      /\ pc' \in [Workers -> PCs]
      /\ QueueOrder' /\ DirtyIsScheduled' /\ OneSyncPerKey'
      /\ HoldsBetweenGetAndDone'
      /\ \A w \in Workers : pc'[w] = "failed" <=> pc[w] = "failed"
      /\ dirty' = IF shuttingDown THEN dirty ELSE dirty \cup {k}
    BY <1>1, AddKeepsIInv DEF ReceiveReady
<1>3. TypeOK'
    BY <1>1, <1>2 DEF IInv, TypeOK, ReceiveReady
<1>4. FailedIsPending'
    BY <1>1, <1>2 DEF IInv, FailedIsPending, Pending, ReceiveReady
<1> QED BY <1>2, <1>3, <1>4 DEF IInv

\* An entry that is not due yet moves from the channel to the waiting ones.
LEMMA ReceiveEarlyIInv ==
    ASSUME IInv, ReceiveEarly
    PROVE  IInv'
<1> USE DEF IInv, ReceiveEarly, queueVars
<1>1. /\ Head(waitingForAddCh) \in Keys
      /\ waitingForAddCh' \in Seq(Keys)
      /\ InSeq(waitingForAddCh) = InSeq(waitingForAddCh') \cup {Head(waitingForAddCh)}
    BY InSeqHeadTail DEF TypeOK
<1>2. TypeOK'
    BY <1>1 DEF TypeOK
<1>3. QueueOrder' /\ DirtyIsScheduled' /\ OneSyncPerKey' /\ HoldsBetweenGetAndDone'
    BY DEF QueueOrder, DirtyIsScheduled, OneSyncPerKey, HoldsBetweenGetAndDone, InSeq
<1>4. FailedIsPending'
    BY <1>1 DEF FailedIsPending, Pending
<1> QED BY <1>2, <1>3, <1>4

\* An entry whose time has come is added to the queue.
LEMMA RipenIInv ==
    ASSUME IInv, NEW k \in Keys, Ripen(k)
    PROVE  IInv'
<1>1. /\ queue' \in Seq(Keys) /\ dirty' \subseteq Keys
      /\ pc' \in [Workers -> PCs]
      /\ QueueOrder' /\ DirtyIsScheduled' /\ OneSyncPerKey'
      /\ HoldsBetweenGetAndDone'
      /\ \A w \in Workers : pc'[w] = "failed" <=> pc[w] = "failed"
      /\ dirty' = IF shuttingDown THEN dirty ELSE dirty \cup {k}
    BY AddKeepsIInv DEF Ripen
<1>2. TypeOK'
    BY <1>1 DEF IInv, TypeOK, Ripen
<1>3. FailedIsPending'
    BY <1>1 DEF IInv, FailedIsPending, Pending, Ripen
<1> QED BY <1>1, <1>2, <1>3 DEF IInv

\* A shutdown only wakes sleepers.
LEMMA ShutDownIInv ==
    ASSUME IInv, ShutDown
    PROVE  IInv'
<1> USE DEF IInv, ShutDown, delayVars
<1>1. TypeOK'
    BY DEF TypeOK, PCs
<1>2. QueueOrder' /\ DirtyIsScheduled' /\ OneSyncPerKey'
    BY DEF QueueOrder, DirtyIsScheduled, OneSyncPerKey, InSeq
<1>3. HoldsBetweenGetAndDone' /\ FailedIsPending'
    BY DEF TypeOK, HoldsBetweenGetAndDone, FailedIsPending
<1> QED BY <1>1, <1>2, <1>3

\* A worker finds nothing and goes to sleep or exits.
LEMMA GetNothingIInv ==
    ASSUME IInv, NEW w \in Workers, GetWait(w) \/ GetShutdown(w)
    PROVE  IInv'
<1> USE DEF IInv, GetWait, GetShutdown, queueVars, delayVars
<1>1. TypeOK'
    BY DEF TypeOK, PCs
<1>2. QueueOrder' /\ DirtyIsScheduled' /\ OneSyncPerKey'
    BY DEF QueueOrder, DirtyIsScheduled, OneSyncPerKey, InSeq
<1>3. HoldsBetweenGetAndDone' /\ FailedIsPending'
    BY DEF TypeOK, HoldsBetweenGetAndDone, FailedIsPending, Pending
<1> QED BY <1>1, <1>2, <1>3

\* A worker takes the head of the queue.
LEMMA GetIInv ==
    ASSUME IInv, NEW w \in Workers, Get(w)
    PROVE  IInv'
<1> DEFINE k == Head(queue)
<1> USE DEF IInv, Get, delayVars
<1>1. /\ k \in Keys /\ k \in InSeq(queue)
      /\ queue' \in Seq(Keys)
      /\ Distinct(queue')
      /\ InSeq(queue') = InSeq(queue) \ {k}
      /\ InSeq(queue) \subseteq dirty \ processing
    BY DistinctTail, QueueOrderIsDistinct DEF TypeOK
<1>2. item[w] = NoKey /\ k # NoKey
    BY <1>1, NoKeyAssumption DEF HoldsBetweenGetAndDone
<1>3. TypeOK'
    BY <1>1 DEF TypeOK, PCs
<1>4. QueueOrder'
    BY <1>1, QueueOrderIsDistinct
<1>5. DirtyIsScheduled'
    BY <1>1 DEF DirtyIsScheduled
<1>6. \A v \in Workers : item'[v] = IF v = w THEN k ELSE item[v]
    BY DEF TypeOK
<1>7. OneSyncPerKey'
    <2>1. k \notin {item[v] : v \in {u \in Workers : item[u] # NoKey}}
        BY <1>1 DEF OneSyncPerKey
    <2>2. processing' = {item'[v] : v \in {u \in Workers : item'[u] # NoKey}}
        BY <1>2, <1>6 DEF OneSyncPerKey
    <2>3. \A v, u \in Workers : item'[v] = item'[u] /\ item'[v] # NoKey => v = u
        BY <1>2, <1>6, <2>1 DEF OneSyncPerKey
    <2> QED BY <2>2, <2>3 DEF OneSyncPerKey
<1>8. HoldsBetweenGetAndDone'
    BY <1>2, <1>6 DEF HoldsBetweenGetAndDone, TypeOK
<1>9. FailedIsPending'
    <2> SUFFICES ASSUME NEW v \in Workers, pc'[v] = "failed", ~shuttingDown
                 PROVE  item'[v] \in Pending'
        BY DEF FailedIsPending
    <2>1. v # w /\ pc[v] = "failed" /\ item'[v] = item[v]
        BY <1>6 DEF TypeOK
    <2>2. item[v] \in Pending /\ item[v] # k
        BY <1>1, <2>1 DEF FailedIsPending, HoldsBetweenGetAndDone, OneSyncPerKey
    <2> QED BY <2>1, <2>2 DEF Pending
<1> QED BY <1>3, <1>4, <1>5, <1>7, <1>8, <1>9

\* A successful sync only forgets failures.
LEMMA SyncOKIInv ==
    ASSUME IInv, NEW w \in Workers, SyncOK(w)
    PROVE  IInv'
<1> USE DEF IInv, SyncOK, queueVars, delayVars
<1>1. TypeOK'
    <2>1. 0 \in 0..MaxFailures
        BY BoundsAssumption
    <2> QED BY <2>1 DEF TypeOK, PCs
<1>2. QueueOrder' /\ DirtyIsScheduled' /\ OneSyncPerKey'
    BY DEF QueueOrder, DirtyIsScheduled, OneSyncPerKey, InSeq
<1>3. HoldsBetweenGetAndDone' /\ FailedIsPending'
    BY DEF TypeOK, HoldsBetweenGetAndDone, FailedIsPending, Pending
<1> QED BY <1>1, <1>2, <1>3

\* A failed sync puts the key into the channel.
LEMMA SyncErrorIInv ==
    ASSUME IInv, NEW w \in Workers, SyncError(w)
    PROVE  IInv'
<1> USE DEF IInv, SyncError, queueVars
<1>1. item[w] \in Keys
    BY DEF TypeOK, HoldsBetweenGetAndDone
<1>2. /\ failures' \in [Keys -> 0..MaxFailures]
      /\ waitingForAddCh' \in Seq(Keys)
      /\ InSeq(waitingForAddCh') =
            IF shuttingDown THEN InSeq(waitingForAddCh)
            ELSE InSeq(waitingForAddCh) \cup {item[w]}
    BY <1>1, AddRateLimitedKeepsTypes
<1>3. TypeOK'
    BY <1>2 DEF TypeOK, PCs
<1>4. QueueOrder' /\ DirtyIsScheduled' /\ OneSyncPerKey'
    BY DEF QueueOrder, DirtyIsScheduled, OneSyncPerKey, InSeq
<1>5. HoldsBetweenGetAndDone' /\ FailedIsPending'
    BY <1>2 DEF TypeOK, HoldsBetweenGetAndDone, FailedIsPending, Pending
<1> QED BY <1>3, <1>4, <1>5

\* A worker lets go of its key, which is queued if it is dirty.
LEMMA DoneIInv ==
    ASSUME IInv, NEW w \in Workers, Done(w)
    PROVE  IInv'
<1> DEFINE free == [pc EXCEPT ![w] = "ready"]
<1> USE DEF IInv, Done, delayVars
<1>1. item[w] \in Keys /\ item[w] \in processing
    BY DEF TypeOK, HoldsBetweenGetAndDone, OneSyncPerKey
<1>2. \A v \in Workers : item'[v] = IF v = w THEN NoKey ELSE item[v]
    BY DEF TypeOK
<1>3. free \in [Workers -> PCs]
    BY DEF TypeOK, PCs
<1>4. /\ queue' \in Seq(Keys)
      /\ Distinct(queue')
      /\ InSeq(queue') = InSeq(queue) \cup (dirty \cap {item[w]})
      /\ pc' \in [Workers -> PCs]
      /\ \A v \in Workers :
            pc'[v] = free[v] \/ (free[v] = "asleep" /\ pc'[v] = "ready")
    <2>1. CASE item[w] \in dirty
        <3>1. Push(item[w], free)
            BY <2>1
        <3>2. item[w] \notin InSeq(queue) /\ Distinct(queue)
            BY <1>1, QueueOrderIsDistinct
        <3>3. /\ queue' \in Seq(Keys)
              /\ Distinct(queue')
              /\ InSeq(queue') = InSeq(queue) \cup {item[w]}
            BY <1>1, <3>1, <3>2, PushKeepsOrder DEF Push, TypeOK
        <3>4. /\ pc' \in [Workers -> PCs]
              /\ \A v \in Workers :
                    pc'[v] = free[v] \/ (free[v] = "asleep" /\ pc'[v] = "ready")
            BY <1>3, <3>1, SignalWakesSleepers DEF Push
        <3> QED BY <2>1, <3>3, <3>4
    <2>2. CASE item[w] \notin dirty
        BY <1>3, <2>2, QueueOrderIsDistinct DEF TypeOK
    <2> QED BY <2>1, <2>2
<1>5. TypeOK'
    BY <1>4 DEF TypeOK
<1>6. QueueOrder'
    BY <1>4, QueueOrderIsDistinct
<1>7. DirtyIsScheduled'
    BY <1>4 DEF DirtyIsScheduled
<1>8. OneSyncPerKey'
    <2>1. \A v \in Workers : item[v] = item[w] => v = w
        BY <1>1, NoKeyAssumption DEF OneSyncPerKey
    <2>2. processing' = {item'[v] : v \in {u \in Workers : item'[u] # NoKey}}
        BY <1>2, <2>1 DEF OneSyncPerKey
    <2>3. \A v, u \in Workers : item'[v] = item'[u] /\ item'[v] # NoKey => v = u
        BY <1>2 DEF OneSyncPerKey
    <2> QED BY <2>2, <2>3 DEF OneSyncPerKey
<1>9. \A v \in Workers \ {w} : free[v] = pc[v]
    BY DEF TypeOK
<1>10. free[w] = "ready"
    BY DEF TypeOK
<1>11. HoldsBetweenGetAndDone'
    BY <1>2, <1>4, <1>9, <1>10 DEF HoldsBetweenGetAndDone
<1>12. FailedIsPending'
    BY <1>2, <1>4, <1>9, <1>10 DEF FailedIsPending, Pending
<1> QED BY <1>5, <1>6, <1>7, <1>8, <1>11, <1>12

\* Every step preserves the inductive invariant.
LEMMA NextIInv == IInv /\ [Next]_vars => IInv'
<1> SUFFICES ASSUME IInv, [Next]_vars PROVE IInv'
    OBVIOUS
<1>1. ASSUME NEW k \in Keys, Enqueue(k) PROVE IInv'
    BY <1>1, EnqueueIInv
<1>2. ASSUME NEW k \in Keys, Ripen(k) PROVE IInv'
    BY <1>2, RipenIInv
<1>3. CASE ReceiveReady \/ ReceiveEarly \/ ShutDown
    BY <1>3, ReceiveReadyIInv, ReceiveEarlyIInv, ShutDownIInv
<1>4. ASSUME NEW w \in Workers, Worker(w) PROVE IInv'
    BY <1>4, GetNothingIInv, GetIInv, SyncOKIInv, SyncErrorIInv, DoneIInv DEF Worker
<1>5. CASE UNCHANGED vars
    <2> USE <1>5 DEF vars, queueVars, delayVars, IInv
    <2>1. TypeOK'
        BY DEF TypeOK
    <2>2. QueueOrder' /\ DirtyIsScheduled' /\ OneSyncPerKey'
        BY DEF QueueOrder, DirtyIsScheduled, OneSyncPerKey, InSeq
    <2>3. HoldsBetweenGetAndDone' /\ FailedIsPending'
        BY DEF HoldsBetweenGetAndDone, FailedIsPending, Pending
    <2> QED BY <2>1, <2>2, <2>3
<1> QED BY <1>1, <1>2, <1>3, <1>4, <1>5 DEF Next, WaitingLoop

\* The inductive invariant holds in every reachable state.
LEMMA SpecIInv == Spec => []IInv
BY InitIInv, NextIInv, PTL DEF Spec

-----------------------------------------------------------------------------
(* The invariants.                                                         *)

\* Every variable of the queue keeps its type.
THEOREM TypeCorrect == Spec => []TypeOK
BY SpecIInv, PTL DEF IInv

\* The queue holds dirty keys that nobody processes, each once.
THEOREM QueueOrderHolds == Spec => []QueueOrder
BY SpecIInv, PTL DEF IInv

\* A dirty key is always queued or held by a worker.
THEOREM DirtyIsScheduledHolds == Spec => []DirtyIsScheduled
BY SpecIInv, PTL DEF IInv

\* No two workers sync one object at the same time.
THEOREM OneSyncPerKeyHolds == Spec => []OneSyncPerKey
BY SpecIInv, PTL DEF IInv
-----------------------------------------------------------------------------
(* Refinement.                                                             *)

Failed == {w \in Workers : pc[w] = "failed"}

\* The initial states are initial states of SyncRequests.
LEMMA InitRefines == Init => Requests!Init
BY DEF Init, Requests!Init, Pending, InSeq

\* An event handler's request, or none if the queue is shutting down.
LEMMA EnqueueRefines ==
    ASSUME IInv, NEW k \in Keys, Enqueue(k)
    PROVE  Requests!Next \/ UNCHANGED Requests!vars
<1> USE DEF Enqueue, queueVars
<1>1. Pending' = IF shuttingDown THEN Pending ELSE Pending \cup {k}
    BY AddRateLimitedKeepsTypes DEF IInv, Pending
<1>2. CASE shuttingDown
    BY <1>1, <1>2 DEF Requests!vars
<1>3. CASE ~shuttingDown
    BY <1>1, <1>3, Zenon DEF Requests!Next, Requests!Request
<1> QED BY <1>2, <1>3

\* Steps of waitingLoop move a request along, or drop it at shutdown.
LEMMA WaitingLoopRefines ==
    ASSUME IInv, WaitingLoop
    PROVE  Requests!Next \/ UNCHANGED Requests!vars
<1> DEFINE Moved == /\ UNCHANGED <<item, shuttingDown, Failed>>
                    /\ \/ Pending' = Pending
                       \/ shuttingDown /\ \E k \in Keys : Pending' = Pending \ {k}
<1>1. SUFFICES Moved
    <2>1. CASE Pending' = Pending /\ UNCHANGED <<item, shuttingDown, Failed>>
        BY <2>1 DEF Requests!vars, Failed
    <2>2. CASE /\ shuttingDown /\ UNCHANGED <<item, shuttingDown, Failed>>
               /\ \E k \in Keys : Pending' = Pending \ {k}
        BY <2>2, Zenon DEF Requests!Next, Requests!Drop, Failed
    <2> QED BY <2>1, <2>2
<1>2. ASSUME ReceiveReady PROVE Moved
    <2> DEFINE k == Head(waitingForAddCh)
    <2>1. k \in Keys /\ InSeq(waitingForAddCh) = InSeq(waitingForAddCh') \cup {k}
        BY <1>2, InSeqHeadTail DEF IInv, TypeOK, ReceiveReady
    <2>2. /\ \A w \in Workers : pc'[w] = "failed" <=> pc[w] = "failed"
          /\ dirty' = IF shuttingDown THEN dirty ELSE dirty \cup {k}
        BY <1>2, <2>1, AddKeepsIInv DEF ReceiveReady
    <2>3. UNCHANGED <<item, shuttingDown, Failed>>
        BY <1>2, <2>2 DEF ReceiveReady, Failed
    <2>4. Pending' = Pending \/ (shuttingDown /\ Pending' = Pending \ {k})
        BY <1>2, <2>1, <2>2 DEF Pending, ReceiveReady
    <2> QED BY <2>1, <2>3, <2>4
<1>3. ASSUME ReceiveEarly PROVE Moved
    <2>1. InSeq(waitingForAddCh) = InSeq(waitingForAddCh') \cup {Head(waitingForAddCh)}
        BY <1>3, InSeqHeadTail DEF IInv, TypeOK, ReceiveEarly
    <2>2. Pending' = Pending
        BY <1>3, <2>1 DEF Pending, ReceiveEarly, queueVars
    <2>3. UNCHANGED <<item, shuttingDown, Failed>>
        BY <1>3 DEF ReceiveEarly, queueVars, Failed
    <2> QED BY <2>2, <2>3
<1>4. ASSUME NEW k \in Keys, Ripen(k) PROVE Moved
    <2>1. /\ \A w \in Workers : pc'[w] = "failed" <=> pc[w] = "failed"
          /\ dirty' = IF shuttingDown THEN dirty ELSE dirty \cup {k}
        BY <1>4, AddKeepsIInv DEF Ripen
    <2>2. UNCHANGED <<item, shuttingDown, Failed>>
        BY <1>4, <2>1 DEF Ripen, Failed
    <2>3. Pending' = Pending \/ (shuttingDown /\ Pending' = Pending \ {k})
        <3>1. InSeq(waitingForAddCh') = InSeq(waitingForAddCh)
            BY <1>4 DEF Ripen, InSeq
        <3> QED BY <1>4, <2>1, <3>1 DEF Pending, Ripen
    <2> QED BY <2>2, <2>3
<1> QED BY <1>2, <1>3, <1>4 DEF WaitingLoop

\* A shutdown is a Stop.
LEMMA ShutDownRefines ==
    ASSUME IInv, ShutDown
    PROVE  Requests!Next
<1>1. Pending' = Pending
    BY DEF ShutDown, delayVars, Pending, InSeq
<1>2. Failed' = Failed
    BY DEF IInv, TypeOK, ShutDown, Failed
<1> QED BY <1>1, <1>2, Zenon DEF Requests!Next, Requests!Stop, ShutDown, Failed

\* A worker picks a key up, fails on it, or lets go of it; its other steps
\* are not seen.
LEMMA WorkerRefines ==
    ASSUME IInv, NEW w \in Workers, Worker(w)
    PROVE  Requests!Next \/ UNCHANGED Requests!vars
<1> USE DEF IInv
<1>1. CASE GetWait(w) \/ GetShutdown(w) \/ SyncOK(w)
    <2>1. Pending' = Pending
        BY <1>1 DEF GetWait, GetShutdown, SyncOK, queueVars, delayVars, Pending, InSeq
    <2>2. Failed' = Failed
        BY <1>1 DEF GetWait, GetShutdown, SyncOK, Failed, TypeOK
    <2> QED BY <1>1, <2>1, <2>2
        DEF GetWait, GetShutdown, SyncOK, queueVars, Requests!vars, Failed
<1>2. CASE Get(w)
    <2> DEFINE k == Head(queue)
    <2>1. k \in Keys /\ k \in dirty \ processing
        BY <1>2, DistinctTail, QueueOrderIsDistinct DEF TypeOK, Get
    <2>2. item[w] = NoKey /\ \A v \in Workers : item[v] # k
        BY <1>2, <2>1, NoKeyAssumption DEF Get, HoldsBetweenGetAndDone, OneSyncPerKey
    <2>3. k \in Pending /\ Pending' \in {Pending, Pending \ {k}}
        BY <1>2, <2>1 DEF Get, delayVars, Pending, InSeq
    <2>4. Failed' = Failed
        BY <1>2 DEF Get, Failed, TypeOK
    <2>5. Requests!Start(w, k)
        BY <1>2, <2>2, <2>3, <2>4 DEF Requests!Start, Get, Failed
    <2> QED BY <2>1, <2>5, Zenon DEF Requests!Next
<1>3. CASE SyncError(w)
    <2>1. item[w] \in Keys /\ item[w] # NoKey
        BY <1>3 DEF SyncError, TypeOK, HoldsBetweenGetAndDone
    <2>2. Pending' = IF shuttingDown THEN Pending ELSE Pending \cup {item[w]}
        BY <1>3, <2>1, AddRateLimitedKeepsTypes DEF SyncError, queueVars, Pending
    <2>3. w \notin Failed /\ Failed' = Failed \cup {w}
        BY <1>3 DEF SyncError, Failed, TypeOK
    <2>4. Requests!Fail(w)
        BY <1>3, <2>1, <2>2, <2>3 DEF Requests!Fail, SyncError, queueVars, Failed
    <2> QED BY <2>4, Zenon DEF Requests!Next
<1>4. CASE Done(w)
    <2> DEFINE free == [pc EXCEPT ![w] = "ready"]
    <2>1. Pending' = Pending
        BY <1>4 DEF Done, delayVars, Pending, InSeq
    <2>2. \A v \in Workers : pc'[v] = free[v] \/ (free[v] = "asleep" /\ pc'[v] = "ready")
        <3>1. free \in [Workers -> PCs]
            BY DEF TypeOK, PCs
        <3> QED BY <1>4, <3>1, SignalWakesSleepers DEF Done, Push
    <2>3. Failed' = Failed \ {w}
        BY <2>2 DEF Failed, TypeOK
    <2>4. item[w] # NoKey /\ (w \in Failed => shuttingDown \/ item[w] \in Pending)
        BY <1>4 DEF Done, HoldsBetweenGetAndDone, FailedIsPending, Failed
    <2>5. Requests!Release(w)
        BY <1>4, <2>1, <2>3, <2>4 DEF Requests!Release, Done, Failed
    <2> QED BY <2>5, Zenon DEF Requests!Next
<1> QED BY <1>1, <1>2, <1>3, <1>4 DEF Worker

\* Every step is a step or a stutter of SyncRequests.
LEMMA NextRefines == IInv /\ [Next]_vars => [Requests!Next]_Requests!vars
<1> SUFFICES ASSUME IInv, [Next]_vars
             PROVE  Requests!Next \/ UNCHANGED Requests!vars
    OBVIOUS
<1>1. CASE Next
    BY <1>1, EnqueueRefines, WaitingLoopRefines, ShutDownRefines, WorkerRefines DEF Next
<1>2. CASE UNCHANGED vars
    BY <1>2 DEF vars, queueVars, delayVars, Requests!vars, Pending, InSeq
<1> QED BY <1>1, <1>2

\* The queue and its workers implement SyncRequests: a request is only lost
\* to a shutdown, no key is synced twice at once, and a key whose sync failed
\* is still asked for when its worker moves on.
THEOREM Implementation == Spec => ImplementsRequests
<1>1. Init => Requests!Init
    BY InitRefines
<1>2. IInv /\ [Next]_vars => [Requests!Next]_Requests!vars
    BY NextRefines
<1> QED BY <1>1, <1>2, SpecIInv, PTL DEF Spec, ImplementsRequests, Requests!Spec
=============================================================================
