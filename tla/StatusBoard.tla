----------------------------- MODULE StatusBoard -----------------------------
(***************************************************************************)
(* What the API server promises to game servers and matchmakers, without   *)
(* its access code, its retries, its webhook and its shutdown: a call      *)
(* takes effect at one moment between the request and the answer, it       *)
(* changes nothing but what it names, and the answer tells what happened   *)
(* as far as the server can know.  ApiServer is shown to implement it.     *)
(***************************************************************************)
CONSTANTS
    Clients,        \* callers, each with one call at a time
    Names,          \* names of DGSs
    Collections,    \* names of collections
    Fields,         \* fields of a DGS's status
    Values,         \* what they hold
    Calls,          \* what can be called
    None            \* no call, no DGS

VARIABLES
    board,          \* the status of each DGS, or None
    collections,    \* the collections that exist
    asked,          \* the call each client waits for, or None
    answer,         \* the status code it is to get, or 0
    listed          \* and the DGSs

vars == <<board, collections, asked, answer, listed>>

Statuses == [Fields -> Values]

Ready ==
    {n \in Names : /\ board[n] # None
                   /\ board[n]["health"] = "Healthy"
                   /\ board[n]["podPhase"] = "Running"
                   /\ board[n]["markedForDeletion"] = "false"}

Init ==
    /\ board = [n \in Names |-> None]
    /\ collections = {}
    /\ asked = [c \in Clients |-> None]
    /\ answer = [c \in Clients |-> 0]
    /\ listed = [c \in Clients |-> {}]

Ask(c, k) ==
    /\ asked[c] = None
    /\ asked' = [asked EXCEPT ![c] = k]
    /\ answer' = [answer EXCEPT ![c] = IF k.kind = "healthz" THEN 200 ELSE 0]
    /\ UNCHANGED <<board, collections, listed>>

\* The only thing that a call for one field changes is that field.
Set(k) ==
    /\ k.kind = "set" /\ board[k.name] # None
    /\ board' = [board EXCEPT ![k.name][k.field] = k.value]
    /\ UNCHANGED <<collections, listed>>

List(c, k) ==
    /\ k.kind = "running"
    /\ listed' = [listed EXCEPT ![c] = Ready]
    /\ UNCHANGED <<board, collections>>

Create(k) ==
    /\ k.kind = "create" /\ k.name \notin collections
    /\ collections' = collections \cup {k.name}
    /\ UNCHANGED <<board, listed>>

Delete(k) ==
    /\ k.kind = "delete" /\ k.name \in collections
    /\ collections' = collections \ {k.name}
    /\ UNCHANGED <<board, listed>>

\* A call takes effect once, and that settles its answer: 200 or, when it is
\* not known whether it did, 500.
TakeEffect(c) ==
    /\ asked[c] # None /\ answer[c] = 0
    /\ Set(asked[c]) \/ List(c, asked[c]) \/ Create(asked[c]) \/ Delete(asked[c])
    /\ answer' \in {[answer EXCEPT ![c] = 200], [answer EXCEPT ![c] = 500]}
    /\ UNCHANGED asked

\* A call that has no effect is not answered with 200, except /create and
\* /delete, which say so either way.
HasNoEffect(c, code) ==
    /\ asked[c] # None /\ answer[c] = 0
    /\ code = 200 => asked[c].kind \in {"create", "delete"}
    /\ answer' = [answer EXCEPT ![c] = code]
    /\ UNCHANGED <<board, collections, asked, listed>>

\* Clients get their answers, or lose their connections.
End(cs) ==
    /\ asked' = [c \in Clients |-> IF c \in cs THEN None ELSE asked[c]]
    /\ answer' = [c \in Clients |-> IF c \in cs THEN 0 ELSE answer[c]]
    /\ listed' = [c \in Clients |-> IF c \in cs THEN {} ELSE listed[c]]
    /\ UNCHANGED <<board, collections>>

\* Controllers report pods, mark DGSs for deletion, create and delete DGSs.
OthersChange(n) ==
    /\ \/ /\ board[n] = None
          /\ board'[n] \in Statuses
          /\ board' = [board EXCEPT ![n] = board'[n]]
       \/ board' = [board EXCEPT ![n] = None]
       \/ /\ board[n] # None
          /\ board'[n] # None /\ board'[n]["podPhase"] \in Values
          /\ board' = [board EXCEPT ![n]["podPhase"] = board'[n]["podPhase"]]
       \/ /\ board[n] # None
          /\ board' = [board EXCEPT ![n]["markedForDeletion"] = "true"]
    /\ UNCHANGED <<collections, asked, answer, listed>>

OthersCreateOrDelete(l) ==
    /\ collections' \in {collections \cup {l}, collections \ {l}}
    /\ UNCHANGED <<board, asked, answer, listed>>

Next ==
    \/ \E c \in Clients, k \in Calls : Ask(c, k)
    \/ \E c \in Clients : TakeEffect(c)
    \/ \E c \in Clients, code \in {200, 400, 401, 500} : HasNoEffect(c, code)
    \/ \E cs \in SUBSET Clients : End(cs)
    \/ \E n \in Names : OthersChange(n)
    \/ \E l \in Collections : OthersCreateOrDelete(l)

Spec == Init /\ [][Next]_vars
=============================================================================
