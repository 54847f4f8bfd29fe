------------------------------ MODULE PortPool ------------------------------
(***************************************************************************)
(* What the callers of GetNewPort rely on, without ring, scan or channels: *)
(* a pool of ports.  Each call is owed one answer, and no answer is made   *)
(* that no call is owed; a port is granted when it is free and taken from  *)
(* then on; a call is refused only on the strength of a look at the pool,  *)
(* taken since the last answer, that found every port taken; and whoever   *)
(* waits receives the answers in the order in which they were made.        *)
(* PortRegistry is shown to implement this specification.                  *)
(***************************************************************************)
EXTENDS Integers, Sequences

CONSTANTS
    Callers,
    Ports,      \* the ports of the pool
    Refusal     \* the answer when there is none; not a port

VARIABLES
    taken,      \* ports that are not free
    owed,       \* calls that no answer has been made for
    seen,       \* what was taken at the last look, until it is used
    answers,    \* answers made and not yet received
    calling,    \* callers that wait for an answer
    held        \* ports each caller has got

vars == <<taken, owed, seen, answers, calling, held>>

Init ==
    /\ taken \subseteq Ports
    /\ owed = 0
    /\ seen = {}
    /\ answers = <<>>
    /\ calling = {}
    /\ held = [c \in Callers |-> {}]

Call(c) ==
    /\ c \notin calling
    /\ calling' = calling \cup {c}
    /\ owed' = owed + 1
    /\ UNCHANGED <<taken, seen, answers, held>>

Look ==
    /\ owed > 0
    /\ seen' = taken
    /\ UNCHANGED <<taken, owed, answers, calling, held>>

Answer(a) ==
    /\ owed > 0
    /\ owed' = owed - 1
    /\ answers' = Append(answers, a)
    /\ seen' = {}
    /\ UNCHANGED <<calling, held>>

Grant(p) ==
    /\ p \notin taken
    /\ taken' = taken \cup {p}
    /\ Answer(p)

Refuse ==
    /\ Ports \subseteq seen
    /\ Answer(Refusal)
    /\ UNCHANGED taken

\* The oldest answer goes to any caller that waits.
Receive(c) ==
    /\ c \in calling
    /\ answers # <<>>
    /\ answers' = Tail(answers)
    /\ calling' = calling \ {c}
    /\ held' = [held EXCEPT ![c] = @ \cup ({Head(answers)} \ {Refusal})]
    /\ UNCHANGED <<taken, owed, seen>>

GiveBack(c, p) ==
    /\ held' = [held EXCEPT ![c] = @ \ {p}]
    /\ taken' = taken \ {p}
    /\ UNCHANGED <<owed, seen, answers, calling>>

Next ==
    \/ Look
    \/ \E p \in Ports : Grant(p)
    \/ Refuse
    \/ \E c \in Callers : Call(c) \/ Receive(c) \/ \E p \in held[c] : GiveBack(c, p)

Spec == Init /\ [][Next]_vars
=============================================================================
