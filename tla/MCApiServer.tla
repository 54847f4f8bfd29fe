----------------------------- MODULE MCApiServer -----------------------------
(* An instance of ApiServer for TLC. *)
EXTENDS ApiServer

MCFields == {"health", "markedForDeletion", "dgsState", "activePlayers", "podPhase"}
MCValues == {"Creating", "Healthy", "Pending", "Running", "Idle", "Assigned",
             "true", "false", "0", "1"}
MCInitialStatus ==
    [f \in MCFields |-> CASE f = "health" -> "Creating"
                          [] f = "markedForDeletion" -> "false"
                          [] f = "dgsState" -> "Idle"
                          [] f = "activePlayers" -> "0"
                          [] f = "podPhase" -> "Pending"]

\* The second container of Unlimited has no limits.
Full == [requests |-> TRUE, limits |-> TRUE]
Limited == [containers |-> <<Full>>, affinity |-> "none"]
Unlimited == [containers |-> <<Full, [Full EXCEPT !.limits = FALSE]>>, affinity |-> "own"]
MCTemplates == {Limited, Unlimited}

Post(field, value, body) ==
    [kind |-> "set", name |-> 1, field |-> field, value |-> value,
     codeIsRight |-> TRUE, body |-> body]

\* One post that takes effect, which races with what others change in the
\* same DGS, and two that do not.
MCCalls ==
    {Post("health", "Healthy", "good"), Post("markedForDeletion", "true", "garbled"),
     [Post("health", "Creating", "wrong") EXCEPT !.codeIsRight = FALSE],
     [kind |-> "running", codeIsRight |-> TRUE],
     [kind |-> "create", name |-> 1, template |-> Limited, codeIsRight |-> TRUE, body |-> "good"],
     [kind |-> "create", name |-> 1, template |-> Unlimited, codeIsRight |-> TRUE, body |-> "good"],
     [kind |-> "delete", name |-> 1, codeIsRight |-> TRUE],
     [kind |-> "healthz"]}
=============================================================================
