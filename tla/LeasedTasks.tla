----------------------------- MODULE LeasedTasks -----------------------------
(***************************************************************************)
(* What the task engine promises its clients, without queue, pool, RPC or  *)
(* events: an apply takes every lease it needs and writes its intent in    *)
(* one step; the task may start; it ends once, giving its leases back and, *)
(* unless it succeeded, the values its intent replaced.                    *)
(***************************************************************************)
CONSTANTS Task, Resource, NoTask, Requests

VARIABLES
    state,    \* none, queued, running or one of the four terminal states
    res,      \* the resources of each task
    prior,    \* the values its intent replaced
    lease,    \* the holder of each resource
    desired   \* the task whose intent each desired row carries

vars == <<state, res, prior, lease, desired>>

Terminal == {"success", "failed", "cancelled", "requires_manual_recovery"}
Live     == {"queued", "running"}

Init ==
    /\ state = [t \in Task |-> "none"]
    /\ res = [t \in Task |-> {}]
    /\ prior = [t \in Task |-> [r \in Resource |-> NoTask]]
    /\ lease = [r \in Resource |-> NoTask]
    /\ desired = [r \in Resource |-> NoTask]

\* A client's apply: all leases, the intent and the queued row, or nothing.
Submit(t, rs) ==
    /\ state[t] = "none"
    /\ \A r \in rs : lease[r] = NoTask
    /\ state' = [state EXCEPT ![t] = "queued"]
    /\ res' = [res EXCEPT ![t] = rs]
    /\ prior' = [prior EXCEPT ![t] = [r \in Resource |-> IF r \in rs THEN desired[r] ELSE NoTask]]
    /\ lease' = [r \in Resource |-> IF r \in rs THEN t ELSE lease[r]]
    /\ desired' = [r \in Resource |-> IF r \in rs THEN t ELSE desired[r]]

Start(t) ==
    /\ state[t] = "queued"
    /\ state' = [state EXCEPT ![t] = "running"]
    /\ UNCHANGED <<res, prior, lease, desired>>

\* Only a running task succeeds; a live task may fail or be cancelled.
Finish(t, final) ==
    /\ state[t] \in Live
    /\ final = "success" => state[t] = "running"
    /\ state' = [state EXCEPT ![t] = final]
    /\ lease' = [r \in Resource |-> IF lease[r] = t THEN NoTask ELSE lease[r]]
    /\ desired' = IF final = "success" THEN desired
                  ELSE [r \in Resource |-> IF r \in res[t] THEN prior[t][r] ELSE desired[r]]
    /\ UNCHANGED <<res, prior>>

Next == \E t \in Task :
            \/ \E rs \in Requests[t] : Submit(t, rs)
            \/ Start(t)
            \/ \E final \in Terminal : Finish(t, final)

Spec == Init /\ [][Next]_vars
==============================================================================
