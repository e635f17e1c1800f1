-------------------------- MODULE TaskEngineClaims --------------------------
(***************************************************************************)
(* Statements about the task engine that go beyond one state: the abstract *)
(* specification it implements, and what must eventually happen.           *)
(***************************************************************************)
EXTENDS TaskEngine

\* The faults after which leases, intent and state may come apart: a call the
\* api gave up, an api crash between two transactions, an expired lease.
Splitting == {"apiCrash", "expiry", "timeout"}

\* Up to the first of those faults the engine implements LeasedTasks: leases,
\* intent and state move together, once.
Promise == INSTANCE LeasedTasks
             WITH Task <- Task, Resource <- Resource, NoTask <- NoTask, Requests <- Requests,
                  state <- state, res <- res, prior <- prior, lease <- lease, desired <- desired
ImplementsLeasedTasks ==
    Promise!Init /\ [][Promise!Next \/ ~Clean(Splitting)']_(Promise!vars)

-----------------------------------------------------------------------------
(***************************************************************************)
(* Fairness: neither event loop stops while it has work, and systemd       *)
(* restarts both processes.  RPC replies, a started reconcile pass, the    *)
(* lease timer and the heartbeat probe (an interval timer) are callbacks of*)
(* the api; begins and the stage loop are the agent's; an event in the     *)
(* publisher is retried until the api answers.  Nothing makes a client act,*)
(* a fault happen, or the tracker notice an agent that is back already.    *)
(***************************************************************************)
ApiWork ==
    \/ \E t \in Task : DispatchAccepted(t) \/ DispatchRejected(t)
    \/ ApiStart \/ HeartbeatBack \/ ReconcileWalk \/ ReconcileUnreachable
    \/ ReapLeases

AgentWork ==
    \/ \E t \in Task : \/ AgentBegin(t) \/ AgentBeginStale(t) \/ AgentStage(t)
                       \/ \E status \in Terminal : AgentEnd(t, status)
    \/ AgentStart

Publishing == \E t \in Task : Deliver(t)

Fairness == WF_vars(ApiWork) /\ WF_vars(AgentWork) /\ WF_vars(Publishing)

FairSpec == Spec /\ Fairness

\* Every task a client got a 202 for ends: the begin, the run, its terminal
\* event and the drains that need its slot all come, as long as no event is
\* lost for good and the agent does not die.
EveryTaskEnds ==
    \A t \in Task : state[t] = "queued" ~> state[t] \in Terminal

\* A lease left behind by a task that has ended (a crash between the row and
\* the release) is eventually reaped once it expires.
LeakedLeaseReaped ==
    \A r \in Resource :
        (lease[r] \in expired /\ state[lease[r]] \in Terminal) ~> lease[r] \notin expired
=============================================================================
