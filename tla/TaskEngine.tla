------------------------------ MODULE TaskEngine ------------------------------
(***************************************************************************)
(* The xiNAS task engine: how an apply task travels from the api's apply   *)
(* transaction, through the bounded dispatch pool and the `task.begin`     *)
(* RPC, to the privileged agent, and back through progress events to a     *)
(* terminal state.  Three parties share the model:                         *)
(*                                                                         *)
(*   - the api process: one Node thread, so every stretch of code between  *)
(*     two awaits is one action (api/tasks/engine.ts, api/tasks/progress.ts*)
(*     state/leases.ts, api/server.ts);                                    *)
(*   - the agent process: the RPC handlers and the TaskRunner              *)
(*     (agent/rpc/methods/task.ts, agent/task/runner.ts);                  *)
(*   - the wire between them: one socket per RPC call, and an              *)
(*     at-least-once event publisher that gives up silently                *)
(*     (api/agent-client.ts, agent/task/progress-publisher.ts).            *)
(*                                                                         *)
(* The SQLite rows survive an api crash; reservations, pending RPC calls   *)
(* and the two re-entrancy guards do not.                                  *)
(***************************************************************************)
EXTENDS Naturals, FiniteSets

CONSTANTS
    Task,         \* the apply tasks clients may ask for
    Resource,     \* the managed resources: a desired row and a host object each
    NoTask,       \* nobody: a free lease, a row no task has written
    Requests,     \* the resource sets the plan of each task may affect
    MaxInflight,  \* the pool cap (DEFAULT_MAX_INFLIGHT is 4)
    NStages,      \* executor stages of one run
    Budget        \* how many faults of each kind a behaviour may contain

FaultKind == {"timeout", "expiry", "apiCrash", "agentCrash", "blip", "drop", "dup"}

ASSUME TaskAssumption == IsFiniteSet(Task)
ASSUME NoTaskAssumption == NoTask \notin Task
ASSUME RequestsAssumption == Requests \in [Task -> SUBSET (SUBSET Resource)]
ASSUME CapAssumption == MaxInflight \in Nat \ {0}
ASSUME StagesAssumption == NStages \in Nat \ {0}
ASSUME BudgetAssumption == Budget \in [FaultKind -> Nat]

VARIABLES
    \* --- the SQLite state store (durable) ---
    state,     \* tasks.state of every task; "none" while it has no row
    seq,       \* tasks.last_event_sequence: the high-water mark
    acc,       \* whether tasks.agent_acceptance_id is set
    born,      \* tasks.created_at, as the task's place in creation order
    res,       \* the resources the task leases and whose desired rows it writes
    prior,     \* tasks.desired_rollback: the values its writes replaced
    lease,     \* leases: the holder of each resource
    expired,   \* tasks whose leases are past heartbeat_at + TTL
    desired,   \* desired rows, each as the task whose value it carries
    \* --- the api process (lost in a crash) ---
    rec,       \* reconcile(): not running, awaiting task.list_inflight, or the drain
    reserved,  \* dispatchReservations
    call,      \* the task.begin call the api awaits for a task
    base,      \* last_event_sequence in the row that call was given
    drainer,   \* the task whose begin the drain loop awaits
    tracker,   \* the heartbeat tracker's view of the agent
    \* --- the agent process and the host ---
    agentUp,
    run,       \* the in-flight registry, with the event being published
    stale,     \* tasks with a begin still in the agent's socket, its caller gone
    host,      \* host objects, each as the task that configured it last
    \* --- bookkeeping of the model ---
    faults     \* faults of each kind so far

db      == <<state, seq, acc, born, res, prior, lease, expired, desired>>
api     == <<rec, reserved, call, base, drainer, tracker>>
agent   == <<agentUp, run, stale, host>>
vars    == <<db, api, agent, faults>>

Terminal   == {"success", "failed", "cancelled", "requires_manual_recovery"}
Live       == {"queued", "running"}
State      == {"none"} \cup Live \cup Terminal
Owner      == Task \cup {NoTask}
CallState  == {"none", "sent", "accepted", "refused"}
RecState   == {"down", "idle", "listing", "draining"}
EventKind  == {"none", "accepted", "stage"} \cup Terminal

NoRun == [on |-> FALSE, seq |-> 0, stage |-> 0, ev |-> "none", cancel |-> FALSE,
          saved |-> [r \in Resource |-> NoTask]]

RunRecord == [on: BOOLEAN, seq: Nat, stage: 0..NStages, ev: EventKind,
              cancel: BOOLEAN, saved: [Resource -> Owner]]

\* A run is executing while the agent may still touch the host for it.
Executing(t) == run[t].on /\ run[t].ev \notin Terminal

\* One more fault of kind k, within its budget.
Spend(k) == /\ faults[k] < Budget[k]
            /\ faults' = [faults EXCEPT ![k] = @ + 1]

Init ==
    /\ state = [t \in Task |-> "none"]
    /\ seq = [t \in Task |-> 0]
    /\ acc = [t \in Task |-> FALSE]
    /\ born = [t \in Task |-> 0]
    /\ res = [t \in Task |-> {}]
    /\ prior = [t \in Task |-> [r \in Resource |-> NoTask]]
    /\ lease = [r \in Resource |-> NoTask]
    /\ expired = {}
    /\ desired = [r \in Resource |-> NoTask]
    /\ rec = "down"
    /\ reserved = {}
    /\ call = [t \in Task |-> "none"]
    /\ base = [t \in Task |-> 0]
    /\ drainer = NoTask
    /\ tracker = "unhealthy"
    /\ agentUp = TRUE
    /\ run = [t \in Task |-> NoRun]
    /\ stale = {}
    /\ host = [r \in Resource |-> NoTask]
    /\ faults = [k \in FaultKind |-> 0]

-----------------------------------------------------------------------------
(***************************************************************************)
(* Row updates the engine's handlers share.                                *)
(***************************************************************************)

\* Mutant: the leases of an ended task stay.
ReleaseByTask_Forgotten(t) == UNCHANGED lease

\* LeaseManager.releaseByTask: every lease of t is deleted.
ReleaseByTask(t) == lease' = [r \in Resource |-> IF lease[r] = t THEN NoTask ELSE lease[r]]

\* Mutant: the rows of the intent are deleted, whatever they held before.
RevertDesired_Deletes(t) ==
    desired' = [r \in Resource |-> IF r \in res[t] THEN NoTask ELSE desired[r]]

\* TaskEngine.revertDesired: each written row gets the value apply replaced,
\* whoever wrote it since.
RevertDesired(t) ==
    desired' = [r \in Resource |-> IF r \in res[t] THEN prior[t][r] ELSE desired[r]]

\* The api ends t itself, without a terminal event from the agent.  The new
\* sequence is counted from the row the caller read, which may be old.
EndLocally(t, final, readSeq) ==
    /\ state' = [state EXCEPT ![t] = final]
    /\ seq' = [seq EXCEPT ![t] = readSeq + 1]
    /\ RevertDesired(t)
    /\ ReleaseByTask(t)
    /\ expired' = expired \ {t}
    /\ UNCHANGED <<acc, born, res, prior>>

-----------------------------------------------------------------------------
(***************************************************************************)
(* The dispatch pool.  st, rsv and cl are the task states, reservations    *)
(* and pending calls the code sees at the point it decides.                *)
(***************************************************************************)

\* Mutant: begins that are still awaited do not count.
SlotFree_RunningOnly(st, rsv) == Cardinality({t \in Task : st[t] = "running"}) < MaxInflight

\* inFlightCount() < maxInflight: rows in running plus reservations, so a
\* task that is both counts twice.
SlotFree(st, rsv) ==
    Cardinality({t \in Task : st[t] = "running"}) + Cardinality(rsv) < MaxInflight

\* listQueuedNeverDispatched() without the reserved tasks.
Waiting(st, rsv) == {t \in Task : st[t] = "queued" /\ ~acc[t] /\ t \notin rsv}

Oldest(S) == {t \in S : \A u \in S : born[t] <= born[u]}

\* dispatch() up to its await: t is reserved and task.begin goes out.  A
\* connection to an agent that is down is refused.
Begin(t, rsv, cl, bs) ==
    /\ reserved' = rsv \cup {t}
    /\ call' = [cl EXCEPT ![t] = IF agentUp THEN "sent" ELSE "refused"]
    /\ base' = [bs EXCEPT ![t] = seq[t]]

\* drainQueued's loop up to its next await: begin the oldest waiting task, or
\* leave the loop.
DrainTurn(st, rsv, cl, bs) ==
    \/ /\ SlotFree(st, rsv)
       /\ \E t \in Oldest(Waiting(st, rsv)) : Begin(t, rsv, cl, bs) /\ drainer' = t
    \/ /\ ~SlotFree(st, rsv) \/ Waiting(st, rsv) = {}
       /\ reserved' = rsv
       /\ call' = cl
       /\ base' = bs
       /\ drainer' = NoTask

\* Mutant: a trigger that starts no drain.
KickDrain_Nothing(st, rsv, cl, bs) ==
    /\ reserved' = rsv
    /\ call' = cl
    /\ base' = bs
    /\ UNCHANGED drainer

\* drainQueued() called from elsewhere: a drain already in its loop makes the
\* call a no-op.
KickDrain(st, rsv, cl, bs) ==
    \/ drainer = NoTask /\ DrainTurn(st, rsv, cl, bs)
    \/ /\ drainer # NoTask
       /\ reserved' = rsv
       /\ call' = cl
       /\ base' = bs
       /\ UNCHANGED drainer

\* admitAndDispatch: reserve a slot and begin inline, or leave t queued.
Admit(st, t) ==
    \/ SlotFree(st, reserved) /\ Begin(t, reserved, call, base)
    \/ ~SlotFree(st, reserved) /\ UNCHANGED <<reserved, call, base>>

-----------------------------------------------------------------------------
(***************************************************************************)
(* Client requests.                                                        *)
(***************************************************************************)

\* Mutant: only one of the resources has to be free.
Free_OneOf(rs) == \E r \in rs : lease[r] = NoTask

\* LeaseManager.acquire succeeds for every resource.
Free(rs) == \A r \in rs : lease[r] = NoTask

\* Mutant: the check for an awaited begin is left out.
Undispatched_Unchecked(t) == state[t] = "queued"

\* Queued, and no begin of it is awaited.
Undispatched(t) == state[t] = "queued" /\ t \notin reserved

\* mode=apply: one transaction writes the intent, inserts the queued row and
\* takes every lease; any held lease rolls all of it back.  The route then
\* enters admission with no await in between.
Apply(t, rs) ==
    /\ rec # "down"
    /\ state[t] = "none"
    /\ Free(rs)
    /\ state' = [state EXCEPT ![t] = "queued"]
    /\ born' = [born EXCEPT ![t] = Cardinality({u \in Task : state[u] # "none"})]
    /\ res' = [res EXCEPT ![t] = rs]
    /\ prior' = [prior EXCEPT ![t] = [r \in Resource |-> IF r \in rs THEN desired[r] ELSE NoTask]]
    /\ desired' = [r \in Resource |-> IF r \in rs THEN t ELSE desired[r]]
    /\ lease' = [r \in Resource |-> IF r \in rs THEN t ELSE lease[r]]
    /\ Admit(state', t)
    /\ UNCHANGED <<seq, acc, expired, rec, drainer, tracker, agent, faults>>

\* An idempotent retry of an apply whose task is still queued: the original
\* row comes back and the route re-enters admission, unless a dispatch of it
\* is in flight.
Replay(t) ==
    /\ rec # "down"
    /\ Undispatched(t)
    /\ SlotFree(state, reserved)
    /\ Admit(state, t)
    /\ UNCHANGED <<db, rec, drainer, tracker, agent, faults>>

\* cancel() of a task still queued at the api and not being dispatched.
CancelQueued(t) ==
    /\ rec # "down"
    /\ Undispatched(t)
    /\ EndLocally(t, "cancelled", seq[t])
    /\ UNCHANGED <<api, agent, faults>>

\* cancel() of a running task: the agent notes the request (task.cancel).  An
\* offline agent, a failed call and a not_found answer leave state, leases and
\* intent alone; cancel_requested_at and cancel_refused_reason are not kept.
CancelRunning(t) ==
    /\ rec # "down"
    /\ state[t] = "running"
    /\ agentUp
    /\ run[t].on
    /\ ~run[t].cancel
    /\ run' = [run EXCEPT ![t].cancel = TRUE]
    /\ UNCHANGED <<db, api, agentUp, stale, host, faults>>

-----------------------------------------------------------------------------
(***************************************************************************)
(* dispatch(): the outcomes of an awaited task.begin.                      *)
(***************************************************************************)

\* The call for t settled: its reservation goes, the drain loop takes its next
\* turn if the call was the drain's (a reconcile() that awaits the loop ends
\* with it), and an inline failure kicks the drain.
Settle(t, st, kick) ==
    LET rsv == reserved \ {t}
        cl  == [call EXCEPT ![t] = "none"]
        bs  == [base EXCEPT ![t] = 0]
    IN  /\ \/ t = drainer /\ DrainTurn(st, rsv, cl, bs)
           \/ t # drainer /\ kick /\ KickDrain(st, rsv, cl, bs)
           \/ /\ t # drainer /\ ~kick
              /\ reserved' = rsv
              /\ call' = cl
              /\ base' = bs
              /\ UNCHANGED drainer
        /\ rec' = IF rec = "draining" /\ drainer' = NoTask THEN "idle" ELSE rec

\* The agent accepted: the row goes to running whatever its state is now.
DispatchAccepted(t) ==
    /\ call[t] = "accepted"
    /\ state' = [state EXCEPT ![t] = "running"]
    /\ acc' = [acc EXCEPT ![t] = TRUE]
    /\ Settle(t, state', FALSE)
    /\ UNCHANGED <<seq, born, res, prior, lease, expired, desired, tracker, agent, faults>>

\* failBeforeChange(): revert the intent, fail the row, release the leases.
FailBeforeChange(t) ==
    /\ EndLocally(t, "failed", base[t])
    /\ Settle(t, state', TRUE)

\* The agent has no executor for the operation, or the connection failed.
DispatchRejected(t) ==
    /\ call[t] = "refused"
    /\ FailBeforeChange(t)
    /\ UNCHANGED <<tracker, agent, faults>>

\* TASK_BEGIN_TIMEOUT_MS passed: the api destroys the socket.  A request the
\* agent has not read yet may still be read; an acceptance is lost.
DispatchTimeout(t) ==
    /\ call[t] \in {"sent", "accepted"}
    /\ Spend("timeout")
    /\ FailBeforeChange(t)
    /\ \/ call[t] = "sent" /\ stale' = stale \cup {t}
       \/ UNCHANGED stale
    /\ UNCHANGED <<tracker, agentUp, run, host>>

-----------------------------------------------------------------------------
(***************************************************************************)
(* The agent.                                                              *)
(***************************************************************************)

\* task.begin: idempotent while the run is in flight, a new run otherwise.
\* The run starts by publishing `accepted` with sequence 1.
Started(t) == IF run[t].on THEN run
              ELSE [run EXCEPT ![t] = [NoRun EXCEPT !.on = TRUE, !.seq = 1, !.ev = "accepted"]]

AgentBegin(t) ==
    /\ agentUp
    /\ call[t] = "sent"
    /\ \/ /\ call' = [call EXCEPT ![t] = "accepted"]
          /\ run' = Started(t)
       \/ /\ ~run[t].on          \* no executor registered for the kind
          /\ call' = [call EXCEPT ![t] = "refused"]
          /\ UNCHANGED run
    /\ UNCHANGED <<db, rec, reserved, base, drainer, tracker, agentUp, stale, host, faults>>

\* The agent reads a begin whose caller has given up or crashed.
AgentBeginStale(t) ==
    /\ agentUp
    /\ t \in stale
    /\ stale' = stale \ {t}
    /\ run' = Started(t)
    /\ UNCHANGED <<db, api, agentUp, host, faults>>

\* Requests lying unread in the agent's socket.  Every step of a run awaits
\* the network or a subprocess, and the agent's event loop reads its socket
\* while it waits: a run does not get on past an unread request.
Unread == {t \in Task : call[t] = "sent"} \cup stale

\* Only one event of a run is being published at a time.
Publish(ev, r) == [r EXCEPT !.seq = r.seq + 1, !.ev = ev]

\* Mutant: the stage loop runs once too often.
StagesLeft_OffByOne(t) == run[t].stage <= NStages

StagesLeft(t) == run[t].stage < NStages

\* The run's record after a stage; the first one stashes the host's prior state.
StageDone(t) == [run[t] EXCEPT !.stage = run[t].stage + 1,
                               !.saved = IF run[t].stage = 0 THEN host ELSE run[t].saved]

\* An executor stage: a cancel request is honoured before it, and its outcome
\* is published after it.
AgentStage(t) ==
    /\ Unread = {}
    /\ run[t].on /\ run[t].ev = "none"
    /\ StagesLeft(t)
    /\ ~run[t].cancel
    /\ host' = [r \in Resource |-> IF r \in res[t] THEN t ELSE host[r]]
    /\ run' = [run EXCEPT ![t] = Publish("stage", StageDone(t))]
    /\ UNCHANGED <<db, api, agentUp, stale, faults>>

\* Mutant: rollback leaves the host as the stages made it.
HostRolledBack_Skipped(t) == host

\* executor.rollback: the host objects go back to what the first stage stashed.
HostRolledBack(t) ==
    IF run[t].stage = 0 THEN host
    ELSE [r \in Resource |-> IF r \in res[t] THEN run[t].saved[r] ELSE host[r]]

\* The run ends and publishes its terminal status.  There is no cancel
\* checkpoint after the last stage.
AgentEnd(t, status) ==
    /\ Unread = {}
    /\ run[t].on /\ run[t].ev = "none"
    /\ \/ status = "success" /\ ~StagesLeft(t) /\ UNCHANGED host
       \/ /\ status = "failed"               \* snapshot_before or a stage failed
          /\ StagesLeft(t)
          /\ run[t].cancel => run[t].stage = 0
          /\ host' = HostRolledBack(t)
       \/ /\ status = "cancelled"            \* at a checkpoint, or a stage threw
          /\ StagesLeft(t)
          /\ run[t].cancel
          /\ host' = HostRolledBack(t)
       \/ /\ status = "requires_manual_recovery"   \* rollback or snapshot_after threw
          /\ \/ ~StagesLeft(t) /\ UNCHANGED host
             \/ /\ StagesLeft(t)
                /\ \E S \in SUBSET res[t] :
                     host' = [r \in Resource |-> IF r \in S THEN t ELSE HostRolledBack(t)[r]]
    /\ run' = [run EXCEPT ![t] = Publish(status, run[t])]
    /\ UNCHANGED <<db, api, agentUp, stale, faults>>

-----------------------------------------------------------------------------
(***************************************************************************)
(* Progress events at the api.                                             *)
(***************************************************************************)

\* The publisher got its answer, or gave up: the run goes on, or is over.
Published(t) == IF run[t].ev \in Terminal THEN [run EXCEPT ![t] = NoRun]
                ELSE [run EXCEPT ![t].ev = "none"]

\* Mutant: the next event counts as a replay too.
IgnoreEvent_OffByOne(t) ==
    /\ run[t].seq <= seq[t] + 1
    /\ UNCHANGED <<db, rec, reserved, call, base, drainer>>

\* A replay: at or below the high-water mark, answered 200 and ignored.
IgnoreEvent(t) ==
    /\ run[t].seq <= seq[t]
    /\ UNCHANGED <<db, rec, reserved, call, base, drainer>>

\* accepted, and the stage events: the sequence advances and the heartbeat
\* makes the task's leases fresh again; only accepted moves the state.
NoteProgress(t) ==
    /\ run[t].seq > seq[t]
    /\ run[t].ev \in {"accepted", "stage"}
    /\ seq' = [seq EXCEPT ![t] = run[t].seq]
    /\ state' = IF run[t].ev = "accepted" /\ state[t] = "queued"
                THEN [state EXCEPT ![t] = "running"] ELSE state
    /\ expired' = expired \ {t}
    /\ UNCHANGED <<acc, born, res, prior, lease, desired, rec, reserved, call, base, drainer>>

\* terminal: final state, lease release and intent revert in one transaction,
\* whatever state the row is in; then the freed slot is offered to the drain.
NoteTerminal(t) ==
    /\ run[t].seq > seq[t]
    /\ run[t].ev \in Terminal
    /\ seq' = [seq EXCEPT ![t] = run[t].seq]
    /\ state' = [state EXCEPT ![t] = run[t].ev]
    /\ ReleaseByTask(t)
    /\ expired' = expired \ {t}
    /\ IF run[t].ev = "success" THEN UNCHANGED desired ELSE RevertDesired(t)
    /\ KickDrain(state', reserved, call, base)
    /\ UNCHANGED <<acc, born, res, prior, rec>>

\* POST /internal/v1/task_progress.  The begin reply was written before the
\* run's second event, so the api reads it first.
Deliver(t) ==
    /\ rec # "down"
    /\ run[t].on /\ run[t].ev # "none"
    /\ run[t].ev = "accepted" \/ call[t] # "accepted"
    /\ IgnoreEvent(t) \/ NoteProgress(t) \/ NoteTerminal(t)
    /\ \/ run' = Published(t) /\ UNCHANGED faults
       \/ Spend("dup") /\ UNCHANGED run     \* the answer is lost: it is sent again
    /\ UNCHANGED <<tracker, agentUp, stale, host>>

\* The publisher's retries are exhausted and it resolves quietly.
DropEvent(t) ==
    /\ run[t].on /\ run[t].ev # "none"
    /\ Spend("drop")
    /\ run' = Published(t)
    /\ UNCHANGED <<db, api, agentUp, stale, host>>

-----------------------------------------------------------------------------
(***************************************************************************)
(* Leases, reconciliation and the heartbeat edge.                          *)
(***************************************************************************)

Holders == {lease[r] : r \in Resource} \ {NoTask}

\* A minute passes without a heartbeat for t.  A begin is awaited for five
\* seconds at most, so a lease that is past its TTL then was so before it.
LeaseExpire(t) ==
    /\ call[t] = "none"
    /\ t \in Holders \ expired
    /\ Spend("expiry")
    /\ expired' = expired \cup {t}
    /\ UNCHANGED <<state, seq, acc, born, res, prior, lease, desired, api, agent>>

\* Mutants: the timer reaps live tasks' leases too; or only successful tasks'.
Reapable_Everyone == expired
Reapable_Successes == {t \in expired : state[t] = "success"}

\* Holders of expired leases that are no longer queued or running.
Reapable == {t \in expired : state[t] \notin Live}

\* The lease timer: reapExpiredTerminalLeases.
ReapLeases ==
    /\ rec # "down"
    /\ Reapable # {}
    /\ lease' = [r \in Resource |-> IF lease[r] \in Reapable THEN NoTask ELSE lease[r]]
    /\ expired' = expired \ Reapable
    /\ UNCHANGED <<state, seq, acc, born, res, prior, desired, api, agent, faults>>

\* LeaseManager.sweepExpired: live holders of expired leases go to manual
\* recovery, and every expired lease is deleted.
SweepExpired ==
    /\ state' = [t \in Task |-> IF t \in expired /\ state[t] \in Live
                                THEN "requires_manual_recovery" ELSE state[t]]
    /\ lease' = [r \in Resource |-> IF lease[r] \in expired THEN NoTask ELSE lease[r]]
    /\ expired' = {}
    /\ UNCHANGED <<seq, acc, born, res, prior, desired>>

\* reconcile() up to its await: the sweep, then task.list_inflight is sent.
\* A pass already under way makes the call a no-op.
StartReconcile ==
    \/ rec \in {"down", "idle"} /\ SweepExpired /\ rec' = "listing"
    \/ rec \in {"listing", "draining"} /\ UNCHANGED <<db, rec>>

\* The api process starts: reconcile() is started, not awaited, before it listens.
ApiStart ==
    /\ rec = "down"
    /\ StartReconcile
    /\ UNCHANGED <<reserved, call, base, drainer, tracker, agent, faults>>

\* task.list_inflight answered: lost acceptances are adopted, and the drain
\* offers the free slots to the queued tasks.
ReconcileWalk ==
    /\ rec = "listing"
    /\ agentUp
    /\ acc' = [t \in Task |-> acc[t] \/ (state[t] = "running" /\ run[t].on)]
    /\ KickDrain(state, reserved, call, base)
    /\ rec' = IF drainer = NoTask /\ drainer' # NoTask THEN "draining" ELSE "idle"
    /\ UNCHANGED <<state, seq, born, res, prior, lease, expired, desired, tracker, agent, faults>>

\* task.list_inflight refused or timed out: the pass stops after its sweep.
ReconcileUnreachable ==
    /\ rec = "listing"
    /\ \/ ~agentUp /\ UNCHANGED faults
       \/ agentUp /\ Spend("timeout")
    /\ rec' = "idle"
    /\ UNCHANGED <<db, reserved, call, base, drainer, tracker, agent>>

\* The tracker leaves healthy, for degraded or offline: the agent is down, it
\* is slow to answer, or one of its collectors reports an error.
HeartbeatLost ==
    /\ rec # "down"
    /\ tracker = "healthy"
    /\ \/ ~agentUp /\ UNCHANGED faults
       \/ agentUp /\ Spend("blip")
    /\ tracker' = "unhealthy"
    /\ UNCHANGED <<db, rec, reserved, call, base, drainer, agent>>

\* The edge into healthy, the agent's first appearance included.
HeartbeatBack ==
    /\ rec # "down"
    /\ tracker = "unhealthy"
    /\ agentUp
    /\ tracker' = "healthy"
    /\ StartReconcile
    /\ UNCHANGED <<reserved, call, base, drainer, agent, faults>>

-----------------------------------------------------------------------------
(***************************************************************************)
(* Crashes.                                                                *)
(***************************************************************************)

\* What a crash of the api leaves of its own memory.  Begin requests already
\* written may still be read by the agent.
LoseMemory ==
    /\ rec' = "down"
    /\ reserved' = {}
    /\ call' = [t \in Task |-> "none"]
    /\ base' = [t \in Task |-> 0]
    /\ drainer' = NoTask
    /\ tracker' = "unhealthy"
    /\ stale' \in {stale, stale \cup {t \in Task : call[t] = "sent"}}
    /\ UNCHANGED <<agentUp, run, host>>

ApiCrash ==
    /\ rec # "down"
    /\ Spend("apiCrash")
    /\ LoseMemory
    /\ UNCHANGED db

\* failBeforeChange is three transactions: the crash may fall after the
\* revert, or after the row failed with the leases still held.  A timeout that
\* it was called for counts as this crash.
CrashInFail(t) ==
    /\ call[t] # "none"
    /\ Spend("apiCrash")
    /\ RevertDesired(t)
    /\ \/ UNCHANGED <<state, seq>>
       \/ /\ state' = [state EXCEPT ![t] = "failed"]
          /\ seq' = [seq EXCEPT ![t] = base[t] + 1]
    /\ LoseMemory
    /\ UNCHANGED <<acc, born, res, prior, lease, expired>>

\* A queued cancel is three transactions too: the row first, then the revert,
\* then the release.
CrashInCancel(t) ==
    /\ rec # "down"
    /\ Undispatched(t)
    /\ Spend("apiCrash")
    /\ state' = [state EXCEPT ![t] = "cancelled"]
    /\ seq' = [seq EXCEPT ![t] = @ + 1]
    /\ RevertDesired(t) \/ UNCHANGED desired
    /\ LoseMemory
    /\ UNCHANGED <<acc, born, res, prior, lease, expired>>

\* The agent dies with its runs, their pending events and unread requests;
\* a call it had not answered fails with its connection.
AgentCrash ==
    /\ agentUp
    /\ Spend("agentCrash")
    /\ agentUp' = FALSE
    /\ run' = [t \in Task |-> NoRun]
    /\ stale' = {}
    /\ call' = [t \in Task |-> IF call[t] = "sent" THEN "refused" ELSE call[t]]
    /\ UNCHANGED <<db, rec, reserved, base, drainer, tracker, host>>

AgentStart ==
    /\ ~agentUp
    /\ agentUp' = TRUE
    /\ UNCHANGED <<db, api, run, stale, host, faults>>

-----------------------------------------------------------------------------
Client(t)   == (\E rs \in Requests[t] : Apply(t, rs)) \/ Replay(t) \/ CancelQueued(t) \/ CancelRunning(t)
Dispatch(t) == DispatchAccepted(t) \/ DispatchRejected(t) \/ DispatchTimeout(t)
Agent(t)    == \/ AgentBegin(t) \/ AgentBeginStale(t) \/ AgentStage(t)
               \/ \E status \in Terminal : AgentEnd(t, status)
Events(t)   == Deliver(t) \/ DropEvent(t)
Upkeep      == ReapLeases \/ ApiStart \/ ReconcileWalk \/ ReconcileUnreachable
               \/ HeartbeatLost \/ HeartbeatBack
Crashes     == ApiCrash \/ AgentCrash \/ AgentStart

Next ==
    \/ \E t \in Task : \/ Client(t) \/ Dispatch(t) \/ Agent(t) \/ Events(t)
                       \/ LeaseExpire(t) \/ CrashInFail(t) \/ CrashInCancel(t)
    \/ Upkeep
    \/ Crashes

Spec == Init /\ [][Next]_vars

-----------------------------------------------------------------------------
(***************************************************************************)
(* Properties.  Clean(K) holds while no fault of a kind in K has happened; *)
(* a property says in it exactly which faults it does not survive.         *)
(***************************************************************************)
Clean(K) == \A k \in K : faults[k] = 0

\* Every variable keeps its type: the rows, the api's memory, the in-flight
\* registry with at most NStages stages done, and the fault counts.
TypeOK ==
    /\ state \in [Task -> State]
    /\ seq \in [Task -> Nat]
    /\ acc \in [Task -> BOOLEAN]
    /\ born \in [Task -> Nat]
    /\ res \in [Task -> SUBSET Resource]
    /\ prior \in [Task -> [Resource -> Owner]]
    /\ lease \in [Resource -> Owner]
    /\ expired \subseteq Task
    /\ desired \in [Resource -> Owner]
    /\ rec \in RecState
    /\ reserved \subseteq Task
    /\ call \in [Task -> CallState]
    /\ base \in [Task -> Nat]
    /\ drainer \in Owner
    /\ tracker \in {"healthy", "unhealthy"}
    /\ agentUp \in BOOLEAN
    /\ run \in [Task -> RunRecord]
    /\ stale \subseteq Task
    /\ host \in [Resource -> Owner]
    /\ faults \in [FaultKind -> Nat]

\* A resource is leased by a task exactly while that task is queued or running
\* and affects it, through timeouts, agent crashes, lost and repeated events:
\* nothing runs unprotected and no lease outlives its task.  Only a sweep after
\* an expiry or an api crash can break it (apply step 4, releaseByTask).
LeasesHeld ==
    Clean({"apiCrash", "expiry"}) =>
        \A t \in Task, r \in Resource :
            lease[r] = t <=> state[t] \in Live /\ r \in res[t]

\* The agent never executes two tasks that share a resource: it has no lock of
\* its own and relies on the api's leases, reservations and cancel guards.
OneExecutionPerResource ==
    Clean({"apiCrash", "expiry", "timeout"}) =>
        \A t, u \in Task : t # u /\ Executing(t) /\ Executing(u) => res[t] \cap res[u] = {}

\* A task in a terminal state stays in it (TERMINAL_STATES in types.ts): no
\* late event, dispatch or sweep moves the row again.
TerminalIsFinal ==
    [][Clean({"apiCrash", "expiry", "timeout"}) =>
         \A t \in Task : state[t] \in Terminal => state'[t] = state[t]]_vars

\* A resource nobody works on is as desired: intent and host agree, unless the
\* last task to hold it ended in manual recovery.  Both rollbacks, the api's
\* of the row and the agent's of the host, have to restore the same past.
IdleMatchesIntent ==
    Clean({"apiCrash", "expiry", "timeout"}) =>
        \A r \in Resource :
            lease[r] = NoTask /\ (\A t \in Task : state[t] = "requires_manual_recovery" => r \notin res[t])
                => desired[r] = host[r]

\* The pool cap bounds running and reserved tasks together (max_inflight).
CapRespected ==
    Clean({"apiCrash"}) =>
        Cardinality({t \in Task : state[t] = "running"} \cup reserved) <= MaxInflight

\* No step takes a lease from a task that stays queued or running, and none
\* hands it straight to another task: leases are lost by ending only.  This is
\* what the timer's restraint (reapExpiredTerminalLeases against sweepExpired)
\* is for, and it survives every fault.
LeaseKeptWhileLive ==
    [][\A r \in Resource :
         lease[r] # NoTask /\ lease'[r] # lease[r] =>
             lease'[r] = NoTask /\ state'[lease[r]] \notin Live]_vars

\* A task that has touched the host is not begun again: task.begin is
\* idempotent in flight, and afterwards the row has left the queue.  Only a
\* lost event can break it; timeouts, expiries and crashes of either process
\* cannot.
ExecutedOnce ==
    [][Clean({"drop"}) =>
         \A t \in Task : run'[t].seq = 1 /\ run[t].seq # 1 =>
             \A r \in res[t] : host[r] # t]_vars

-----------------------------------------------------------------------------
(***************************************************************************)
(* The inductive invariant behind LeasesHeld, OneExecutionPerResource,     *)
(* TerminalIsFinal and CapRespected: how calls, reservations and runs stay *)
(* tied to the rows.                                                       *)
(***************************************************************************)

\* Reservations are the awaited begins, and only tasks with a row have one.
CallsReserved ==
    /\ reserved = {t \in Task : call[t] # "none"}
    /\ \A t \in reserved : state[t] # "none"

\* No run and no unread begin exists for a task whose begin is not answered.
UnbegunIdle ==
    Clean({"apiCrash"}) =>
        \A t \in Task :
            \/ state[t] = "none"
            \/ Undispatched(t)
            \/ call[t] \in {"sent", "refused"}
            => ~run[t].on /\ t \notin stale

\* A task whose begin is awaited has not ended.
CallsLive ==
    Clean({"apiCrash", "expiry"}) => \A t \in Task : call[t] # "none" => state[t] \in Live

\* A run that may still touch the host, or whose end the api does not know,
\* belongs to a task that has not ended.
RunsLive ==
    Clean({"apiCrash", "expiry", "timeout"}) =>
        /\ stale = {}
        /\ \A t \in Task :
             run[t].on /\ (run[t].ev \in Terminal => run[t].seq > seq[t]) => state[t] \in Live

NoneExpired == Clean({"expiry"}) => expired = {}

IInv ==
    /\ TypeOK
    /\ CallsReserved
    /\ UnbegunIdle
    /\ NoneExpired
    /\ CallsLive
    /\ LeasesHeld
    /\ RunsLive
    /\ CapRespected
===============================================================================
