-------------------------- MODULE TaskEngineProofs --------------------------
(***************************************************************************)
(* Machine-checked facts about TaskEngine, for every set of tasks and      *)
(* resources, every pool cap, stage count and fault budget: types; and the *)
(* inductive invariant IInv with what follows from it, that leases protect *)
(* exactly the live tasks, the agent never executes two tasks on one       *)
(* resource, ended tasks stay ended, and the pool cap holds.  Then that    *)
(* the engine implements LeasedTasks, that intent and host agree at rest,  *)
(* and that a task is executed once.                                       *)
(***************************************************************************)
EXTENDS TaskEngineClaims, FiniteSetTheorems, TLAPS

USE NoTaskAssumption, StagesAssumption

-----------------------------------------------------------------------------
(***************************************************************************)
(* The helpers keep the types of what they write.                          *)
(***************************************************************************)

\* A begin reserves a task and sets its call and base within their types
\* (dispatch up to its await).
LEMMA BeginType ==
    ASSUME TypeOK, NEW t \in Task, NEW rsv \in SUBSET Task,
           NEW cl \in [Task -> CallState], NEW bs \in [Task -> Nat],
           Begin(t, rsv, cl, bs)
    PROVE  /\ reserved' \subseteq Task
           /\ call' \in [Task -> CallState]
           /\ base' \in [Task -> Nat]
    BY DEF TypeOK, Begin, CallState

\* So do a turn of the drain loop and a drain trigger (drainQueued).
LEMMA DrainTurnType ==
    ASSUME TypeOK, NEW st, NEW rsv \in SUBSET Task,
           NEW cl \in [Task -> CallState], NEW bs \in [Task -> Nat],
           DrainTurn(st, rsv, cl, bs)
    PROVE  /\ reserved' \subseteq Task
           /\ call' \in [Task -> CallState]
           /\ base' \in [Task -> Nat]
           /\ drainer' \in Owner
    <1>1. CASE \E t \in Oldest(Waiting(st, rsv)) : Begin(t, rsv, cl, bs) /\ drainer' = t
        <2>1. PICK t \in Task : Begin(t, rsv, cl, bs) /\ drainer' = t
            BY <1>1 DEF Oldest, Waiting
        <2>2. QED BY <2>1, BeginType DEF Owner
    <1>2. CASE reserved' = rsv /\ call' = cl /\ base' = bs /\ drainer' = NoTask
        BY <1>2 DEF Owner
    <1>3. QED BY <1>1, <1>2 DEF DrainTurn

LEMMA KickDrainType ==
    ASSUME TypeOK, NEW st, NEW rsv \in SUBSET Task,
           NEW cl \in [Task -> CallState], NEW bs \in [Task -> Nat],
           KickDrain(st, rsv, cl, bs)
    PROVE  /\ reserved' \subseteq Task
           /\ call' \in [Task -> CallState]
           /\ base' \in [Task -> Nat]
           /\ drainer' \in Owner
    BY DrainTurnType DEF KickDrain, TypeOK

\* Settling a call keeps the api's memory well-typed.
LEMMA SettleType ==
    ASSUME TypeOK, NEW t \in Task, NEW st, NEW kick \in BOOLEAN, Settle(t, st, kick)
    PROVE  /\ reserved' \subseteq Task
           /\ call' \in [Task -> CallState]
           /\ base' \in [Task -> Nat]
           /\ drainer' \in Owner
           /\ rec' \in RecState
    <1> DEFINE rsv == reserved \ {t}
               cl == [call EXCEPT ![t] = "none"]
               bs == [base EXCEPT ![t] = 0]
    <1>1. rsv \in SUBSET Task /\ cl \in [Task -> CallState] /\ bs \in [Task -> Nat]
        BY DEF TypeOK, CallState
    <1>2. rec' \in RecState
        BY DEF TypeOK, RecState, Settle
    <1>3. \/ DrainTurn(st, rsv, cl, bs)
          \/ KickDrain(st, rsv, cl, bs)
          \/ reserved' = rsv /\ call' = cl /\ base' = bs /\ drainer' = drainer
        BY DEF Settle
    <1> HIDE DEF rsv, cl, bs
    <1>4. QED BY <1>1, <1>2, <1>3, DrainTurnType, KickDrainType DEF TypeOK

\* Ending a task locally keeps its rows well-typed (failBeforeChange, cancel).
LEMMA EndLocallyType ==
    ASSUME TypeOK, NEW t \in Task, NEW final \in Terminal, NEW s \in Nat, EndLocally(t, final, s)
    PROVE  /\ state' \in [Task -> State]
           /\ seq' \in [Task -> Nat]
           /\ desired' \in [Resource -> Owner]
           /\ lease' \in [Resource -> Owner]
           /\ expired' \subseteq Task
           /\ acc' \in [Task -> BOOLEAN]
           /\ born' \in [Task -> Nat]
           /\ res' \in [Task -> SUBSET Resource]
           /\ prior' \in [Task -> [Resource -> Owner]]
    BY DEF TypeOK, EndLocally, RevertDesired, ReleaseByTask, State, Owner

LEMMA SpendType ==
    ASSUME TypeOK, NEW k \in FaultKind, Spend(k)
    PROVE  faults' \in [FaultKind -> Nat] /\ faults'[k] > 0
    BY DEF TypeOK, Spend

LEMMA AdmitType ==
    ASSUME TypeOK, NEW t \in Task, NEW st, Admit(st, t)
    PROVE  /\ reserved' \subseteq Task
           /\ call' \in [Task -> CallState]
           /\ base' \in [Task -> Nat]
    BY BeginType DEF Admit, TypeOK

\* Starting a run, and the end of a publish, keep the in-flight registry typed.
LEMMA RunTypes ==
    ASSUME TypeOK, NEW t \in Task
    PROVE  /\ NoRun \in RunRecord
           /\ Started(t) \in [Task -> RunRecord]
           /\ Published(t) \in [Task -> RunRecord]
    <1>1. NoRun \in RunRecord
        BY DEF NoRun, RunRecord, EventKind, Owner
    <1>2. [NoRun EXCEPT !.on = TRUE, !.seq = 1, !.ev = "accepted"] \in RunRecord
        BY <1>1 DEF NoRun, RunRecord, EventKind
    <1>3. [run[t] EXCEPT !.ev = "none"] \in RunRecord
        <2>1. run[t] \in RunRecord
            BY DEF TypeOK
        <2>2. QED BY <2>1 DEF RunRecord, EventKind
    <1>4. QED BY <1>1, <1>2, <1>3 DEF TypeOK, Started, Published

\* So does publishing an event (AgentStage, AgentEnd).
LEMMA PublishType ==
    ASSUME NEW r \in RunRecord, NEW ev \in EventKind
    PROVE  Publish(ev, r) \in RunRecord
    <1>1. r.seq + 1 \in Nat
        BY DEF RunRecord
    <1>2. [r EXCEPT !.seq = r.seq + 1] \in RunRecord
        BY <1>1 DEF RunRecord
    <1>3. [[r EXCEPT !.seq = r.seq + 1] EXCEPT !.ev = ev] \in RunRecord
        BY <1>2 DEF RunRecord
    <1>4. QED BY <1>3 DEF Publish, RunRecord

\* The record of a stage done stays typed while a stage was left.
LEMMA StageDoneType ==
    ASSUME TypeOK, NEW t \in Task, StagesLeft(t)
    PROVE  StageDone(t) \in RunRecord
    <1> DEFINE saved == IF run[t].stage = 0 THEN host ELSE run[t].saved
    <1>1. run[t] \in RunRecord
        BY DEF TypeOK
    <1>2. run[t].stage + 1 \in 0..NStages /\ saved \in [Resource -> Owner]
        BY <1>1 DEF TypeOK, StagesLeft, RunRecord
    <1> HIDE DEF saved
    <1>3. [run[t] EXCEPT !.stage = run[t].stage + 1] \in RunRecord
        BY <1>1, <1>2 DEF RunRecord
    <1>4. [[run[t] EXCEPT !.stage = run[t].stage + 1] EXCEPT !.saved = saved] \in RunRecord
        BY <1>2, <1>3 DEF RunRecord
    <1>5. QED BY <1>4 DEF RunRecord, StageDone, saved

\* The number of tasks with a row, which orders them (tasks.created_at).
LEMMA FreshCount == Cardinality({u \in Task : state[u] # "none"}) \in Nat
    <1>1. IsFiniteSet({u \in Task : state[u] # "none"})
        BY TaskAssumption, FS_Subset
    <1>2. QED BY <1>1, FS_CardinalityType

\* A sweep of expired leases, and the loss of the api's memory, keep the types.
LEMMA ReconcileType ==
    ASSUME TypeOK, StartReconcile
    PROVE  /\ state' \in [Task -> State]
           /\ lease' \in [Resource -> Owner]
           /\ expired' \subseteq Task
           /\ rec' \in RecState
           /\ UNCHANGED <<seq, acc, born, res, prior, desired>>
    BY DEF TypeOK, StartReconcile, SweepExpired, db, State, Terminal, Owner, RecState

LEMMA CrashType ==
    ASSUME TypeOK, LoseMemory
    PROVE  /\ rec' \in RecState
           /\ reserved' \subseteq Task
           /\ call' \in [Task -> CallState]
           /\ base' \in [Task -> Nat]
           /\ drainer' \in Owner
           /\ tracker' \in {"healthy", "unhealthy"}
           /\ stale' \subseteq Task
    BY DEF TypeOK, LoseMemory, RecState, CallState, Owner

-----------------------------------------------------------------------------
(***************************************************************************)
(* Type correctness, one lemma per party.                                  *)
(***************************************************************************)

LEMMA ClientTypes ==
    ASSUME TypeOK, NEW t \in Task, Client(t)
    PROVE  TypeOK'
    <1>1. ASSUME NEW rs \in Requests[t], Apply(t, rs)
          PROVE  TypeOK'
        <2>1. /\ state' \in [Task -> State]
              /\ born' \in [Task -> Nat]
              /\ res' \in [Task -> SUBSET Resource]
              /\ prior' \in [Task -> [Resource -> Owner]]
              /\ desired' \in [Resource -> Owner]
              /\ lease' \in [Resource -> Owner]
            <3>1. state' \in [Task -> State]
                BY <1>1 DEF TypeOK, Apply, State, Live
            <3>2. born' \in [Task -> Nat]
                BY <1>1, FreshCount DEF TypeOK, Apply
            <3>3. rs \in SUBSET Resource
                BY <1>1, RequestsAssumption
            <3>4. res' \in [Task -> SUBSET Resource]
                BY <1>1, <3>3 DEF TypeOK, Apply
            <3>5. prior' \in [Task -> [Resource -> Owner]]
                BY <1>1 DEF TypeOK, Apply, Owner
            <3>6. /\ desired' \in [Resource -> Owner]
                  /\ lease' \in [Resource -> Owner]
                BY <1>1 DEF TypeOK, Apply, Owner
            <3>7. QED BY <3>1, <3>2, <3>4, <3>5, <3>6
        <2>2. Admit(state', t)
            BY <1>1 DEF Apply
        <2>3. QED BY <1>1, <2>1, <2>2, AdmitType DEF TypeOK, Apply, agent
    <1>2. CASE Replay(t)
        <2>1. Admit(state, t)
            BY <1>2 DEF Replay
        <2>2. QED BY <1>2, <2>1, AdmitType DEF TypeOK, Replay, db, agent
    <1>3. CASE CancelQueued(t)
        <2>1. EndLocally(t, "cancelled", seq[t]) /\ "cancelled" \in Terminal /\ seq[t] \in Nat
            BY <1>3 DEF TypeOK, CancelQueued, Terminal
        <2>2. QED BY <1>3, <2>1, EndLocallyType DEF TypeOK, CancelQueued, api, agent
    <1>4. CASE CancelRunning(t)
        <2>1. run[t] \in RunRecord
            BY DEF TypeOK
        <2>2. [run[t] EXCEPT !.cancel = TRUE] \in RunRecord
            BY <2>1 DEF RunRecord
        <2>3. run' \in [Task -> RunRecord]
            BY <1>4, <2>2 DEF TypeOK, CancelRunning
        <2>4. QED BY <1>4, <2>3 DEF TypeOK, CancelRunning, db, api
    <1>5. QED BY <1>1, <1>2, <1>3, <1>4 DEF Client

LEMMA DispatchTypes ==
    ASSUME TypeOK, NEW t \in Task, Dispatch(t)
    PROVE  TypeOK'
    <1>1. CASE DispatchAccepted(t)
        <2>1. state' \in [Task -> State] /\ acc' \in [Task -> BOOLEAN]
            BY <1>1 DEF TypeOK, DispatchAccepted, State, Live
        <2>2. Settle(t, state', FALSE)
            BY <1>1 DEF DispatchAccepted
        <2>3. QED BY <1>1, <2>1, <2>2, SettleType DEF TypeOK, DispatchAccepted, agent
    <1>2. ASSUME FailBeforeChange(t)
          PROVE  /\ state' \in [Task -> State]
                 /\ seq' \in [Task -> Nat]
                 /\ desired' \in [Resource -> Owner]
                 /\ lease' \in [Resource -> Owner]
                 /\ expired' \subseteq Task
                 /\ acc' \in [Task -> BOOLEAN]
                 /\ born' \in [Task -> Nat]
                 /\ res' \in [Task -> SUBSET Resource]
                 /\ prior' \in [Task -> [Resource -> Owner]]
                 /\ reserved' \subseteq Task
                 /\ call' \in [Task -> CallState]
                 /\ base' \in [Task -> Nat]
                 /\ drainer' \in Owner
                 /\ rec' \in RecState
        <2>1. EndLocally(t, "failed", base[t]) /\ "failed" \in Terminal /\ base[t] \in Nat
            BY <1>2 DEF TypeOK, FailBeforeChange, Terminal
        <2>2. Settle(t, state', TRUE)
            BY <1>2 DEF FailBeforeChange
        <2>3. QED BY <2>1, <2>2, EndLocallyType, SettleType
    <1>3. CASE DispatchRejected(t)
        <2>1. FailBeforeChange(t)
            BY <1>3 DEF DispatchRejected
        <2>2. QED BY <1>2, <1>3, <2>1 DEF TypeOK, DispatchRejected, agent
    <1>4. CASE DispatchTimeout(t)
        <2>1. FailBeforeChange(t) /\ Spend("timeout")
            BY <1>4 DEF DispatchTimeout
        <2>2. stale' \subseteq Task
            BY <1>4 DEF TypeOK, DispatchTimeout
        <2>3. faults' \in [FaultKind -> Nat]
            BY <2>1, SpendType DEF FaultKind
        <2>4. QED BY <1>2, <1>4, <2>1, <2>2, <2>3 DEF TypeOK, DispatchTimeout
    <1>5. QED BY <1>1, <1>3, <1>4 DEF Dispatch

LEMMA AgentTypes ==
    ASSUME TypeOK, NEW t \in Task, Agent(t)
    PROVE  TypeOK'
    <1>1. CASE AgentBegin(t)
        <2>1. call' \in [Task -> CallState]
            BY <1>1 DEF TypeOK, AgentBegin, CallState
        <2>2. run' = run \/ run' = Started(t)
            BY <1>1 DEF AgentBegin
        <2>3. run' \in [Task -> RunRecord]
            BY <2>2, RunTypes DEF TypeOK
        <2>4. QED BY <1>1, <2>1, <2>3 DEF TypeOK, AgentBegin, db
    <1>2. CASE AgentBeginStale(t)
        BY <1>2, RunTypes DEF TypeOK, AgentBeginStale, db, api
    <1>3. CASE AgentStage(t)
        <2>3. StageDone(t) \in RunRecord
            BY <1>3, StageDoneType DEF AgentStage
        <2>4. Publish("stage", StageDone(t)) \in RunRecord
            BY <2>3, PublishType DEF EventKind
        <2>5. run' \in [Task -> RunRecord]
            BY <1>3, <2>4 DEF TypeOK, AgentStage
        <2>6. host' \in [Resource -> Owner]
            BY <1>3 DEF TypeOK, AgentStage, Owner
        <2>7. QED BY <1>3, <2>5, <2>6 DEF TypeOK, AgentStage, db, api
    <1>4. ASSUME NEW status \in Terminal, AgentEnd(t, status)
          PROVE  TypeOK'
        <2>1. run[t] \in RunRecord
            BY DEF TypeOK
        <2>2. Publish(status, run[t]) \in RunRecord
            BY <2>1, PublishType DEF EventKind
        <2>3. run' \in [Task -> RunRecord]
            BY <1>4, <2>2 DEF TypeOK, AgentEnd
        <2>4. HostRolledBack(t) \in [Resource -> Owner]
            BY <2>1 DEF TypeOK, HostRolledBack, RunRecord
        <2>5. host' \in [Resource -> Owner]
            BY <1>4, <2>4 DEF TypeOK, AgentEnd, Owner
        <2>6. QED BY <1>4, <2>3, <2>5 DEF TypeOK, AgentEnd, db, api
    <1>5. QED BY <1>1, <1>2, <1>3, <1>4 DEF Agent

LEMMA EventTypes ==
    ASSUME TypeOK, NEW t \in Task, Events(t)
    PROVE  TypeOK'
    <1>1. ASSUME \/ run' = Published(t) /\ UNCHANGED faults
                 \/ Spend("dup") /\ UNCHANGED run
                 \/ Spend("drop") /\ run' = Published(t)
          PROVE  run' \in [Task -> RunRecord] /\ faults' \in [FaultKind -> Nat]
        BY <1>1, RunTypes, SpendType DEF TypeOK, FaultKind
    <1>2. CASE Deliver(t)
        <2>1. run[t].seq \in Nat /\ run[t].ev \in EventKind
            BY DEF TypeOK, RunRecord
        <2>2. CASE IgnoreEvent(t)
            BY <1>1, <1>2, <2>2 DEF TypeOK, Deliver, IgnoreEvent, db
        <2>3. CASE NoteProgress(t)
            <3>1. seq' \in [Task -> Nat] /\ state' \in [Task -> State] /\ expired' \subseteq Task
                BY <2>1, <2>3 DEF TypeOK, NoteProgress, State, Live
            <3>2. QED BY <1>1, <1>2, <2>3, <3>1 DEF TypeOK, Deliver, NoteProgress
        <2>4. CASE NoteTerminal(t)
            <3>1. /\ seq' \in [Task -> Nat]
                  /\ state' \in [Task -> State]
                  /\ lease' \in [Resource -> Owner]
                  /\ desired' \in [Resource -> Owner]
                  /\ expired' \subseteq Task
                <4>1. seq' \in [Task -> Nat] /\ state' \in [Task -> State]
                    BY <2>1, <2>4 DEF TypeOK, NoteTerminal, State
                <4>2. lease' \in [Resource -> Owner] /\ expired' \subseteq Task
                    BY <2>4 DEF TypeOK, NoteTerminal, ReleaseByTask, Owner
                <4>3. desired' \in [Resource -> Owner]
                    BY <2>4 DEF TypeOK, NoteTerminal, RevertDesired, Owner
                <4>4. QED BY <4>1, <4>2, <4>3
            <3>2. /\ reserved' \subseteq Task
                  /\ call' \in [Task -> CallState]
                  /\ base' \in [Task -> Nat]
                  /\ drainer' \in Owner
                <4>1. KickDrain(state', reserved, call, base)
                    BY <2>4 DEF NoteTerminal
                <4>2. QED BY <4>1, KickDrainType DEF TypeOK
            <3>3. QED BY <1>1, <1>2, <2>4, <3>1, <3>2 DEF TypeOK, Deliver, NoteTerminal
        <2>5. QED BY <1>2, <2>2, <2>3, <2>4 DEF Deliver
    <1>3. CASE DropEvent(t)
        BY <1>1, <1>3 DEF TypeOK, DropEvent, db, api
    <1>4. QED BY <1>2, <1>3 DEF Events

LEMMA UpkeepTypes ==
    ASSUME TypeOK, Upkeep
    PROVE  TypeOK'
    <1>1. CASE ReapLeases
        BY <1>1 DEF TypeOK, ReapLeases, Owner, api, agent
    <1>2. CASE ApiStart
        BY <1>2, ReconcileType DEF TypeOK, ApiStart, agent
    <1>3. CASE ReconcileWalk
        <2>1. acc' \in [Task -> BOOLEAN] /\ rec' \in RecState
            BY <1>3 DEF ReconcileWalk, RecState
        <2>2. KickDrain(state, reserved, call, base)
            BY <1>3 DEF ReconcileWalk
        <2>3. /\ reserved' \subseteq Task
              /\ call' \in [Task -> CallState]
              /\ base' \in [Task -> Nat]
              /\ drainer' \in Owner
            BY <2>2, KickDrainType DEF TypeOK
        <2>4. QED BY <1>3, <2>1, <2>3 DEF TypeOK, ReconcileWalk, agent
    <1>4. CASE ReconcileUnreachable
        <2>1. faults' \in [FaultKind -> Nat]
            BY <1>4, SpendType DEF TypeOK, ReconcileUnreachable, FaultKind
        <2>2. QED BY <1>4, <2>1 DEF TypeOK, ReconcileUnreachable, RecState, db, agent
    <1>5. CASE HeartbeatLost
        <2>1. faults' \in [FaultKind -> Nat]
            BY <1>5, SpendType DEF TypeOK, HeartbeatLost, FaultKind
        <2>2. QED BY <1>5, <2>1 DEF TypeOK, HeartbeatLost, db, agent
    <1>6. CASE HeartbeatBack
        BY <1>6, ReconcileType DEF TypeOK, HeartbeatBack, agent
    <1>7. QED BY <1>1, <1>2, <1>3, <1>4, <1>5, <1>6 DEF Upkeep

LEMMA FaultTypes ==
    ASSUME TypeOK, NEW t \in Task, LeaseExpire(t) \/ CrashInFail(t) \/ CrashInCancel(t)
    PROVE  TypeOK'
    <1>1. faults' \in [FaultKind -> Nat]
        BY SpendType DEF LeaseExpire, CrashInFail, CrashInCancel, FaultKind
    <1>2. CASE LeaseExpire(t)
        BY <1>1, <1>2 DEF TypeOK, LeaseExpire, api, agent
    <1>3. CASE CrashInFail(t)
        <2>1. /\ state' \in [Task -> State]
              /\ seq' \in [Task -> Nat]
              /\ desired' \in [Resource -> Owner]
            <3>1. state' \in [Task -> State]
                BY <1>3 DEF TypeOK, CrashInFail, State, Terminal
            <3>2. seq' \in [Task -> Nat]
                BY <1>3 DEF TypeOK, CrashInFail
            <3>3. desired' \in [Resource -> Owner]
                BY <1>3 DEF TypeOK, CrashInFail, RevertDesired
            <3>4. QED BY <3>1, <3>2, <3>3
        <2>2. LoseMemory
            BY <1>3 DEF CrashInFail
        <2>3. QED BY <1>1, <1>3, <2>1, <2>2, CrashType DEF TypeOK, CrashInFail, LoseMemory
    <1>4. CASE CrashInCancel(t)
        <2>1. /\ state' \in [Task -> State]
              /\ seq' \in [Task -> Nat]
              /\ desired' \in [Resource -> Owner]
            <3>1. state' \in [Task -> State]
                BY <1>4 DEF TypeOK, CrashInCancel, State, Terminal
            <3>2. seq' \in [Task -> Nat]
                BY <1>4 DEF TypeOK, CrashInCancel
            <3>3. desired' \in [Resource -> Owner]
                BY <1>4 DEF TypeOK, CrashInCancel, RevertDesired
            <3>4. QED BY <3>1, <3>2, <3>3
        <2>2. LoseMemory
            BY <1>4 DEF CrashInCancel
        <2>3. QED BY <1>1, <1>4, <2>1, <2>2, CrashType DEF TypeOK, CrashInCancel, LoseMemory
    <1>5. QED BY <1>2, <1>3, <1>4

LEMMA CrashTypes ==
    ASSUME TypeOK, Crashes
    PROVE  TypeOK'
    <1>1. CASE ApiCrash
        <2>1. faults' \in [FaultKind -> Nat] /\ LoseMemory
            BY <1>1, SpendType DEF ApiCrash, FaultKind
        <2>2. QED BY <1>1, <2>1, CrashType DEF TypeOK, ApiCrash, LoseMemory, db
    <1>2. CASE AgentCrash
        <2>1. faults' \in [FaultKind -> Nat]
            BY <1>2, SpendType DEF AgentCrash, FaultKind
        <2>2. call' \in [Task -> CallState] /\ run' \in [Task -> RunRecord]
            BY <1>2, RunTypes DEF TypeOK, AgentCrash, CallState
        <2>3. QED BY <1>2, <2>1, <2>2 DEF TypeOK, AgentCrash, db
    <1>3. CASE AgentStart
        BY <1>3 DEF TypeOK, AgentStart, db, api
    <1>4. QED BY <1>1, <1>2, <1>3 DEF Crashes

LEMMA InitTypes == Init => TypeOK
    <1>1. NoRun \in RunRecord
        BY DEF NoRun, RunRecord, EventKind, Owner
    <1>2. QED BY <1>1 DEF Init, TypeOK, State, Owner, RecState, CallState

LEMMA NextTypes == TypeOK /\ [Next]_vars => TypeOK'
    <1> SUFFICES ASSUME TypeOK, [Next]_vars
                 PROVE  TypeOK'
        OBVIOUS
    <1>1. CASE UNCHANGED vars
        BY <1>1 DEF TypeOK, vars, db, api, agent
    <1>2. CASE Next
        BY <1>2, ClientTypes, DispatchTypes, AgentTypes, EventTypes, UpkeepTypes, FaultTypes,
           CrashTypes DEF Next
    <1>3. QED BY <1>1, <1>2

\* Every variable keeps its type in every behaviour, whatever the faults: the
\* rows, the api's memory, the in-flight registry and the fault counts.
THEOREM TypeCorrect == Spec => []TypeOK
    BY InitTypes, NextTypes, PTL DEF Spec

-----------------------------------------------------------------------------
(***************************************************************************)
(* Leases are lost by ending only.                                         *)
(***************************************************************************)

\* No step of the engine takes a lease from a task that stays queued or
\* running, nor hands it straight to another task: the lease timer reaps ended
\* tasks only, the sweep ends the tasks it takes leases from, and an apply
\* takes free leases only.
THEOREM LeaseKept == Spec => LeaseKeptWhileLive
    <1> DEFINE Kept == \A r \in Resource :
                          lease[r] # NoTask /\ lease'[r] # lease[r] =>
                              lease'[r] = NoTask /\ state'[lease[r]] \notin Live
    <1>1. ASSUME TypeOK, Next
          PROVE  Kept
        <2>1. ASSUME NEW t \in Task, NEW rs \in Requests[t], Apply(t, rs)
              PROVE  Kept
            BY <2>1 DEF TypeOK, Apply, Free
        <2>2. ASSUME NEW t \in Task, ReleaseByTask(t), state'[t] \notin Live
              PROVE  Kept
            BY <1>1, <2>2 DEF TypeOK, ReleaseByTask
        <2>3. ASSUME NEW t \in Task, NEW final \in Terminal, NEW s, EndLocally(t, final, s)
              PROVE  Kept
            <3>1. ReleaseByTask(t) /\ state' = [state EXCEPT ![t] = final]
                BY <2>3 DEF EndLocally
            <3>2. state'[t] \notin Live
                BY <1>1, <3>1 DEF TypeOK, Terminal, Live
            <3> HIDE DEF Kept
            <3>3. QED BY <2>2, <3>1, <3>2
        <2>4. ASSUME NEW t \in Task, CancelQueued(t) \/ FailBeforeChange(t)
              PROVE  Kept
            BY <2>3, <2>4 DEF CancelQueued, FailBeforeChange, Terminal
        <2>5. ASSUME NEW t \in Task, NoteTerminal(t)
              PROVE  Kept
            <3>1. state'[t] \notin Live
                BY <1>1, <2>5 DEF TypeOK, NoteTerminal, Terminal, Live
            <3> HIDE DEF Kept
            <3>2. QED BY <2>2, <2>5, <3>1 DEF NoteTerminal
        <2>6. CASE ReapLeases
            BY <2>6 DEF TypeOK, ReapLeases, Reapable
        <2>7. CASE SweepExpired
            <3>1. ASSUME NEW r \in Resource, lease[r] # NoTask, lease'[r] # lease[r]
                  PROVE  lease'[r] = NoTask /\ lease[r] \in expired
                BY <2>7, <3>1 DEF TypeOK, SweepExpired
            <3>2. ASSUME NEW t \in Task, t \in expired
                  PROVE  state'[t] \notin Live
                BY <2>7, <3>2 DEF SweepExpired, Live
            <3>3. expired \subseteq Task
                BY <1>1 DEF TypeOK
            <3>4. QED BY <3>1, <3>2, <3>3
        <2>8. CASE UNCHANGED lease
            BY <2>8
        <2> HIDE DEF Kept
        <2>9. ASSUME NEW t \in Task, Client(t) PROVE Kept
            BY <2>1, <2>4, <2>8, <2>9 DEF Client, Replay, CancelRunning, db
        <2>10. ASSUME NEW t \in Task, Dispatch(t) PROVE Kept
            BY <2>4, <2>8, <2>10 DEF Dispatch, DispatchAccepted, DispatchRejected, DispatchTimeout
        <2>11. ASSUME NEW t \in Task, Agent(t) PROVE Kept
            BY <2>8, <2>11 DEF Agent, AgentBegin, AgentBeginStale, AgentStage, AgentEnd, db
        <2>12. ASSUME NEW t \in Task, Events(t) PROVE Kept
            BY <2>5, <2>8, <2>12 DEF Events, Deliver, DropEvent, IgnoreEvent, NoteProgress, db
        <2>13. CASE Upkeep
            BY <2>6, <2>7, <2>8, <2>13 DEF Upkeep, ApiStart, ReconcileWalk, ReconcileUnreachable,
               HeartbeatLost, HeartbeatBack, StartReconcile, db
        <2>14. CASE Crashes
            BY <2>8, <2>14 DEF Crashes, ApiCrash, AgentCrash, AgentStart, db
        <2>15. ASSUME NEW t \in Task, LeaseExpire(t) \/ CrashInFail(t) \/ CrashInCancel(t)
               PROVE  Kept
            BY <2>8, <2>15 DEF LeaseExpire, CrashInFail, CrashInCancel
        <2>16. QED BY <1>1, <2>9, <2>10, <2>11, <2>12, <2>13, <2>14, <2>15 DEF Next
    <1>2. ASSUME TypeOK, [Next]_vars
          PROVE  [Kept]_vars
        BY <1>1, <1>2
    <1>3. QED BY <1>2, TypeCorrect, PTL DEF Spec, LeaseKeptWhileLive

-----------------------------------------------------------------------------
(***************************************************************************)
(* What the dispatch helpers do to reservations and calls: nothing beyond  *)
(* what their caller passes in, or the begin of one more queued task.      *)
(***************************************************************************)

Begun(u, st, rsv, cl) ==
    /\ st[u] = "queued"
    /\ u \notin rsv
    /\ SlotFree(st, rsv)
    /\ reserved' = rsv \cup {u}
    /\ call' = [cl EXCEPT ![u] = IF agentUp THEN "sent" ELSE "refused"]

Offered(st, rsv, cl) ==
    \/ reserved' = rsv /\ call' = cl
    \/ \E u \in Task : Begun(u, st, rsv, cl)

\* drainQueued's turn and its triggers begin at most one waiting task.
LEMMA DrainOffers ==
    ASSUME NEW st, NEW rsv, NEW cl, NEW bs,
           DrainTurn(st, rsv, cl, bs) \/ KickDrain(st, rsv, cl, bs)
    PROVE  Offered(st, rsv, cl)
    <1>1. CASE DrainTurn(st, rsv, cl, bs)
        <2>1. ASSUME NEW u \in Oldest(Waiting(st, rsv)), SlotFree(st, rsv), Begin(u, rsv, cl, bs)
              PROVE  Offered(st, rsv, cl)
            <3>1. u \in Task /\ Begun(u, st, rsv, cl)
                BY <2>1 DEF Oldest, Waiting, Begin, Begun
            <3>2. QED BY <3>1 DEF Offered
        <2>2. CASE reserved' = rsv /\ call' = cl
            BY <2>2 DEF Offered
        <2>3. QED BY <1>1, <2>1, <2>2 DEF DrainTurn
    <1>2. CASE KickDrain(st, rsv, cl, bs) /\ ~DrainTurn(st, rsv, cl, bs)
        BY <1>2 DEF KickDrain, Offered
    <1>3. QED BY <1>1, <1>2

LEMMA SettleOffers ==
    ASSUME NEW t \in Task, NEW st, NEW kick, Settle(t, st, kick)
    PROVE  Offered(st, reserved \ {t}, [call EXCEPT ![t] = "none"])
    <1> DEFINE rsv == reserved \ {t}
               cl == [call EXCEPT ![t] = "none"]
               bs == [base EXCEPT ![t] = 0]
    <1>1. \/ DrainTurn(st, rsv, cl, bs)
          \/ KickDrain(st, rsv, cl, bs)
          \/ reserved' = rsv /\ call' = cl
        BY DEF Settle
    <1> HIDE DEF rsv, cl, bs
    <1>2. Offered(st, rsv, cl)
        BY <1>1, DrainOffers DEF Offered
    <1>3. QED BY <1>2 DEF rsv, cl

LEMMA AdmitOffers ==
    ASSUME NEW t \in Task, NEW st, Admit(st, t), st[t] = "queued", t \notin reserved
    PROVE  Offered(st, reserved, call)
    <1>1. CASE SlotFree(st, reserved) /\ Begin(t, reserved, call, base)
        <2>1. Begun(t, st, reserved, call)
            BY <1>1 DEF Begin, Begun
        <2>2. QED BY <2>1 DEF Offered
    <1>2. CASE UNCHANGED <<reserved, call, base>>
        BY <1>2 DEF Offered
    <1>3. QED BY <1>1, <1>2 DEF Admit

-----------------------------------------------------------------------------
(***************************************************************************)
(* The conjuncts of IInv as predicates of the values the helpers see.      *)
(***************************************************************************)

Paired(st, rsv, cl) ==
    /\ rsv = {t \in Task : cl[t] # "none"}
    /\ \A t \in rsv : st[t] # "none"

Unanswered(t, st, rsv, cl) ==
    \/ st[t] = "none"
    \/ st[t] = "queued" /\ t \notin rsv
    \/ cl[t] \in {"sent", "refused"}

Quiet(st, rsv, cl, rn, stl) ==
    \A t \in Task : Unanswered(t, st, rsv, cl) => ~rn[t].on /\ t \notin stl

AllLive(st, cl) == \A t \in Task : cl[t] # "none" => st[t] \in Live

Occupied(st, rsv) == {t \in Task : st[t] = "running"} \cup rsv
Capped(st, rsv) == Cardinality(Occupied(st, rsv)) <= MaxInflight

\* A begin of a queued, unreserved task with a free slot keeps all four.
LEMMA OfferKeeps ==
    ASSUME NEW st \in [Task -> State], NEW rsv \in SUBSET Task, NEW cl \in [Task -> CallState],
           NEW rn, NEW stl, Offered(st, rsv, cl)
    PROVE  /\ Paired(st, rsv, cl) => Paired(st, reserved', call')
           /\ Quiet(st, rsv, cl, rn, stl) => Quiet(st, reserved', call', rn, stl)
           /\ AllLive(st, cl) => AllLive(st, call')
           /\ Capped(st, rsv) => Capped(st, reserved')
    <1>1. CASE reserved' = rsv /\ call' = cl
        BY <1>1
    <1>2. ASSUME NEW u \in Task, Begun(u, st, rsv, cl)
          PROVE  /\ Paired(st, rsv, cl) => Paired(st, reserved', call')
                 /\ Quiet(st, rsv, cl, rn, stl) => Quiet(st, reserved', call', rn, stl)
                 /\ AllLive(st, cl) => AllLive(st, call')
                 /\ Capped(st, rsv) => Capped(st, reserved')
        <2>1. Paired(st, rsv, cl) => Paired(st, reserved', call')
            BY <1>2 DEF Begun, Paired
        <2>2. Quiet(st, rsv, cl, rn, stl) => Quiet(st, reserved', call', rn, stl)
            BY <1>2 DEF Begun, Quiet, Unanswered
        <2>3. AllLive(st, cl) => AllLive(st, call')
            BY <1>2 DEF Begun, AllLive, Live
        <2>4. Capped(st, reserved')
            <3> DEFINE running == {t \in Task : st[t] = "running"}
            <3>1. IsFiniteSet(running) /\ IsFiniteSet(rsv)
                <4>1. running \in SUBSET Task
                    OBVIOUS
                <4> HIDE DEF running
                <4>2. QED BY <4>1, TaskAssumption, FS_Subset
            <3>2. Cardinality(running) + Cardinality(rsv) < MaxInflight
                BY <1>2 DEF Begun, SlotFree
            <3> HIDE DEF running
            <3>3. /\ IsFiniteSet(running \cup rsv)
                  /\ Cardinality(running \cup rsv) <= Cardinality(running) + Cardinality(rsv)
                <4>1. (running \cap rsv) \in SUBSET running
                    OBVIOUS
                <4>2. IsFiniteSet(running \cap rsv)
                    BY <3>1, <4>1, FS_Subset
                <4>3. /\ Cardinality(running) \in Nat
                      /\ Cardinality(rsv) \in Nat
                      /\ Cardinality(running \cap rsv) \in Nat
                    BY <3>1, <4>2, FS_CardinalityType
                <4>4. /\ IsFiniteSet(running \cup rsv)
                      /\ Cardinality(running \cup rsv) =
                           Cardinality(running) + Cardinality(rsv) - Cardinality(running \cap rsv)
                    BY <3>1, FS_Union
                <4>5. QED BY <4>3, <4>4
            <3>4. /\ Cardinality(running) \in Nat
                  /\ Cardinality(rsv) \in Nat
                  /\ Cardinality(running \cup rsv) \in Nat
                BY <3>1, <3>3, FS_CardinalityType
            <3>5. Cardinality((running \cup rsv) \cup {u}) <= MaxInflight
                <4>1. Cardinality((running \cup rsv) \cup {u}) =
                        IF u \in running \cup rsv THEN Cardinality(running \cup rsv)
                        ELSE Cardinality(running \cup rsv) + 1
                    BY <3>3, FS_AddElement
                <4>2. QED BY <3>2, <3>3, <3>4, <4>1, CapAssumption
            <3>6. Occupied(st, reserved') = (running \cup rsv) \cup {u}
                BY <1>2 DEF Occupied, Begun, running
            <3>7. QED BY <3>5, <3>6 DEF Capped
        <2>5. QED BY <2>1, <2>2, <2>3, <2>4
    <1>3. QED BY <1>1, <1>2 DEF Offered

\* The cap survives when no task starts to occupy a slot.
LEMMA CapShrinks ==
    ASSUME NEW st1, NEW rsv1 \in SUBSET Task, NEW st2, NEW rsv2 \in SUBSET Task,
           Occupied(st2, rsv2) \subseteq Occupied(st1, rsv1), Capped(st1, rsv1)
    PROVE  Capped(st2, rsv2)
    <1>1. IsFiniteSet(Occupied(st1, rsv1))
        <2>1. Occupied(st1, rsv1) \subseteq Task
            BY DEF Occupied
        <2>2. QED BY <2>1, TaskAssumption, FS_Subset
    <1>2. /\ IsFiniteSet(Occupied(st2, rsv2))
          /\ Cardinality(Occupied(st2, rsv2)) <= Cardinality(Occupied(st1, rsv1))
        BY <1>1, FS_Subset
    <1>3. QED BY <1>1, <1>2, CapAssumption, FS_CardinalityType DEF Capped

-----------------------------------------------------------------------------
(***************************************************************************)
(* Facts about every step.                                                 *)
(***************************************************************************)

\* Fault counts only grow.
LEMMA FaultsGrow ==
    ASSUME TypeOK, Next
    PROVE  \A k \in FaultKind : faults'[k] = 0 => faults[k] = 0
    <1>1. ASSUME NEW k \in FaultKind, Spend(k)
          PROVE  \A j \in FaultKind : faults'[j] = 0 => faults[j] = 0
        BY <1>1 DEF TypeOK, Spend
    <1>2. UNCHANGED faults \/ \E k \in FaultKind : Spend(k)
        <2>1. ASSUME NEW t \in Task, Client(t) \/ Dispatch(t) \/ Agent(t) \/ Events(t)
              PROVE  UNCHANGED faults \/ \E k \in FaultKind : Spend(k)
            BY <2>1 DEF Client, Apply, Replay, CancelQueued, CancelRunning, Dispatch,
               DispatchAccepted, DispatchRejected, DispatchTimeout, Agent, AgentBegin,
               AgentBeginStale, AgentStage, AgentEnd, Events, Deliver, DropEvent, FaultKind
        <2>2. ASSUME NEW t \in Task, LeaseExpire(t) \/ CrashInFail(t) \/ CrashInCancel(t)
              PROVE  \E k \in FaultKind : Spend(k)
            BY <2>2 DEF LeaseExpire, CrashInFail, CrashInCancel, FaultKind
        <2>3. CASE Upkeep \/ Crashes
            BY <2>3 DEF Upkeep, ReapLeases, ApiStart, ReconcileWalk, ReconcileUnreachable,
               HeartbeatLost, HeartbeatBack, Crashes, ApiCrash, AgentCrash, AgentStart, FaultKind
        <2>4. QED BY <2>1, <2>2, <2>3 DEF Next
    <1>3. QED BY <1>1, <1>2

\* A property that does not survive some faults is one of the past as well.
LEMMA CleanBefore ==
    ASSUME TypeOK, Next, NEW K \in SUBSET FaultKind, Clean(K)'
    PROVE  Clean(K)
    BY FaultsGrow DEF Clean

\* No step that loses the api's memory leaves the count of api crashes at 0.
LEMMA CrashCounted ==
    ASSUME TypeOK, NEW t \in Task, ApiCrash \/ CrashInFail(t) \/ CrashInCancel(t)
    PROVE  faults'["apiCrash"] # 0
    BY DEF TypeOK, ApiCrash, CrashInFail, CrashInCancel, Spend, FaultKind

\* A task never loses its row.
LEMMA RowsStay ==
    ASSUME TypeOK, Next
    PROVE  \A t \in Task : state[t] # "none" => state'[t] # "none"
    <1> DEFINE Stay == \A t \in Task : state[t] # "none" => state'[t] # "none"
    <1>1. ASSUME NEW t \in Task, NEW final, final # "none", state' = [state EXCEPT ![t] = final]
          PROVE  Stay
        BY <1>1 DEF TypeOK
    <1>2. CASE UNCHANGED state
        BY <1>2
    <1>3. CASE StartReconcile
        BY <1>3 DEF TypeOK, StartReconcile, SweepExpired, db
    <1>4. ASSUME NEW t \in Task, Client(t)
          PROVE  Stay
        BY <1>4 DEF TypeOK, Client, Apply, Replay, CancelQueued, CancelRunning, EndLocally, db
    <1>5. ASSUME NEW t \in Task, Dispatch(t)
          PROVE  Stay
        BY <1>5 DEF TypeOK, Dispatch, DispatchAccepted, DispatchRejected, DispatchTimeout,
           FailBeforeChange, EndLocally
    <1>6. ASSUME NEW t \in Task, Agent(t)
          PROVE  Stay
        BY <1>6 DEF Agent, AgentBegin, AgentBeginStale, AgentStage, AgentEnd, db
    <1>7. ASSUME NEW t \in Task, Events(t)
          PROVE  Stay
        <2>1. CASE NoteTerminal(t)
            BY <2>1 DEF TypeOK, NoteTerminal, Terminal
        <2>2. CASE NoteProgress(t)
            BY <2>2 DEF TypeOK, NoteProgress
        <2>3. CASE UNCHANGED db
            BY <2>3 DEF db
        <2>4. QED BY <1>7, <2>1, <2>2, <2>3 DEF Events, Deliver, DropEvent, IgnoreEvent
    <1>8. ASSUME NEW t \in Task, LeaseExpire(t) \/ CrashInFail(t) \/ CrashInCancel(t)
          PROVE  Stay
        BY <1>8 DEF TypeOK, LeaseExpire, CrashInFail, CrashInCancel
    <1> HIDE DEF Stay
    <1>9. CASE Upkeep
        BY <1>2, <1>3, <1>9 DEF Upkeep, ReapLeases, ApiStart, ReconcileWalk, ReconcileUnreachable,
           HeartbeatLost, HeartbeatBack, db
    <1>10. CASE Crashes
        BY <1>2, <1>10 DEF Crashes, ApiCrash, AgentCrash, AgentStart, db
    <1>11. QED BY <1>4, <1>5, <1>6, <1>7, <1>8, <1>9, <1>10 DEF Next, Stay

-----------------------------------------------------------------------------
(***************************************************************************)
(* Reservations and calls.                                                 *)
(***************************************************************************)

LEMMA CallsReservedNext ==
    ASSUME TypeOK, TypeOK', CallsReserved, Next
    PROVE  CallsReserved'
    <1> USE RowsStay
    <1>1. /\ state' \in [Task -> State]
          /\ reserved \in SUBSET Task
          /\ call \in [Task -> CallState]
        BY DEF TypeOK
    <1>2. Paired(state', reserved, call)
        BY DEF CallsReserved, Paired
    <1>3. ASSUME Offered(state', reserved, call)
          PROVE  CallsReserved'
        <2>1. Paired(state', reserved', call')
            BY <1>1, <1>2, <1>3, OfferKeeps
        <2>2. QED BY <2>1 DEF Paired, CallsReserved
    <1>4. CASE UNCHANGED <<reserved, call>>
        BY <1>2, <1>4 DEF Paired, CallsReserved
    <1>5. ASSUME NEW t \in Task, Client(t)
          PROVE  CallsReserved'
        <2>1. ASSUME NEW rs \in Requests[t], Apply(t, rs)
              PROVE  CallsReserved'
            <3>1. state'[t] = "queued" /\ t \notin reserved
                BY <2>1 DEF TypeOK, Apply, CallsReserved
            <3>2. Admit(state', t)
                BY <2>1 DEF Apply
            <3>3. QED BY <1>3, <3>1, <3>2, AdmitOffers
        <2>2. CASE Replay(t)
            <3>1. state[t] = "queued" /\ t \notin reserved /\ Admit(state, t) /\ state' = state
                BY <2>2 DEF Replay, Undispatched, db
            <3>2. QED BY <1>3, <3>1, AdmitOffers
        <2>3. QED BY <1>4, <1>5, <2>1, <2>2 DEF Client, CancelQueued, CancelRunning, api
    <1>6. ASSUME NEW t \in Task, Dispatch(t)
          PROVE  CallsReserved'
        <2> DEFINE rsv == reserved \ {t}
                   cl == [call EXCEPT ![t] = "none"]
        <2>1. \E kick : Settle(t, state', kick)
            BY <1>6 DEF Dispatch, DispatchAccepted, DispatchRejected, DispatchTimeout, FailBeforeChange
        <2>2. Offered(state', rsv, cl)
            BY <2>1, SettleOffers
        <2>3. Paired(state', rsv, cl)
            BY <1>1, <1>2 DEF Paired
        <2>4. rsv \in SUBSET Task /\ cl \in [Task -> CallState]
            BY <1>1 DEF CallState
        <2> HIDE DEF rsv, cl
        <2>5. Paired(state', reserved', call')
            BY <1>1, <2>2, <2>3, <2>4, OfferKeeps
        <2>6. QED BY <2>5 DEF Paired, CallsReserved
    <1>7. ASSUME NEW t \in Task, Agent(t)
          PROVE  CallsReserved'
        <2>1. CASE AgentBegin(t)
            BY <1>1, <1>2, <2>1 DEF AgentBegin, Paired, CallsReserved, db
        <2>2. QED BY <1>4, <1>7, <2>1 DEF Agent, AgentBeginStale, AgentStage, AgentEnd, api
    <1>8. ASSUME NEW t \in Task, Events(t)
          PROVE  CallsReserved'
        <2>1. CASE NoteTerminal(t)
            BY <1>3, <2>1, DrainOffers DEF NoteTerminal
        <2>2. QED BY <1>4, <1>8, <2>1 DEF Events, Deliver, DropEvent, IgnoreEvent, NoteProgress, api
    <1>9. CASE Upkeep
        <2>1. CASE ReconcileWalk
            <3>1. KickDrain(state, reserved, call, base) /\ state' = state
                BY <2>1 DEF ReconcileWalk
            <3>2. QED BY <1>3, <3>1, DrainOffers
        <2>2. QED BY <1>4, <1>9, <2>1 DEF Upkeep, ReapLeases, ApiStart, ReconcileUnreachable,
                  HeartbeatLost, HeartbeatBack, api
    <1>10. CASE LoseMemory
        BY <1>10 DEF LoseMemory, CallsReserved
    <1>11. ASSUME NEW t \in Task, LeaseExpire(t) \/ CrashInFail(t) \/ CrashInCancel(t)
           PROVE  CallsReserved'
        BY <1>4, <1>10, <1>11 DEF LeaseExpire, CrashInFail, CrashInCancel, api
    <1>12. CASE Crashes
        <2>1. CASE AgentCrash
            BY <1>1, <1>2, <2>1 DEF AgentCrash, Paired, CallsReserved
        <2>2. QED BY <1>4, <1>10, <1>12, <2>1 DEF Crashes, ApiCrash, AgentStart, api
    <1>13. QED BY <1>5, <1>6, <1>7, <1>8, <1>9, <1>11, <1>12 DEF Next

\* A run is on after a publish only if it was.
LEMMA PublishedOn ==
    ASSUME TypeOK, NEW t \in Task, run' = Published(t) \/ UNCHANGED run
    PROVE  /\ \A u \in Task : run'[u].on => run[u].on
           /\ \A u \in Task : u # t => run'[u] = run[u]
           /\ run'[t].on => run'[t].seq = run[t].seq /\ (run[t].ev \notin Terminal \/ run'[t] = run[t])
    <1>1. run[t] \in RunRecord /\ run \in [Task -> RunRecord]
        BY DEF TypeOK
    <1>2. CASE run' = [run EXCEPT ![t] = NoRun]
        BY <1>1, <1>2 DEF NoRun
    <1>3. CASE run[t].ev \notin Terminal /\ run' = [run EXCEPT ![t].ev = "none"]
        BY <1>1, <1>3 DEF RunRecord
    <1>4. CASE UNCHANGED run
        BY <1>4
    <1>5. QED BY <1>2, <1>3, <1>4 DEF Published

LEMMA UnbegunIdleNext ==
    ASSUME TypeOK, TypeOK', CallsReserved, UnbegunIdle, Next
    PROVE  UnbegunIdle'
    <1> SUFFICES ASSUME Clean({"apiCrash"})'
                 PROVE  Quiet(state', reserved', call', run', stale')
        BY DEF UnbegunIdle, Quiet, Unanswered, Undispatched
    <1>1. Clean({"apiCrash"})
        BY CleanBefore DEF FaultKind
    <1>2. Quiet(state, reserved, call, run, stale)
        BY <1>1 DEF UnbegunIdle, Quiet, Unanswered, Undispatched
    <1>3. /\ state' \in [Task -> State]
          /\ reserved \in SUBSET Task
          /\ call \in [Task -> CallState]
          /\ state \in [Task -> State]
          /\ run \in [Task -> RunRecord]
        BY DEF TypeOK
    <1>4. ASSUME /\ \A u \in Task : Unanswered(u, state', reserved', call')
                                      => Unanswered(u, state, reserved, call)
                 /\ \A u \in Task : run'[u].on => run[u].on
                 /\ stale' \subseteq stale
          PROVE  Quiet(state', reserved', call', run', stale')
        BY <1>2, <1>4 DEF Quiet
    <1>5. ASSUME Offered(state', reserved, call), Quiet(state', reserved, call, run', stale')
          PROVE  Quiet(state', reserved', call', run', stale')
        BY <1>3, <1>5, OfferKeeps
    <1>6. ASSUME NEW t \in Task, Client(t)
          PROVE  Quiet(state', reserved', call', run', stale')
        <2>1. ASSUME NEW rs \in Requests[t], Apply(t, rs)
              PROVE  Quiet(state', reserved', call', run', stale')
            <3>1. state'[t] = "queued" /\ t \notin reserved
                BY <2>1 DEF TypeOK, Apply, CallsReserved
            <3>2. Offered(state', reserved, call)
                BY <2>1, <3>1, AdmitOffers DEF Apply
            <3>3. Quiet(state', reserved, call, run', stale')
                BY <1>2, <1>3, <2>1 DEF Apply, Quiet, Unanswered, agent
            <3>4. QED BY <1>5, <3>2, <3>3
        <2>2. CASE Replay(t)
            <3>1. state[t] = "queued" /\ t \notin reserved /\ Admit(state, t) /\ UNCHANGED <<state, run, stale>>
                BY <2>2 DEF Replay, Undispatched, db, agent
            <3>2. QED BY <1>2, <1>5, <3>1, AdmitOffers
        <2>3. CASE CancelQueued(t)
            BY <1>3, <1>4, <2>3 DEF CancelQueued, EndLocally, Unanswered, api, agent
        <2>4. CASE CancelRunning(t)
            <3>1. run' = [run EXCEPT ![t].cancel = TRUE] /\ run[t] \in RunRecord
                BY <1>3, <2>4 DEF CancelRunning
            <3>2. \A u \in Task : run'[u].on => run[u].on
                BY <1>3, <3>1 DEF RunRecord
            <3>3. QED BY <1>4, <2>4, <3>2 DEF CancelRunning, db, api
        <2>5. QED BY <1>6, <2>1, <2>2, <2>3, <2>4 DEF Client
    <1>7. ASSUME NEW t \in Task, Dispatch(t)
          PROVE  Quiet(state', reserved', call', run', stale')
        <2> DEFINE rsv == reserved \ {t}
                   cl == [call EXCEPT ![t] = "none"]
        <2>1. \E kick : Settle(t, state', kick)
            BY <1>7 DEF Dispatch, DispatchAccepted, DispatchRejected, DispatchTimeout, FailBeforeChange
        <2>2. Offered(state', rsv, cl)
            BY <2>1, SettleOffers
        <2>3. /\ \E final \in {"running", "failed"} : state' = [state EXCEPT ![t] = final]
              /\ run' = run
              /\ stale' \subseteq stale \cup {t}
            BY <1>7 DEF Dispatch, DispatchAccepted, DispatchRejected, DispatchTimeout,
               FailBeforeChange, EndLocally, agent
        <2>4. Quiet(state', rsv, cl, run', stale')
            BY <1>2, <1>3, <2>3 DEF Quiet, Unanswered
        <2>5. rsv \in SUBSET Task /\ cl \in [Task -> CallState]
            BY <1>3 DEF CallState
        <2> HIDE DEF rsv, cl
        <2>6. QED BY <1>3, <2>2, <2>4, <2>5, OfferKeeps
    <1>8. ASSUME NEW t \in Task, Agent(t)
          PROVE  Quiet(state', reserved', call', run', stale')
        <2>1. CASE AgentBegin(t)
            <3>1. t \in reserved /\ state[t] # "none"
                BY <2>1 DEF AgentBegin, CallsReserved
            <3>2. UNCHANGED <<state, reserved, stale>>
                BY <2>1 DEF AgentBegin, db
            <3>3. CASE call' = [call EXCEPT ![t] = "accepted"] /\ run' = Started(t)
                <4>1. \A u \in Task \ {t} : run'[u] = run[u]
                    BY <1>3, <3>3 DEF Started
                <4>2. QED BY <1>2, <1>3, <3>1, <3>2, <3>3, <4>1 DEF Quiet, Unanswered
            <3>4. CASE call' = [call EXCEPT ![t] = "refused"] /\ run' = run
                BY <1>2, <1>3, <2>1, <3>2, <3>4 DEF AgentBegin, Quiet, Unanswered
            <3>5. QED BY <2>1, <3>3, <3>4 DEF AgentBegin
        <2>2. CASE AgentBeginStale(t)
            <3>1. \A u \in Task \ {t} : run'[u] = run[u]
                BY <1>3, <2>2 DEF AgentBeginStale, Started
            <3>2. QED BY <1>2, <2>2, <3>1 DEF AgentBeginStale, Quiet, Unanswered, db, api
        <2>3. ASSUME NEW r, run' = [run EXCEPT ![t] = r], run[t].on, UNCHANGED <<db, api, stale>>
              PROVE  Quiet(state', reserved', call', run', stale')
            BY <1>2, <1>3, <2>3 DEF Quiet, Unanswered, db, api
        <2>4. QED BY <1>8, <2>1, <2>2, <2>3 DEF Agent, AgentStage, AgentEnd
    <1>9. ASSUME NEW t \in Task, Events(t)
          PROVE  Quiet(state', reserved', call', run', stale')
        <2>1. run' = Published(t) \/ UNCHANGED run
            BY <1>9 DEF Events, Deliver, DropEvent
        <2>2. (\A u \in Task : run'[u].on => run[u].on) /\ stale' = stale
            BY <1>9, <2>1, PublishedOn DEF Events, Deliver, DropEvent
        <2>3. CASE NoteTerminal(t)
            <3>1. Offered(state', reserved, call)
                BY <2>3, DrainOffers DEF NoteTerminal
            <3>2. Quiet(state', reserved, call, run', stale')
                BY <1>2, <1>3, <2>2, <2>3 DEF NoteTerminal, Quiet, Unanswered, Terminal
            <3>3. QED BY <1>5, <3>1, <3>2
        <2>4. CASE NoteProgress(t)
            BY <1>3, <1>4, <2>2, <2>4 DEF NoteProgress, Unanswered
        <2>5. CASE UNCHANGED <<db, reserved, call>>
            BY <1>4, <2>2, <2>5 DEF db
        <2>6. QED BY <1>9, <2>3, <2>4, <2>5 DEF Events, Deliver, DropEvent, IgnoreEvent, api
    <1>10. CASE Upkeep
        <2>1. CASE ReconcileWalk
            <3>1. KickDrain(state, reserved, call, base) /\ UNCHANGED <<state, run, stale>>
                BY <2>1 DEF ReconcileWalk, agent
            <3>2. QED BY <1>2, <1>5, <3>1, DrainOffers
        <2>2. CASE UNCHANGED <<state, reserved, call, run, stale>>
            BY <1>4, <2>2
        <2>3. CASE StartReconcile /\ UNCHANGED <<reserved, call, run, stale>>
            BY <1>3, <1>4, <2>3 DEF StartReconcile, SweepExpired, Unanswered, db
        <2>4. QED BY <1>10, <2>1, <2>2, <2>3 DEF Upkeep, ReapLeases, ApiStart, ReconcileUnreachable,
                  HeartbeatLost, HeartbeatBack, api, agent, db
    <1>11. ASSUME NEW t \in Task, LeaseExpire(t) \/ CrashInFail(t) \/ CrashInCancel(t)
           PROVE  Quiet(state', reserved', call', run', stale')
        <2>1. LeaseExpire(t)
            BY <1>11, CrashCounted DEF Clean
        <2>2. QED BY <1>4, <2>1 DEF LeaseExpire, api, agent
    <1>12. CASE Crashes
        <2>1. CASE AgentCrash
            <3>1. \A u \in Task : ~run'[u].on
                BY <2>1 DEF AgentCrash, NoRun
            <3>2. stale' = {}
                BY <2>1 DEF AgentCrash
            <3>3. QED BY <3>1, <3>2 DEF Quiet
        <2>2. CASE AgentStart
            BY <1>4, <2>2 DEF AgentStart, db, api
        <2>3. ~ApiCrash
            <3>1. ASSUME ApiCrash
                  PROVE  faults'["apiCrash"] # 0
                BY <3>1 DEF TypeOK, ApiCrash, Spend, FaultKind
            <3>2. QED BY <3>1 DEF Clean
        <2>4. QED BY <1>12, <2>1, <2>2, <2>3 DEF Crashes
    <1>13. QED BY <1>6, <1>7, <1>8, <1>9, <1>10, <1>11, <1>12 DEF Next

-----------------------------------------------------------------------------
(***************************************************************************)
(* Without an expiry or an api crash, the sweep finds nothing, an awaited  *)
(* begin is a live task's, and the leases are the live tasks'.             *)
(***************************************************************************)

\* Outside the client's and the api's row writes, expired only shrinks.
LEMMA NoneExpiredNext ==
    ASSUME TypeOK, TypeOK', NoneExpired, Next
    PROVE  NoneExpired'
    <1> SUFFICES ASSUME Clean({"expiry"})'
                 PROVE  expired' = {}
        BY DEF NoneExpired
    <1>1. expired = {}
        <2>1. Clean({"expiry"})
            BY CleanBefore DEF FaultKind
        <2>2. QED BY <2>1 DEF NoneExpired
    <1>2. ASSUME NEW t \in Task, LeaseExpire(t)
          PROVE  FALSE
        BY <1>2 DEF LeaseExpire, Spend, TypeOK, Clean, FaultKind
    <1>3. ASSUME NEW t \in Task, Client(t) \/ Dispatch(t) \/ Agent(t) \/ Events(t)
          PROVE  expired' = {}
        BY <1>1, <1>3 DEF Client, Apply, Replay, CancelQueued, CancelRunning, EndLocally, Dispatch,
           DispatchAccepted, DispatchRejected, DispatchTimeout, FailBeforeChange, Agent,
           AgentBegin, AgentBeginStale, AgentStage, AgentEnd, Events, Deliver, DropEvent,
           IgnoreEvent, NoteProgress, NoteTerminal, db
    <1>4. ASSUME NEW t \in Task, CrashInFail(t) \/ CrashInCancel(t)
          PROVE  expired' = {}
        BY <1>1, <1>4 DEF CrashInFail, CrashInCancel
    <1>5. CASE Upkeep \/ Crashes
        BY <1>1, <1>5 DEF Upkeep, ReapLeases, Reapable, ApiStart, ReconcileWalk, ReconcileUnreachable,
           HeartbeatLost, HeartbeatBack, StartReconcile, SweepExpired, Crashes, ApiCrash, AgentCrash,
           AgentStart, db
    <1>6. QED BY <1>2, <1>3, <1>4, <1>5 DEF Next

\* While no lease expired, upkeep (reap, sweep, reconcile, heartbeat) moves no
\* row and takes no lease.
LEMMA UpkeepIdle ==
    ASSUME TypeOK, expired = {}, Upkeep
    PROVE  UNCHANGED <<state, lease, res, seq, run, stale>>
    <1>1. CASE StartReconcile
        <2>1. state' = state /\ lease' = lease /\ UNCHANGED <<res, seq>>
            BY <1>1 DEF TypeOK, StartReconcile, SweepExpired, db
        <2>2. QED BY <2>1, <1>1 DEF Upkeep, ReapLeases, Reapable, ApiStart, ReconcileWalk,
                  ReconcileUnreachable, HeartbeatLost, HeartbeatBack, agent, api, db
    <1>2. CASE ~StartReconcile
        BY <1>2 DEF Upkeep, ReapLeases, Reapable, ApiStart, ReconcileWalk,
           ReconcileUnreachable, HeartbeatLost, HeartbeatBack, agent, api, db
    <1>3. QED BY <1>1, <1>2

\* The terminal event of a run finds no begin of its task awaited.
LEMMA EndedCall ==
    ASSUME TypeOK, UnbegunIdle, Clean({"apiCrash"}), NEW t \in Task, Deliver(t), NoteTerminal(t)
    PROVE  call[t] = "none"
    <1>1. run[t].on /\ call[t] # "accepted"
        BY DEF Deliver, NoteTerminal, Terminal
    <1>2. call[t] \notin {"sent", "refused"}
        BY <1>1 DEF UnbegunIdle
    <1>3. QED BY <1>1, <1>2 DEF TypeOK, CallState

LEMMA CallsLiveNext ==
    ASSUME TypeOK, TypeOK', CallsReserved, UnbegunIdle, NoneExpired, CallsLive, Next
    PROVE  CallsLive'
    <1> SUFFICES ASSUME Clean({"apiCrash", "expiry"})'
                 PROVE  AllLive(state', call')
        BY DEF CallsLive, AllLive
    <1>1. Clean({"apiCrash", "expiry"}) /\ Clean({"apiCrash"}) /\ Clean({"expiry"})
        <2>1. Clean({"apiCrash", "expiry"})
            BY CleanBefore DEF FaultKind
        <2>2. QED BY <2>1 DEF Clean
    <1>2. AllLive(state, call)
        BY <1>1 DEF CallsLive, AllLive
    <1>3. /\ state' \in [Task -> State]
          /\ reserved \in SUBSET Task
          /\ call \in [Task -> CallState]
          /\ state \in [Task -> State]
        BY DEF TypeOK
    <1>4. expired = {}
        BY <1>1 DEF NoneExpired
    <1>5. ASSUME Offered(state', reserved, call), AllLive(state', call)
          PROVE  AllLive(state', call')
        BY <1>3, <1>5, OfferKeeps
    <1>6. CASE UNCHANGED <<state, call>>
        BY <1>2, <1>6
    <1>7. ASSUME NEW t \in Task, Client(t)
          PROVE  AllLive(state', call')
        <2>1. ASSUME NEW rs \in Requests[t], Apply(t, rs)
              PROVE  AllLive(state', call')
            <3>1. state'[t] = "queued" /\ t \notin reserved
                BY <2>1 DEF TypeOK, Apply, CallsReserved
            <3>2. Offered(state', reserved, call)
                BY <2>1, <3>1, AdmitOffers DEF Apply
            <3>3. AllLive(state', call)
                BY <1>2, <1>3, <2>1 DEF Apply, AllLive, Live
            <3>4. QED BY <1>5, <3>2, <3>3
        <2>2. CASE Replay(t)
            <3>1. state[t] = "queued" /\ t \notin reserved /\ Admit(state, t) /\ UNCHANGED state
                BY <2>2 DEF Replay, Undispatched, db
            <3>2. QED BY <1>2, <1>5, <3>1, AdmitOffers
        <2>3. CASE CancelQueued(t)
            <3>1. call[t] = "none"
                BY <2>3 DEF CancelQueued, Undispatched, CallsReserved
            <3>2. QED BY <1>2, <1>3, <2>3, <3>1 DEF CancelQueued, EndLocally, AllLive, api
        <2>4. QED BY <1>6, <1>7, <2>1, <2>2, <2>3 DEF Client, CancelRunning, db, api
    <1>8. ASSUME NEW t \in Task, Dispatch(t)
          PROVE  AllLive(state', call')
        <2> DEFINE rsv == reserved \ {t}
                   cl == [call EXCEPT ![t] = "none"]
        <2>1. \E kick : Settle(t, state', kick)
            BY <1>8 DEF Dispatch, DispatchAccepted, DispatchRejected, DispatchTimeout, FailBeforeChange
        <2>2. Offered(state', rsv, cl)
            BY <2>1, SettleOffers
        <2>3. \E final \in {"running", "failed"} : state' = [state EXCEPT ![t] = final]
            BY <1>8 DEF Dispatch, DispatchAccepted, DispatchRejected, DispatchTimeout,
               FailBeforeChange, EndLocally
        <2>4. AllLive(state', cl)
            BY <1>2, <1>3, <2>3 DEF AllLive
        <2>5. rsv \in SUBSET Task /\ cl \in [Task -> CallState]
            BY <1>3 DEF CallState
        <2> HIDE DEF rsv, cl
        <2>6. QED BY <1>3, <2>2, <2>4, <2>5, OfferKeeps
    <1>9. ASSUME NEW t \in Task, Agent(t)
          PROVE  AllLive(state', call')
        <2>1. CASE AgentBegin(t)
            BY <1>2, <1>3, <2>1 DEF AgentBegin, AllLive, db
        <2>2. QED BY <1>6, <1>9, <2>1 DEF Agent, AgentBeginStale, AgentStage, AgentEnd, db, api
    <1>10. ASSUME NEW t \in Task, Events(t)
           PROVE  AllLive(state', call')
        <2>1. CASE Deliver(t) /\ NoteTerminal(t)
            <3>1. call[t] = "none"
                BY <1>1, <2>1, EndedCall
            <3>2. Offered(state', reserved, call)
                BY <2>1, DrainOffers DEF NoteTerminal
            <3>3. AllLive(state', call)
                BY <1>2, <1>3, <2>1, <3>1 DEF NoteTerminal, AllLive
            <3>4. QED BY <1>5, <3>2, <3>3
        <2>2. CASE NoteProgress(t)
            BY <1>2, <1>3, <2>2 DEF NoteProgress, AllLive, Live
        <2>3. QED BY <1>6, <1>10, <2>1, <2>2 DEF Events, Deliver, DropEvent, IgnoreEvent, db, api
    <1>11. CASE Upkeep
        <2>1. UNCHANGED state
            BY <1>4, <1>11, UpkeepIdle
        <2>2. CASE ReconcileWalk
            <3>1. KickDrain(state, reserved, call, base)
                BY <2>2 DEF ReconcileWalk
            <3>2. QED BY <1>2, <1>5, <2>1, <3>1, DrainOffers
        <2>3. QED BY <1>6, <1>11, <2>1, <2>2 DEF Upkeep, ReapLeases, ApiStart, ReconcileUnreachable,
                  HeartbeatLost, HeartbeatBack, api
    <1>12. ASSUME NEW t \in Task, LeaseExpire(t) \/ CrashInFail(t) \/ CrashInCancel(t)
           PROVE  AllLive(state', call')
        <2>1. LeaseExpire(t)
            BY <1>12, CrashCounted DEF Clean
        <2>2. QED BY <1>6, <2>1 DEF LeaseExpire, api
    <1>13. CASE Crashes
        <2>1. CASE AgentCrash
            BY <1>2, <1>3, <2>1 DEF AgentCrash, AllLive, db
        <2>2. CASE AgentStart
            BY <1>6, <2>2 DEF AgentStart, db, api
        <2>3. CASE ApiCrash
            <3>1. faults'["apiCrash"] # 0
                BY <2>3 DEF TypeOK, ApiCrash, Spend, FaultKind
            <3>2. QED BY <3>1 DEF Clean
        <2>4. QED BY <1>13, <2>1, <2>2, <2>3 DEF Crashes
    <1>14. QED BY <1>7, <1>8, <1>9, <1>10, <1>11, <1>12, <1>13 DEF Next

Held(st, ls, rs) == \A t \in Task, r \in Resource : ls[r] = t <=> st[t] \in Live /\ r \in rs[t]

LEMMA LeasesHeldNext ==
    ASSUME TypeOK, TypeOK', NoneExpired, CallsLive, LeasesHeld, Next
    PROVE  LeasesHeld'
    <1> SUFFICES ASSUME Clean({"apiCrash", "expiry"})'
                 PROVE  Held(state', lease', res')
        BY DEF LeasesHeld, Held
    <1>1. Clean({"apiCrash", "expiry"}) /\ Clean({"expiry"})
        <2>1. Clean({"apiCrash", "expiry"})
            BY CleanBefore DEF FaultKind
        <2>2. QED BY <2>1 DEF Clean
    <1>2. Held(state, lease, res)
        BY <1>1 DEF LeasesHeld, Held
    <1>3. /\ state \in [Task -> State]
          /\ lease \in [Resource -> Owner]
          /\ res \in [Task -> SUBSET Resource]
        BY DEF TypeOK
    <1>4. CASE UNCHANGED <<lease, res>> /\ \A t \in Task : state'[t] \in Live <=> state[t] \in Live
        BY <1>2, <1>4 DEF Held
    <1>5. ASSUME NEW t \in Task, NEW final \in Terminal, ReleaseByTask(t),
                 state' = [state EXCEPT ![t] = final], UNCHANGED res
          PROVE  Held(state', lease', res')
        <2>1. final \notin Live
            BY DEF Terminal, Live
        <2>2. QED BY NoTaskAssumption, <1>2, <1>3, <1>5, <2>1 DEF Held, ReleaseByTask
    <1>6. ASSUME NEW t \in Task, Client(t)
          PROVE  Held(state', lease', res')
        <2>1. ASSUME NEW rs \in Requests[t], Apply(t, rs)
              PROVE  Held(state', lease', res')
            <3>1. rs \subseteq Resource
                BY RequestsAssumption
            <3>2. \A r \in Resource : lease[r] # t
                BY <1>2, <2>1 DEF Held, Apply, Live
            <3>3. \A u \in Task, r \in rs : ~(state[u] \in Live /\ r \in res[u])
                BY NoTaskAssumption, <1>2, <2>1, <3>1 DEF Held, Apply, Free
            <3>4. /\ state' = [state EXCEPT ![t] = "queued"]
                  /\ res' = [res EXCEPT ![t] = rs]
                  /\ lease' = [r \in Resource |-> IF r \in rs THEN t ELSE lease[r]]
                BY <2>1 DEF Apply
            <3>5. ASSUME NEW u \in Task, NEW r \in Resource
                  PROVE  lease'[r] = u <=> state'[u] \in Live /\ r \in res'[u]
                <4>1. CASE u = t
                    BY <1>3, <3>2, <3>4, <4>1 DEF Live
                <4>2. CASE u # t
                    <5>1. state'[u] = state[u] /\ res'[u] = res[u]
                        BY <1>3, <3>4, <4>2
                    <5>2. QED BY <1>2, <3>3, <3>4, <4>2, <5>1 DEF Held
                <4>3. QED BY <4>1, <4>2
            <3>6. QED BY <3>5 DEF Held
        <2>2. CASE CancelQueued(t)
            BY <1>5, <2>2 DEF CancelQueued, EndLocally, Terminal
        <2>3. QED BY <1>4, <1>6, <2>1, <2>2 DEF Client, Replay, CancelRunning, db
    <1>7. ASSUME NEW t \in Task, Dispatch(t)
          PROVE  Held(state', lease', res')
        <2>1. CASE DispatchAccepted(t)
            <3>1. state[t] \in Live
                BY <1>1, <2>1 DEF CallsLive, DispatchAccepted
            <3>2. QED BY <1>3, <1>4, <2>1, <3>1 DEF DispatchAccepted, Live
        <2>2. CASE FailBeforeChange(t)
            BY <1>5, <2>2 DEF FailBeforeChange, EndLocally, Terminal
        <2>3. QED BY <1>7, <2>1, <2>2 DEF Dispatch, DispatchRejected, DispatchTimeout
    <1>8. ASSUME NEW t \in Task, Agent(t)
          PROVE  Held(state', lease', res')
        BY <1>4, <1>8 DEF Agent, AgentBegin, AgentBeginStale, AgentStage, AgentEnd, db
    <1>9. ASSUME NEW t \in Task, Events(t)
          PROVE  Held(state', lease', res')
        <2>1. CASE NoteTerminal(t)
            BY <1>5, <2>1 DEF NoteTerminal
        <2>2. CASE NoteProgress(t)
            BY <1>3, <1>4, <2>2 DEF NoteProgress, Live
        <2>3. QED BY <1>4, <1>9, <2>1, <2>2 DEF Events, Deliver, DropEvent, IgnoreEvent, db
    <1>10. CASE Upkeep
        <2>1. expired = {}
            BY <1>1 DEF NoneExpired
        <2>2. QED BY <1>2, <1>10, <2>1, UpkeepIdle
    <1>11. ASSUME NEW t \in Task, LeaseExpire(t) \/ CrashInFail(t) \/ CrashInCancel(t)
           PROVE  Held(state', lease', res')
        <2>1. LeaseExpire(t)
            BY <1>11, CrashCounted DEF Clean
        <2>2. QED BY <1>4, <2>1 DEF LeaseExpire
    <1>12. CASE Crashes
        BY <1>4, <1>12 DEF Crashes, ApiCrash, AgentCrash, AgentStart, db
    <1>13. QED BY <1>6, <1>7, <1>8, <1>9, <1>10, <1>11, <1>12 DEF Next

\* While nothing timed out either, no run outlives its task.
LEMMA RunsLiveNext ==
    ASSUME TypeOK, TypeOK', CallsReserved, UnbegunIdle, NoneExpired, CallsLive, RunsLive, Next
    PROVE  RunsLive'
    <1> DEFINE Open(u) == run[u].on /\ (run[u].ev \in Terminal => run[u].seq > seq[u])
               Tied == \A u \in Task : Open(u) => state[u] \in Live
    <1> SUFFICES ASSUME Clean({"apiCrash", "expiry", "timeout"})'
                 PROVE  stale' = {} /\ Tied'
        BY DEF RunsLive
    <1>1. /\ Clean({"apiCrash", "expiry", "timeout"})
          /\ Clean({"apiCrash", "expiry"})
          /\ Clean({"apiCrash"})
          /\ Clean({"expiry"})
        <2>1. Clean({"apiCrash", "expiry", "timeout"})
            BY CleanBefore DEF FaultKind
        <2>2. QED BY <2>1 DEF Clean
    <1>2. stale = {} /\ Tied
        BY <1>1 DEF RunsLive
    <1>3. /\ state \in [Task -> State]
          /\ seq \in [Task -> Nat]
          /\ run \in [Task -> RunRecord]
        BY DEF TypeOK
    <1>4. ASSUME stale' = stale,
                 \A u \in Task : Open(u)' => Open(u) /\ (state[u] \in Live => state'[u] \in Live)
          PROVE  stale' = {} /\ Tied'
        BY <1>2, <1>4
    <1>5. ASSUME NEW t \in Task, NEW final, ~run[t].on, UNCHANGED <<run, stale>>,
                 state' = [state EXCEPT ![t] = final],
                 \A u \in Task : u # t => seq'[u] = seq[u]
          PROVE  stale' = {} /\ Tied'
        BY <1>2, <1>3, <1>5
    <1>6. CASE UNCHANGED <<state, seq, run, stale>>
        BY <1>4, <1>6
    <1>7. ASSUME NEW t \in Task, Client(t)
          PROVE  stale' = {} /\ Tied'
        <2>1. ASSUME NEW rs \in Requests[t], Apply(t, rs)
              PROVE  stale' = {} /\ Tied'
            <3>1. ~run[t].on
                BY <1>1, <2>1 DEF Apply, UnbegunIdle
            <3>2. QED BY <1>5, <2>1, <3>1 DEF Apply, agent
        <2>2. CASE CancelQueued(t)
            <3>1. ~run[t].on
                BY <1>1, <2>2 DEF CancelQueued, UnbegunIdle
            <3>2. \A u \in Task : u # t => seq'[u] = seq[u]
                BY <1>3, <2>2 DEF CancelQueued, EndLocally
            <3>3. QED BY <1>5, <2>2, <3>1, <3>2 DEF CancelQueued, EndLocally, agent
        <2>3. CASE CancelRunning(t)
            <3>1. run' = [run EXCEPT ![t].cancel = TRUE] /\ run[t] \in RunRecord
                BY <1>3, <2>3 DEF CancelRunning
            <3>2. \A u \in Task : /\ run'[u].on = run[u].on
                                  /\ run'[u].ev = run[u].ev
                                  /\ run'[u].seq = run[u].seq
                BY <1>3, <3>1 DEF RunRecord
            <3>3. QED BY <1>4, <2>3, <3>2 DEF CancelRunning, db
        <2>4. QED BY <1>6, <1>7, <2>1, <2>2, <2>3 DEF Client, Replay, db, agent
    <1>8. ASSUME NEW t \in Task, Dispatch(t)
          PROVE  stale' = {} /\ Tied'
        <2>1. CASE DispatchAccepted(t)
            BY <1>3, <1>4, <2>1 DEF DispatchAccepted, Live, agent
        <2>2. CASE DispatchRejected(t)
            <3>1. ~run[t].on
                BY <1>1, <2>2 DEF DispatchRejected, UnbegunIdle
            <3>2. \A u \in Task : u # t => seq'[u] = seq[u]
                BY <1>3, <2>2 DEF DispatchRejected, FailBeforeChange, EndLocally
            <3>3. QED BY <1>5, <2>2, <3>1, <3>2 DEF DispatchRejected, FailBeforeChange, EndLocally, agent
        <2>3. ~DispatchTimeout(t)
            BY DEF DispatchTimeout, Spend, TypeOK, Clean, FaultKind
        <2>4. QED BY <1>8, <2>1, <2>2, <2>3 DEF Dispatch
    <1>9. ASSUME NEW t \in Task, Agent(t)
          PROVE  stale' = {} /\ Tied'
        <2>1. ASSUME NEW r \in RunRecord, run' = [run EXCEPT ![t] = r], state[t] \in Live,
                     UNCHANGED <<state, seq, stale>>
              PROVE  stale' = {} /\ Tied'
            BY <1>2, <1>3, <2>1
        <2>2. CASE AgentBegin(t)
            <3>1. state[t] \in Live
                BY <1>1, <2>2 DEF CallsLive, AgentBegin
            <3>2. [NoRun EXCEPT !.on = TRUE, !.seq = 1, !.ev = "accepted"] \in RunRecord
                <4>1. NoRun \in RunRecord
                    BY RunTypes
                <4>2. QED BY <4>1 DEF NoRun, RunRecord, EventKind
            <3>3. QED BY <1>6, <2>1, <2>2, <3>1, <3>2 DEF AgentBegin, Started, db
        <2>3. ~AgentBeginStale(t)
            BY <1>2 DEF AgentBeginStale
        <2>4. ASSUME NEW status \in EventKind, NEW r \in RunRecord,
                     run' = [run EXCEPT ![t] = Publish(status, r)],
                     run[t].on, run[t].ev = "none", UNCHANGED <<db, stale>>
              PROVE  stale' = {} /\ Tied'
            <3>1. state[t] \in Live
                BY <1>2, <2>4 DEF Terminal
            <3>2. Publish(status, r) \in RunRecord
                BY PublishType
            <3>3. QED BY <2>1, <2>4, <3>1, <3>2 DEF db
        <2>5. CASE AgentStage(t)
            <3>1. StageDone(t) \in RunRecord
                BY StageDoneType, <2>5 DEF AgentStage
            <3>2. QED BY <2>4, <2>5, <3>1 DEF AgentStage, EventKind
        <2>6. ASSUME NEW status \in Terminal, AgentEnd(t, status)
              PROVE  stale' = {} /\ Tied'
            <3>1. run[t] \in RunRecord
                BY <1>3
            <3>2. QED BY <2>4, <2>6, <3>1 DEF AgentEnd, EventKind
        <2>7. QED BY <1>9, <2>2, <2>3, <2>5, <2>6 DEF Agent
    <1>10. ASSUME NEW t \in Task, Events(t)
           PROVE  stale' = {} /\ Tied'
        <2>1. run' = Published(t) \/ UNCHANGED run
            BY <1>10 DEF Events, Deliver, DropEvent
        <2>2. stale' = stale
            BY <1>10 DEF Events, Deliver, DropEvent
        <2>3. \A u \in Task \ {t} : run'[u] = run[u]
            BY <2>1, PublishedOn
        <2>4. run'[t].on => run[t].on /\ run'[t].seq = run[t].seq
                            /\ (run[t].ev \notin Terminal \/ run'[t] = run[t])
            BY <2>1, PublishedOn
        <2>5. CASE NoteTerminal(t)
            <3>1. \A u \in Task \ {t} : state'[u] = state[u] /\ seq'[u] = seq[u]
                BY <1>3, <2>5 DEF NoteTerminal
            <3>2. seq'[t] = run[t].seq /\ run[t].seq \in Nat /\ run[t].ev \in Terminal
                BY <1>3, <2>5 DEF NoteTerminal, RunRecord
            <3>3. ~Open(t)'
                BY <2>4, <3>2
            <3>4. QED BY <1>2, <2>2, <2>3, <3>1, <3>3
        <2>6. CASE NoteProgress(t)
            <3>1. run[t].ev \notin Terminal
                BY <2>6 DEF NoteProgress, Terminal
            <3>2. \A u \in Task : state[u] \in Live => state'[u] \in Live
                BY <1>3, <2>6 DEF NoteProgress, Live
            <3>3. \A u \in Task \ {t} : seq'[u] = seq[u]
                BY <1>3, <2>6 DEF NoteProgress
            <3>4. \A u \in Task : Open(u)' => Open(u)
                BY <2>3, <2>4, <3>1, <3>3
            <3>5. QED BY <1>4, <2>2, <3>2, <3>4
        <2>7. CASE UNCHANGED <<state, seq>>
            <3>1. \A u \in Task : Open(u)' => Open(u)
                BY <2>3, <2>4, <2>7
            <3>2. QED BY <1>4, <2>2, <2>7, <3>1
        <2>8. QED BY <1>10, <2>5, <2>6, <2>7 DEF Events, Deliver, DropEvent, IgnoreEvent, db
    <1>11. CASE Upkeep
        <2>1. expired = {}
            BY <1>1 DEF NoneExpired
        <2>2. QED BY <1>6, <1>11, <2>1, UpkeepIdle
    <1>12. ASSUME NEW t \in Task, LeaseExpire(t) \/ CrashInFail(t) \/ CrashInCancel(t)
           PROVE  stale' = {} /\ Tied'
        <2>1. LeaseExpire(t)
            BY <1>12, CrashCounted DEF Clean
        <2>2. QED BY <1>6, <2>1 DEF LeaseExpire, agent
    <1>13. CASE Crashes
        <2>1. CASE AgentCrash
            <3>1. \A u \in Task : ~run'[u].on
                BY <2>1 DEF AgentCrash, NoRun
            <3>2. stale' = {}
                BY <2>1 DEF AgentCrash
            <3>3. QED BY <3>1, <3>2
        <2>2. CASE AgentStart
            BY <1>6, <2>2 DEF AgentStart, db
        <2>3. CASE ApiCrash
            <3>1. faults'["apiCrash"] # 0
                BY <2>3 DEF TypeOK, ApiCrash, Spend, FaultKind
            <3>2. QED BY <3>1 DEF Clean
        <2>4. QED BY <1>13, <2>1, <2>2, <2>3 DEF Crashes
    <1>14. QED BY <1>7, <1>8, <1>9, <1>10, <1>11, <1>12, <1>13 DEF Next

-----------------------------------------------------------------------------
(***************************************************************************)
(* The pool cap: a begin needs a free slot, and a task turns running only  *)
(* in a slot it already holds.                                             *)
(***************************************************************************)

LEMMA CapRespectedNext ==
    ASSUME TypeOK, TypeOK', CallsReserved, UnbegunIdle, CapRespected, Next
    PROVE  CapRespected'
    <1> SUFFICES ASSUME Clean({"apiCrash"})'
                 PROVE  Capped(state', reserved')
        BY DEF CapRespected, Capped, Occupied
    <1>1. Clean({"apiCrash"})
        BY CleanBefore DEF FaultKind
    <1>2. Capped(state, reserved)
        BY <1>1 DEF CapRespected, Capped, Occupied
    <1>3. /\ state \in [Task -> State]
          /\ state' \in [Task -> State]
          /\ reserved \in SUBSET Task
          /\ reserved' \in SUBSET Task
          /\ call \in [Task -> CallState]
        BY DEF TypeOK
    <1>4. ASSUME NEW rsv \in SUBSET Task, NEW cl \in [Task -> CallState], Offered(state', rsv, cl),
                 Occupied(state', rsv) \subseteq Occupied(state, reserved)
          PROVE  Capped(state', reserved')
        <2>1. Capped(state', rsv)
            BY <1>2, <1>3, <1>4, CapShrinks
        <2>2. QED BY <1>3, <1>4, <2>1, OfferKeeps
    <1>5. ASSUME Occupied(state', reserved') \subseteq Occupied(state, reserved)
          PROVE  Capped(state', reserved')
        BY <1>2, <1>3, <1>5, CapShrinks
    <1>6. CASE UNCHANGED <<state, reserved>>
        BY <1>2, <1>6
    <1>7. ASSUME NEW t \in Task, Client(t)
          PROVE  Capped(state', reserved')
        <2>1. ASSUME NEW rs \in Requests[t], Apply(t, rs)
              PROVE  Capped(state', reserved')
            <3>1. state'[t] = "queued" /\ t \notin reserved
                BY <1>3, <2>1 DEF Apply, CallsReserved
            <3>2. Offered(state', reserved, call)
                BY <2>1, <3>1, AdmitOffers DEF Apply
            <3>3. Occupied(state', reserved) \subseteq Occupied(state, reserved)
                BY <1>3, <2>1 DEF Apply, Occupied
            <3>4. QED BY <1>3, <1>4, <3>2, <3>3
        <2>2. CASE Replay(t)
            <3>1. state[t] = "queued" /\ t \notin reserved /\ Admit(state, t) /\ UNCHANGED state
                BY <2>2 DEF Replay, Undispatched, db
            <3>2. Offered(state', reserved, call)
                BY <3>1, AdmitOffers
            <3>3. Occupied(state', reserved) \subseteq Occupied(state, reserved)
                BY <3>1
            <3>4. QED BY <1>3, <1>4, <3>2, <3>3
        <2>3. CASE CancelQueued(t)
            BY <1>3, <1>5, <2>3 DEF CancelQueued, EndLocally, Occupied, api
        <2>4. QED BY <1>6, <1>7, <2>1, <2>2, <2>3 DEF Client, CancelRunning, db, api
    <1>8. ASSUME NEW t \in Task, Dispatch(t)
          PROVE  Capped(state', reserved')
        <2> DEFINE rsv == reserved \ {t}
                   cl == [call EXCEPT ![t] = "none"]
        <2>1. \E kick : Settle(t, state', kick)
            BY <1>8 DEF Dispatch, DispatchAccepted, DispatchRejected, DispatchTimeout, FailBeforeChange
        <2>2. Offered(state', rsv, cl)
            BY <2>1, SettleOffers
        <2>3. \E final \in {"running", "failed"} : state' = [state EXCEPT ![t] = final]
            BY <1>8 DEF Dispatch, DispatchAccepted, DispatchRejected, DispatchTimeout,
               FailBeforeChange, EndLocally
        <2>4. t \in reserved
            BY <1>8 DEF Dispatch, DispatchAccepted, DispatchRejected, DispatchTimeout, CallsReserved
        <2>5. Occupied(state', rsv) \subseteq Occupied(state, reserved)
            BY <1>3, <2>3, <2>4 DEF Occupied
        <2>6. rsv \in SUBSET Task /\ cl \in [Task -> CallState]
            BY <1>3 DEF CallState
        <2> HIDE DEF rsv, cl
        <2>7. QED BY <1>4, <2>2, <2>5, <2>6
    <1>9. ASSUME NEW t \in Task, Agent(t)
          PROVE  Capped(state', reserved')
        BY <1>6, <1>9 DEF Agent, AgentBegin, AgentBeginStale, AgentStage, AgentEnd, db, api
    <1>10. ASSUME NEW t \in Task, Events(t)
           PROVE  Capped(state', reserved')
        <2>1. CASE NoteTerminal(t)
            <3>1. Offered(state', reserved, call)
                BY <2>1, DrainOffers DEF NoteTerminal
            <3>2. Occupied(state', reserved) \subseteq Occupied(state, reserved)
                BY <1>3, <2>1 DEF NoteTerminal, Terminal, Occupied
            <3>3. QED BY <1>3, <1>4, <3>1, <3>2
        <2>2. CASE Deliver(t) /\ NoteProgress(t)
            <3>1. state[t] = "queued" => t \in reserved
                BY <1>1, <2>2 DEF Deliver, UnbegunIdle, Undispatched
            <3>2. QED BY <1>3, <1>5, <2>2, <3>1 DEF NoteProgress, Occupied
        <2>3. QED BY <1>6, <1>10, <2>1, <2>2 DEF Events, Deliver, DropEvent, IgnoreEvent, db, api
    <1>11. CASE Upkeep
        <2>1. CASE ReconcileWalk
            <3>1. KickDrain(state, reserved, call, base) /\ UNCHANGED state
                BY <2>1 DEF ReconcileWalk
            <3>2. Offered(state', reserved, call)
                BY <3>1, DrainOffers
            <3>3. Occupied(state', reserved) \subseteq Occupied(state, reserved)
                BY <3>1
            <3>4. QED BY <1>3, <1>4, <3>2, <3>3
        <2>2. CASE StartReconcile /\ UNCHANGED reserved
            BY <1>3, <1>5, <2>2 DEF StartReconcile, SweepExpired, Occupied, db
        <2>3. QED BY <1>6, <1>11, <2>1, <2>2 DEF Upkeep, ReapLeases, ApiStart, ReconcileUnreachable,
                  HeartbeatLost, HeartbeatBack, db, api
    <1>12. ASSUME NEW t \in Task, LeaseExpire(t) \/ CrashInFail(t) \/ CrashInCancel(t)
           PROVE  Capped(state', reserved')
        <2>1. LeaseExpire(t)
            BY <1>12, CrashCounted DEF Clean
        <2>2. QED BY <1>6, <2>1 DEF LeaseExpire, api
    <1>13. CASE Crashes
        <2>1. CASE ApiCrash
            <3>1. faults'["apiCrash"] # 0
                BY <2>1 DEF TypeOK, ApiCrash, Spend, FaultKind
            <3>2. QED BY <3>1 DEF Clean
        <2>2. QED BY <1>6, <1>13, <2>1 DEF Crashes, AgentCrash, AgentStart, db, api
    <1>14. QED BY <1>7, <1>8, <1>9, <1>10, <1>11, <1>12, <1>13 DEF Next

-----------------------------------------------------------------------------
(***************************************************************************)
(* The theorems.                                                           *)
(***************************************************************************)

LEMMA InitIInv == Init => IInv
    <1> SUFFICES ASSUME Init
                 PROVE  IInv
        OBVIOUS
    <1>1. TypeOK
        BY InitTypes
    <1>2. CapRespected
        <2>1. Occupied(state, reserved) = {}
            BY DEF Init, Occupied
        <2>2. QED BY <2>1, CapAssumption, FS_EmptySet DEF CapRespected, Occupied
    <1>3. CallsReserved /\ NoneExpired
        BY DEF Init, CallsReserved, NoneExpired
    <1>4. UnbegunIdle /\ RunsLive
        BY DEF Init, UnbegunIdle, RunsLive, NoRun
    <1>5. CallsLive
        BY DEF Init, CallsLive
    <1>6. LeasesHeld
        BY NoTaskAssumption DEF Init, LeasesHeld, Live
    <1>7. QED BY <1>1, <1>2, <1>3, <1>4, <1>5, <1>6 DEF IInv

\* IInv is inductive: no step, a fault included, leaves it.
LEMMA NextIInv == IInv /\ [Next]_vars => IInv'
    <1> SUFFICES ASSUME IInv, [Next]_vars
                 PROVE  IInv'
        OBVIOUS
    <1>1. CASE Next
        <2>1. TypeOK /\ TypeOK'
            BY NextTypes DEF IInv
        <2>2. QED BY <1>1, <2>1, CallsReservedNext, UnbegunIdleNext, NoneExpiredNext, CallsLiveNext,
                  LeasesHeldNext, RunsLiveNext, CapRespectedNext DEF IInv
    <1>2. CASE UNCHANGED vars
        BY <1>2 DEF vars, db, api, agent, IInv, TypeOK, CallsReserved, UnbegunIdle, Undispatched,
           NoneExpired, CallsLive, LeasesHeld, RunsLive, CapRespected, Clean
    <1>3. QED BY <1>1, <1>2

\* IInv is an invariant: calls, reservations, runs and leases stay tied to the
\* rows whatever the timeouts, crashes and expiries, each part under the faults
\* it excepts.
THEOREM Inductive == Spec => []IInv
    BY InitIInv, NextIInv, PTL DEF Spec

\* The leases of a resource are exactly those of the one live task that affects
\* it, until an api crash or an expiry: apply takes them with the row, and
\* every way a task ends gives them back in the same step.
THEOREM LeasesProtect == Spec => []LeasesHeld
    BY Inductive, PTL DEF IInv

\* The agent never executes two tasks that share a resource while the api
\* neither crashes nor times out and no lease expires, however many tasks,
\* resources and slots there are and whatever the agent and the wire do.
THEOREM OneExecution == Spec => []OneExecutionPerResource
    <1>1. IInv => OneExecutionPerResource
        <2> SUFFICES ASSUME IInv, Clean({"apiCrash", "expiry", "timeout"}),
                            NEW t \in Task, NEW u \in Task, t # u, Executing(t), Executing(u)
                     PROVE  res[t] \cap res[u] = {}
            BY DEF OneExecutionPerResource
        <2>1. state[t] \in Live /\ state[u] \in Live
            BY DEF IInv, RunsLive, Executing
        <2>2. res[t] \subseteq Resource
            BY DEF IInv, TypeOK
        <2>3. Clean({"apiCrash", "expiry"})
            BY DEF Clean
        <2>4. \A r \in res[t] \cap res[u] : lease[r] = t /\ lease[r] = u
            BY <2>1, <2>2, <2>3 DEF IInv, LeasesHeld
        <2>5. QED BY <2>4
    <1>2. QED BY <1>1, Inductive, PTL

\* Running and reserved tasks together never exceed max_inflight before an api
\* crash: not through replays, drains, adopted events or late acceptances.
THEOREM CapHolds == Spec => []CapRespected
    BY Inductive, PTL DEF IInv

\* Up to a timeout, an api crash or an expiry, no step moves an ended task.
LEMMA EndedStay ==
    ASSUME IInv, Next, Clean({"apiCrash", "expiry", "timeout"})
    PROVE  \A t \in Task : state[t] \in Terminal => state'[t] = state[t]
    <1> DEFINE Frozen == \A t \in Task : state[t] \in Terminal => state'[t] = state[t]
    <1>1. TypeOK /\ state \in [Task -> State]
        BY DEF IInv, TypeOK
    <1>2. Clean({"apiCrash", "expiry"}) /\ Clean({"apiCrash"}) /\ Clean({"expiry"})
        BY DEF Clean
    <1>3. ASSUME NEW t \in Task, NEW final, state[t] \notin Terminal,
                 state' = [state EXCEPT ![t] = final]
          PROVE  Frozen
        BY <1>1, <1>3
    <1>4. ASSUME UNCHANGED state
          PROVE  Frozen
        BY <1>4
    <1>5. ASSUME NEW t \in Task, call[t] # "none"
          PROVE  state[t] \notin Terminal
        BY <1>2, <1>5 DEF IInv, CallsLive, Live, Terminal
    <1> HIDE DEF Frozen
    <1>6. ASSUME NEW t \in Task, Client(t)
          PROVE  Frozen
        <2>1. ASSUME NEW rs \in Requests[t], Apply(t, rs)
              PROVE  Frozen
            BY <1>3, <2>1 DEF Apply, Terminal
        <2>2. CASE CancelQueued(t)
            BY <1>3, <2>2 DEF CancelQueued, Undispatched, EndLocally, Terminal
        <2>3. QED BY <1>4, <1>6, <2>1, <2>2 DEF Client, Replay, CancelRunning, db
    <1>7. ASSUME NEW t \in Task, Dispatch(t)
          PROVE  Frozen
        <2>1. state[t] \notin Terminal
            BY <1>5, <1>7 DEF Dispatch, DispatchAccepted, DispatchRejected, DispatchTimeout
        <2>2. \E final : state' = [state EXCEPT ![t] = final]
            BY <1>7 DEF Dispatch, DispatchAccepted, DispatchRejected, DispatchTimeout,
               FailBeforeChange, EndLocally
        <2>3. QED BY <1>3, <2>1, <2>2
    <1>8. ASSUME NEW t \in Task, Agent(t)
          PROVE  Frozen
        BY <1>4, <1>8 DEF Agent, AgentBegin, AgentBeginStale, AgentStage, AgentEnd, db
    <1>9. ASSUME NEW t \in Task, Events(t)
          PROVE  Frozen
        <2>1. CASE Deliver(t) /\ NoteTerminal(t)
            <3>1. state[t] \in Live
                BY <2>1 DEF IInv, RunsLive, Deliver, NoteTerminal
            <3>2. QED BY <1>3, <2>1, <3>1 DEF NoteTerminal, Live, Terminal
        <2>2. CASE NoteProgress(t)
            BY <1>3, <1>4, <2>2 DEF NoteProgress, Terminal
        <2>3. QED BY <1>4, <1>9, <2>1, <2>2 DEF Events, Deliver, DropEvent, IgnoreEvent, db
    <1>10. ASSUME Upkeep
           PROVE  Frozen
        <2>1. expired = {}
            BY <1>2 DEF IInv, NoneExpired
        <2>2. QED BY <1>1, <1>4, <1>10, <2>1, UpkeepIdle
    <1>11. ASSUME NEW t \in Task, LeaseExpire(t) \/ CrashInFail(t) \/ CrashInCancel(t)
           PROVE  Frozen
        <2>1. ASSUME CrashInFail(t)
              PROVE  Frozen
            <3>1. state[t] \notin Terminal
                BY <1>5, <2>1 DEF CrashInFail
            <3>2. QED BY <1>3, <1>4, <2>1, <3>1 DEF CrashInFail
        <2>2. ASSUME CrashInCancel(t)
              PROVE  Frozen
            BY <1>3, <2>2 DEF CrashInCancel, Undispatched, Terminal
        <2>3. QED BY <1>4, <1>11, <2>1, <2>2 DEF LeaseExpire
    <1>12. ASSUME Crashes
           PROVE  Frozen
        BY <1>4, <1>12 DEF Crashes, ApiCrash, AgentCrash, AgentStart, db
    <1>13. QED BY <1>6, <1>7, <1>8, <1>9, <1>10, <1>11, <1>12 DEF Next, Frozen

\* A task that ended stays as it ended, under every loss and repetition of
\* events and every agent crash.
THEOREM TerminalStays == Spec => TerminalIsFinal
    <1> DEFINE Final == Clean({"apiCrash", "expiry", "timeout"}) =>
                          \A t \in Task : state[t] \in Terminal => state'[t] = state[t]
    <1>1. ASSUME IInv, [Next]_vars
          PROVE  [Final]_vars
        BY <1>1, EndedStay
    <1>2. QED BY <1>1, Inductive, PTL DEF Spec, TerminalIsFinal

-----------------------------------------------------------------------------
(***************************************************************************)
(* Facts about every step.                                                 *)
(***************************************************************************)

\* A task keeps the resources and the replaced values of its apply.
LEMMA RequestStays ==
    ASSUME TypeOK, Next, NEW u \in Task, state[u] # "none"
    PROVE  res'[u] = res[u] /\ prior'[u] = prior[u]
    <1>1. CASE UNCHANGED <<res, prior>>
        BY <1>1
    <1>2. ASSUME NEW t \in Task, Client(t)
          PROVE  res'[u] = res[u] /\ prior'[u] = prior[u]
        BY <1>2 DEF TypeOK, Client, Apply, Replay, CancelQueued, CancelRunning, EndLocally, db
    <1>3. ASSUME NEW t \in Task, Dispatch(t) \/ Agent(t) \/ Events(t)
          PROVE  UNCHANGED <<res, prior>>
        BY <1>3 DEF Dispatch, DispatchAccepted, DispatchRejected, DispatchTimeout, FailBeforeChange,
           EndLocally, Agent, AgentBegin, AgentBeginStale, AgentStage, AgentEnd, Events, Deliver,
           DropEvent, IgnoreEvent, NoteProgress, NoteTerminal, db
    <1>4. ASSUME NEW t \in Task, LeaseExpire(t) \/ CrashInFail(t) \/ CrashInCancel(t)
          PROVE  UNCHANGED <<res, prior>>
        BY <1>4 DEF LeaseExpire, CrashInFail, CrashInCancel
    <1>5. CASE Upkeep \/ Crashes
        BY <1>5 DEF Upkeep, ReapLeases, ApiStart, ReconcileWalk, ReconcileUnreachable,
           HeartbeatLost, HeartbeatBack, StartReconcile, SweepExpired, Crashes, ApiCrash, AgentCrash,
           AgentStart, db
    <1>6. QED BY <1>1, <1>2, <1>3, <1>4, <1>5 DEF Next

\* A row comes with its apply only.
LEMMA RowComes ==
    ASSUME TypeOK, Next, NEW u \in Task, state[u] = "none", state'[u] = "queued"
    PROVE  \E rs \in Requests[u] : Apply(u, rs)
    <1>1. state \in [Task -> State]
        BY DEF TypeOK
    <1>2. CASE UNCHANGED state
        BY <1>2
    <1>3. ASSUME NEW t \in Task, NEW final, final # "queued", state' = [state EXCEPT ![t] = final]
          PROVE  FALSE
        BY <1>1, <1>3
    <1>4. ASSUME NEW t \in Task, Client(t)
          PROVE  \E rs \in Requests[u] : Apply(u, rs)
        <2>1. ASSUME NEW rs \in Requests[t], Apply(t, rs)
              PROVE  \E qs \in Requests[u] : Apply(u, qs)
            <3>1. t = u
                BY <1>1, <2>1 DEF Apply
            <3>2. QED BY <2>1, <3>1
        <2>2. QED BY <1>2, <1>3, <1>4, <2>1 DEF Client, Replay, CancelQueued, CancelRunning, EndLocally, db
    <1>5. ASSUME NEW t \in Task, Dispatch(t)
          PROVE  FALSE
        BY <1>3, <1>5 DEF Dispatch, DispatchAccepted, DispatchRejected, DispatchTimeout,
           FailBeforeChange, EndLocally
    <1>6. ASSUME NEW t \in Task, Agent(t) \/ Events(t)
          PROVE  FALSE
        BY <1>2, <1>3, <1>6 DEF Agent, AgentBegin, AgentBeginStale, AgentStage, AgentEnd, Events,
           Deliver, DropEvent, IgnoreEvent, NoteProgress, NoteTerminal, Terminal, db
    <1>7. ASSUME NEW t \in Task, LeaseExpire(t) \/ CrashInFail(t) \/ CrashInCancel(t)
          PROVE  FALSE
        BY <1>2, <1>3, <1>7 DEF LeaseExpire, CrashInFail, CrashInCancel
    <1>8. CASE SweepExpired
        BY <1>1, <1>8 DEF SweepExpired
    <1>9. CASE Upkeep \/ Crashes
        BY <1>2, <1>8, <1>9 DEF Upkeep, ReapLeases, ApiStart, ReconcileWalk, ReconcileUnreachable,
           HeartbeatLost, HeartbeatBack, StartReconcile, Crashes, ApiCrash, AgentCrash, AgentStart, db
    <1>10. QED BY <1>4, <1>5, <1>6, <1>7, <1>9 DEF Next

\* No step of the faults that Splitting names leaves their counts at 0.
LEMMA SplitCounted ==
    ASSUME TypeOK, NEW t \in Task, Clean(Splitting)'
    PROVE  /\ ~DispatchTimeout(t) /\ ~LeaseExpire(t)
           /\ ~CrashInFail(t) /\ ~CrashInCancel(t)
    <1>1. ASSUME NEW k \in Splitting, Spend(k)
          PROVE  FALSE
        BY <1>1 DEF TypeOK, Spend, Clean, Splitting, FaultKind
    <1>2. QED BY <1>1 DEF Splitting, DispatchTimeout, LeaseExpire, CrashInFail, CrashInCancel

LEMMA NoApiCrash ==
    ASSUME TypeOK, Clean(Splitting)'
    PROVE  ~ApiCrash
    BY DEF TypeOK, ApiCrash, Spend, Clean, Splitting, FaultKind

LEMMA SplitBefore ==
    ASSUME TypeOK, Next, Clean(Splitting)'
    PROVE  /\ Clean(Splitting)
           /\ Clean({"apiCrash", "expiry", "timeout"})
           /\ Clean({"apiCrash", "expiry"}) /\ Clean({"apiCrash"}) /\ Clean({"expiry"})
    <1>1. Clean({"apiCrash", "expiry", "timeout"})
        BY CleanBefore DEF Splitting, FaultKind
    <1>2. QED BY <1>1 DEF Clean, Splitting

-----------------------------------------------------------------------------
(***************************************************************************)
(* Refinement: every step is one of LeasedTasks, or changes nothing that   *)
(* LeasedTasks sees.                                                       *)
(***************************************************************************)

Refines == Promise!Next \/ UNCHANGED Promise!vars

\* A live task the api ends itself: a queued cancel, a rejected begin.
LEMMA LocalEndRefines ==
    ASSUME NEW t \in Task, NEW final \in {"failed", "cancelled"}, NEW n,
           state[t] \in Live, EndLocally(t, final, n)
    PROVE  Refines
    <1>1. Promise!Finish(t, final)
        BY DEF EndLocally, ReleaseByTask, RevertDesired, Live, Promise!Finish, Promise!Live
    <1>2. final \in Promise!Terminal
        BY DEF Promise!Terminal
    <1>3. QED BY <1>1, <1>2 DEF Refines, Promise!Next

LEMMA ClientRefines ==
    ASSUME NEW t \in Task, Client(t)
    PROVE  Refines
    <1>1. ASSUME NEW rs \in Requests[t], Apply(t, rs)
          PROVE  Refines
        <2>1. Promise!Submit(t, rs)
            BY <1>1 DEF Apply, Free, Promise!Submit
        <2>2. QED BY <2>1 DEF Refines, Promise!Next
    <1>2. CASE CancelQueued(t)
        BY <1>2, LocalEndRefines DEF CancelQueued, Undispatched, Live
    <1>3. CASE Replay(t) \/ CancelRunning(t)
        BY <1>3 DEF Replay, CancelRunning, db, Refines, Promise!vars
    <1>4. QED BY <1>1, <1>2, <1>3 DEF Client

\* A late acceptance finds its task live, and starts it at most once.
LEMMA StartRefines ==
    ASSUME TypeOK, NEW t \in Task, state[t] \in Live, state' = [state EXCEPT ![t] = "running"],
           UNCHANGED <<res, prior, lease, desired>>
    PROVE  Refines
    <1>1. CASE state[t] = "queued"
        BY <1>1 DEF Refines, Promise!Next, Promise!Start
    <1>2. CASE state[t] = "running"
        <2>1. state' = state
            BY <1>2 DEF TypeOK
        <2>2. QED BY <2>1 DEF Refines, Promise!vars
    <1>3. QED BY <1>1, <1>2 DEF Live

LEMMA DispatchRefines ==
    ASSUME IInv, Next, Clean(Splitting)', NEW t \in Task, Dispatch(t)
    PROVE  Refines
    <1>1. call[t] # "none" => state[t] \in Live
        BY SplitBefore DEF IInv, CallsLive
    <1>2. CASE DispatchAccepted(t)
        BY <1>1, <1>2, StartRefines DEF DispatchAccepted, IInv
    <1>3. CASE DispatchRejected(t)
        BY <1>1, <1>3, LocalEndRefines DEF DispatchRejected, FailBeforeChange
    <1>4. ~DispatchTimeout(t)
        BY SplitCounted DEF IInv
    <1>5. QED BY <1>2, <1>3, <1>4 DEF Dispatch

\* The terminal event of a run finds its task live, and running if it succeeded.
LEMMA TerminalEventRefines ==
    ASSUME IInv, Next, Clean(Splitting)', NEW t \in Task, Deliver(t), NoteTerminal(t)
    PROVE  Refines
    <1> DEFINE final == run[t].ev
    <1>1. state[t] \in Live
        BY SplitBefore DEF IInv, RunsLive, Deliver, NoteTerminal
    <1>2. call[t] = "none"
        BY SplitBefore, EndedCall DEF IInv
    <1>3. state[t] = "running"
        BY <1>1, <1>2, SplitBefore DEF Live, IInv, UnbegunIdle, Undispatched, CallsReserved, Deliver
    <1>4. Promise!Finish(t, final)
        BY <1>1, <1>3 DEF NoteTerminal, ReleaseByTask, RevertDesired, Live, Promise!Finish, Promise!Live
    <1>5. final \in Promise!Terminal
        BY DEF NoteTerminal, Terminal, Promise!Terminal
    <1>6. QED BY <1>4, <1>5 DEF Refines, Promise!Next

LEMMA EventRefines ==
    ASSUME IInv, Next, Clean(Splitting)', NEW t \in Task, Events(t)
    PROVE  Refines
    <1>1. CASE UNCHANGED db
        BY <1>1 DEF db, Refines, Promise!vars
    <1>2. CASE NoteProgress(t)
        <2>1. CASE UNCHANGED state
            BY <1>2, <2>1 DEF NoteProgress, Refines, Promise!vars
        <2>2. CASE state[t] = "queued" /\ state' = [state EXCEPT ![t] = "running"]
            BY <1>2, <2>2, StartRefines DEF NoteProgress, IInv, Live
        <2>3. QED BY <1>2, <2>1, <2>2 DEF NoteProgress
    <1>3. CASE Deliver(t) /\ NoteTerminal(t)
        BY <1>3, TerminalEventRefines
    <1>4. QED BY <1>1, <1>2, <1>3 DEF Events, Deliver, DropEvent, IgnoreEvent

\* Nothing has expired: upkeep sweeps and reaps nothing.
LEMMA UpkeepRefines ==
    ASSUME IInv, Next, Clean(Splitting)', Upkeep
    PROVE  Refines
    <1>1. expired = {}
        BY SplitBefore DEF IInv, NoneExpired
    <1>2. UNCHANGED <<state, lease, res>>
        BY <1>1, UpkeepIdle DEF IInv
    <1>3. UNCHANGED <<prior, desired>>
        BY DEF Upkeep, ReapLeases, ApiStart, ReconcileWalk, ReconcileUnreachable,
           HeartbeatLost, HeartbeatBack, StartReconcile, SweepExpired, db
    <1>4. QED BY <1>2, <1>3 DEF Refines, Promise!vars

\* No step before the first splitting fault is seen by LeasedTasks as anything
\* but a step of its own.
LEMMA StepRefines ==
    ASSUME IInv, Next, Clean(Splitting)'
    PROVE  Refines
    <1>1. ASSUME NEW t \in Task, Agent(t)
          PROVE  Refines
        BY <1>1 DEF Agent, AgentBegin, AgentBeginStale, AgentStage, AgentEnd, db, Refines, Promise!vars
    <1>2. CASE AgentCrash \/ AgentStart
        BY <1>2 DEF AgentCrash, AgentStart, db, Refines, Promise!vars
    <1>3. ~ApiCrash /\ \A t \in Task : ~LeaseExpire(t) /\ ~CrashInFail(t) /\ ~CrashInCancel(t)
        BY SplitCounted, NoApiCrash DEF IInv
    <1>4. QED BY <1>1, <1>2, <1>3, ClientRefines, DispatchRefines, EventRefines, UpkeepRefines
              DEF Next, Crashes

\* The engine implements LeasedTasks until a begin times out, the api crashes
\* or a lease expires: an apply takes all its leases or nothing, a task ends
\* once, and its leases and its intent go with the row that ends it.
THEOREM Implements == Spec => ImplementsLeasedTasks
    <1>1. Init => Promise!Init
        BY DEF Init, Promise!Init
    <1>2. ASSUME IInv, [Next]_vars
          PROVE  [Promise!Next \/ ~Clean(Splitting)']_(Promise!vars)
        <2>1. CASE Next
            BY <1>2, <2>1, StepRefines DEF Refines
        <2>2. CASE UNCHANGED vars
            BY <2>2 DEF vars, db, Promise!vars
        <2>3. QED BY <1>2, <2>1, <2>2
    <1>3. QED BY <1>1, <1>2, Inductive, PTL DEF Spec, ImplementsLeasedTasks

-----------------------------------------------------------------------------
(***************************************************************************)
(* Intent and host.  The inductive invariant says, for a resource that is  *)
(* held, where its host object stands in the life of the run: as the task  *)
(* found it, which is what its apply stashed in prior, or as the task      *)
(* makes it, with what it found stashed by the run.                        *)
(***************************************************************************)

Excused(r) == \E t \in Task : state[t] = "requires_manual_recovery" /\ r \in res[t]

\* Queued, and the agent has not accepted it.
Awaiting(t) == state[t] = "queued" /\ call[t] # "accepted"

Untouched(t) ==
    \/ Awaiting(t)
    \/ Executing(t) /\ run[t].stage = 0
    \/ run[t].on /\ run[t].ev \in {"failed", "cancelled"}

Configured(t) ==
    \/ Executing(t) /\ run[t].stage > 0
    \/ run[t].on /\ run[t].ev = "success"

HolderTracked(t, r) ==
    /\ Untouched(t) => host[r] = prior[t][r]
    /\ Configured(t) => host[r] = t
    /\ Executing(t) /\ run[t].stage > 0 => run[t].saved[r] = prior[t][r]

\* A begin that is not accepted is a queued task's.
AskedQueued == Clean(Splitting) =>
                 \A t \in Task : call[t] \in {"sent", "refused"} => state[t] = "queued"

\* The holder of a lease wrote the desired row.
HoldersWrote == Clean(Splitting) => \A t \in Task, r \in Resource : lease[r] = t => desired[r] = t

HoldersTracked == Clean(Splitting) =>
                    \A t \in Task, r \in Resource : lease[r] = t => Excused(r) \/ HolderTracked(t, r)

FreeAsDesired == Clean(Splitting) =>
                   \A r \in Resource : lease[r] = NoTask => Excused(r) \/ desired[r] = host[r]

IntentInv == IInv /\ AskedQueued /\ HoldersWrote /\ HoldersTracked /\ FreeAsDesired

\* Recovery by hand excuses a resource for good: the row stays as it ended.
LEMMA ExcusedStays ==
    ASSUME IInv, Next, Clean(Splitting)', NEW r, Excused(r)
    PROVE  Excused(r)'
    <1>1. PICK t \in Task : state[t] = "requires_manual_recovery" /\ r \in res[t]
        BY DEF Excused
    <1>2. state'[t] = state[t]
        BY <1>1, SplitBefore, EndedStay DEF Terminal, IInv
    <1>3. res'[t] = res[t]
        BY <1>1, RequestStays DEF IInv
    <1>4. QED BY <1>1, <1>2, <1>3 DEF Excused

\* While t is live, the leases of its resources are its own, and only they.
LEMMA LeaseOfLive ==
    ASSUME IInv, Clean({"apiCrash", "expiry"}), NEW t \in Task, NEW r \in Resource
    PROVE  lease[r] = t <=> state[t] \in Live /\ r \in res[t]
    BY DEF IInv, LeasesHeld

LEMMA AskedQueuedNext ==
    ASSUME IInv, IInv', AskedQueued, Next
    PROVE  AskedQueued'
    <1> DEFINE Asked(st, cl) == \A t \in Task : cl[t] \in {"sent", "refused"} => st[t] = "queued"
    <1> SUFFICES ASSUME Clean(Splitting)'
                 PROVE  Asked(state', call')
        BY DEF AskedQueued
    <1>1. /\ TypeOK /\ TypeOK' /\ CallsReserved /\ UnbegunIdle
          /\ Clean({"apiCrash"}) /\ Clean({"expiry"})
          /\ Asked(state, call)
        BY SplitBefore DEF IInv, AskedQueued
    <1>2. /\ state \in [Task -> State] /\ state' \in [Task -> State]
          /\ call \in [Task -> CallState]
          /\ reserved \in SUBSET Task
        BY <1>1 DEF TypeOK
    <1>3. ASSUME NEW st, NEW rsv, NEW cl \in [Task -> CallState], Offered(st, rsv, cl), Asked(st, cl)
          PROVE  Asked(st, call')
        BY <1>3 DEF Offered, Begun
    <1>4. CASE UNCHANGED <<state, call>>
        BY <1>1, <1>4
    <1>5. ASSUME NEW t \in Task, Client(t)
          PROVE  Asked(state', call')
        <2>1. ASSUME NEW rs \in Requests[t], Apply(t, rs)
              PROVE  Asked(state', call')
            <3>1. state'[t] = "queued" /\ t \notin reserved
                BY <1>1, <1>2, <2>1 DEF Apply, CallsReserved
            <3>2. Offered(state', reserved, call)
                BY <2>1, <3>1, AdmitOffers DEF Apply
            <3>3. Asked(state', call)
                BY <1>1, <1>2, <2>1 DEF Apply
            <3> HIDE DEF Asked
            <3>4. QED BY <1>2, <1>3, <3>2, <3>3
        <2>2. CASE Replay(t)
            <3>1. state[t] = "queued" /\ t \notin reserved /\ Admit(state, t) /\ UNCHANGED state
                BY <2>2 DEF Replay, Undispatched, db
            <3>2. Offered(state, reserved, call)
                BY <3>1, AdmitOffers
            <3> HIDE DEF Asked
            <3>3. QED BY <1>1, <1>2, <1>3, <3>1, <3>2
        <2>3. CASE CancelQueued(t)
            <3>1. call[t] = "none"
                BY <1>1, <2>3 DEF CancelQueued, Undispatched, CallsReserved
            <3>2. QED BY <1>1, <1>2, <2>3, <3>1 DEF CancelQueued, EndLocally, api
        <2>4. QED BY <1>4, <1>5, <2>1, <2>2, <2>3 DEF Client, CancelRunning, db, api
    <1>6. ASSUME NEW t \in Task, Dispatch(t)
          PROVE  Asked(state', call')
        <2> DEFINE rsv == reserved \ {t}
                   cl == [call EXCEPT ![t] = "none"]
        <2>1. \E kick : Settle(t, state', kick)
            BY <1>6 DEF Dispatch, DispatchAccepted, DispatchRejected, DispatchTimeout, FailBeforeChange
        <2>2. Offered(state', rsv, cl)
            BY <2>1, SettleOffers
        <2>3. \E final \in {"running", "failed"} : state' = [state EXCEPT ![t] = final]
            BY <1>6 DEF Dispatch, DispatchAccepted, DispatchRejected, DispatchTimeout,
               FailBeforeChange, EndLocally
        <2>4. Asked(state', cl)
            BY <1>1, <1>2, <2>3
        <2>5. cl \in [Task -> CallState]
            BY <1>2 DEF CallState
        <2> HIDE DEF rsv, cl, Asked
        <2>6. QED BY <1>3, <2>2, <2>4, <2>5
    <1>7. ASSUME NEW t \in Task, Agent(t)
          PROVE  Asked(state', call')
        <2>1. CASE AgentBegin(t)
            BY <1>1, <1>2, <2>1 DEF AgentBegin, db
        <2>2. QED BY <1>4, <1>7, <2>1 DEF Agent, AgentBeginStale, AgentStage, AgentEnd, db, api
    <1>8. ASSUME NEW t \in Task, Events(t)
          PROVE  Asked(state', call')
        <2>1. CASE Deliver(t) /\ NoteTerminal(t)
            <3>1. call[t] = "none"
                BY <1>1, <2>1, EndedCall
            <3>2. Offered(state', reserved, call)
                BY <2>1, DrainOffers DEF NoteTerminal
            <3>3. Asked(state', call)
                BY <1>1, <1>2, <2>1, <3>1 DEF NoteTerminal
            <3> HIDE DEF Asked
            <3>4. QED BY <1>2, <1>3, <3>2, <3>3
        <2>2. CASE Deliver(t) /\ NoteProgress(t)
            <3>1. call[t] \notin {"sent", "refused"}
                BY <1>1, <2>2 DEF Deliver, UnbegunIdle
            <3>2. UNCHANGED call /\ \A u \in Task : u # t => state'[u] = state[u]
                BY <1>2, <2>2 DEF NoteProgress
            <3>3. QED BY <1>1, <3>1, <3>2
        <2>3. QED BY <1>4, <1>8, <2>1, <2>2 DEF Events, Deliver, DropEvent, IgnoreEvent, db, api
    <1>9. CASE Upkeep
        <2>1. UNCHANGED state
            BY <1>1, <1>9, UpkeepIdle DEF IInv, NoneExpired
        <2>2. CASE ReconcileWalk
            <3>1. Offered(state, reserved, call)
                BY <2>2, DrainOffers DEF ReconcileWalk
            <3> HIDE DEF Asked
            <3>2. QED BY <1>1, <1>2, <1>3, <2>1, <3>1
        <2>3. QED BY <1>4, <1>9, <2>1, <2>2 DEF Upkeep, ReapLeases, ApiStart, ReconcileUnreachable,
                  HeartbeatLost, HeartbeatBack, api
    <1>10. CASE AgentCrash
        BY <1>1, <1>2, <1>10 DEF AgentCrash, db
    <1>11. CASE AgentStart
        BY <1>4, <1>11 DEF AgentStart, db, api
    <1>12. ~ApiCrash /\ \A t \in Task : ~LeaseExpire(t) /\ ~CrashInFail(t) /\ ~CrashInCancel(t)
        BY <1>1, SplitCounted, NoApiCrash
    <1>13. QED BY <1>5, <1>6, <1>7, <1>8, <1>9, <1>10, <1>11, <1>12 DEF Next, Crashes

\* Only a stage or the end of a run moves host objects.
LEMMA HostMovers ==
    ASSUME Next, NEW r, host'[r] # host[r]
    PROVE  \E t \in Task : AgentStage(t) \/ \E status \in Terminal : AgentEnd(t, status)
    <1>1. ASSUME UNCHANGED host
          PROVE  FALSE
        BY <1>1
    <1>2. \E t \in Task : Agent(t)
        BY <1>1 DEF Next, Client, Apply, Replay, CancelQueued, CancelRunning, Dispatch,
           DispatchAccepted, DispatchRejected, DispatchTimeout, Events, Deliver, DropEvent,
           LeaseExpire, CrashInFail, CrashInCancel, LoseMemory, Upkeep, ReapLeases, ApiStart,
           ReconcileWalk, ReconcileUnreachable, HeartbeatLost, HeartbeatBack, Crashes, ApiCrash,
           AgentCrash, AgentStart, agent
    <1>3. QED BY <1>1, <1>2 DEF Agent, AgentBegin, AgentBeginStale

\* Before a splitting fault it is a run whose task holds the resource.
LEMMA HostUnderLease ==
    ASSUME IInv, Next, Clean(Splitting)', NEW r \in Resource, host'[r] # host[r]
    PROVE  \E t \in Task : /\ AgentStage(t) \/ \E status \in Terminal : AgentEnd(t, status)
                           /\ lease[r] = t /\ state[t] \in Live /\ r \in res[t]
    <1>1. PICK t \in Task : AgentStage(t) \/ \E status \in Terminal : AgentEnd(t, status)
        BY HostMovers
    <1>2. r \in res[t]
        <2>1. host \in [Resource -> Owner]
            BY DEF IInv, TypeOK
        <2>2. CASE AgentStage(t)
            BY <2>1, <2>2 DEF AgentStage
        <2>3. ASSUME r \notin res[t]
              PROVE  HostRolledBack(t)[r] = host[r]
            BY <2>1, <2>3 DEF HostRolledBack
        <2>4. ASSUME NEW status \in Terminal, AgentEnd(t, status)
              PROVE  r \in res[t]
            BY <2>1, <2>3, <2>4 DEF AgentEnd
        <2>5. QED BY <1>1, <2>2, <2>4
    <1>3. state[t] \in Live
        BY <1>1, SplitBefore DEF AgentStage, AgentEnd, IInv, RunsLive, Terminal
    <1>4. lease[r] = t
        <2>1. Clean({"apiCrash", "expiry"})
            BY SplitBefore DEF IInv
        <2>2. QED BY <1>2, <1>3, <2>1, LeaseOfLive
    <1>5. QED BY <1>1, <1>2, <1>3, <1>4

\* A task that still awaits its acceptance awaited it before, unless it is new.
LEMMA AwaitedBefore ==
    ASSUME IInv, Next, Clean(Splitting)', NEW u \in Task, state[u] # "none", Awaiting(u)'
    PROVE  Awaiting(u)
    <1> DEFINE cl == call
    <1>1. /\ TypeOK /\ TypeOK' /\ CallsReserved /\ UnbegunIdle
          /\ Clean({"apiCrash"}) /\ Clean({"expiry"})
        <2>1. TypeOK'
            BY NextTypes DEF IInv
        <2>2. QED BY <2>1, SplitBefore DEF IInv
    <1>2. /\ state \in [Task -> State] /\ state' \in [Task -> State]
          /\ call \in [Task -> CallState]
        BY <1>1 DEF TypeOK
    <1>3. u \notin reserved => call[u] = "none"
        BY <1>1 DEF CallsReserved
    <1>4. state'[u] = "queued" /\ call'[u] # "accepted"
        BY DEF Awaiting
    <1>5. CASE UNCHANGED <<state, call>>
        BY <1>4, <1>5 DEF Awaiting
    <1>6. ASSUME state'[u] = state[u], Offered(state', reserved, call)
          PROVE  Awaiting(u)
        BY <1>2, <1>3, <1>4, <1>6 DEF Awaiting, Offered, Begun
    <1>7. ASSUME NEW t \in Task, Client(t)
          PROVE  Awaiting(u)
        <2>1. ASSUME NEW rs \in Requests[t], Apply(t, rs)
              PROVE  Awaiting(u)
            <3>1. state'[t] = "queued" /\ t \notin reserved
                BY <1>1, <1>2, <2>1 DEF Apply, CallsReserved
            <3>2. Offered(state', reserved, call)
                BY <2>1, <3>1, AdmitOffers DEF Apply
            <3>3. QED BY <1>2, <1>6, <2>1, <3>2 DEF Apply
        <2>2. CASE Replay(t)
            <3>1. state[t] = "queued" /\ t \notin reserved /\ Admit(state, t) /\ UNCHANGED state
                BY <2>2 DEF Replay, Undispatched, db
            <3>2. QED BY <1>6, <3>1, AdmitOffers
        <2>3. CASE CancelQueued(t)
            BY <1>2, <1>4, <2>3 DEF CancelQueued, EndLocally, Awaiting, api
        <2>4. QED BY <1>5, <1>7, <2>1, <2>2, <2>3 DEF Client, CancelRunning, db, api
    <1>8. ASSUME NEW t \in Task, Dispatch(t)
          PROVE  Awaiting(u)
        <2>1. \E kick : Settle(t, state', kick)
            BY <1>8 DEF Dispatch, DispatchAccepted, DispatchRejected, DispatchTimeout, FailBeforeChange
        <2>2. Offered(state', reserved \ {t}, [call EXCEPT ![t] = "none"])
            BY <2>1, SettleOffers
        <2>3. \E final \in {"running", "failed"} : state' = [state EXCEPT ![t] = final]
            BY <1>8 DEF Dispatch, DispatchAccepted, DispatchRejected, DispatchTimeout,
               FailBeforeChange, EndLocally
        <2>4. u # t /\ state[u] = "queued"
            BY <1>2, <1>4, <2>3
        <2>5. QED BY <1>2, <1>3, <1>4, <2>2, <2>4 DEF Awaiting, Offered, Begun
    <1>9. ASSUME NEW t \in Task, Agent(t)
          PROVE  Awaiting(u)
        <2>1. CASE AgentBegin(t)
            BY <1>2, <1>4, <2>1 DEF AgentBegin, Awaiting, db
        <2>2. QED BY <1>5, <1>9, <2>1 DEF Agent, AgentBeginStale, AgentStage, AgentEnd, db, api
    <1>10. ASSUME NEW t \in Task, Events(t)
           PROVE  Awaiting(u)
        <2>1. CASE NoteTerminal(t)
            <3>1. Offered(state', reserved, call)
                BY <2>1, DrainOffers DEF NoteTerminal
            <3>2. u # t /\ state'[u] = state[u]
                BY <1>2, <1>4, <2>1 DEF NoteTerminal, Terminal
            <3>3. QED BY <1>6, <3>1, <3>2
        <2>2. CASE NoteProgress(t)
            <3>1. state[u] = "queued"
                BY <1>2, <1>4, <2>2 DEF NoteProgress
            <3>2. QED BY <1>4, <2>2, <3>1 DEF NoteProgress, Awaiting
        <2>3. QED BY <1>5, <1>10, <2>1, <2>2 DEF Events, Deliver, DropEvent, IgnoreEvent, db, api
    <1>11. CASE Upkeep
        <2>1. UNCHANGED state
            BY <1>1, <1>11, UpkeepIdle DEF IInv, NoneExpired
        <2>2. CASE ReconcileWalk
            BY <1>6, <2>1, <2>2, DrainOffers DEF ReconcileWalk
        <2>3. QED BY <1>5, <1>11, <2>1, <2>2 DEF Upkeep, ReapLeases, ApiStart, ReconcileUnreachable,
                  HeartbeatLost, HeartbeatBack, api
    <1>12. CASE AgentCrash
        BY <1>2, <1>4, <1>12 DEF AgentCrash, Awaiting, db
    <1>13. CASE AgentStart
        BY <1>5, <1>13 DEF AgentStart, db, api
    <1>14. ~ApiCrash /\ \A t \in Task : ~LeaseExpire(t) /\ ~CrashInFail(t) /\ ~CrashInCancel(t)
        BY <1>1, SplitCounted, NoApiCrash
    <1>15. QED BY <1>7, <1>8, <1>9, <1>10, <1>11, <1>12, <1>13, <1>14 DEF Next, Crashes

\* What holds of the host object of a held resource stays as long as the host
\* and the holder's run keep their place, or the run is over.
LEMMA TrackedFrame ==
    ASSUME NEW u \in Task, NEW r \in Resource, HolderTracked(u, r),
           host'[r] = host[r], prior'[u] = prior[u], Awaiting(u)' => Awaiting(u),
           run'[u].on => /\ run[u].on
                         /\ run'[u].stage = run[u].stage /\ run'[u].saved = run[u].saved
                         /\ \/ run'[u].ev = run[u].ev
                            \/ run'[u].ev \notin Terminal /\ run[u].ev \notin Terminal
    PROVE  HolderTracked(u, r)'
    <1>1. CASE run'[u].on
        BY <1>1 DEF HolderTracked, Untouched, Configured, Executing, Terminal
    <1>2. CASE ~run'[u].on
        BY <1>2 DEF HolderTracked, Untouched, Configured, Executing
    <1>3. QED BY <1>1, <1>2

\* What anyone but the run itself does to its record: a cancel request, the
\* answer to its event, or its loss; otherwise the run is over.
LEMMA RunMoves ==
    ASSUME TypeOK, Next, NEW u \in Task,
           ~AgentBegin(u), ~AgentBeginStale(u), ~AgentStage(u), \A status \in Terminal : ~AgentEnd(u, status)
    PROVE  \/ run'[u] = run[u]
           \/ run'[u] = NoRun
           \/ run[u].on /\ run'[u] = [run[u] EXCEPT !.cancel = TRUE]
           \/ /\ Deliver(u) \/ DropEvent(u)
              /\ run[u].on /\ run[u].ev \notin Terminal /\ run'[u] = [run[u] EXCEPT !.ev = "none"]
    <1> DEFINE Moved == \/ run'[u] = run[u]
                        \/ run'[u] = NoRun
                        \/ run[u].on /\ run'[u] = [run[u] EXCEPT !.cancel = TRUE]
                        \/ /\ Deliver(u) \/ DropEvent(u)
                           /\ run[u].on /\ run[u].ev \notin Terminal
                           /\ run'[u] = [run[u] EXCEPT !.ev = "none"]
    <1>1. run \in [Task -> RunRecord]
        BY DEF TypeOK
    <1>2. CASE UNCHANGED run
        BY <1>2
    <1>3. ASSUME NEW t \in Task, CancelRunning(t)
          PROVE  Moved
        <2>1. run' = [run EXCEPT ![t].cancel = TRUE] /\ run[t].on
            BY <1>3 DEF CancelRunning
        <2>2. QED BY <1>1, <2>1
    <1>4. ASSUME NEW t \in Task, Deliver(t) \/ DropEvent(t)
          PROVE  Moved
        <2>1. CASE UNCHANGED run
            BY <2>1
        <2>2. CASE t # u /\ run' = Published(t)
            BY <1>1, <2>2 DEF Published
        <2>3. CASE t = u /\ run' = Published(t)
            <3>1. run[u].on
                BY <1>4, <2>3 DEF Deliver, DropEvent
            <3>2. QED BY <1>1, <1>4, <2>3, <3>1 DEF Published
        <2>4. QED BY <1>4, <2>1, <2>2, <2>3 DEF Deliver, DropEvent
    <1>5. ASSUME NEW t \in Task, Agent(t)
          PROVE  Moved
        <2>1. t # u
            BY <1>5 DEF Agent
        <2>2. run'[u] = run[u]
            BY <1>1, <1>5, <2>1 DEF Agent, AgentBegin, AgentBeginStale, Started, AgentStage, AgentEnd
        <2>3. QED BY <2>2
    <1>6. CASE AgentCrash
        BY <1>6 DEF AgentCrash
    <1>7. ASSUME NEW t \in Task, Client(t) \/ Dispatch(t)
          PROVE  Moved
        BY <1>2, <1>3, <1>7 DEF Client, Apply, Replay, CancelQueued, Dispatch, DispatchAccepted,
           DispatchRejected, DispatchTimeout, agent
    <1>8. ASSUME NEW t \in Task, LeaseExpire(t) \/ CrashInFail(t) \/ CrashInCancel(t)
          PROVE  Moved
        BY <1>2, <1>8 DEF LeaseExpire, CrashInFail, CrashInCancel, LoseMemory, agent
    <1>9. CASE Upkeep \/ Crashes
        BY <1>2, <1>6, <1>9 DEF Upkeep, ReapLeases, ApiStart, ReconcileWalk, ReconcileUnreachable,
           HeartbeatLost, HeartbeatBack, Crashes, ApiCrash, LoseMemory, AgentStart, agent
    <1>10. QED BY <1>4, <1>5, <1>7, <1>8, <1>9 DEF Next, Events

\* So a run keeps its place in its life.
LEMMA RunKeepsPlace ==
    ASSUME TypeOK, Next, NEW u \in Task, run'[u].on,
           ~AgentBegin(u), ~AgentBeginStale(u), ~AgentStage(u), \A status \in Terminal : ~AgentEnd(u, status)
    PROVE  /\ run[u].on /\ run'[u].seq = run[u].seq
           /\ run'[u].stage = run[u].stage /\ run'[u].saved = run[u].saved
           /\ \/ run'[u].ev = run[u].ev
              \/ /\ Deliver(u) \/ DropEvent(u)
                 /\ run'[u].ev \notin Terminal /\ run[u].ev \notin Terminal
    <1>1. run[u] \in RunRecord
        BY DEF TypeOK
    <1>2. run'[u] # NoRun
        BY DEF NoRun
    <1>3. CASE run'[u] = [run[u] EXCEPT !.cancel = TRUE]
        BY <1>1, <1>3 DEF RunRecord
    <1>4. CASE /\ Deliver(u) \/ DropEvent(u)
               /\ run[u].ev \notin Terminal /\ run'[u] = [run[u] EXCEPT !.ev = "none"]
        BY <1>1, <1>4 DEF RunRecord, Terminal
    <1>5. QED BY <1>2, <1>3, <1>4, RunMoves

\* Who holds a lease wrote the row: a consequence of the refinement.
LEMMA HoldersWroteNext ==
    ASSUME IInv, HoldersWrote, Next
    PROVE  HoldersWrote'
    <1> SUFFICES ASSUME Clean(Splitting)', NEW u \in Task, NEW r \in Resource, lease'[r] = u
                 PROVE  desired'[r] = u
        BY DEF HoldersWrote
    <1>1. Clean(Splitting) /\ Clean({"apiCrash", "expiry"}) /\ TypeOK
        BY SplitBefore DEF IInv
    <1>2. lease \in [Resource -> Owner] /\ desired \in [Resource -> Owner] /\ u # NoTask
        BY <1>1, NoTaskAssumption DEF TypeOK
    <1>3. lease[r] = u => desired[r] = u
        BY <1>1 DEF HoldersWrote
    <1>4. ASSUME NEW t \in Task, NEW rs \in Requests[t], Promise!Submit(t, rs)
          PROVE  desired'[r] = u
        BY <1>2, <1>3, <1>4 DEF Promise!Submit
    <1>5. ASSUME NEW t \in Task, NEW final \in Promise!Terminal, Promise!Finish(t, final)
          PROVE  desired'[r] = u
        <2>1. lease[r] = u /\ u # t
            BY <1>2, <1>5 DEF Promise!Finish
        <2>2. ~(r \in res[t])
            BY <1>1, <1>5, <2>1, LeaseOfLive DEF Promise!Finish, Promise!Live, Live
        <2>3. QED BY <1>2, <1>3, <1>5, <2>1, <2>2 DEF Promise!Finish
    <1>6. ASSUME UNCHANGED <<lease, desired>>
          PROVE  desired'[r] = u
        BY <1>3, <1>6
    <1>7. QED BY <1>4, <1>5, <1>6, StepRefines DEF Refines, Promise!Next, Promise!Start, Promise!vars

\* A begin finds the host of its task's resources as the apply did.
LEMMA BeginTracked ==
    ASSUME TypeOK, AskedQueued, Clean(Splitting), Clean({"apiCrash"}), UnbegunIdle,
           NEW u \in Task, NEW r \in Resource, HolderTracked(u, r), AgentBegin(u)
    PROVE  HolderTracked(u, r)'
    <1>1. state[u] = "queued" /\ call[u] = "sent" /\ ~run[u].on
        BY DEF AgentBegin, AskedQueued, UnbegunIdle
    <1>2. host[r] = prior[u][r]
        BY <1>1 DEF HolderTracked, Untouched, Awaiting
    <1>3. UNCHANGED <<host, prior, state>>
        BY DEF AgentBegin, db
    <1>4. ~Configured(u)' /\ ~(Executing(u) /\ run[u].stage > 0)'
        <2>1. CASE run' = run
            BY <1>1, <2>1 DEF Configured, Executing
        <2>2. CASE run' = Started(u)
            <3>1. run'[u] = [NoRun EXCEPT !.on = TRUE, !.seq = 1, !.ev = "accepted"]
                BY <1>1, <2>2 DEF TypeOK, Started
            <3>2. run'[u].stage = 0 /\ run'[u].ev = "accepted"
                BY <3>1 DEF NoRun
            <3>3. QED BY <3>2 DEF Configured, Executing
        <2>3. QED BY <2>1, <2>2 DEF AgentBegin
    <1>5. QED BY <1>2, <1>3, <1>4 DEF HolderTracked

\* A stage leaves the host as the task makes it, with what the first one found
\* stashed.
LEMMA StageTracked ==
    ASSUME TypeOK, CallsReserved, UnbegunIdle, Clean({"apiCrash"}), NEW u \in Task, NEW r \in Resource,
           r \in res[u], HolderTracked(u, r), AgentStage(u)
    PROVE  HolderTracked(u, r)'
    <1> DEFINE saved == IF run[u].stage = 0 THEN host ELSE run[u].saved
    <1>1. run \in [Task -> RunRecord] /\ run[u] \in RunRecord /\ run[u].stage \in Nat
        BY DEF TypeOK, RunRecord
    <1>2. run[u].on /\ run[u].ev = "none" /\ Executing(u)
        BY DEF AgentStage, Executing, Terminal
    <1>3. ~Awaiting(u) /\ ~Awaiting(u)'
        <2>1. ~(state[u] = "queued" /\ call[u] # "accepted")
            BY <1>2 DEF UnbegunIdle, Undispatched, CallsReserved, TypeOK, CallState
        <2>2. UNCHANGED <<state, call>>
            BY DEF AgentStage, db, api
        <2>3. QED BY <2>1, <2>2 DEF Awaiting
    <1>4. saved[r] = prior[u][r]
        <2>1. CASE run[u].stage = 0
            BY <1>2, <2>1 DEF HolderTracked, Untouched
        <2>2. CASE run[u].stage # 0
            BY <1>1, <1>2, <2>2 DEF HolderTracked
        <2>3. QED BY <2>1, <2>2
    <1>5. host'[r] = u
        BY DEF AgentStage
    <1>6. run'[u] = Publish("stage", StageDone(u))
        BY <1>1 DEF AgentStage
    <1>7. /\ run'[u].stage = run[u].stage + 1
          /\ run'[u].saved = saved
          /\ run'[u].ev = "stage"
        <2>1. StageDone(u) = [run[u] EXCEPT !.stage = run[u].stage + 1, !.saved = saved]
            BY DEF StageDone
        <2> HIDE DEF saved
        <2>2. StageDone(u).stage = run[u].stage + 1 /\ StageDone(u).saved = saved
            BY <1>1, <2>1 DEF RunRecord
        <2>3. StageDone(u) \in RunRecord
            BY StageDoneType DEF AgentStage
        <2>4. QED BY <1>6, <2>2, <2>3 DEF Publish, RunRecord
    <1>8. prior' = prior
        BY DEF AgentStage, db
    <1>9. run'[u].stage > 0 /\ "stage" \notin Terminal
        BY <1>1, <1>7 DEF Terminal
    <1> HIDE DEF saved
    <1>10. Executing(u)' => run'[u].stage > 0 /\ run'[u].saved[r] = prior'[u][r]
        BY <1>4, <1>7, <1>8, <1>9
    <1>11. ~Untouched(u)'
        BY <1>3, <1>7, <1>9 DEF Untouched
    <1>12. QED BY <1>5, <1>10, <1>11 DEF HolderTracked

\* The end of a run leaves the host as its status says: success keeps it,
\* failure and cancellation put it back.
LEMMA EndTracked ==
    ASSUME TypeOK, CallsReserved, UnbegunIdle, Clean({"apiCrash"}), NEW u \in Task, NEW r \in Resource,
           r \in res[u], HolderTracked(u, r), NEW status \in Terminal, AgentEnd(u, status)
    PROVE  HolderTracked(u, r)'
    <1>1. run \in [Task -> RunRecord] /\ run[u] \in RunRecord /\ run[u].stage \in Nat
        BY DEF TypeOK, RunRecord
    <1>2. run[u].on /\ run[u].ev = "none" /\ Executing(u)
        BY DEF AgentEnd, Executing, Terminal
    <1>3. ~Awaiting(u)'
        <2>1. ~(state[u] = "queued" /\ call[u] # "accepted")
            BY <1>2 DEF UnbegunIdle, Undispatched, CallsReserved, TypeOK, CallState
        <2>2. UNCHANGED <<state, call>>
            BY DEF AgentEnd, db, api
        <2>3. QED BY <2>1, <2>2 DEF Awaiting
    <1>4. run'[u].ev = status /\ prior' = prior
        <2>1. run'[u] = Publish(status, run[u])
            BY <1>1 DEF AgentEnd
        <2>2. QED BY <1>1, <2>1 DEF Publish, RunRecord, AgentEnd, db
    <1>5. ~Executing(u)'
        BY <1>4 DEF Executing
    <1>6. HostRolledBack(u)[r] = prior[u][r]
        <2>1. CASE run[u].stage = 0
            BY <1>2, <2>1 DEF HostRolledBack, HolderTracked, Untouched
        <2>2. CASE run[u].stage # 0
            BY <1>1, <1>2, <2>2 DEF HostRolledBack, HolderTracked
        <2>3. QED BY <2>1, <2>2
    <1>7. CASE status = "success"
        <2>1. run[u].stage > 0
            BY <1>1, <1>7, StagesAssumption DEF AgentEnd, StagesLeft
        <2>2. host[r] = u
            BY <1>2, <2>1 DEF HolderTracked, Configured
        <2>3. host'[r] = u
            BY <1>7, <2>2 DEF AgentEnd
        <2>4. ~Untouched(u)'
            BY <1>3, <1>4, <1>5, <1>7 DEF Untouched
        <2>5. QED BY <1>5, <2>3, <2>4 DEF HolderTracked
    <1>8. CASE status \in {"failed", "cancelled"}
        <2>1. host' = HostRolledBack(u)
            BY <1>8 DEF AgentEnd
        <2>2. ~Configured(u)'
            BY <1>4, <1>5, <1>8 DEF Configured
        <2>3. QED BY <1>4, <1>5, <1>6, <2>1, <2>2 DEF HolderTracked
    <1>9. CASE status = "requires_manual_recovery"
        <2>1. ~Untouched(u)' /\ ~Configured(u)'
            BY <1>3, <1>4, <1>5, <1>9 DEF Untouched, Configured
        <2>2. QED BY <1>5, <2>1 DEF HolderTracked
    <1>10. QED BY <1>7, <1>8, <1>9 DEF Terminal

LEMMA HoldersTrackedNext ==
    ASSUME IInv, AskedQueued, FreeAsDesired, HoldersTracked, Next
    PROVE  HoldersTracked'
    <1> SUFFICES ASSUME Clean(Splitting)', NEW u \in Task, NEW r \in Resource, lease'[r] = u, ~Excused(r)'
                 PROVE  HolderTracked(u, r)'
        BY DEF HoldersTracked
    <1>1. /\ TypeOK /\ CallsReserved /\ UnbegunIdle
          /\ Clean(Splitting) /\ Clean({"apiCrash"}) /\ Clean({"apiCrash", "expiry"})
        BY SplitBefore DEF IInv
    <1>2. ~Excused(r)
        BY ExcusedStays
    <1>3. lease \in [Resource -> Owner] /\ u # NoTask
        BY <1>1, NoTaskAssumption DEF TypeOK
    <1>4. CASE lease[r] = u
        <2>1. HolderTracked(u, r)
            BY <1>1, <1>2, <1>4 DEF HoldersTracked
        <2>2. state[u] \in Live /\ r \in res[u]
            BY <1>1, <1>4, LeaseOfLive
        <2>3. CASE AgentBegin(u)
            BY <1>1, <2>1, <2>3, BeginTracked
        <2>4. CASE AgentStage(u)
            BY <1>1, <2>1, <2>2, <2>4, StageTracked
        <2>5. ASSUME NEW status \in Terminal, AgentEnd(u, status)
              PROVE  HolderTracked(u, r)'
            BY <1>1, <2>1, <2>2, <2>5, EndTracked
        <2>6. ~AgentBeginStale(u)
            BY SplitBefore DEF AgentBeginStale, IInv, RunsLive
        <2>7. CASE ~AgentBegin(u) /\ ~AgentStage(u) /\ \A status \in Terminal : ~AgentEnd(u, status)
            <3>1. host'[r] = host[r]
                <4>1. ASSUME NEW t \in Task, AgentStage(t) \/ \E status \in Terminal : AgentEnd(t, status)
                      PROVE  lease[r] # t
                    BY <1>4, <2>7, <4>1
                <4>2. QED BY <4>1, HostUnderLease
            <3>2. state[u] # "none"
                BY <2>2 DEF Live
            <3>3. prior'[u] = prior[u] /\ (Awaiting(u)' => Awaiting(u))
                BY <1>1, <3>2, RequestStays, AwaitedBefore
            <3>4. run'[u].on => /\ run[u].on
                                /\ run'[u].stage = run[u].stage /\ run'[u].saved = run[u].saved
                                /\ \/ run'[u].ev = run[u].ev
                                   \/ run'[u].ev \notin Terminal /\ run[u].ev \notin Terminal
                BY <1>1, <2>6, <2>7, RunKeepsPlace
            <3>5. QED BY <2>1, <3>1, <3>3, <3>4, TrackedFrame
        <2>8. QED BY <2>3, <2>4, <2>5, <2>7
    <1>5. CASE lease[r] # u
        <2>1. PICK rs \in Requests[u] : Apply(u, rs) /\ r \in rs
            <3>1. ASSUME NEW t \in Task, NEW rs \in Requests[t], Promise!Submit(t, rs)
                  PROVE  t = u /\ r \in rs /\ state[u] = "none"
                BY <1>3, <1>5, <3>1 DEF Promise!Submit
            <3>2. ASSUME NEW t \in Task, NEW final \in Promise!Terminal, Promise!Finish(t, final)
                  PROVE  FALSE
                BY <1>3, <1>5, <3>2 DEF Promise!Finish
            <3>3. ASSUME UNCHANGED lease
                  PROVE  FALSE
                BY <1>5, <3>3
            <3>4. PICK t \in Task : \E rs \in Requests[t] : Promise!Submit(t, rs)
                BY <3>2, <3>3, StepRefines DEF Refines, Promise!Next, Promise!Start, Promise!vars
            <3>5. state[u] = "none" /\ state'[u] = "queued"
                BY <1>1, <3>1, <3>4 DEF Promise!Submit, TypeOK
            <3>6. \E rs \in Requests[u] : Apply(u, rs)
                BY <1>1, <3>5, RowComes
            <3>7. ASSUME NEW rs \in Requests[u], Apply(u, rs)
                  PROVE  r \in rs
                BY <1>3, <1>5, <3>7 DEF Apply
            <3>8. QED BY <3>6, <3>7
        <2>2. lease[r] = NoTask /\ host' = host
            BY <2>1 DEF Apply, Free, agent
        <2>3. host[r] = desired[r]
            BY <1>1, <1>2, <2>2 DEF FreeAsDesired
        <2>4. prior'[u][r] = desired[r]
            BY <1>1, <2>1 DEF Apply, TypeOK
        <2>5. ~run'[u].on
            BY <1>1, <2>1 DEF Apply, UnbegunIdle, agent
        <2>6. ~Configured(u)' /\ ~Executing(u)'
            BY <2>5 DEF Configured, Executing
        <2>7. QED BY <2>2, <2>3, <2>4, <2>6 DEF HolderTracked
    <1>6. QED BY <1>4, <1>5

\* How a lease is given back: by a queued cancel, a rejected begin, or the
\* terminal event of a run.
LEMMA LeaseGivenBack ==
    ASSUME IInv, AskedQueued, Next, Clean(Splitting)', NEW u \in Task, NEW r \in Resource,
           lease[r] = u, lease'[r] = NoTask
    PROVE  \/ /\ Awaiting(u)
              /\ desired'[r] = prior[u][r]
           \/ /\ run[u].on /\ run[u].ev \in Terminal
              /\ state'[u] = run[u].ev /\ res'[u] = res[u]
              /\ desired'[r] = IF run[u].ev = "success" THEN desired[r] ELSE prior[u][r]
    <1> DEFINE Back == \/ /\ Awaiting(u)
                          /\ desired'[r] = prior[u][r]
                       \/ /\ run[u].on /\ run[u].ev \in Terminal
                          /\ state'[u] = run[u].ev /\ res'[u] = res[u]
                          /\ desired'[r] = IF run[u].ev = "success" THEN desired[r] ELSE prior[u][r]
    <1>1. /\ TypeOK /\ CallsReserved /\ expired = {}
          /\ Clean(Splitting) /\ Clean({"apiCrash", "expiry"})
        BY SplitBefore DEF IInv, NoneExpired
    <1>2. u # NoTask /\ r \in res[u] /\ lease'[r] # lease[r]
        BY <1>1, NoTaskAssumption, LeaseOfLive
    <1>3. ASSUME UNCHANGED lease
          PROVE  FALSE
        BY <1>2, <1>3
    <1>4. ASSUME NEW t \in Task, Client(t)
          PROVE  Back
        <2>1. ASSUME NEW rs \in Requests[t], Apply(t, rs)
              PROVE  FALSE
            BY <1>2, <2>1, NoTaskAssumption DEF Apply
        <2>2. CASE CancelQueued(t)
            <3>1. t = u
                BY <1>2, <2>2 DEF CancelQueued, EndLocally, ReleaseByTask
            <3>2. Awaiting(u)
                BY <1>1, <2>2, <3>1 DEF CancelQueued, Undispatched, CallsReserved, Awaiting
            <3>3. desired'[r] = prior[u][r]
                BY <1>2, <2>2, <3>1 DEF CancelQueued, EndLocally, RevertDesired
            <3>4. QED BY <3>2, <3>3
        <2>3. QED BY <1>3, <1>4, <2>1, <2>2 DEF Client, Replay, CancelRunning, db
    <1>5. ASSUME NEW t \in Task, Dispatch(t)
          PROVE  Back
        <2>1. CASE DispatchRejected(t)
            <3>1. t = u
                BY <1>2, <2>1 DEF DispatchRejected, FailBeforeChange, EndLocally, ReleaseByTask
            <3>2. Awaiting(u)
                BY <1>1, <2>1, <3>1 DEF DispatchRejected, AskedQueued, Awaiting
            <3>3. desired'[r] = prior[u][r]
                BY <1>2, <2>1, <3>1 DEF DispatchRejected, FailBeforeChange, EndLocally, RevertDesired
            <3>4. QED BY <3>2, <3>3
        <2>2. ~DispatchTimeout(t)
            BY <1>1, SplitCounted
        <2>3. ~DispatchAccepted(t)
            BY <1>3 DEF DispatchAccepted
        <2>4. QED BY <1>5, <2>1, <2>2, <2>3 DEF Dispatch
    <1>6. ASSUME NEW t \in Task, Events(t)
          PROVE  Back
        <2>1. CASE Deliver(t) /\ NoteTerminal(t)
            <3>1. t = u
                BY <1>2, <2>1 DEF NoteTerminal, ReleaseByTask
            <3>2. run[u].on /\ run[u].ev \in Terminal
                BY <2>1, <3>1 DEF Deliver, NoteTerminal
            <3>3. state'[u] = run[u].ev /\ res'[u] = res[u]
                BY <1>1, <2>1, <3>1 DEF NoteTerminal, TypeOK
            <3>4. desired'[r] = IF run[u].ev = "success" THEN desired[r] ELSE prior[u][r]
                BY <1>2, <2>1, <3>1 DEF NoteTerminal, RevertDesired
            <3>5. QED BY <3>2, <3>3, <3>4
        <2>2. QED BY <1>3, <1>6, <2>1 DEF Events, Deliver, DropEvent, IgnoreEvent, NoteProgress, db
    <1>7. ~Upkeep
        BY <1>1, <1>3, UpkeepIdle
    <1>8. ASSUME NEW t \in Task, Agent(t) \/ LeaseExpire(t) \/ CrashInFail(t) \/ CrashInCancel(t)
          PROVE  FALSE
        BY <1>3, <1>8 DEF Agent, AgentBegin, AgentBeginStale, AgentStage, AgentEnd, LeaseExpire,
           CrashInFail, CrashInCancel, db
    <1>9. ~Crashes
        BY <1>3 DEF Crashes, ApiCrash, AgentCrash, AgentStart, db
    <1>10. QED BY <1>4, <1>5, <1>6, <1>7, <1>8, <1>9 DEF Next

LEMMA FreeAsDesiredNext ==
    ASSUME IInv, AskedQueued, HoldersWrote, HoldersTracked, FreeAsDesired, Next
    PROVE  FreeAsDesired'
    <1> SUFFICES ASSUME Clean(Splitting)', NEW r \in Resource, lease'[r] = NoTask, ~Excused(r)'
                 PROVE  desired'[r] = host'[r]
        BY DEF FreeAsDesired
    <1>1. /\ TypeOK /\ Clean(Splitting) /\ Clean({"apiCrash", "expiry"})
          /\ ~Excused(r)
        BY SplitBefore, ExcusedStays DEF IInv
    <1>2. lease \in [Resource -> Owner] /\ desired \in [Resource -> Owner]
        BY <1>1 DEF TypeOK
    <1>3. CASE lease[r] = NoTask
        <2>1. desired[r] = host[r]
            BY <1>1, <1>3 DEF FreeAsDesired
        <2>2. host'[r] = host[r]
            <3>1. ASSUME host'[r] # host[r]
                  PROVE  \E t \in Task : lease[r] = t
                BY <3>1, HostUnderLease
            <3>2. QED BY <1>3, <3>1, NoTaskAssumption
        <2>3. ASSUME NEW t \in Task, NEW rs \in Requests[t], Promise!Submit(t, rs)
              PROVE  desired'[r] = desired[r]
            <3>1. r \notin rs
                BY <1>3, <2>3, NoTaskAssumption DEF Promise!Submit
            <3>2. QED BY <1>2, <2>3, <3>1 DEF Promise!Submit
        <2>4. ASSUME NEW t \in Task, NEW final \in Promise!Terminal, Promise!Finish(t, final)
              PROVE  desired'[r] = desired[r]
            <3>1. r \notin res[t]
                BY <1>1, <1>3, <2>4, LeaseOfLive, NoTaskAssumption DEF Promise!Finish, Promise!Live, Live
            <3>2. QED BY <1>2, <2>4, <3>1 DEF Promise!Finish
        <2>5. desired'[r] = desired[r]
            BY <2>3, <2>4, StepRefines DEF Refines, Promise!Next, Promise!Start, Promise!vars
        <2>6. QED BY <2>1, <2>2, <2>5
    <1>4. ASSUME NEW u \in Task, lease[r] = u
          PROVE  desired'[r] = host'[r]
        <2>1. HolderTracked(u, r) /\ desired[r] = u
            BY <1>1, <1>4 DEF HoldersTracked, HoldersWrote
        <2>2. host'[r] = host[r]
            <3>1. ASSUME host'[r] # host[r]
                  PROVE  UNCHANGED lease
                BY <3>1, HostUnderLease DEF AgentStage, AgentEnd, db
            <3>2. u # NoTask
                BY NoTaskAssumption
            <3>3. QED BY <1>4, <3>1, <3>2
        <2>3. CASE Awaiting(u) /\ desired'[r] = prior[u][r]
            BY <2>1, <2>2, <2>3 DEF HolderTracked, Untouched
        <2>4. CASE /\ run[u].on /\ run[u].ev \in Terminal
                   /\ state'[u] = run[u].ev /\ res'[u] = res[u]
                   /\ desired'[r] = IF run[u].ev = "success" THEN desired[r] ELSE prior[u][r]
            <3>1. r \in res[u]
                BY <1>1, <1>4, LeaseOfLive
            <3>2. run[u].ev # "requires_manual_recovery"
                BY <2>4, <3>1 DEF Excused
            <3>3. CASE run[u].ev = "success"
                BY <2>1, <2>2, <2>4, <3>3 DEF HolderTracked, Configured
            <3>4. CASE run[u].ev \in {"failed", "cancelled"}
                BY <2>1, <2>2, <2>4, <3>4 DEF HolderTracked, Untouched
            <3>5. QED BY <2>4, <3>2, <3>3, <3>4 DEF Terminal
        <2>5. QED BY <1>4, <2>3, <2>4, LeaseGivenBack
    <1>5. QED BY <1>2, <1>3, <1>4 DEF Owner

\* The intent invariant is inductive.
THEOREM IntentInductive == Spec => []IntentInv
    <1>1. Init => IntentInv
        <2> SUFFICES ASSUME Init
                     PROVE  IntentInv
            OBVIOUS
        <2>1. IInv
            BY InitIInv
        <2>2. AskedQueued /\ HoldersWrote /\ HoldersTracked
            BY NoTaskAssumption DEF Init, AskedQueued, HoldersWrote, HoldersTracked
        <2>3. FreeAsDesired
            BY DEF Init, FreeAsDesired
        <2>4. QED BY <2>1, <2>2, <2>3 DEF IntentInv
    <1>2. IntentInv /\ [Next]_vars => IntentInv'
        <2> SUFFICES ASSUME IntentInv, [Next]_vars
                     PROVE  IntentInv'
            OBVIOUS
        <2>1. IInv'
            BY NextIInv DEF IntentInv
        <2>2. CASE Next
            BY <2>1, <2>2, AskedQueuedNext, HoldersWroteNext, HoldersTrackedNext, FreeAsDesiredNext
               DEF IntentInv
        <2>3. CASE UNCHANGED vars
            BY <2>1, <2>3 DEF vars, db, api, agent, IntentInv, AskedQueued, HoldersWrote, HoldersTracked,
               FreeAsDesired, HolderTracked, Untouched, Configured, Awaiting, Executing, Excused, Clean
        <2>4. QED BY <2>2, <2>3
    <1>3. QED BY <1>1, <1>2, PTL DEF Spec

\* A resource nobody holds is as desired, unless the last task to hold it left
\* it for recovery by hand: the api's revert of the row and the agent's
\* rollback of the host restore the same past, for any tasks that share any
\* resources, through lost and repeated events and agent crashes.
THEOREM IntentMatched == Spec => []IdleMatchesIntent
    <1>1. FreeAsDesired => IdleMatchesIntent
        BY DEF FreeAsDesired, IdleMatchesIntent, Excused, Splitting, Clean
    <1>2. QED BY <1>1, IntentInductive, PTL DEF IntentInv

-----------------------------------------------------------------------------
(***************************************************************************)
(* One execution per task.  A task whose name is on the host, or in the    *)
(* values a run stashed, has left the queue for good, and no begin of it   *)
(* is on its way: the stages wait for unread begins, and the first one for *)
(* the answer to the accepted event.                                       *)
(***************************************************************************)

Unbegun == {"none", "queued"}

Past(t) == state[t] \notin Unbegun /\ call[t] # "sent" /\ t \notin stale

\* Events and begins belong to tasks with a row; a run whose accepted event is
\* answered has left the queue.
EventsCounted == Clean({"drop"}) =>
    \A t \in Task :
        /\ state[t] \in Unbegun => seq[t] = 0
        /\ run[t].on => run[t].seq > 0 /\ state[t] # "none"
        /\ t \in stale => state[t] # "none"
        /\ run[t].on /\ run[t].ev # "accepted" => state[t] \notin Unbegun

TouchedIsPast == Clean({"drop"}) =>
    \A t \in Task, r \in Resource :
        host[r] = t \/ (\E u \in Task : run[u].saved[r] = t) => Past(t)

OnceInv == TypeOK /\ CallsReserved /\ EventsCounted /\ TouchedIsPast

\* The ways a row moves, whatever the faults.
LEMMA RowMoves ==
    ASSUME TypeOK, Next
    PROVE  \/ \E t \in Task : \E rs \in Requests[t] : Apply(t, rs)
           \/ UNCHANGED state
           \/ \E t \in Task, final \in Terminal \cup {"running"} : state' = [state EXCEPT ![t] = final]
           \/ SweepExpired
    <1>1. ASSUME NEW t \in Task, Client(t), \A rs \in Requests[t] : ~Apply(t, rs)
          PROVE  UNCHANGED state \/ state' = [state EXCEPT ![t] = "cancelled"]
        BY <1>1 DEF Client, Replay, CancelQueued, CancelRunning, EndLocally, db
    <1>2. ASSUME NEW t \in Task, Dispatch(t)
          PROVE  \E final \in {"failed", "running"} : state' = [state EXCEPT ![t] = final]
        BY <1>2 DEF Dispatch, DispatchAccepted, DispatchRejected, DispatchTimeout,
           FailBeforeChange, EndLocally
    <1>3. ASSUME NEW t \in Task, Events(t)
          PROVE  UNCHANGED state \/ \E final \in Terminal \cup {"running"} : state' = [state EXCEPT ![t] = final]
        <2>1. CASE NoteTerminal(t)
            BY <2>1 DEF NoteTerminal
        <2>2. CASE NoteProgress(t)
            BY <2>2 DEF NoteProgress
        <2>3. QED BY <1>3, <2>1, <2>2 DEF Events, Deliver, DropEvent, IgnoreEvent, db
    <1>4. ASSUME NEW t \in Task, Agent(t) \/ LeaseExpire(t)
          PROVE  UNCHANGED state
        BY <1>4 DEF Agent, AgentBegin, AgentBeginStale, AgentStage, AgentEnd, LeaseExpire, db
    <1>5. ASSUME NEW t \in Task, CrashInFail(t) \/ CrashInCancel(t)
          PROVE  UNCHANGED state \/ \E final \in {"failed", "cancelled"} : state' = [state EXCEPT ![t] = final]
        BY <1>5 DEF CrashInFail, CrashInCancel
    <1>6. CASE Upkeep \/ Crashes
        BY <1>6 DEF Upkeep, ReapLeases, ApiStart, ReconcileWalk, ReconcileUnreachable, HeartbeatLost,
           HeartbeatBack, StartReconcile, Crashes, ApiCrash, AgentCrash, AgentStart, db
    <1>7. QED BY <1>1, <1>2, <1>3, <1>4, <1>5, <1>6 DEF Next, Terminal

\* Nothing returns to the queue, and no begin is sent for what has left it.
LEMMA NoReturn ==
    ASSUME TypeOK, Next, NEW u \in Task, state[u] \notin Unbegun
    PROVE  state'[u] \notin Unbegun
    <1>1. state \in [Task -> State]
        BY DEF TypeOK
    <1>2. ASSUME NEW t \in Task, NEW rs \in Requests[t], Apply(t, rs)
          PROVE  state'[u] \notin Unbegun
        BY <1>1, <1>2 DEF Apply, Unbegun
    <1>3. ASSUME NEW t \in Task, NEW final \in Terminal \cup {"running"}, state' = [state EXCEPT ![t] = final]
          PROVE  state'[u] \notin Unbegun
        BY <1>1, <1>3 DEF Unbegun, Terminal
    <1>4. CASE SweepExpired
        BY <1>1, <1>4 DEF SweepExpired, Unbegun
    <1>5. CASE UNCHANGED state
        BY <1>5
    <1>6. QED BY <1>2, <1>3, <1>4, <1>5, RowMoves

LEMMA BeginsSent ==
    ASSUME TypeOK, CallsReserved, Next, NEW u \in Task
    PROVE  /\ call'[u] = "sent" => call[u] = "sent" \/ state'[u] = "queued"
           /\ u \in stale' => u \in stale \/ call[u] = "sent"
    <1> DEFINE Sent == call'[u] = "sent" => call[u] = "sent" \/ state'[u] = "queued"
               Left == u \in stale' => u \in stale \/ call[u] = "sent"
    <1>1. call \in [Task -> CallState]
        BY DEF TypeOK
    <1>2. ASSUME Offered(state', reserved, call)
          PROVE  Sent
        BY <1>1, <1>2 DEF Offered, Begun
    <1>3. ASSUME UNCHANGED call PROVE Sent
        BY <1>3
    <1>4. ASSUME UNCHANGED stale PROVE Left
        BY <1>4
    <1>5. CASE LoseMemory
        BY <1>5 DEF LoseMemory
    <1>6. ASSUME NEW t \in Task, Client(t)
          PROVE  Sent /\ Left
        <2>1. ASSUME NEW rs \in Requests[t], Apply(t, rs)
              PROVE  Sent
            <3>1. state'[t] = "queued" /\ t \notin reserved
                BY <2>1 DEF Apply, CallsReserved, TypeOK
            <3>2. QED BY <1>2, <2>1, <3>1, AdmitOffers DEF Apply
        <2>2. ASSUME Replay(t) PROVE Sent
            <3>1. state[t] = "queued" /\ t \notin reserved /\ Admit(state, t) /\ UNCHANGED state
                BY <2>2 DEF Replay, Undispatched, db
            <3>2. QED BY <1>2, <3>1, AdmitOffers
        <2>3. Sent
            BY <1>3, <1>6, <2>1, <2>2 DEF Client, CancelQueued, CancelRunning, api
        <2>4. UNCHANGED stale
            BY <1>6 DEF Client, Apply, Replay, CancelQueued, CancelRunning, agent
        <2>5. QED BY <1>4, <2>3, <2>4
    <1>7. ASSUME NEW t \in Task, Dispatch(t)
          PROVE  Sent /\ Left
        <2>1. \E kick : Settle(t, state', kick)
            BY <1>7 DEF Dispatch, DispatchAccepted, DispatchRejected, DispatchTimeout, FailBeforeChange
        <2>2. Offered(state', reserved \ {t}, [call EXCEPT ![t] = "none"])
            BY <2>1, SettleOffers
        <2>3. Sent
            BY <1>1, <2>2 DEF Offered, Begun
        <2>4. Left
            BY <1>4, <1>7 DEF Dispatch, DispatchAccepted, DispatchRejected, DispatchTimeout, agent
        <2>5. QED BY <2>3, <2>4
    <1>8. ASSUME NEW t \in Task, Agent(t)
          PROVE  Sent /\ Left
        <2>1. Sent
            BY <1>1, <1>8 DEF Agent, AgentBegin, AgentBeginStale, AgentStage, AgentEnd, api
        <2>2. Left
            BY <1>8 DEF Agent, AgentBegin, AgentBeginStale, AgentStage, AgentEnd
        <2>3. QED BY <2>1, <2>2
    <1>9. ASSUME NEW t \in Task, Events(t)
          PROVE  Sent /\ Left
        <2>1. ASSUME NoteTerminal(t) PROVE Sent
            BY <1>2, <2>1, DrainOffers DEF NoteTerminal
        <2>2. Sent
            BY <1>3, <1>9, <2>1 DEF Events, Deliver, DropEvent, IgnoreEvent, NoteProgress, api
        <2>3. Left
            BY <1>9 DEF Events, Deliver, DropEvent
        <2>4. QED BY <2>2, <2>3
    <1>10. ASSUME NEW t \in Task, LeaseExpire(t) \/ CrashInFail(t) \/ CrashInCancel(t)
           PROVE  Sent /\ Left
        BY <1>3, <1>4, <1>5, <1>10 DEF LeaseExpire, CrashInFail, CrashInCancel, api, agent
    <1>11. CASE Upkeep
        <2>1. CASE ReconcileWalk
            <3>1. KickDrain(state', reserved, call, base)
                BY <2>1 DEF ReconcileWalk
            <3>2. QED BY <1>2, <1>4, <2>1, <3>1, DrainOffers DEF ReconcileWalk, agent
        <2>2. QED BY <1>3, <1>4, <1>11, <2>1 DEF Upkeep, ReapLeases, ApiStart, ReconcileUnreachable,
                  HeartbeatLost, HeartbeatBack, api, agent
    <1>12. CASE Crashes
        <2>1. CASE AgentCrash
            BY <1>1, <2>1 DEF AgentCrash
        <2>2. QED BY <1>3, <1>4, <1>5, <1>12, <2>1 DEF Crashes, ApiCrash, AgentStart, api
    <1>13. QED BY <1>6, <1>7, <1>8, <1>9, <1>10, <1>11, <1>12 DEF Next

LEMMA PastStays ==
    ASSUME TypeOK, CallsReserved, Next, NEW u \in Task, Past(u)
    PROVE  Past(u)'
    <1>1. state'[u] \notin Unbegun
        BY NoReturn DEF Past
    <1>2. QED BY <1>1, BeginsSent DEF Past, Unbegun

\* An accepted event is answered by moving the row: nothing with a sequence
\* was known of a queued task.
LEMMA EventsCountedNext ==
    ASSUME TypeOK, TypeOK', CallsReserved, EventsCounted, Next
    PROVE  EventsCounted'
    <1> DEFINE Counted(u) == /\ state[u] \in Unbegun => seq[u] = 0
                             /\ run[u].on => run[u].seq > 0 /\ state[u] # "none"
                             /\ u \in stale => state[u] # "none"
                             /\ run[u].on /\ run[u].ev # "accepted" => state[u] \notin Unbegun
    <1> SUFFICES ASSUME Clean({"drop"})', NEW u \in Task
                 PROVE  Counted(u)'
        BY DEF EventsCounted
    <1>1. Clean({"drop"})
        BY CleanBefore DEF FaultKind
    <1>2. Counted(u)
        BY <1>1 DEF EventsCounted
    <1>3. /\ state \in [Task -> State] /\ state' \in [Task -> State]
          /\ seq \in [Task -> Nat] /\ seq' \in [Task -> Nat]
          /\ run \in [Task -> RunRecord] /\ run[u] \in RunRecord /\ run[u].seq \in Nat
        BY DEF TypeOK, RunRecord
    <1>4. state[u] # "none" => state'[u] # "none"
        BY RowsStay
    <1>5. state[u] \notin Unbegun => state'[u] \notin Unbegun
        BY NoReturn
    <1>6. u \in stale' => state'[u] # "none"
        <2>1. call[u] # "none" => state[u] # "none"
            BY DEF CallsReserved
        <2>2. QED BY <1>2, <1>4, <2>1, BeginsSent
    <1>7. state'[u] \in Unbegun => seq'[u] = 0
        <2>1. ASSUME state'[u] \in Unbegun
              PROVE  seq'[u] = seq[u]
            <3>1. state[u] \in Unbegun
                BY <1>5, <2>1
            <3>2. CASE UNCHANGED seq
                BY <3>2
            <3>3. ASSUME NEW t \in Task, NEW n, NEW final \in Terminal \cup {"running"},
                         state' = [state EXCEPT ![t] = final], seq' = [seq EXCEPT ![t] = n]
                  PROVE  seq'[u] = seq[u]
                <4>1. t # u
                    BY <1>3, <2>1, <3>3 DEF Unbegun, Terminal
                <4>2. QED BY <1>3, <3>3, <4>1
            <3>4. ASSUME NEW t \in Task, Client(t)
                  PROVE  seq'[u] = seq[u]
                BY <3>2, <3>3, <3>4 DEF Client, Apply, Replay, CancelQueued, CancelRunning, EndLocally,
                   Terminal, db
            <3>5. ASSUME NEW t \in Task, Dispatch(t)
                  PROVE  seq'[u] = seq[u]
                BY <3>2, <3>3, <3>5 DEF Dispatch, DispatchAccepted, DispatchRejected, DispatchTimeout,
                   FailBeforeChange, EndLocally, Terminal
            <3>6. ASSUME NEW t \in Task, Events(t)
                  PROVE  seq'[u] = seq[u]
                <4>1. CASE NoteTerminal(t)
                    BY <3>3, <4>1 DEF NoteTerminal
                <4>2. CASE Deliver(t) /\ NoteProgress(t)
                    <5>1. CASE t = u
                        <6>1. run[u].ev = "accepted" /\ state[u] = "queued"
                            BY <1>2, <3>1, <4>2, <5>1 DEF Deliver, Unbegun
                        <6>2. state'[u] = "running"
                            BY <1>3, <4>2, <5>1, <6>1 DEF NoteProgress
                        <6>3. QED BY <2>1, <6>2 DEF Unbegun
                    <5>2. CASE t # u
                        BY <1>3, <4>2, <5>2 DEF NoteProgress
                    <5>3. QED BY <5>1, <5>2
                <4>3. QED BY <3>2, <3>6, <4>1, <4>2 DEF Events, Deliver, DropEvent, IgnoreEvent, db
            <3>7. ASSUME NEW t \in Task, CrashInFail(t) \/ CrashInCancel(t)
                  PROVE  seq'[u] = seq[u]
                BY <3>2, <3>3, <3>7 DEF CrashInFail, CrashInCancel, Terminal
            <3>8. ASSUME NEW t \in Task, Agent(t) \/ LeaseExpire(t)
                  PROVE  UNCHANGED seq
                BY <3>8 DEF Agent, AgentBegin, AgentBeginStale, AgentStage, AgentEnd, LeaseExpire, db
            <3>9. CASE Upkeep \/ Crashes
                BY <3>2, <3>9 DEF Upkeep, ReapLeases, ApiStart, ReconcileWalk, ReconcileUnreachable,
                   HeartbeatLost, HeartbeatBack, StartReconcile, SweepExpired, Crashes, ApiCrash,
                   AgentCrash, AgentStart, db
            <3>10. QED BY <3>2, <3>4, <3>5, <3>6, <3>7, <3>8, <3>9 DEF Next
        <2>2. QED BY <1>2, <1>5, <2>1
    <1>8. /\ run'[u].on => run'[u].seq > 0 /\ state'[u] # "none"
          /\ run'[u].on /\ run'[u].ev # "accepted" => state'[u] \notin Unbegun
        <2>1. CASE AgentBegin(u) \/ AgentBeginStale(u)
            <3>1. state[u] # "none"
                BY <1>2, <2>1 DEF AgentBegin, AgentBeginStale, CallsReserved
            <3>2. \/ run'[u] = run[u]
                  \/ run'[u] = [NoRun EXCEPT !.on = TRUE, !.seq = 1, !.ev = "accepted"]
                BY <1>3, <2>1 DEF AgentBegin, AgentBeginStale, Started
            <3>3. CASE run'[u] = run[u]
                BY <1>2, <1>4, <1>5, <3>3
            <3>4. CASE run'[u] = [NoRun EXCEPT !.on = TRUE, !.seq = 1, !.ev = "accepted"]
                BY <1>4, <3>1, <3>4 DEF NoRun
            <3>5. QED BY <3>2, <3>3, <3>4
        <2>2. ASSUME NEW ev, NEW rr \in RunRecord, rr.seq = run[u].seq,
                     run[u].on, run[u].ev = "none", run'[u] = Publish(ev, rr)
              PROVE  /\ run'[u].on => run'[u].seq > 0 /\ state'[u] # "none"
                     /\ run'[u].on /\ run'[u].ev # "accepted" => state'[u] \notin Unbegun
            <3>1. run'[u].seq = run[u].seq + 1
                BY <2>2 DEF Publish, RunRecord
            <3>2. QED BY <1>2, <1>3, <1>4, <1>5, <2>2, <3>1
        <2>3. CASE AgentStage(u)
            <3>1. StageDone(u) \in RunRecord
                BY <2>3, StageDoneType DEF AgentStage
            <3>2. StageDone(u).seq = run[u].seq
                BY <1>3 DEF StageDone, RunRecord
            <3>3. run'[u] = Publish("stage", StageDone(u)) /\ run[u].on /\ run[u].ev = "none"
                BY <1>3, <2>3 DEF AgentStage
            <3>4. QED BY <2>2, <3>1, <3>2, <3>3
        <2>4. ASSUME NEW status \in Terminal, AgentEnd(u, status)
              PROVE  /\ run'[u].on => run'[u].seq > 0 /\ state'[u] # "none"
                     /\ run'[u].on /\ run'[u].ev # "accepted" => state'[u] \notin Unbegun
            <3>1. run'[u] = Publish(status, run[u]) /\ run[u].on /\ run[u].ev = "none"
                BY <1>3, <2>4 DEF AgentEnd
            <3>2. QED BY <1>3, <2>2, <3>1
        <2>5. CASE Deliver(u)
            <3>1. run[u].on /\ run[u].seq > 0 /\ state[u] # "none"
                BY <1>2, <2>5 DEF Deliver
            <3>2. state'[u] \notin Unbegun
                <4>1. CASE IgnoreEvent(u)
                    BY <1>2, <1>3, <1>5, <3>1, <4>1 DEF IgnoreEvent
                <4>2. CASE NoteProgress(u)
                    BY <1>2, <1>3, <1>5, <3>1, <4>2 DEF NoteProgress, Unbegun
                <4>3. CASE NoteTerminal(u)
                    BY <1>3, <4>3 DEF NoteTerminal, Terminal, Unbegun
                <4>4. QED BY <2>5, <4>1, <4>2, <4>3 DEF Deliver
            <3>3. run'[u].on => run'[u].seq = run[u].seq
                BY <2>5, PublishedOn DEF Deliver
            <3>4. QED BY <3>1, <3>2, <3>3 DEF Unbegun
        <2>6. ASSUME run'[u].on => /\ run[u].on /\ run'[u].seq = run[u].seq
                                   /\ run'[u].ev = run[u].ev
              PROVE  /\ run'[u].on => run'[u].seq > 0 /\ state'[u] # "none"
                     /\ run'[u].on /\ run'[u].ev # "accepted" => state'[u] \notin Unbegun
            BY <1>2, <1>4, <1>5, <2>6
        <2>7. CASE ~AgentBegin(u) /\ ~AgentBeginStale(u) /\ ~AgentStage(u) /\ ~Deliver(u)
                   /\ \A status \in Terminal : ~AgentEnd(u, status)
            <3>1. ~DropEvent(u)
                BY DEF DropEvent, Spend, TypeOK, Clean, FaultKind
            <3>2. run'[u].on => run[u].on /\ run'[u].seq = run[u].seq /\ run'[u].ev = run[u].ev
                BY <2>7, <3>1, RunKeepsPlace
            <3>3. QED BY <2>6, <3>2
        <2>8. QED BY <2>1, <2>3, <2>4, <2>5, <2>7
    <1>9. QED BY <1>6, <1>7, <1>8

\* Who stages or ends a run is past the queue, with no begin on its way.
LEMMA StagedIsPast ==
    ASSUME TypeOK, EventsCounted, Clean({"drop"}), NEW t \in Task,
           AgentStage(t) \/ \E status \in Terminal : AgentEnd(t, status)
    PROVE  Past(t)
    <1>1. Unread = {} /\ run[t].on /\ run[t].ev = "none"
        BY DEF AgentStage, AgentEnd
    <1>2. state[t] \notin Unbegun
        BY <1>1 DEF EventsCounted
    <1>3. QED BY <1>1, <1>2 DEF Past, Unread

\* The values of a run's record that are tasks: only a stage adds any, and what
\* it adds was on the host.
LEMMA StashedValues ==
    ASSUME TypeOK, Next, NEW u \in Task, NEW r \in Resource
    PROVE  run'[u].saved[r] \in {run[u].saved[r], host[r], NoTask}
    <1>1. run \in [Task -> RunRecord] /\ run[u] \in RunRecord
        BY DEF TypeOK
    <1>2. NoRun.saved[r] = NoTask
        BY DEF NoRun
    <1>3. CASE run'[u] = run[u]
        BY <1>3
    <1>4. CASE AgentBegin(u) \/ AgentBeginStale(u)
        <2>1. \/ run'[u] = run[u]
              \/ run'[u] = [NoRun EXCEPT !.on = TRUE, !.seq = 1, !.ev = "accepted"]
            BY <1>1, <1>4 DEF AgentBegin, AgentBeginStale, Started
        <2>2. CASE run'[u] = [NoRun EXCEPT !.on = TRUE, !.seq = 1, !.ev = "accepted"]
            BY <1>2, <2>2 DEF NoRun
        <2>3. QED BY <2>1, <2>2
    <1>5. CASE AgentStage(u)
        <2> DEFINE saved == IF run[u].stage = 0 THEN host ELSE run[u].saved
        <2>1. StageDone(u) \in RunRecord
            BY <1>5, StageDoneType DEF AgentStage
        <2>2. StageDone(u).saved = saved
            <3>1. StageDone(u) = [run[u] EXCEPT !.stage = run[u].stage + 1, !.saved = saved]
                BY DEF StageDone
            <3> HIDE DEF saved
            <3>2. QED BY <1>1, <3>1 DEF RunRecord
        <2>3. run'[u] = Publish("stage", StageDone(u))
            BY <1>1, <1>5 DEF AgentStage
        <2>4. run'[u].saved = StageDone(u).saved
            BY <2>1, <2>3 DEF Publish, RunRecord
        <2>5. QED BY <2>2, <2>4
    <1>6. ASSUME NEW status \in Terminal, AgentEnd(u, status)
          PROVE  run'[u].saved[r] \in {run[u].saved[r], host[r], NoTask}
        <2>1. run'[u] = Publish(status, run[u])
            BY <1>1, <1>6 DEF AgentEnd
        <2>2. run'[u].saved = run[u].saved
            BY <1>1, <2>1 DEF Publish, RunRecord
        <2>3. QED BY <2>2
    <1>7. CASE ~AgentBegin(u) /\ ~AgentBeginStale(u) /\ ~AgentStage(u) /\ \A status \in Terminal : ~AgentEnd(u, status)
        <2>1. CASE run'[u] = [run[u] EXCEPT !.cancel = TRUE] \/ run'[u] = [run[u] EXCEPT !.ev = "none"]
            BY <1>1, <2>1 DEF RunRecord
        <2>2. QED BY <1>2, <1>3, <1>7, <2>1, RunMoves
    <1>8. QED BY <1>4, <1>5, <1>6, <1>7

LEMMA TouchedIsPastNext ==
    ASSUME TypeOK, TypeOK', CallsReserved, EventsCounted, TouchedIsPast, Next
    PROVE  TouchedIsPast'
    <1> SUFFICES ASSUME Clean({"drop"})', NEW t \in Task, NEW r \in Resource,
                        host'[r] = t \/ \E u \in Task : run'[u].saved[r] = t
                 PROVE  Past(t)'
        BY DEF TouchedIsPast
    <1>1. Clean({"drop"})
        BY CleanBefore DEF FaultKind
    <1>2. host[r] = t \/ (\E u \in Task : run[u].saved[r] = t) => Past(t)
        BY <1>1 DEF TouchedIsPast
    <1>3. CASE host'[r] = t
        <2>1. ASSUME host'[r] = host[r]
              PROVE  Past(t)
            BY <1>2, <1>3, <2>1
        <2>2. ASSUME NEW u \in Task, AgentStage(u), host'[r] # host[r]
              PROVE  Past(t)
            <3>1. host'[r] = u
                BY <2>2 DEF AgentStage
            <3>2. QED BY <1>1, <1>3, <2>2, <3>1, StagedIsPast
        <2>3. ASSUME NEW u \in Task, NEW status \in Terminal, AgentEnd(u, status), host'[r] # host[r]
              PROVE  Past(t)
            <3>1. host'[r] = u \/ host'[r] = HostRolledBack(u)[r]
                BY <2>3 DEF AgentEnd
            <3>2. host'[r] = u \/ host'[r] = run[u].saved[r]
                BY <2>3, <3>1 DEF HostRolledBack
            <3>3. CASE host'[r] = u
                BY <1>1, <1>3, <2>3, <3>3, StagedIsPast
            <3>4. CASE host'[r] = run[u].saved[r]
                BY <1>2, <1>3, <3>4
            <3>5. QED BY <3>2, <3>3, <3>4
        <2>4. Past(t)
            BY <2>1, <1>2, <1>3, <2>2, <2>3, HostMovers
        <2>5. QED BY <2>4, PastStays
    <1>4. ASSUME NEW u \in Task, run'[u].saved[r] = t
          PROVE  Past(t)'
        <2>1. run[u].saved[r] = t \/ host[r] = t
            BY <1>4, StashedValues, NoTaskAssumption
        <2>2. Past(t)
            BY <1>2, <2>1
        <2>3. QED BY <2>2, PastStays
    <1>5. QED BY <1>3, <1>4

\* The invariant behind ExecutedOnce is inductive.
THEOREM OnceInductive == Spec => []OnceInv
    <1>1. Init => OnceInv
        <2> SUFFICES ASSUME Init
                     PROVE  OnceInv
            OBVIOUS
        <2>1. TypeOK
            BY InitTypes
        <2>2. CallsReserved /\ EventsCounted
            BY DEF Init, CallsReserved, EventsCounted, NoRun
        <2>3. TouchedIsPast
            BY NoTaskAssumption DEF Init, TouchedIsPast, NoRun
        <2>4. QED BY <2>1, <2>2, <2>3 DEF OnceInv
    <1>2. OnceInv /\ [Next]_vars => OnceInv'
        <2> SUFFICES ASSUME OnceInv, [Next]_vars
                     PROVE  OnceInv'
            OBVIOUS
        <2>1. TypeOK'
            BY NextTypes DEF OnceInv
        <2>2. CASE Next
            BY <2>1, <2>2, CallsReservedNext, EventsCountedNext, TouchedIsPastNext DEF OnceInv
        <2>3. CASE UNCHANGED vars
            BY <2>1, <2>3 DEF vars, db, api, agent, OnceInv, CallsReserved, EventsCounted, TouchedIsPast,
               Past, Clean
        <2>4. QED BY <2>2, <2>3
    <1>3. QED BY <1>1, <1>2, PTL DEF Spec

\* No task whose executor has changed the host is begun again, through
\* timeouts, late and repeated begins, lease expiries and crashes of the api
\* and the agent: only an event that the publisher gave up can lead to it.
THEOREM OnceExecuted == Spec => ExecutedOnce
    <1> DEFINE Once == Clean({"drop"}) =>
                         \A t \in Task : run'[t].seq = 1 /\ run[t].seq # 1 =>
                             \A r \in res[t] : host[r] # t
    <1>1. ASSUME OnceInv, Next
          PROVE  Once
        <2> SUFFICES ASSUME Clean({"drop"}), NEW t \in Task, run'[t].seq = 1, run[t].seq # 1,
                            NEW r \in res[t], host[r] = t
                     PROVE  FALSE
            OBVIOUS
        <2>1. TypeOK /\ Past(t)
            BY <1>1 DEF OnceInv, TypeOK, TouchedIsPast
        <2>2. ~AgentBegin(t) /\ ~AgentBeginStale(t)
            BY <2>1 DEF Past, AgentBegin, AgentBeginStale
        <2>3. run[t] \in RunRecord /\ run \in [Task -> RunRecord] /\ run[t].seq \in Nat
            BY <2>1 DEF TypeOK, RunRecord
        <2>4. run[t].on => run[t].seq > 0
            BY <1>1 DEF OnceInv, EventsCounted
        <2>5. ASSUME NEW ev, NEW rr \in RunRecord, rr.seq = run[t].seq, run[t].on, run'[t] = Publish(ev, rr)
              PROVE  FALSE
            <3>1. run'[t].seq = run[t].seq + 1
                BY <2>5 DEF Publish, RunRecord
            <3>2. QED BY <2>3, <2>4, <2>5, <3>1
        <2>6. ~AgentStage(t)
            <3>1. ASSUME AgentStage(t)
                  PROVE  FALSE
                <4>1. StageDone(t) \in RunRecord
                    BY <2>1, <3>1, StageDoneType DEF AgentStage
                <4>2. StageDone(t).seq = run[t].seq
                    BY <2>3 DEF StageDone, RunRecord
                <4>3. run'[t] = Publish("stage", StageDone(t)) /\ run[t].on
                    BY <2>3, <3>1 DEF AgentStage
                <4>4. QED BY <2>5, <4>1, <4>2, <4>3
            <3>2. QED BY <3>1
        <2>7. ASSUME NEW status \in Terminal, AgentEnd(t, status)
              PROVE  FALSE
            <3>1. run'[t] = Publish(status, run[t]) /\ run[t].on
                BY <2>3, <2>7 DEF AgentEnd
            <3>2. QED BY <2>3, <2>5, <3>1
        <2>8. CASE run'[t].on
            BY <1>1, <2>1, <2>2, <2>6, <2>7, <2>8, RunKeepsPlace
        <2>9. CASE ~run'[t].on
            <3>1. ASSUME NEW rr \in RunRecord, rr.on, run'[t] = [rr EXCEPT !.cancel = TRUE] \/ run'[t] = [rr EXCEPT !.ev = "none"]
                  PROVE  FALSE
                BY <2>9, <3>1 DEF RunRecord
            <3>2. run'[t] = run[t] \/ run'[t] = NoRun
                BY <1>1, <2>1, <2>2, <2>3, <2>6, <2>7, <3>1, RunMoves
            <3>3. QED BY <3>2 DEF NoRun
        <2>10. QED BY <2>8, <2>9
    <1>2. ASSUME OnceInv, [Next]_vars
          PROVE  [Once]_vars
        BY <1>1, <1>2
    <1>3. QED BY <1>2, OnceInductive, PTL DEF Spec, ExecutedOnce
=============================================================================
