# A TLA+ model of the xiNAS control plane

xiNAS is a NAS appliance: an unprivileged **api** process owns a SQLite state
store and takes plans and applies from clients; a privileged **agent** process
runs the executors that change the host; the two talk over a Unix socket. Next
to them live a Python configuration-history library, a TUI, an NFS helper and
the installers. This directory models the parts where the difficulty is: the
concurrency, failure and recovery of the control plane, what its tasks do to the
host, how the host is observed, and the file-system transactions of the
configuration history.

Paths below without a prefix are under `src/xiNAS-MCP/src/`.

## 1. Inventory

For every component: the state it keeps, its operations, whom it talks to, what
is hard, what makes it correct.

| Component | State | Operations | Talks to | Hard behaviour | Correct when | Module |
|---|---|---|---|---|---|---|
| **Task engine** `api/tasks/engine.ts`, `store.ts` | `tasks` rows; in memory: `dispatchReservations`, two re-entrancy guards | apply, admit, dispatch, drain, cancel, failBeforeChange, reconcile | lease manager and KV store (same database), agent over RPC, progress receiver (shares the rows) | every `await` of `task.begin` opens a window for cancels, events, sweeps, replays; three-transaction failure paths; no drain timer | leases, intent and state agree; the cap holds; nothing is executed twice or next to a conflicting task; the queue moves | `TaskEngine` |
| **Progress receiver** `api/tasks/progress.ts` | `last_event_sequence`, stage rows | accepted, stage, terminal events | agent's publisher, engine's drain, watch streams | lost, repeated, late events | an event counts once; a terminal ends the task with its leases | `TaskEngine`, `TaskFeed` |
| **Lease manager, lease timer** `state/leases.ts`, `api/lease-sweeper.ts` | `leases` rows with heartbeat and TTL | acquire, heartbeat, release, sweep, reap | engine, progress receiver | two sweepers with different reach; queued tasks have no heartbeat | a live task keeps its lease; a dead one's is freed | `TaskEngine` |
| **Heartbeat tracker** `api/heartbeat.ts` | last probe, derived state | probe, edge into healthy | triggers reconcile | an edge swallowed by a running pass | a recovered agent is reconciled | edges only, in `TaskEngine` |
| **Task runner and agent RPC** `agent/rpc/methods/task.ts`, `agent/task/runner.ts`, `progress-publisher.ts` | in-flight registry, cancel flags, executor stash (all lost in a crash) | begin, cancel, list_inflight, stage, rollback, publish | api over HTTP, host | late begins whose caller has gone; cancel checkpoints; rollback against intent | one terminal per run; rollback restores what the api's revert restores | `TaskEngine`, `TaskFeed`, `StorageControl`, `Network` |
| **Task watch (SSE) and long poll** `api/routes/tasks.ts`, `task-wait.ts`, `api/tasks/watch.ts`, `render.ts` | open streams, held requests | watch, resume, notify, wait, roll up | progress receiver, engine | resume against live fan-out; ends without an event | no gap, no repeat, the end is seen | `TaskFeed` |
| **Plan engine and routes** `api/plan/**`, `api/routes/*`, `apply-helpers.ts` | stored plans with pinned revisions | plan, re-plan at apply, pin check, dangerous gate | KV store, task engine | the state a plan read is minutes old when it is applied | a stale or blocked plan is refused; what a task touches is leased | `StoragePlans`, `Network`, `ConfigRollback` |
| **Executors** `agent/task/*-executor.ts` | a stash per run | stages, rollback | host adapters | partial stage failure; other tasks between two calls | a failed task gives back what it found; data is destroyed only on request | `StorageExecutors`, `NetworkHost`, `StorageControl`, `Network` |
| **Host adapters** `agent/{fs,net,xiraid}/*`, `agent/task/nfs-helper-client.ts`, `lib/fs`, `lib/net`, `lib/xiraid` | the host | one verb each | system tools | additive and partial effects | | `StorageHost`, `NetworkHost` |
| **Observation pipeline** `agent/boot.ts`, `poll.ts`, `publisher.ts`, `collectors/*`, `task/reobserve.ts`, `api/internal/observed.ts` | publisher queue and flights; observed rows | boot and poll sweeps, events, settles, batches, reconcile-deletes | agent to api | retried batches overtake newer ones; failed reads; splits | a quiet row stays; a settle shows the host; rows converge | `Collectors`, `Observation` |
| **Snapshot-desired, adoption** `api/tasks/snapshot-desired.ts`, `api/plan/providers/config-rollback.ts`, `agent/task/config-rollback-executor.ts` | captured desired rows per snapshot | capture, prune, plan, adopt, restore | history, KV store, task engine | plan, capture and restore beside tasks | adopted rows and files agree; nothing newer is overwritten | `ConfigRollback` |
| **Audit outbox and drainer** `api/middleware/audit.ts`, `state/audit-drainer.ts` | outbox rows, JSONL file, chain head | queue, drain, mark, recover | every mutation | crash between fsync and mark, a power loss that takes commits back, torn last line | every row that stays reaches the file, in order, chained | `AuditTrail` |
| **KV store and backend** `state/backend-sqlite.ts` | revisioned rows | put, delete, compare-and-set | all of the api | a revision starts again after a delete | no lost update | in the modules that use it |
| **History lock and runner** `src/xinas_history/lock.py`, `runner.py` | flock, metadata and journal files; the managed files of the host | acquire, release, journal phases, reset to baseline, restore a snapshot, both with rollback | processes: the agent's CLI calls, the TUI, an operator's shell | release against the next acquire, change set computed before the lock, failure in every step, death anywhere | a rollback puts back what was there; a restore writes what its source says; the journal is the running transaction's | `ConfigHistory` |
| **History store, engine and gc** `src/xinas_history/store.py`, `engine.py`, `gc.py`, `__main__.py` | snapshot directories with manifests | create, mark, collect inline and standalone | runner; `snapshot create` without the lock | deletion from a list made before, beside a transaction | what a rollback or a restore needs outlives every collection | `ConfigHistory` |
| **NFS helper** `src/xiNAS-MCP/nfs-helper` | exports file, locks | add, update, remove an export | NFS executors | | the file has the rules given | as the host verbs of `StorageHost` |
| **Parsers, retention sweeper, drift, classifier, TUI, installers** | data, files | pure or one-shot | | none concurrent | | no (section 8) |

### How the parts interact

    client --plan--> api: a stored plan, pinned to revisions
    client --apply--> api: one transaction { pins, intent, queued row, leases }
    api    --task.begin (5 s timeout)--> agent: accepted | no executor | lost
    agent  --calls, one by one--> host; beside it other runs, the kernel, operators
    agent  --accepted, stage.., terminal (5 tries each)--> api: row, leases, intent
    api    --frames--> streams;  --answers--> long polls
    agent  --batches (retried, overtaking)--> api: observed rows --> the next plan
    tracker --edge into healthy--> reconcile: sweep, list_inflight, adopt, drain
    timers --every 30 s--> reap leases;  --poll interval--> sweeps;  --drain--> audit.jsonl
    agent  --CLI--> history library: snapshots, restores under a file lock

Everything in the api runs on one Node thread, so code between two awaits is
atomic; everything in SQLite survives its crash and nothing else does. The agent
keeps nothing across a crash. When the machine stops, commits of SQLite may be lost
too: it is in WAL mode and not told to sync at a commit (`state/backend-sqlite.ts:52-53`).
`AuditTrail` has that; the other modules have crashes of processes only, and say
nothing of a machine that stops.

## 2. Plan

| Step | State |
|---|---|
| `TaskEngine` with `LeasedTasks`, `TaskEngineProofs` | done |
| `ConfigHistory` with `ConfigHistoryProofs` | done |
| Storage operations: `StorageHost`, `StorageExecutors`, `StoragePlans`, `StorageControl`; `StorageProofs` | done |
| Network operations: `NetworkHost`, `Network`, `NetworkProofs` | done |
| Observation: `Collectors`, `Observation`, `ObservationProofs` | done |
| Audit: `AppendOnlyTrail`, `AuditTrail`, `AuditTrailProofs` | done |
| Followers of a task: `TaskFeed`, `TaskFeedProofs` | done |
| Snapshots, restore and adoption: `ConfigRollback`, `ConfigRollbackProofs` | done |

Left, in this order: the degraded and offline states of the heartbeat tracker with
the refusals they cause; replacing the baseline (`purge_all`) and a reset to it
through `config.rollback`; the health collector; idempotency keys and their
hash; startup and stale-lock recovery of the history, when the build calls them;
a proof that a failed storage task gives back what it found (`RolledBack`), and the
two properties of `Network` that are left for an instance with two tasks.

## 3. Modules

| Module | What it is |
|---|---|
| `TaskEngine` | api, agent and wire for one task table: one action per handler, safety properties, inductive invariant |
| `LeasedTasks` | what the engine promises its clients (abstract) |
| `TaskEngineClaims` | the refinement, fairness and liveness of `TaskEngine` |
| `TaskEngineProofs` | theorems and proofs: types, leases, runs and the cap; the refinement, intent and at-most-once execution |
| `TaskFeed`, `TaskFeedProofs` | the events of one run on their way to rows, streams and long polls; theorems |
| `AgentStages` | the form in which executors are written down |
| `StorageHost`, `StorageExecutors`, `StoragePlans`, `StorageControl` | storage host; stages and rollbacks; plans and leases; tasks beside each other. Each extends the one before |
| `StorageProofs` | theorems about all four |
| `NetworkHost`, `Network` | network host with its two executors; plans, observation and tasks |
| `NetworkProofs` | theorems and proofs |
| `Collectors`, `Observation`, `ObservationProofs` | what is read; how it becomes rows; theorems |
| `AppendOnlyTrail`, `AuditTrail`, `AuditTrailProofs` | what an audit trail is (abstract); outbox and file; theorems |
| `ConfigRollback`, `ConfigRollbackProofs` | snapshots, restore and adoption beside tasks; theorems |
| `ConfigHistory` | lock, journal, snapshots, retention, reset and restore: one action per file-system operation |
| `ConfigHistoryProofs` | theorems and proofs |
| `MC*` | values of the constants for TLC |

*Composition.* `TaskEngine` has the envelope of a task and one abstract executor;
`StorageControl` and `Network` have the executors and take the envelope as one
step at each end; `TaskFeed` has the events in between; `Observation` supplies what
plans read and `ConfigRollback` joins tasks, desired rows, files and the history.
`ConfigRollback` takes a restore in the three outcomes that `ConfigHistory` has in detail.

Operators named `X_Y` with a comment `Mutant` are plausible bugs of `X`, each
the one a listed property is there to catch; no action uses them.

### From code to `TaskEngine`

*State.* `state, seq, acc, born, res, prior` are columns of `tasks` (`seq` is
`last_event_sequence`, `acc` whether `agent_acceptance_id` is set, `prior` is
`desired_rollback`). `lease` is the lease table, `expired` the tasks whose leases
are past their TTL: time appears as that flag only. `desired` and `host` hold
for each resource the *task whose value it has*; comparing them is comparing
intent and reality. `rec` and `drainer` are the two re-entrancy guards with the
point their loop awaits at, `reserved` is `dispatchReservations`, `call` and
`base` are the pending `task.begin` with the row it was given. `run` is the
agent's registry entry with the event being published, `stale` the begin
requests still in the agent's socket though their caller has given up.

*Actions.*

| Code | Action |
|---|---|
| `engine.apply` with `leases.acquire`, then `admitAndDispatch` | `Apply` |
| idempotent retry in `applyMode` | `Replay` |
| `engine.cancel`, queued and running | `CancelQueued`, `CancelRunning` |
| `dispatch` up to its await, `admitAndDispatch`, `drainQueued` | `Begin`, `Admit`, `KickDrain`, `DrainTurn`, inside the actions that trigger them |
| `dispatch` after its await | `DispatchAccepted`, `DispatchRejected`, `DispatchTimeout` |
| `failBeforeChange` | `FailBeforeChange`, with `CrashInFail` between its transactions |
| `task.begin` at the agent | `AgentBegin`, `AgentBeginStale` |
| the stage loop, rollback and terminal of `runner.ts` | `AgentStage`, `AgentEnd` |
| `taskProgressHandler` | `Deliver` (`IgnoreEvent`, `NoteProgress`, `NoteTerminal`) |
| publisher's retries exhausted | `DropEvent` |
| TTL passing, the lease timer | `LeaseExpire`, `ReapLeases` |
| `reconcile` | `StartReconcile` inside `ApiStart` and `HeartbeatBack`; `ReconcileWalk`, `ReconcileUnreachable` |
| tracker | `HeartbeatLost`, `HeartbeatBack` |
| process deaths and restarts | `ApiCrash`, `CrashInFail`, `CrashInCancel`, `AgentCrash`, `ApiStart`, `AgentStart` |

*Abstractions.*

- A task affects a set of resources, leases them, and writes exactly their
  desired rows. Operations, plan freshness and the dangerous gate in front of
  `apply` are in the storage and network modules; the idempotency hash is in
  none.
- One executor stands for all: each stage sets the host objects of the task, the
  first stage stashes what was there, rollback restores it or throws half way.
- `stage_started`, `stage_failed` and rollback events only advance the sequence
  and the heartbeat; they are folded into the stage or terminal event next to
  them. A terminal therefore follows the last stage without an event between.
- Columns no property reads are left out: cancel metadata, timestamps, stages (those
  are in `TaskFeed`).
  A running cancel ignores whether the tracker shows the agent offline, which
  allows a cancel the code would refuse.
- The `fail` queue policy has no caller in the code; `captureDesired` is in
  `ConfigRollback`.
- A crash between the transactions of a `failBeforeChange` that a timeout caused counts as an
  api crash, without the timeout (`CrashInFail`): every safety property that excepts begin
  timeouts excepts api crashes, and the liveness run passes with such crashes.
- A begin is awaited five seconds and a lease lasts sixty, so `LeaseExpire`
  does not happen while a begin is awaited.
- A run does not get past an unread begin in the agent's socket (`Unread`), and
  the api reads a begin's reply before the run's second event: all of them pass
  through the two event loops in that order within milliseconds.
- `ReconcileWalk` reads the agent's registry when the answer is handled, not when
  it was written.

*Faults.* `Budget` bounds the faults of each kind a behaviour contains: a begin
timeout, a lease expiry, an api crash, an agent crash, a missed heartbeat, an
event given up, an event whose answer is lost. Within the budget they may fall
anywhere. `Clean(K)` is true while no fault of the kinds `K` has happened; a
property states with it exactly which faults it does not survive. These
exceptions are findings of the model as much as the violated claims are
(section 7):

| Property | Does not survive | Because |
|---|---|---|
| `LeasesHeld` | api crash, expiry | releases are separate transactions; a sweep ends tasks a begin is awaited for, and `dispatch` then writes `running` unguarded |
| `OneExecutionPerResource` | also a begin timeout | `failBeforeChange` releases the leases of a task the agent has accepted |
| `TerminalIsFinal` | the same | the run's terminal event overwrites `failed`; the unguarded `running` overwrites anything |
| `IdleMatchesIntent` | the same | a sweep does not revert intent; two reverts out of order restore the wrong past |
| `CapRespected` | api crash | reservations are lost while their runs start |
| `EveryTaskEnds` | given-up events, agent crash, begin timeout | a lost terminal leaves its row running; a tracker that misses a short outage gives no edge; a pass that gives up strands the queue |
| `ExecutedOnce` | given-up events | `begin` is idempotent in flight only: a row whose run is over and whose events are lost is begun again |

### From code to `ConfigHistory`

*State.* `live` is the managed files on the host (`SYSTEM_FILE_PATHS`), each with
its content or absent. `snap` is `snapshots/`: for every id the type and status of
its manifest and the files it captured (absent ones are its tombstones).
`flock` is the kernel lock, `journal` is `journal.yml` with its owner, phase and
pre-change snapshot, `job` the locals of each process's operation: its change
set (`plan`, with `deletes`), what is left of it (`todo`), the snapshots it took
(`pre`, `own`), and the list its collection deletes from (`doomed`).

*Actions.*

| Code | Action |
|---|---|
| `create_snapshot` up to its GC pass | `TakeSnapshot` in `Create`, `TakePreChange`, `RecordApplied` |
| `GarbageCollector.run`: list, then delete one after another | `ListForGc` (`Doomed`), `Purge` |
| `snapshot create`, `SnapshotHelper.record` (no lock) | `Create` .. `CreateDone` |
| `gc run` | `Acquire` .. `GcDone`, `Unlock`, `ClearJournal` |
| `acquire`, its error, metadata and journal | `Acquire`, `LockRefused`, `WriteJournal` |
| `release`: flock first, files afterwards | `Unlock`, `ClearJournal` |
| `execute_restore_snapshot` | `PlanRestore`, `Refuse`, `TakePreChange`, `StartWriting`, `WriteFile`, `WriteFails`, `Reconverged`, `ReconvergeFails` |
| `_restore_rollback`, the tail of `_auto_rollback` | `RollBackFile`, `RolledBack`, `RollBackFails` |
| `execute` for a reset: apply, validate, record, complete | `StartApply`, `ApplyFile`, `Applied`, `ApplyFails`, `RecordApplied`, `RecordFails`, `Complete` |
| death of a process | `Crash` |

*Abstractions.*

- The playbook of a reset is outside the library: it renders some of the managed
  files, one at a time, in any order, and may fail between any two.
- `lock.meta` serves error texts and a stale-lock recovery that nothing in this
  build calls (`recover_on_startup` has no caller); it and that recovery are left
  out. The baseline is never collected and stands outside `Id`.
- Replacing the baseline (`purge_and_create_baseline`, the TUI's twice confirmed
  "permanently delete ALL configuration history") is left out. It takes no lock:
  beside a running transaction it would delete the pre-change snapshot too, so
  what is said here holds while nobody does that.
- Phases of the journal written next to each other without a step between are
  one write: `snapshot_created` with `executing`, `failed` with `rolling_back`.
- Deleting one snapshot directory, reading what a plan needs and writing one
  managed file are atomic; a write that fails leaves its file as it was.
- A collection that stops early because two processes delete the same directory
  is not modelled: it deletes less.
- `snapshot create --type ephemeral` and `--type baseline` are left out: no caller
  uses them after the installation.
- The executors of the agent and an administrator's editor write the managed
  files too. They are outside the library: `live` is arbitrary at the start and then
  changes only by the operations modelled here.
- Ids carry microseconds and grow with time (`generate_snapshot_id`); age is a fixed
  set, `Aged`.

### From code to the storage modules

`StorageHost` is the host as one record and every verb of the adapters as an
operator on it; `StorageExecutors` gives, for each of the eighteen operations, its
stages and its rollback as lists of calls (`AgentStages`: a stage looks at the
host, throws or updates its stash, then makes its calls in order);
`StoragePlans` is what the providers and routes look up, block, lease and pin;
`StorageControl` runs tasks of any two operations beside each other.

| Code | Definition |
|---|---|
| `xiraid-array-executor.ts`, `pool-executor.ts`, `fs-executor.ts`, `nfs-executor.ts`: `stages`, `rollback` | the stages and rollbacks of `StorageExecutors` |
| providers under `api/plan/providers/`, the routes of arrays, pools, filesystems, shares | `StoragePlans` |
| plan, then apply with the blockers of now and the leases of then | `MakePlan`, `Apply` |
| a stage's checks, each of its calls, a call that fails before or after its effect | `StartStage`, `Work` |
| cancel checkpoints, rollback, snapshots before and after, the settle | `RequestCancel`, `CancelRun`, `StartRollback`, `EndRollback`, `EndRun` |
| poll of the collectors | `Observe` |

One call on the host is one step, so other tasks come between any two calls. The
envelope (queue, events, crashes) is `TaskEngine`'s and is not repeated: an
applied task runs. An observed row stands for its revision. Volumes hold the path
of the filesystem they carry; sizes, RAID levels and mount options other than quota
are left out, since no rule here depends on them. The fsid of an export is the
caller's, so two shares may be for one path; `RolledBack` and `SuccessMeansDone`
except such a pair (`OnItsPath`).

`exposed` is history, not state of the code. It collects the arrays whose leases do
not protect them: one that a task formats or mounts though the plan it was applied
with could not see the array and leased nothing on it, and one that an import was
to bring though it is there. `DataKept`, `MountedOnArray`, `RolledBack` and
`SuccessMeansDone` are stated for the arrays (the behaviours) without; `DataKept`
and `MountedOnArray` hold for all the others beside them.

### From code to the network modules

`NetworkHost` has 99-xinas.yaml, the other netplan files, the kernel's addresses
and source rules, and the executors of `net.iface.update` and `net.pool.apply`.
`Network` adds observation, plans, leases and the run.

| Code | Action |
|---|---|
| `collectors/network.ts` sweep; a read that fails; a netlink event | `Sweep`, `SweepBlind`, `NetlinkEvent` |
| `providers/network.ts`, `lib/net` validation and render | `MakePlan` (`IfaceUpdatePlan`, `PoolApplyPlan`) |
| `routes/network.ts` apply, with the desired rows it writes | `Apply` |
| `net-executor.ts` stages, calls and rollback | `StartStage`, `Work`, `StartRollback`, `EndRollback`, `EndRun` |
| an operator's editor | `OperatorEdit`, only while no network task runs |

MTU and routes are left out; a sweep, which reads the netplan directory twice, is atomic; carrier does not change; the
validation step of netplan has no effect of its own. The standing invariant of
ADR-0008 ("the file is the render of every desired row") does not hold in
general, and the properties say when it does: `FileIsIntent` speaks of tasks
that were planned from a whole observation while no other network task ran
(`sound`). A plan made beside a task that then fails, after a netlink event
(which drops driver and stanza from the row until the next sweep), or from a
blind sweep renders what was never there.

### From code to `Collectors` and `Observation`

`Collectors` has every collector as it is wired in `buildConvergence`: which
kinds it emits, whether a read may lack a source, what its events say. In
`Observation` one of them is followed through its sweeps, the publisher and the
api.

| Code | Action |
|---|---|
| `boot.ts`, `poll.ts`: read, fail, flush complete | `StartSweep`, `SweepFails`, `FlushSweep` |
| `reobserve.ts` at the end of a task | `StartSettle`, `FlushSettle` |
| `publisher.ts` debounce flush, batches, retries, giving up | `Flush`, `Accepted`, `Rejected`, `CallLost` |
| `internal/observed.ts`: one transaction, reconcile-deletes, payload pruning | `Ingest` in `Accepted` |
| kernel events, host changes, agent death | `KernelEvent`, `HostChanges`, `AgentCrash` |
| a plan that pins a row, and its apply | `PlanPins`, `PlanApplies` |
| capture at the end of a task | `CaptureSnapshotDesired` |

`flights` may be applied in any order, because flushes do not wait for one
another; a batch with a malformed row is refused whole. Left out: the health
collector; the set of kinds marked for a reconcile, which nothing reads; the limit
of 1000 rows when reconcile-deletes are computed; contents of rows beyond
"same or different".

### From code to `AuditTrail`

| Code | Action |
|---|---|
| audit middleware at the end of a response; its insert fails | `Finish`, `QueueFails` |
| `drainer.start` timer, `drainOnce` before a query | `StartDrain` |
| append, fsync, mark of `appendAndMark` | `WriteLine`, `Sync`, `MarkBatchDurable` |
| a write that returns less than asked, anything that throws | `WriteShort`, `DrainThrows` |
| the end of a transaction (`queue`, `markBatchDurable`) | `Commit` in the actions above and in `Recover` |
| death of the process, of the machine | `ProcessCrash`, `MachineCrash` |
| `recover` at start; an operator who repairs a torn file | `Recover`, `Repair` |

A drain is synchronous, so requests do not come between its steps but crashes
do. Hashes are not computed: a row's hash covers the rows before it and no statement
deletes a row, so the chain in the file is intact when its lines are in order. A
crash between the insert into the outbox and the one into the lookup index leaves
an entry no exact lookup finds; the index is left out.

The lines are synced one by one and the commits are not: the backend sets
`journal_mode = WAL` and nothing about `synchronous`, which better-sqlite3 then has at
`NORMAL`, so that the WAL is synced at a checkpoint and not at a commit. `wal` holds
every version of the outbox committed since the machine started, for no one knows
when the last sync was, and `MachineCrash` brings any one of them back: rows, marks
and the counter of `audit_seq` go with it. Checkpoints, after which less could come back,
are left out. A crash of the process loses no commit.

Two history variables say when the safety properties end; `Sound` is that neither has
become true. `missed` is set when a line that is not whole on disk passes for
written: a short write, a machine crash that leaves a line without its newline, or a
recovery that marks lines the machine had not synced. `stranded` is set when a machine
crash takes a row back and leaves its line: the next entry gets the number of that line
(section 7). What `Sound` does not except is a power loss that takes marks back, or
rows that had no line yet, or both.

### From code to `TaskFeed`

| Code | Action |
|---|---|
| `dispatch`, the agent's `task.begin` | `Dispatch`, `Begin`, `BeginAnswered` |
| the runner's events with the publisher's retries | `Deliver`, `DeliverUnanswered`, `GiveUp`; `Follow` has their order |
| `taskProgressHandler` with stage rows and `notify` | `ApplyEvent` |
| `failBeforeChange`, queued cancel, sweep | `FailBeforeChange`, `CancelQueued`, `SweepExpired` |
| `/tasks/{id}/watch` with `Last-Event-ID` | `Watch`, `Receive`, `Break` |
| `/tasks/{id}/wait` | `WaitForTask`, `AnswerWaiter` |
| process deaths | `ApiCrash`, `ApiCrashInEvent`, `ApiRestart`, `AgentCrash` |

The stage row and the task row are written by two transactions, with a crash
between them. The cap on held requests is an answer that may come at once. The
output of a stage is left out; spilling it may fail the request like a lost answer.

### From code to `ConfigRollback`

| Code | Action |
|---|---|
| a task on one desired row, its file, its snapshot, its end | `Apply`, `Stage`, `StageFails`, `RollBack`, `SnapshotAfter`, `SnapshotFails`, `Succeed`, `Fail` |
| `captureSnapshotDesired`, `gcSnapshotDesired` | in `Succeed`, `ObserveSnapshots` |
| collection of snapshots | `Collect` |
| `config-rollback.ts` `plan`, `adoptOverlay`, orphans, tombstones, pins | `Plan` |
| `engine.apply` with its pin check | `Refuse`, `ApplyRollback` |
| the executor's one stage, the history runner's restore | `Restore`, `RestoreMissing`, `RestoreBreaks`, `RestoreDone`, `RestoreUndone` |
| the snapshot after, success, `revertDesired` | `RollbackSnapshotFails`, `RollbackSucceeds`, `RollbackFails` |

The second pin of a rollback, on the observed snapshot (`engine.ts:427-436`), can only refuse more
and is left out. An ordinary task is planned and applied in one step (its own staleness is
`StoragePlans`' and `Network`'s). Files are restored whole. `Aux` stands for
export groups and NFS profiles, which an adoption takes along without deciding
the domain. The snapshots a rollback leaves are not restored again; the baseline
reset is left out. The exports file always exists; netplan's may be missing. `odd`
records the five ways in which desired rows and files part, each of them a
finding of section 7; `AdoptedIsRestored` holds as long as none has happened.

## 4. Runs and what they show

| Run | Asks | Instance | States |
|---|---|---|---|
| `MCTaskEngine` | do leases, intent, host and terminal states stay consistent, and does the engine implement `LeasedTasks`? | 2 tasks, requests {r1}, {r2}, {r1,r2}, cap 2, two stages, one lost event, one repeated, one agent crash | 892 thousand |
| `MCTaskEngineRecovery` | does recovery keep the cap, the leases of live tasks and at-most-once execution? | 2 tasks, requests {r1}, {r2}, cap 1, one stage, one begin timeout, api crash and expiry each | 1.4 million |
| `MCLiveness` | does every accepted task end, and is an orphaned lease reclaimed? | one task with a resource and one without, cap 1 so that one waits for the other's slot, an api crash, an expiry | 258 thousand |
| `MCStorage` | what may a delete or a format destroy, what does a failed task undo, what does a successful one leave? | any two of 17 array, filesystem and share operations on 6 hosts, of 12 pool operations on 4, of 6 operations on arrays not observed yet on 3, of 9 share operations on 3, of 4 server operations on 3; 2 faults, 1 poll | 1.9 million |
| `MCNetwork` | do rendered file, kernel and desired rows agree, and does a failed task give back what it found? | 11 pairs of operations and hosts; 2 interfaces, 3 addresses, 3 tables; one fault, sweep, event and edit | 1.0 million |
| `MCObservation` | do rows follow the host, whatever is lost or overtaken, and do pins mean what they say? | one collector of each of 6 shapes; 2 entities and 1 of the second kind; 4 starts; batch of 3, 2 retries, 2 flights, 2 of host changes, failures and crashes | 430 thousand |
| `MCTaskFeed` | do followers have all that the rows say, and do they learn of the end? | one follower of either way, one stage, 2 faults | 564 thousand |
| `MCAudit` | is what is marked durable in the file, in order, once, and does all that is queued get there? | 3 requests, 3 faults | 190 thousand |
| `MCConfigRollback` | do files and desired rows agree when nothing runs, and what may an adoption overwrite? | a share, a profile and an interface with 2 values each, 3 pasts and 2 presents, 2 tasks, one rollback, one fault | 4.3 million |
| `MCConfigHistory` | is what a rollback, a restore and a recovery rely on there, whatever other processes do? | 2 processes, 2 files, 2 contents, any host at the start, one snapshot in the history and two more, retention 1 | 1.0 million |
| `MCLogFormatted`, `MCBlockedPlan` | what the repository says, against what the code does (section 7) | the smallest instance that shows it | |

What the passing runs show, property by property; the comment before each definition
states it in full and names the code it is about.

| Run | Property | Shows |
|---|---|---|
| `MCTaskEngine` | `LeasesHeld`, `OneExecutionPerResource` | leases are exactly those of live tasks; no two runs share a resource |
| | `IdleMatchesIntent`, `TerminalIsFinal` | intent and host agree where nothing runs; an ended task stays ended |
| | `ImplementsLeasedTasks` | leases, intent and state move together, as `LeasedTasks` has it |
| `MCTaskEngineRecovery` | `CapRespected`, `LeaseKeptWhileLive`, `ExecutedOnce` | cap, leases and at-most-once through recovery |
| `MCLiveness` | `EveryTaskEnds`, `LeakedLeaseReaped` | an accepted task ends; an orphaned lease is reaped |
| `MCStorage` | `DataKept`, `MountedOnArray` | data goes only by a delete or a forced creation; no mount without its array |
| | `SparePoolExists` | the pool an array names is there, but for a `pool.create` whose rollback takes it away |
| | `SharesExported` | what is exported at rest is what the desired shares say |
| | `RolledBack`, `SuccessMeansDone` | a failed task gave back what it found; a successful one left what it says |
| `MCNetwork` | `FileIsIntent`, `KernelIsIntent`, `Distinct` | file, kernel and desired rows agree; addresses and tables are not shared |
| | `FilesRestored`, `ForeignKept` | a failed task restores files and kernel; foreign stanzas go only as planned |
| `MCObservation` | `QuietRow`, `Converges` | rows of unchanged entities stay, all others come to the host's state |
| | `SettleShows`, `PinRefuses` | a settle shows what the task left; a changed row refuses the plan made before |
| `MCTaskFeed` | `StreamComplete`, `PhaseForward`, `EndSeen` | streams miss nothing, phases go forward, the end is learnt |
| `MCAudit` | `DurableInFile`, `FileInOrder`, `WrittenOnce` | a durable row is on disk, in the chain's order, once, as long as `Sound` holds |
| | `ImplementsTrail`, `EveryRowDrained` | the file is an append-only trail, from which only a power loss takes, and only the last of what waits; what is queued and not taken back gets there |
| `MCConfigRollback` | `AdoptedIsRestored`, `OverwritesOnlyPlanned` | files and desired rows agree at rest; nothing newer than the plan is overwritten |
| `MCConfigHistory` | `PreChangeKept`, `RollbackRestores`, `RestoreWrites`, `JournalOwn` | what a rollback needs is kept and put back; a restore writes its plan; the journal is the holder's |

*Why the bounds suffice.* `TaskEngine`: every property relates one task to its
own rows or two tasks over a shared resource or slot; two tasks give each of the
roles (holder and competitor, drained and inline, failed and next). Two
resources give overlapping but unequal requests. Cap 1 makes a task wait, cap 2
lets two run side by side. Two stages give a checkpoint and a failure with a
stage to undo; runs whose properties do not look at the rollback have one. Each
fault kind at one lets any two kinds of a run combine; the runs are split by
which kinds can affect their properties. `Requests` gives each task the resource
sets its plan may affect; the empty set is one of them in `MCLiveness` and is real
(a support bundle, `api/plan/providers/support.ts:55`).

`StorageControl`: properties relate two tasks through an array, a pool, a path or an
export, so two tasks with two arrays and paths give both the shared and the
separate object. `SparePoolExists` is a claim about two: a third could deactivate the pool
that a modification is about to name and the second one deletes. Two faults are a call that fails and one that fails while its
rollback undoes it; one poll makes the observed state lag or catch up.

`Network`: two interfaces make the one a task writes and the one it must leave
alone; with three addresses and tables a conflict and its way out both exist.

`Observation`: two batches in flight overtake each other once; with three rows a batch
of three is split and one of two is not; two retries make giving up possible.

`TaskFeed`: streams and polls do not meet, so one follower stands for all. A
stage with the snapshots and the rollback around it has all four kinds of rows.

`AuditTrail`: three rows make a drain with a row before and one after the one that
fails; three faults are a failed drain, a crash and a failed recovery, or a power loss and
two of them. A power loss chooses among all the versions the outbox had since the one before.

`ConfigRollback`: one row of each domain and one that goes with it; one other task
is beside the rollback and one before it. After one rollback the rows whose files only
were restored (`drift`) are there for the tasks that follow.

`ConfigHistory`: two processes give each pair of operations an overlap; a
third could only stand in the same places. Of two files one is rendered by the
baseline's playbook and absent in the old snapshot, so that a restore both writes
and deletes and a reset both touches and leaves alone. Two ids beyond the
history are a complete reset, or a restore beside an unlocked create, and with
retention 1 each of them makes the oldest snapshot excess.

*Symmetry* permutes tasks and resources in the first two runs, tasks in
`MCConfigRollback` and processes in `MCConfigHistory`: they check no liveness, their
constants are closed under it, and no definition distinguishes members of these sets.

`CHECK_DEADLOCK FALSE` is set everywhere: when every task has ended, every
request is served and the bounds are spent, the system is at rest.

## 5. Fairness

`ConfigHistory`, `ConfigRollback`, `StorageControl` and `Network` state none: no
liveness is claimed for them.

`TaskEngineClaims`: the api, the agent and the publisher each do not stop for
ever while they have work. Both processes are event loops that systemd restarts; a
settled RPC, a started reconcile pass, the lease timer and the probe interval are
callbacks of the api; begins and the stage loop are the agent's; an event is
retried until the api answers. Nothing makes a client act, a fault happen, or the
tracker notice a short outage. `EveryTaskEnds` is checked without lost events,
agent crashes and begin timeouts, each of which strands a row or the queue until a
sweep that may never come.

`AuditTrail`: the drain timer goes off, a drain runs through, systemd restarts the
api and it recovers. Nobody repairs a torn file by himself: `EveryRowDrained`
excepts a file that recovery refuses.

`Observation`: the sweep timers go off, what was read is queued and flushed, and
the first call in flight is answered. Nothing makes the kernel send an event.

`TaskFeed`: systemd restarts the api; a follower opens its stream again and reads it, or
asks again; a held request ends at its deadline.

## 6. What is proved

By TLAPS, for all values of the constants, from the named assumptions of each module.

| Theorem | States |
|---|---|
| `TaskEngineProofs!TypeCorrect` | `TypeOK` |
| `TaskEngineProofs!LeaseKept` | `LeaseKeptWhileLive`: needs no invariant but types, and survives every fault |
| `TaskEngineProofs!Inductive` | `IInv` |
| `LeasesProtect`, `OneExecution`, `CapHolds`, `TerminalStays` | `LeasesHeld`, `OneExecutionPerResource`, `CapRespected`, `TerminalIsFinal` |
| `TaskEngineProofs!Implements` | `ImplementsLeasedTasks`: every start and every step of the engine is one of `LeasedTasks`, or nothing that it sees |
| `IntentInductive`, `IntentMatched` | `IntentInv`; `IdleMatchesIntent` |
| `OnceInductive`, `OnceExecuted` | `OnceInv`; `ExecutedOnce` |
| `StorageProofs!TypeCorrect` | `TypeOK`, and in its invariant that each call in a task's list suits the task's operation |
| `MountsKept`, `DataSafe`, `SharesKept`, `SuccessKept` | `MountedOnArray`, `DataKept`, `SharesExported`, `SuccessMeansDone` |
| `NetworkProofs!TypeCorrect`, `Inductive` | `TypeOK`; `Inv` |
| `ForeignStays`, `FilesGivenBack`, `KernelAsPlanned` | `ForeignKept`, `FilesRestored`, `KernelIsIntent` |
| `FilesAsRendered` | our file is the plan's render at a success, and the foreign ones lost the planned duplicates only (no run checks it: it is the part of `FileIsIntent` that holds in general) |
| `ConfigHistoryProofs!HistoryInductive` | `IInv` |
| `PreChangeStays`, `RollbacksRestore`, `RestoresWrite`, `JournalIsOwn`, `SourceIsSpared` | `PreChangeKept`, `RollbackRestores`, `RestoreWrites`, `JournalOwn`, `SourceSpared` (no run checks the last: it follows from the same invariant) |
| `AuditTrailProofs!TypeCorrect`, `Inductive` | types, `IInv` |
| `DurableKept`, `ChainInOrder` | `DurableInFile`, `FileInOrder`, which both suppose `Sound` |
| `UnwrittenInductive`, `LinesOnce` | `OnceInv`; `WrittenOnce`, which supposes `Sound` and that no drain failed |
| `TrailImplemented` | `ImplementsTrail`: every start and every step of drainer and file is one of `AppendOnlyTrail`, or nothing that it sees, as long as `Sound` holds |
| `TaskFeedProofs!TypeCorrect` | types |
| `FeedInductive`, `StreamsTell` | `FeedInv`; `StreamComplete` |
| `PhaseInductive`, `PhaseNeverBack` | `PhaseInv`; `PhaseForward` |
| `ObservationProofs!TypeCorrect`, `Inductive` | `TypeOK`; `IInv` |
| `QuietStays`, `SettleTells`, `PinsRefuse` | `QuietRow`, `SettleShows`, `PinRefuses` |
| `ConfigRollbackProofs!TypeCorrect`, `PlannedOnly` | types, `OverwritesOnlyPlanned` |
| `Inductive`, `Restored` | `IInv`, `AdoptedIsRestored` |

*Task engine* (tasks finite, cap and stages positive, budgets naturals, requests
sets of resources for each task). `OneExecutionPerResource` is not inductive:
nothing in it says why a run's task still has its leases. `RunsLive` does: a run
that may touch the host, or whose end the api has not seen, belongs to a live
task; `LeasesHeld` then gives it its resources exclusively. `RunsLive` in turn needs
that a task is not ended under its run: a queued cancel is allowed only for a
task whose begin is not awaited (`Undispatched`), and such a task has no run and
no unread begin (`UnbegunIdle`); a rejected begin has none either. `CallsReserved`
ties the reservation the cancel looks at to the call in flight, `CallsLive` says
that an accepted call's row is live when `running` is written, and `NoneExpired`
that the sweep of a reconnect finds nothing while no lease expired.
`CapRespected` needs `CallsReserved` and finite tasks. The proof has one lemma per
action for each conjunct the action can disturb.

The refinement needs of that invariant that a row which is set running or ended is
live; the split transactions of a crash and the unguarded writes after a timeout
or an expiry are excluded in `ImplementsLeasedTasks` itself (`Splitting`).
`IdleMatchesIntent` compares two pasts: the one apply stashed in `prior`, to which
the api reverts the row, and the one the run stashed in `saved`, to which the agent
rolls the host back. `HolderTracked` says where the host object of a held resource
stands in the life of its holder: as the holder found it, which is `prior`, or as
the holder makes it, with `prior` in `saved`; `FreeAsDesired` is what the next
holder starts from. `ExecutedOnce` rests on `TouchedIsPast`: a task whose value is
on the host, or in what some run stashed, has left the queue and no begin of it is
on its way, which an unread begin or a pending first event would deny
(`EventsCounted`). No other fault than a given-up event needs to be excluded.

*Storage* (`None` is no array, pool, path, share or record of the host; names of arrays
and of free pools differ; no share is called `profile`; a start is a host, a desired state
and jobs of their types, with every mounted filesystem's array there, a revision for
each desired share and no other, and just the desired shares exported, as
`api/seed-shares.ts` seeds them from the installer's exports; bounds are naturals. Any number of drives, arrays, pools, paths, shares and tasks.) The
executors and the host meet in one notion: `Suits(c, j, s, back)` says which calls a job
may have in its list, with which arguments, in its stages or its rollback. One
lemma per executor shows that its stages and rollback issue nothing else (`RunStageSafe`,
`RollbackSafe`), one per group of verbs what a call does to the host (`PerformTyped`,
`LeftAlone`, `ArrayEffects`, `MountEffects`). `Steps` then takes the ten actions to
four kinds: nothing of the host changes and tasks carry on or end, a task is applied, a stage
is passed, a call is made. `MountedOnArray` is not inductive, because nothing in it says why a
destroy about to be made finds no mount. `Cleared` does: the preflight of a delete
saw the array without mounts, that of a creation saw it absent, and it stays so,
since whatever another task mounts is in that task's `Reach` (its leases, and
`exposed`), and a lease is held once (`Disjoint`). `Reaching` keeps the unit file a mount
goes by inside the reach of the task that mounts it. `DataSafe` adds `Unused`: an array its
creator may still roll back has no data, and what an unforced `fs.create` found
empty is empty or its own; with it, each of the verbs that change an array's data
(create, destroy, import, mkfs) is a delete, a forced creation, a log, or harmless.

`SharesExported` says nothing while a task runs, so its invariant has to say what is to
become of each share. `ShareInv` does, with a table `rows` of what is left if every
running task fails: the row its task found desired (`Holds`), or what is desired. Paths
that no running task is about agree with the table (`Matches`); of the others `Progress`
says how far the executor has come, by its marker or what it saw, its stage and the
call it is at: before the first call the export is as the table has it, after it as
the task wants it, and in between, or when a call failed, nothing is known but that the
rollback will put it right. The lease of a share keeps two running tasks off one row and
so, as long as shares and paths go together (`Orderly`), off one path. Starting moves a
task's row from `desired` into the table, a success moves it back, and a rollback is what the table was kept for.
That a stale plan is refused needs the desired revision; `Pinned` is what it buys, and
the attempt to prove it showed that the revision is not enough when a share is deleted
and made again on another path (section 7). TLC confirmed that with three tasks, one
more than `MCStorage` has; the property excepts it (`OnTwoPaths`).

`SuccessKept` speaks of a run as a whole, for each of eighteen kinds. `Part` is what of the host
a kind works on: its array, its pool, its unit and mount, its export, the domain or the profile.
A call takes it to what `Eff` says (`OwnEffect`), and a list of calls that all succeed `Leads` from
one part to another. `Achieved` says for each kind and stage what the passed stages have reached, and the
invariant, `RunInv`, is that the calls a running task has left lead to that, from whatever the part is
now. So a stage that passes has to lead from what was reached to the next (`StageLeads`, one lemma per
executor), and a call that succeeds uses up its own effect. A call may fail without ending the
run only where the run does not need it: disabling a unit on its way out, which is not in the part, and the
pool of a deleted array, for which the claim is that the array is gone or its destroy is the next call
(`Destroying`). That other tasks leave the part alone (`Undisturbed`) follows from the leases and from
the half of `Apart` that speaks of other tasks (`Unshared`): nobody is on the spare pool or the
export path under a lease of another name. The end is then the case of no stage and no call left.

*Network* (interfaces, addresses and tables are numbers, interfaces and tables finitely
many; `None` is no stanza, row, table or file; a start is a host, desired rows with a revision for
each, and requests of their types; operators write stanzas. Any number of tasks.) A plan is
of its type however little the observation tells (`PlanTyped`), and holds the lease of
the one netplan file, so that a task runs alone (`Alone`) and the host under it moves by its own
calls only. `FilesKnown` says what it then knows: until its preflight has
passed, the files are as it found them; from there on its stash and the hash of its plan
are these files, and the foreign ones are these or the cleaned ones, whatever failed.
`ForeignStays` needs no more. `FilesGivenBack` needs in addition, for a rollback, what its remaining
calls still do (`GoingBack`): a file is back or its write is to come, an interface is without
addresses or its flush is to come, and the apply is the last call, so that it finds all files
back and every target flushed. That the flush calls reach every target, in whatever order the
kernel lists them, is a fact about bijections of finite sets (`FlushAddrsCovers`).
`KernelAsPlanned` is the same argument forwards (`GoingForward`), over five stages: the files
are as planned or their write is to come, a target is flat or its flush is to come, and
after the apply, which comes last in its stage, each target has what the merged files give it and
the tables have its rules. The verify stage issues nothing and lets only such a host end in success, but for a
plan that was stored blocked, whose stages are those of its empty render. The attempt
showed where the property was too strong for more than two tasks: a pool does not flush the rules of table 0, and
the rules of a table that a file gives to another interface too are shared. `OwnTable`
says so in the property; an interface that a foreign file alone defines was excepted before.

*Configuration history* (`NoProc` is no process, `Absent` no content, the
history a sequence of at most `MaxId` captures, the playbook a partial function
from files to contents; nothing is assumed of the retention). The argument
separates what a process relies on from what the others may do. `Consistent(p)` is
all that the invariant says of one process: which stage it is in (`Staged`), that
it holds the flock just while it is inside its transaction (`LockHeld`), that what
it refers to exists and its deletion list names no ephemeral snapshot
(`References`), and how the host, its pre-change snapshot, its source and its
change set are related (`Untouched`, `Planned`, `Written`). `RollbackRestores` and
`RestoreWrites` speak of the end of an operation only and need the last three at
every point before it; `PreChangeKept` needs the deletion lists, which are made
long before the deletions. `Grants(p)` is what a step of `p` may do to everybody
else: write files only under the flock, delete only snapshots that are not
ephemeral, add new ones, touch the journal only with the flock or to remove it.
`OthersConsistent` shows once that the others stay consistent under it; each
action then has one lemma, that it keeps its own process consistent within its
grant. `SourceIsSpared` follows from `IInv` and `OnlyPurgeRemoves`.

*Audit trail* (the fault budget is a natural; any requests, and what a line says that does
not parse may be anything). A durable mark is safe when the
batch's recorded lines are on disk (`MarksTrue`), which a sync gives them: the row
being written is the last line (`CurLast`). The order of the chain needs that each
pending row is still to come, being written or recorded (`PendingSeen`), since the
rows are taken in order, and that a file with an end torn off is never appended to
(`ServedWhole`): the api serves only from a file that parses. `LinesKnown` rules out
garbled lines and lines of no row of the outbox, so that a line's sequence and entry are a row's.

A power loss may bring back any version in `wal`, so the invariant speaks of all of them
(`VersionsTrue`): each has no more rows than the outbox, with the same entries, and calls
durable only what is written where it says. Rows are only queued at the end and marked, so
a commit keeps that (`VersionsKept`), and so do all steps that write and sync lines
(`LinesKept`). It is what makes the crash safe: the version that
comes back is one of these, and with `~stranded` every line left is one of its rows
(`GoodMachineCrash`). Without it `LinesKnown` would be lost, and with it everything else: two entries
share a number.

`WrittenOnce` holds until a drain fails: what a drain still has to write, and what a
serving api has pending, has no line in the file (`Single`). A crash breaks that, when the
mark was not made as when it was taken back, and the recovery mends it before the api serves.

`TrailImplemented` rests on `FileInOrder`: in such a file the rows that have a synced line
are the first so many of the outbox, and their first lines come in the outbox's order
(`FirstLinesInOrder`). So the log is a prefix of the outbox and what waits is the rest
(`PrefixOnDisk`), and a step can only queue an entry at the end or move the border
(`StepStays`). A crash of the machine cuts the file behind its synced part only and keeps, unless it
strands a line, all rows that have one: what it takes are the last of those that wait, and unsynced
lines that it leaves join the log (`CrashLoses`); a repair removes nothing but a line that was cut. Both
sequences are filtered ones; the model filters with a recursive function over the rows' numbers,
and `InOrderAbove` says what it returns.

*Task feed* (stages positive, bounds naturals, any followers). A follower's view is a
fold over the frames of its stream. The invariant (`Followed`) says that playing the
frames still on the wire on top of the view yields what the rows say, and that all the
frames follow the view's last id; a new frame extends the fold at its end, reading one
moves its start. Induction over the number of frames is had from the
well-foundedness of the naturals (`Induction`). `PhaseForward` follows the stage rows:
every event yet to come writes a row whose phase is not behind those there (`Behind`).

*Observation* (entities of both kinds finitely many, collectors from the registry, a start
is two hosts; what the schema rejects is a content; the ceiling and the bounds are positive). The
three properties are about what a batch does when it is applied, which may be long after it was
made, and after batches made later. So the invariant speaks of the batches on their way: in
each of them everything said of one entity that never changed is one and the same, what is on
the host or that it was not told, and a batch that is complete for the entity's kind has a delta
of it if the host does (`QuietBatch`). Then neither the upserts nor the reconcile-deletes
of any batch, at whatever time, touch its row (`StoredQuiet`). Such a batch comes from
a sweep that saw it so (`SweepsTrue`, `Looks`), while the queue in front of it holds events
only, which are of entities that changed (`EventsOfChanged`); `QueuedSays` shows that queueing keeps
them all and in order. A cut at the ceiling makes a batch that is complete without the first part,
and the invariant of batches ends there (`split`), as the properties do. `SettleWhole` keeps
the batch of a settle all that the settle read, since the kinds a task re-observes have no events
that could be queued before it (`CollectorFacts`). For `PinRefuses`, a row that was not deleted
since the plan has the plan's revision only with its content (`PinnedRow`, `UpsertedMoves`). The deltas
of a batch are applied one after another; facts about that are had by induction over
their number.

*Snapshots and adoption* (`Old` is no task, bounds are naturals, past and present
are sets of rows). `PlannedOnly` rests on `PinsBound`: a pin is the row's
revision until the row is written after the plan, and less from then on, unless it
was deleted in between and its revisions started again. `Restored` follows a row through
whatever has it. While a task holds a row, its file has the task's value or the prior
one, depending on how far the task came (`HeldRendered`); rows that no task holds
agree with their files (`OthersRendered`), and `RowsApart` keeps two tasks off one
row. A task that runs alone takes its snapshot of what is desired
(`AloneRendered`), so that the payload captured at its end, and only then
(`OverToCapture`), agrees with it (`PayloadRenders`), and what a plan decides agrees with
the files it goes back to (`PlanRenders`). A rollback under way found files that agree
with the rows it can give back, and restores what it adopted (`RollRenders`).

*Only model-checked*: of storage `SparePoolExists` and `RolledBack`; of
the network `Distinct` and `FileIsIntent`; and all liveness. Liveness under
fairness and `ENABLED` are out of the prover's reach. Induction over natural numbers is not:
it is used for streams, batches and the order of a file, through the least element of a set,
where the model has a recursive function.

`SparePoolExists` is a claim about the two tasks and the starts of `MCStorage`. No lease is
shared by an array and the pool of its name. What keeps a deletion off the pool that a
modification is about to name is that an active pool is not deleted. That fails when a third
task deactivates the pool after the modification looked, and it fails with two tasks when the
host starts with an array that names an inactive pool, which a rollback names again before the
deletion, already under way, removes it. TLC finds both, in 20 and 14 states, with a third task
and with such a start.

The two network properties are claims about the tasks of `MCNetwork`. A plan pins the
revisions of its targets and the files only, so that with a third task two plans beside it could change
another row, the second of them ending in manual recovery with the files put back, and `FileIsIntent`
fails at the first (TLC finds it in 42 states with three tasks); `FilesAsRendered` is what holds for any number of tasks. `Distinct` depends on
two interfaces: a plan writes the rows it adopted as they were when it was made, without a pin, and
a third interface may have been given such an address since.

`RolledBack` would need, beside what `SuccessKept` knows of a run, what any part of its stages may
have done before it failed, and that the rollback leads back from each of these. It holds
of a profile only where the one in force is the desired one when a task is planned, since the
rollback renders the desired one.
## 7. Findings

Two are runs that TLC must find violated, with the line of the repository they
disagree with; `PROJECT.json` quotes them.

- `MCLogFormatted` (`LogKept`): the preflight of `fs.create` is called the single destruction
  gate, but it looks at the data device only. A creation without force whose external
  log is an array with a filesystem on it formats that array.
- `MCBlockedPlan` (`BlockedNeverApplied`): a blocked plan is stored with an empty render because it "can
  NEVER be applied"; the route refuses the blockers of now and not those of the plan.
  When what blocked it is gone, it is applied and empties 99-xinas.yaml.

The model has these disagreements too; properties except them by name, or say with
`Clean` which fault they need.

*Task engine.* A begin whose reply misses the five seconds was accepted all the
same: the task is failed "before change" and its stages run (`engine.ts:727`). Queued
tasks get no heartbeat, so one that waits a minute is ended by the sweep of the
next reconnect (`leases.ts:46`). With the api down for a whole run and its event
retries, the reconcile begins the task again (`engine.ts:686`). The timer's comment
promises the leases of a running task whose agent died; it reaps ended tasks'
only (`server.ts:119`). A reconcile whose list of runs times out while the
tracker is healthy strands the queue.

*Followers.* The specification of the task envelope
(`s2-task-envelope-spec.md:228-230`) and `engine.ts:743-745` want a higher sequence
with every change of state. A sweep, and the `fail` policy of reconcile
(`engine.ts:891`), end a task with neither a sequence nor a frame: an open stream
never learns of it. `failBeforeChange` may set the sequence back behind the agent's.
`metadata.revision` is at least 1, so a long poll since 1 misses event 1. A lost
stage event leaves its row `running` for good.

*Storage and plans.* A delete looks at mounts once, so a mount of an array's external
log can come in between; only data arrays are covered by `MountedOnArray`. A
pool operation on an array's spare pool leases another name than the array's
operations and may take its pool away under them; `RolledBack` and
`SuccessMeansDone` except it. The rollback of a `pool.create` deletes the pool by
name, also one that was there and for which the daemon refused the creation
(`pool-executor.ts:94-101`); `SparePoolExists` excepts it. So does the rollback of an
import with an array that was there (`xiraid-array-executor.ts:566-581`): the array
leaves the configuration under its mounted filesystem. An apply takes the
leases of its stored plan (`apply-helpers.ts:45`): when the array was not observed at
the plan, a filesystem task is let on to it without a lease, beside the array's own
creation or delete, and its filesystem can be lost. Two shares of one path pass
both plans when their fsids are given by the caller (`nfs.ts:255-275`): the second
replaces the export of the first, and the end of either takes it away. A row that is deleted and made again
starts at revision 1 (`state/backend-sqlite.ts:68`; `state/types.ts:15` says "monotonic per key"), so a pin may match
another row: a delete of a share planned before takes away its new row and the export of
its old path, and the new path stays exported.

*Network.* ADR-0008's standing invariant (`0008-network.md:71-72`) is broken by a plan
made while another network task runs that then fails, by a netlink event
(`convergence.ts:178-191`, `collectors/network.ts:111`) and by a blind sweep. The
first change of an interface that a foreign file defines leaves it defined
twice unless the plan cleans up. A rollback leaves a 99-xinas.yaml that did not
exist. The pool's search for a free table comes after its own plan.

*Observation.* A sweep cut at the batch ceiling is not a complete snapshot any
more: rows of its first part may be deleted by the second. A refused batch takes its
well-formed rows with it. A lost push of `NetworkConfig` is not emitted again until
it changes. udev announces a device by its path and the sweep by its name, so an
event leaves a second row until the next sweep. Payloads of snapshots are pruned by the
observed rows in two steps of which the first may be old (`observed.ts:224-230`),
so that a payload just captured goes.

*Audit.* A power loss may take back a commit whose line is synced (`backend-sqlite.ts:52-53`
against `audit-drainer.ts:161-162`), and recovery compares numbers only
(`audit-drainer.ts:107-122`). ADR-0003 gives the order of drain and start as what "guarantees no
chain forks" (`0003-state-store.md:342-344`). In the model the next entry gets the number of the row
that was lost, and then a second line with that number, chained, if an earlier row is left in the outbox,
to the same row as the first: one entry drained, the power lost, another drained. If the api dies
before that second drain, recovery takes the old line for the new entry's and marks the entry
durable there; it is never written. `stranded` excepts both. Without it TLC finds
`WrittenOnce` violated with one fault and `DurableInFile` with two.

Recovery marks lines it finds without an fsync of the file. A line that
lacks only its newline passes for written, and the next one is glued to it. A torn
last line makes `JSON.parse` throw, and the api does not start until somebody
repairs the file.

*Snapshots and adoption.* ADR-0015 §4 (`0015-durable-desired-adoption.md:139-142`)
says that after an adoption desired rows render to the restored files. A row created
between plan and apply is neither deleted nor pinned, and the restore drops it
from its file (`config-rollback.ts:193`). A payload captured while another task was
live has that task's rows before they reached a file (§1). A rollback's lease keeps
other rollbacks out and no other writer, whatever its comment says (`:14-16`). A
failure of the snapshot after a restore leaves the files restored and the desired
rows reverted; an undone restore keeps files it created. The blockers of a rollback are
not looked at again at apply.

*Configuration history.* `release()` frees the flock and then deletes the journal:
if the next transaction acquires in between, its fresh journal is what goes, and a
crash leaves no trace of it. Collection inside `create_snapshot` is said to
run under the caller's lock, but `snapshot create` and the TUI's recorder hold
none: such a pass deletes the source of a running restore, which skips the
files it can no longer read and reports success. The pass after a pre-change
snapshot protects that snapshot and not the applied one that is still in effect.
A restore keeps its promise on the change set it computed before the lock and
only while its source exists; a rollback never deletes a file the failed
operation created.

## 8. Not modelled

- **Hazards without a property**, in `PROJECT.json` with the reason: a begin that times out
  and is accepted, reverts out of order, a fresh journal deleted by the last holder, files a
  failed operation created, an apply on leases of a plan that could not see its array, plans from
  rows that a netlink event emptied, a short write of the trail, a sequence that goes back, rows
  created beside an adoption, a payload captured beside a live task. The modules have all of
  them; the properties they break except them by name and hold until then.
- **Further hazards without a property**: the sweep of a reconcile comes before the in-flight
  set is known, so a live run with a slow stage loses its leases (`engine.ts:821`); the
  sweep ends tasks without reverting their intent (`leases.ts:178`); an exception in
  the middle of a restore ends it without the rollback that a failed reconverge gets
  (`runner.py:717`), and its journal is never updated (`runner.py:678`); replacing the
  baseline deletes every snapshot without the lock (`store.py:261`); a
  `NetworkConfig` push that is lost (`collectors/network.ts:77`); the flush at the
  ceiling (`publisher.ts:112`); an audit entry that is queued only after its
  response, against ADR-0003 (`middleware/audit.ts:47`); the two-step pruning of
  payloads (`observed.ts:230`). The modules have all but the baseline's; what they break
  is excepted by name in the properties, since no property can hold that forbids it.
- **Retention sweeper** (`state/gc.ts`): no caller in this build.
- **Drift, classifier, validator, Python collectors, most parsers**: pure functions of
  texts and command output.
- **Authentication, read routes, rendering, MCP transport**: no state of their own.
- **Support bundle and reference executor**: change nothing on the host.
- **Quotas and sessions of the NFS helper**, its lock and its atomic rename: one agent
  calls it, one call after another.
- **TUI, installers, playbooks, shell scripts**: one-shot, or clients of the parts above.
- **Heartbeat states, `purge_all`, baseline reset through `config.rollback`, health
  collector, idempotency hash**: left in the plan (section 2).
