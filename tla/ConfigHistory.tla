--------------------------- MODULE ConfigHistory ---------------------------
(***************************************************************************)
(* The configuration history library (src/xinas_history): several          *)
(* processes - CLI calls of the agent, the TUI, an operator's shell - take *)
(* snapshots of the managed files, restore one, reset to the baseline and  *)
(* collect garbage.  They meet in the file system only: the managed files, *)
(* the snapshot directories, the flock and the transaction journal.  One   *)
(* action is one operation on it (lock.py, engine.py, runner.py, gc.py,    *)
(* store.py, __main__.py); any process may die between two of them.        *)
(***************************************************************************)
EXTENDS Integers, FiniteSets

CONSTANTS
    Proc,          \* processes that run the library
    NoProc,        \* nobody holds the lock, or no journal is on disk
    File,          \* managed files (SYSTEM_FILE_PATHS)
    Content,       \* what a file may hold
    Absent,        \* the file does not exist
    History,       \* the files of the snapshots taken so far, oldest first
    Playbook,      \* the files the baseline's playbook writes, and with what
    MaxId,         \* snapshots a behaviour may take, the history included
    MaxSnapshots,  \* retention: rollback-eligible snapshots kept
    Aged           \* snapshots older than the retention's max_age_days

NoSnapshot == 0
Id    == 1..MaxId
Files == [File -> Content \union {Absent}]

ASSUME ProcAssumption    == NoProc \notin Proc
ASSUME AbsentAssumption  == Absent \notin Content
ASSUME MaxIdAssumption   == MaxId \in Nat
ASSUME HistoryAssumption == \E n \in 0..MaxId : History \in [1..n -> Files]
ASSUME PlaybookAssumption == \E fs \in SUBSET File : Playbook \in [fs -> Content]
ASSUME RetentionAssumption == MaxSnapshots \in Nat \ {0} /\ Aged \subseteq Id

VARIABLES
    live,     \* the managed files on the host
    snap,     \* snapshots/: the manifest and the captured files of every id
    nextId,   \* ids and timestamps grow together
    flock,    \* the process that holds the kernel lock
    journal,  \* journal.yml: whose transaction, its phase, its pre-change snapshot
    job       \* what each process is doing

vars == <<live, snap, nextId, flock, journal, job>>

Missing   == [type |-> "none", status |-> "none", files |-> [f \in File |-> Absent]]
Manifest  == [type   : {"none", "rollback_eligible", "ephemeral"},
              status : {"none", "pending", "applied", "rolled_back", "failed"},
              files  : Files]
Phase     == {"none", "preflight", "executing", "validating", "completed", "rolling_back"}
NoJournal == [owner |-> NoProc, phase |-> "none", pre |-> NoSnapshot]

PC == {"idle", "planned", "locked", "capturing", "listing", "purging", "applying",
       "validating", "writing", "rollingBack", "releasing", "clearing"}
Job == [kind    : {"none", "restore", "reset", "gc", "create"},
        pc      : PC,
        target  : Id \union {NoSnapshot},  \* the snapshot being restored
        pre     : Id \union {NoSnapshot},  \* pre_change_snapshot_id
        own     : Id \union {NoSnapshot},  \* the last snapshot it took
        plan    : SUBSET File,             \* change_set
        deletes : SUBSET File,             \* delete_set
        todo    : SUBSET File,             \* files still to write
        doomed  : SUBSET Id,               \* snapshots its GC pass still deletes
        result  : {"none", "success", "refused", "failed", "unrecorded",
                   "rolled_back", "rollback_failed"}]
Idle == [kind |-> "none", pc |-> "idle", target |-> NoSnapshot, pre |-> NoSnapshot,
         own |-> NoSnapshot, plan |-> {}, deletes |-> {}, todo |-> {}, doomed |-> {},
         result |-> "none"]

Exists(s)      == snap[s].type # "none"
Captured(s, f) == Exists(s) /\ snap[s].files[f] # Absent

Init ==
    /\ live \in Files
    /\ snap = [s \in Id |->
                  IF s \in DOMAIN History
                  THEN [type |-> "rollback_eligible", status |-> "applied", files |-> History[s]]
                  ELSE Missing]
    /\ nextId = Cardinality(DOMAIN History) + 1
    /\ flock = NoProc
    /\ journal = NoJournal
    /\ job = [p \in Proc |-> Idle]

-----------------------------------------------------------------------------
(***************************************************************************)
(* Snapshots.                                                              *)
(***************************************************************************)

\* A manifest gets its final status if its directory is still there
\* (_mark_pre_change_terminal is best effort).
Mark(s, status) ==
    snap' = IF Exists(s) THEN [snap EXCEPT ![s].status = status] ELSE snap

\* create_snapshot up to its GC pass: capture the live files and rename the
\* directory into place.
TakeSnapshot(type, status) ==
    /\ nextId \in Id
    /\ snap' = [snap EXCEPT ![nextId] = [type |-> type, status |-> status, files |-> live]]
    /\ nextId' = nextId + 1

\* The newest applied snapshot, of whatever type (get_current_effective);
\* NoSnapshot stands for the baseline, which the store never deletes.
CurrentEffective ==
    LET applied == {s \in Id : Exists(s) /\ snap[s].status = "applied"}
    IN  IF applied = {} THEN NoSnapshot
        ELSE CHOOSE s \in applied : \A u \in applied : u <= s

-----------------------------------------------------------------------------
(***************************************************************************)
(* Garbage collection: a pass inside create_snapshot, a second one after a *)
(* reset, and the standalone one.                                          *)
(***************************************************************************)

\* Mutant: the count looks at all snapshots, the pre-change ones included.
Eligible_AllTypes == {s \in Id : Exists(s)}

Eligible == {s \in Id : snap[s].type = "rollback_eligible"}

\* current_effective_id: whoever took a snapshot passes that one.
EffectiveFor(p) == IF job[p].own # NoSnapshot THEN job[p].own ELSE CurrentEffective

\* in_progress_ids: a restore protects its source from its own pass.
InProgress(p) == IF job[p].kind = "restore" THEN {job[p].target} ELSE {}

\* GarbageCollector.run up to its deletions: the oldest purgeable ones beyond
\* the count, and the aged ones.
Doomed(p) ==
    LET purgeable == Eligible \ ({EffectiveFor(p)} \union InProgress(p))
        excess    == Cardinality(Eligible) - MaxSnapshots
    IN  {s \in purgeable : \/ Cardinality({u \in purgeable : u < s}) < excess
                           \/ s \in Aged}

ListForGc(p) ==
    /\ job[p].pc = "listing"
    /\ job' = [job EXCEPT ![p].pc = "purging", ![p].doomed = Doomed(p)]
    /\ UNCHANGED <<live, snap, nextId, flock, journal>>

\* Deletions go from the list, oldest first, whatever happened since.
Purge(p) ==
    /\ job[p].pc = "purging"
    /\ \E s \in job[p].doomed :
          /\ \A u \in job[p].doomed : s <= u
          /\ snap' = [snap EXCEPT ![s] = Missing]
          /\ job' = [job EXCEPT ![p].doomed = @ \ {s}]
    /\ UNCHANGED <<live, nextId, flock, journal>>

Purged(p, kind) == job[p].pc = "purging" /\ job[p].doomed = {} /\ job[p].kind = kind

\* `snapshot create` and SnapshotHelper.record: no lock at all.
Create(p) ==
    /\ job[p].pc = "idle"
    /\ TakeSnapshot("rollback_eligible", "applied")
    /\ job' = [job EXCEPT ![p] = [Idle EXCEPT !.kind = "create", !.pc = "listing", !.own = nextId]]
    /\ UNCHANGED <<live, flock, journal>>

CreateDone(p) ==
    /\ Purged(p, "create")
    /\ job' = [job EXCEPT ![p] = Idle]
    /\ UNCHANGED <<live, snap, nextId, flock, journal>>

GcDone(p) ==
    /\ Purged(p, "gc")
    /\ job' = [job EXCEPT ![p].pc = "releasing", ![p].result = "success"]
    /\ UNCHANGED <<live, snap, nextId, flock, journal>>

-----------------------------------------------------------------------------
(***************************************************************************)
(* The lock and the journal.                                               *)
(***************************************************************************)

\* update_journal rewrites whatever journal it finds, and nothing if there is
\* none.
UpdateJournal(phase, pre) ==
    journal' = IF journal.owner = NoProc THEN journal
               ELSE [journal EXCEPT !.phase = phase, !.pre = pre]

\* execute_restore_snapshot up to the lock: the change set is computed from the
\* live files before anything protects them.  An empty one ends the restore.
PlanRestore(p, s) ==
    /\ job[p].pc = "idle"
    /\ Exists(s)
    /\ LET changed == {f \in File : live[f] # snap[s].files[f]}
       IN  /\ changed # {}
           /\ job' = [job EXCEPT ![p] =
                        [Idle EXCEPT !.kind = "restore", !.pc = "planned", !.target = s,
                                     !.plan = changed,
                                     !.deletes = {f \in changed : snap[s].files[f] = Absent}]]
    /\ UNCHANGED <<live, snap, nextId, flock, journal>>

\* acquire() takes the flock or raises LockError, which ends the operation.
Acquire(p) ==
    /\ \/ /\ job[p].pc = "planned"
          /\ job' = [job EXCEPT ![p].pc = "locked"]
       \/ /\ job[p].pc = "idle"
          /\ \E kind \in {"reset", "gc"} :
                job' = [job EXCEPT ![p] = [Idle EXCEPT !.kind = kind, !.pc = "locked"]]
    /\ flock = NoProc
    /\ flock' = p
    /\ UNCHANGED <<live, snap, nextId, journal>>

LockRefused(p) ==
    /\ job[p].pc = "planned"
    /\ flock # NoProc
    /\ job' = [job EXCEPT ![p] = Idle]
    /\ UNCHANGED <<live, snap, nextId, flock, journal>>

\* Mutant: acquire keeps a journal it finds.
StartJournal_KeepsOld(p) ==
    journal' = IF journal.owner = NoProc
               THEN [owner |-> p, phase |-> "preflight", pre |-> NoSnapshot]
               ELSE journal

\* The rest of acquire(): metadata, then a fresh journal.
StartJournal(p) ==
    journal' = [owner |-> p, phase |-> "preflight", pre |-> NoSnapshot]

WriteJournal(p) ==
    /\ job[p].pc = "locked"
    /\ StartJournal(p)
    /\ job' = [job EXCEPT ![p].pc = IF job[p].kind = "gc" THEN "listing" ELSE "capturing"]
    /\ UNCHANGED <<live, snap, nextId, flock>>

\* release() frees the flock first and removes the files afterwards.
Unlock(p) ==
    /\ job[p].pc = "releasing"
    /\ flock' = NoProc
    /\ job' = [job EXCEPT ![p].pc = "clearing"]
    /\ UNCHANGED <<live, snap, nextId, journal>>

ClearJournal(p) ==
    /\ job[p].pc = "clearing"
    /\ journal' = NoJournal
    /\ job' = [job EXCEPT ![p] = Idle]
    /\ UNCHANGED <<live, snap, nextId, flock>>

-----------------------------------------------------------------------------
(***************************************************************************)
(* The pre-change snapshot, common to a restore and a reset.               *)
(***************************************************************************)

\* Preflight says no, or the snapshot cannot be taken: nothing was changed.
Refuse(p) ==
    /\ job[p].pc = "capturing"
    /\ job' = [job EXCEPT ![p].pc = "releasing", ![p].result = "refused"]
    /\ UNCHANGED <<live, snap, nextId, flock, journal>>

TakePreChange(p) ==
    /\ job[p].pc = "capturing"
    /\ TakeSnapshot("ephemeral", "pending")
    /\ job' = [job EXCEPT ![p].pc = "listing", ![p].pre = nextId, ![p].own = nextId]
    /\ UNCHANGED <<live, flock, journal>>

\* The operation ends with this result and its pre-change snapshot is marked.
Finish(p, result, status) ==
    /\ Mark(job[p].pre, status)
    /\ job' = [job EXCEPT ![p].pc = "releasing", ![p].result = result, ![p].todo = {}]
    /\ UNCHANGED <<live, nextId, flock>>

-----------------------------------------------------------------------------
(***************************************************************************)
(* Restore (execute_restore_snapshot).  It never updates the journal.      *)
(***************************************************************************)

StartWriting(p) ==
    /\ Purged(p, "restore")
    /\ job' = [job EXCEPT ![p].pc = "writing", ![p].todo = job[p].plan]
    /\ UNCHANGED <<live, snap, nextId, flock, journal>>

\* Mutant: the restore of before tombstones, which deletes nothing.
WriteFile_NoDeletions(p, f) ==
    /\ job[p].pc = "writing"
    /\ f \in job[p].todo
    /\ live' = IF Captured(job[p].target, f)
               THEN [live EXCEPT ![f] = snap[job[p].target].files[f]]
               ELSE live
    /\ job' = [job EXCEPT ![p].todo = @ \ {f}]
    /\ UNCHANGED <<snap, nextId, flock, journal>>

\* One file: the captured ones first, then the deletions.  A file whose
\* snapshot has gone is skipped without a word.
WriteFile(p, f) ==
    /\ job[p].pc = "writing"
    /\ f \in job[p].todo
    /\ f \in job[p].deletes => job[p].todo \subseteq job[p].deletes
    /\ live' = IF f \in job[p].deletes THEN [live EXCEPT ![f] = Absent]
               ELSE IF Captured(job[p].target, f)
               THEN [live EXCEPT ![f] = snap[job[p].target].files[f]]
               ELSE live
    /\ job' = [job EXCEPT ![p].todo = @ \ {f}]
    /\ UNCHANGED <<snap, nextId, flock, journal>>

\* A write that raises, or a service command that cannot even start, ends the
\* restore where it stands, without a rollback.
WriteFails(p) ==
    /\ job[p].pc = "writing"
    /\ Finish(p, "failed", "failed")
    /\ UNCHANGED journal

Reconverged(p) ==
    /\ job[p].pc = "writing"
    /\ job[p].todo = {}
    /\ Finish(p, "success", "applied")
    /\ UNCHANGED journal

\* Mutant: a rollback forgets the files the restore deleted.
RestoreRollbackSet_WrittenOnly(p) == job[p].plan \ job[p].deletes

\* A failed reconverge rolls the whole change set back.
RestoreRollbackSet(p) == job[p].plan

ReconvergeFails(p) ==
    /\ job[p].pc = "writing"
    /\ job[p].todo = {}
    /\ job' = [job EXCEPT ![p].pc = "rollingBack", ![p].todo = RestoreRollbackSet(p)]
    /\ UNCHANGED <<live, snap, nextId, flock, journal>>

\* _restore_rollback: only captured files are written back; a file that did not
\* exist is left where the failed operation put it.
RollBackFile(p, f) ==
    /\ job[p].pc = "rollingBack"
    /\ f \in job[p].todo
    /\ live' = IF Captured(job[p].pre, f)
               THEN [live EXCEPT ![f] = snap[job[p].pre].files[f]]
               ELSE live
    /\ job' = [job EXCEPT ![p].todo = @ \ {f}]
    /\ UNCHANGED <<snap, nextId, flock, journal>>

RolledBack(p) ==
    /\ job[p].pc = "rollingBack"
    /\ job[p].todo = {}
    /\ Finish(p, "rolled_back", "rolled_back")
    /\ UNCHANGED journal

\* A write raises, or the reconverge after the last one fails.
RollBackFails(p) ==
    /\ job[p].pc = "rollingBack"
    /\ Finish(p, "rollback_failed", "failed")
    /\ UNCHANGED journal

-----------------------------------------------------------------------------
(***************************************************************************)
(* Reset to baseline (execute).                                            *)
(***************************************************************************)

StartApply(p) ==
    /\ Purged(p, "reset")
    /\ job[p].own = job[p].pre
    /\ UpdateJournal("executing", job[p].pre)
    /\ job' = [job EXCEPT ![p].pc = "applying", ![p].todo = DOMAIN Playbook]
    /\ UNCHANGED <<live, snap, nextId, flock>>

\* The playbook renders one file.
ApplyFile(p, f) ==
    /\ job[p].pc = "applying"
    /\ f \in job[p].todo
    /\ live' = [live EXCEPT ![f] = Playbook[f]]
    /\ job' = [job EXCEPT ![p].todo = @ \ {f}]
    /\ UNCHANGED <<snap, nextId, flock, journal>>

Applied(p) ==
    /\ job[p].pc = "applying"
    /\ job[p].todo = {}
    /\ UpdateJournal("validating", job[p].pre)
    /\ job' = [job EXCEPT ![p].pc = "validating"]
    /\ UNCHANGED <<live, snap, nextId, flock>>

\* _auto_rollback takes the captured files that differ now.
AutoRollbackSet(p) ==
    {f \in File : Captured(job[p].pre, f) /\ live[f] # snap[job[p].pre].files[f]}

\* The playbook or the validation after it fails: auto-rollback, which has
\* nothing to do if no captured file differs, and no way if the snapshot is gone.
ApplyFails(p) ==
    /\ job[p].pc \in {"applying", "validating"}
    /\ UpdateJournal("rolling_back", job[p].pre)
    /\ \/ /\ AutoRollbackSet(p) = {}
          /\ IF Exists(job[p].pre) THEN Finish(p, "rolled_back", "rolled_back")
                                   ELSE Finish(p, "rollback_failed", "failed")
       \/ /\ AutoRollbackSet(p) # {}
          /\ job' = [job EXCEPT ![p].pc = "rollingBack", ![p].todo = AutoRollbackSet(p),
                                ![p].plan = AutoRollbackSet(p)]
          /\ UNCHANGED <<live, snap, nextId, flock>>

\* The validation passes and the applied snapshot is taken.
RecordApplied(p) ==
    /\ job[p].pc = "validating"
    /\ TakeSnapshot("rollback_eligible", "applied")
    /\ job' = [job EXCEPT ![p].pc = "listing", ![p].own = nextId]
    /\ UNCHANGED <<live, flock, journal>>

\* The change stands but is not in the history; the pre-change snapshot stays
\* pending.
RecordFails(p) ==
    /\ job[p].pc = "validating"
    /\ job' = [job EXCEPT ![p].pc = "releasing", ![p].result = "unrecorded"]
    /\ UNCHANGED <<live, snap, nextId, flock, journal>>

\* The applied snapshot is there: complete the journal, mark the pre-change
\* snapshot, and run a second GC pass before the release.
Complete(p) ==
    /\ Purged(p, "reset")
    /\ job[p].own # job[p].pre
    /\ \/ /\ job[p].result = "none"
          /\ UpdateJournal("completed", job[p].pre)
          /\ Mark(job[p].pre, "applied")
          /\ job' = [job EXCEPT ![p].pc = "listing", ![p].result = "success"]
       \/ /\ job[p].result = "success"
          /\ job' = [job EXCEPT ![p].pc = "releasing"]
          /\ UNCHANGED <<snap, journal>>
    /\ UNCHANGED <<live, nextId, flock>>

-----------------------------------------------------------------------------
\* A process dies anywhere: the kernel frees its flock, the files stay.
Crash(p) ==
    /\ job[p].pc # "idle"
    /\ flock' = IF flock = p THEN NoProc ELSE flock
    /\ job' = [job EXCEPT ![p] = Idle]
    /\ UNCHANGED <<live, snap, nextId, journal>>

Collect(p) == Create(p) \/ ListForGc(p) \/ Purge(p) \/ CreateDone(p) \/ GcDone(p)
Locking(p) == \/ \E s \in Id : PlanRestore(p, s)
              \/ Acquire(p) \/ LockRefused(p) \/ WriteJournal(p) \/ Unlock(p) \/ ClearJournal(p)
              \/ Refuse(p) \/ TakePreChange(p)
Restore(p) == \/ StartWriting(p) \/ WriteFails(p) \/ Reconverged(p) \/ ReconvergeFails(p)
              \/ \E f \in File : WriteFile(p, f) \/ RollBackFile(p, f)
              \/ RolledBack(p) \/ RollBackFails(p)
Reset(p)   == \/ StartApply(p) \/ Applied(p) \/ ApplyFails(p)
              \/ \E f \in File : ApplyFile(p, f)
              \/ RecordApplied(p) \/ RecordFails(p) \/ Complete(p)

Next == \E p \in Proc : Collect(p) \/ Locking(p) \/ Restore(p) \/ Reset(p) \/ Crash(p)

Spec == Init /\ [][Next]_vars

-----------------------------------------------------------------------------
(***************************************************************************)
(* Properties.                                                             *)
(***************************************************************************)

\* Every variable keeps its type, and there is no journal without an owner:
\* nobody writes phases into a journal another process has removed.
TypeOK ==
    /\ live \in Files
    /\ snap \in [Id -> Manifest]
    /\ nextId \in 1..(MaxId + 1)
    /\ flock \in Proc \union {NoProc}
    /\ journal \in [owner : Proc \union {NoProc}, phase : Phase, pre : Id \union {NoSnapshot}]
    /\ job \in [Proc -> Job]
    /\ journal.owner = NoProc => journal = NoJournal

\* The files the operation of p may have changed.
Touched(p) == IF job[p].kind = "restore" THEN job[p].plan ELSE DOMAIN Playbook

\* What a rollback needs is there: while a transaction runs, its pre-change
\* snapshot exists, however many GC passes of other processes run meanwhile, and
\* agrees with the host on every file the transaction does not touch; and the
\* snapshot that a journal in mid-operation names outlives a crash of its owner
\* ("pre-change snapshot preserved for manual recovery", lock.py).
PreChangeKept ==
    /\ \A p \in Proc : flock = p /\ job[p].pre # NoSnapshot =>
          /\ snap[job[p].pre].type = "ephemeral"
          /\ \A f \in File \ Touched(p) : live[f] = snap[job[p].pre].files[f]
    /\ journal.phase \in {"executing", "validating", "rolling_back"} =>
          snap[journal.pre].type = "ephemeral"

\* An operation that reports a rollback has put back every file it changed that
\* existed before, the ones it deleted included (_restore_rollback,
\* _auto_rollback).  Files it created stay: the code never deletes in a rollback.
RollbackRestores ==
    \A p \in Proc : job[p].pc = "releasing" /\ job[p].result = "rolled_back" =>
        \A f \in File : Captured(job[p].pre, f) => live[f] = snap[job[p].pre].files[f]

\* A restore that reports success has made every file of its change set what
\* the source says, deletions included, and no other file; the exception is a
\* source that another process purged (execute_restore_snapshot).
RestoreWrites ==
    \A p \in Proc :
        (job[p].kind = "restore" /\ job[p].pc = "releasing" /\ job[p].result = "success") =>
            /\ \A f \in job[p].plan : Exists(job[p].target) =>
                                          live[f] = snap[job[p].target].files[f]
            /\ \A f \in File \ job[p].plan : live[f] = snap[job[p].pre].files[f]

\* Whatever purges the source of a restore that holds the lock, it is not the
\* restore's own GC pass nor a locked one, but an unlocked `snapshot create`
\* (gc_protect_ids, the lock of `gc run`).
SourceSpared ==
    [][\A p \in Proc :
          (job[p].kind = "restore" /\ flock = p /\ Exists(job[p].target)
             /\ snap'[job[p].target].type = "none") =>
              \E q \in Proc : job[q].kind = "create" /\ job[p].target \in job[q].doomed]_vars

\* A running transaction finds its own journal on disk or none.
OwnJournal(p) ==
    flock = p /\ job[p].pc # "locked" => journal.owner \in {p, NoProc}

\* Past its start a transaction never has another one's journal on disk, neither
\* a crashed one's nor a running one's: a recovery would blame the wrong
\* operation and offer the wrong snapshot (acquire, update_journal, release).
JournalOwn == \A p \in Proc : OwnJournal(p)

-----------------------------------------------------------------------------
(***************************************************************************)
(* The inductive invariant behind them.                                    *)
(***************************************************************************)

LockedPC == {"locked", "capturing", "listing", "purging", "applying", "validating",
             "writing", "rollingBack", "releasing"}

\* Where each kind of operation can be, and from when on it has its snapshot.
Staged(p) ==
    /\ job[p].pc = "idle" => job[p] = Idle
    /\ job[p].pc \in {"planned", "writing"} => job[p].kind = "restore"
    /\ job[p].pc \in {"applying", "validating"} => job[p].kind = "reset"
    /\ job[p].pc \in {"capturing", "rollingBack"} => job[p].kind \in {"restore", "reset"}
    /\ job[p].kind = "create" => job[p].pc \in {"listing", "purging"}
    /\ job[p].kind = "none" => job[p].pc = "idle"
    /\ job[p].kind = "restore" => job[p].target # NoSnapshot
    /\ job[p].pc \in {"planned", "locked", "capturing"} => job[p].pre = NoSnapshot
    /\ job[p].kind \in {"restore", "reset"} /\
       job[p].pc \in {"listing", "purging", "applying", "validating", "writing", "rollingBack"} =>
          job[p].pre # NoSnapshot
    /\ job[p].kind = "restore" /\ job[p].pc = "releasing" /\ job[p].result = "success" =>
          job[p].pre # NoSnapshot
    /\ job[p].result = "rolled_back" => job[p].pre # NoSnapshot

\* The flock is held by exactly the process that is inside its transaction.
LockHeld(p) ==
    flock = p <=> job[p].kind \in {"restore", "reset", "gc"} /\ job[p].pc \in LockedPC

\* The process knows taken snapshots only, its pre-change snapshot is there, and
\* no GC pass is after an ephemeral snapshot or its own restore's source.
References(p) ==
    /\ job[p].pre < nextId /\ job[p].target < nextId
    /\ job[p].pre # NoSnapshot => snap[job[p].pre].type = "ephemeral"
    /\ \A s \in job[p].doomed : s < nextId /\ snap[s].type # "ephemeral"
    /\ job[p].kind = "restore" => job[p].target \notin job[p].doomed

\* What the transaction does not touch is as its pre-change snapshot says.
Untouched(p) ==
    flock = p /\ job[p].pre # NoSnapshot =>
        \A f \in File \ Touched(p) : live[f] = snap[job[p].pre].files[f]

\* What is left to do lies in the change set, which is split as the source says.
Planned(p) ==
    /\ job[p].pc \notin {"applying", "writing", "rollingBack"} => job[p].todo = {}
    /\ job[p].pc = "applying" => job[p].todo \subseteq DOMAIN Playbook
    /\ job[p].kind = "restore" =>
          /\ job[p].todo \subseteq job[p].plan
          /\ Exists(job[p].target) => \A f \in job[p].plan :
                (f \in job[p].deletes <=> snap[job[p].target].files[f] = Absent)

\* Everything of the change set but what is left to do is done.
Written(p) ==
    /\ job[p].kind = "restore" /\ Exists(job[p].target) /\
       (job[p].pc = "writing" \/ (job[p].pc = "releasing" /\ job[p].result = "success")) =>
          \A f \in job[p].plan \ job[p].todo : live[f] = snap[job[p].target].files[f]
    /\ job[p].pc = "rollingBack" \/ (job[p].pc = "releasing" /\ job[p].result = "rolled_back") =>
          \A f \in File \ job[p].todo :
              Captured(job[p].pre, f) => live[f] = snap[job[p].pre].files[f]

Consistent(p) == /\ Staged(p) /\ LockHeld(p) /\ References(p)
                 /\ Untouched(p) /\ Planned(p) /\ Written(p) /\ OwnJournal(p)

\* Ids grow, and the snapshot a journal in mid-operation names stays, after a
\* crash as well.
Recoverable ==
    /\ \A s \in Id : s >= nextId => ~Exists(s)
    /\ journal.pre < nextId
    /\ journal.phase \in {"executing", "validating", "rolling_back"} =>
          journal.pre # NoSnapshot /\ snap[journal.pre].type = "ephemeral"

\* All of them together are inductive: what a rollback needs is there because no
\* GC list names an ephemeral snapshot and nobody without the flock writes files.
IInv == TypeOK /\ Recoverable /\ \A p \in Proc : Consistent(p)
=============================================================================
