---------------------------- MODULE ConfigRollback ----------------------------
(***************************************************************************)
(* Restoring a configuration snapshot while other tasks run, and adopting  *)
(* it as desired state.  A task that changes one desired row changes the   *)
(* managed file that renders it, and leaves a snapshot of the files; its   *)
(* end captures the desired rows of that moment as the snapshot's payload. *)
(* A config.rollback writes the files of a snapshot back and, when asked   *)
(* to adopt, writes its payload over the desired rows.  It leases the      *)
(* config history and no row, so it runs beside the others.                *)
(*   desired, rev   the desired rows and their revisions; 0 is no row      *)
(*   file    what the managed files hold of each row                       *)
(*   task    the tasks that change one row                                 *)
(*   roll    the config.rollback: its plan and its run                     *)
(*   snap    the files of each snapshot; store is the ones not collected   *)
(*   payload the captured desired rows of each snapshot                    *)
(*   shown   the observed ConfigSnapshot rows                              *)
(*   odd     history: why desired rows and files may have parted           *)
(*   drift   history: rows whose file only was restored                    *)
(*   mixed   history: snapshots of tasks that did not run alone            *)
(***************************************************************************)
EXTENDS Integers

CONSTANTS
    Task, Value, None,
    Share, Iface, \* rows of the primary kind of a domain
    Aux,          \* rows of the other kinds of the shares' domain: export groups, NFS profiles
    Old,          \* the snapshot of a task of the past
    Past,         \* the rows it may have captured
    Present,      \* the rows there may be now
    MaxRollbacks, \* bound: rollbacks that are applied
    MaxFaults     \* bound: failures of stages, snapshots and restores, collected snapshots

Row  == Share \cup Iface \cup Aux
Rows == [Row -> Value \cup {None}]
Snap == Task \cup {Old}

ASSUME OldIsPast == Old \notin Task

ASSUME RollbackBounds ==
    {MaxRollbacks, MaxFaults} \subseteq Nat /\ Past \subseteq Rows /\ Present \subseteq Rows

VARIABLES desired, rev, file, task, roll, snap, store, payload, shown,
          odd, drift, mixed, faults
vars == <<desired, rev, file, task, roll, snap, store, payload, shown,
          odd, drift, mixed, faults>>

history == <<odd, drift, mixed>>
snaps   == <<snap, store, payload, shown>>

Fault == faults < MaxFaults /\ faults' = faults + 1

FileOf(r) ==
    CASE r \in Share -> "etc_exports"
      [] r \in Aux   -> "nfs_conf"
      [] r \in Iface -> "netplan"

\* The files in which two states of the rows differ.
Differ(f, g) == {FileOf(r) : r \in {q \in Row : f[q] # g[q]}}

\* Only netplan may not be there at all: the first network task makes it.
Missing(f) == IF \A r \in Iface : f[r] = None THEN {"netplan"} ELSE {}

-----------------------------------------------------------------------------
(***************************************************************************)
(* Desired rows.  A revision counts the writes since the row was created.  *)
(***************************************************************************)
Write(change) ==
    /\ desired' = [r \in Row |-> IF r \in DOMAIN change THEN change[r] ELSE desired[r]]
    /\ rev' = [r \in Row |-> IF r \notin DOMAIN change THEN rev[r]
                             ELSE IF change[r] = None THEN 0 ELSE rev[r] + 1]

One(r, v) == [q \in {r} |-> v]
NoRows    == [q \in {} |-> None]

Before(change) == [r \in DOMAIN change |-> desired[r]]

\* What a plan of the rollback does not know of.
Unplanned(change) ==
    LET rows == IF roll.st = "planned" THEN DOMAIN change \cap roll.decides ELSE {}
    IN [roll EXCEPT !.since = @ \cup rows, !.gone = @ \cup {r \in rows : change[r] = None}]

-----------------------------------------------------------------------------
(***************************************************************************)
(* Tasks that change one row.                                              *)
(***************************************************************************)
Live    == {t \in Task : task[t].st \notin {"new", "done"}}
Idle(s) == [st |-> s, row |-> None, val |-> None, prior |-> None, before |-> None]
Rolling == roll.st \in {"applied", "writing", "restored", "failing"}

\* Shares are created, changed and deleted; the other rows only change.
Apply(t, r, v) ==
    /\ task[t].st = "new"
    /\ \A u \in Live : task[u].row # r
    /\ v # desired[r] /\ (v = None => r \in Share)
    /\ Write(One(r, v))
    /\ task' = [task EXCEPT ![t] = [st |-> "applied", row |-> r, val |-> v, prior |-> desired[r],
                                    before |-> None]]
    /\ roll' = Unplanned(One(r, v))
    /\ odd' = IF Rolling THEN odd \cup {"overlap"} ELSE odd
    /\ mixed' = IF Live # {} \/ Rolling \/ drift # {} THEN mixed \cup Live \cup {t} ELSE mixed
    /\ UNCHANGED <<file, snaps, drift, faults>>

Stage(t) ==
    /\ task[t].st = "applied"
    /\ file' = [file EXCEPT ![task[t].row] = task[t].val]
    /\ task' = [task EXCEPT ![t].st = "changed", ![t].before = file[task[t].row]]
    /\ UNCHANGED <<desired, rev, roll, snaps, history, faults>>

StageFails(t) ==
    /\ task[t].st = "applied" /\ Fault
    /\ task' = [task EXCEPT ![t].st = "failing"]
    /\ UNCHANGED <<desired, rev, file, roll, snaps, history>>

\* A later stage fails: the executor puts back what it saw.
RollBack(t) ==
    /\ task[t].st = "changed" /\ Fault
    /\ file' = [file EXCEPT ![task[t].row] = task[t].before]
    /\ task' = [task EXCEPT ![t].st = "failing"]
    /\ UNCHANGED <<desired, rev, roll, snaps, history>>

SnapshotAfter(t) ==
    /\ task[t].st = "changed"
    /\ snap' = [snap EXCEPT ![t] = file]
    /\ store' = store \cup {t}
    /\ task' = [task EXCEPT ![t].st = "snapped"]
    /\ UNCHANGED <<desired, rev, file, roll, payload, shown, history, faults>>

\* The run ends in requires_manual_recovery without a rollback.
SnapshotFails(t) ==
    /\ task[t].st = "changed" /\ Fault
    /\ task' = [task EXCEPT ![t].st = "failing"]
    /\ odd' = odd \cup {"manual"}
    /\ UNCHANGED <<desired, rev, file, roll, snaps, drift, mixed>>

\* captureSnapshotDesired: every desired row, whoever wrote it.
Capture(t) == desired

\* The terminal event: capture and release are one transaction.
Succeed(t) ==
    /\ task[t].st = "snapped"
    /\ payload' = [payload EXCEPT ![t] = Capture(t)]
    /\ task' = [task EXCEPT ![t] = Idle("done")]
    /\ drift' = drift \ {task[t].row}
    /\ UNCHANGED <<desired, rev, file, roll, snap, store, shown, odd, mixed, faults>>

Fail(t) ==
    /\ task[t].st = "failing"
    /\ LET undo == One(task[t].row, task[t].prior)
       IN Write(undo) /\ roll' = Unplanned(undo)
    /\ task' = [task EXCEPT ![t] = Idle("done")]
    /\ UNCHANGED <<file, snaps, history, faults>>

-----------------------------------------------------------------------------
(***************************************************************************)
(* Snapshots are observed, and collected.                                  *)
(***************************************************************************)
\* A sweep pushes the rows; gcSnapshotDesired prunes the payloads without one.
ObserveSnapshots ==
    /\ shown # store
    /\ shown' = store
    /\ payload' = [s \in Snap |-> IF s \in store THEN payload[s] ELSE None]
    /\ UNCHANGED <<desired, rev, file, task, roll, snap, store, history, faults>>

Collect(s) ==
    /\ s \in store /\ Fault
    /\ store' = store \ {s}
    /\ UNCHANGED <<desired, rev, file, task, roll, snap, payload, shown, history>>

-----------------------------------------------------------------------------
(***************************************************************************)
(* The plan of a rollback.                                                 *)
(***************************************************************************)
\* Before the next rollback is planned, n of them over.
NoRoll(n) ==
    [st |-> "new", n |-> n, to |-> Old, decides |-> {}, change |-> NoRows, pins |-> NoRows,
     prior |-> NoRows, before |-> None, since |-> {}, gone |-> {}]

\* A domain is its primary rows and those that go with them.
Domains == {[primary |-> Share, kinds |-> Share \cup Aux],
            [primary |-> Iface, kinds |-> Iface]}

\* The payload has a primary row of the domain.
Captured(s, d) == \E r \in d.primary : payload[s][r] # None

\* It has none, and the observed row says that the domain's file was not there.
Tombstoned(s, d) ==
    ~Captured(s, d) /\ s \in shown /\ \E r \in d.primary : FileOf(r) \in Missing(snap[s])

\* The rows an adoption of s decides: those of a captured domain, the primary ones of a
\* tombstoned domain.
Decides(s) == UNION ({d.kinds : d \in {e \in Domains : Captured(s, e)}}
                       \cup {d.primary : d \in {e \in Domains : Tombstoned(s, e)}})

\* Mutant: rows the snapshot does not know stay desired.
Adopted_NoOrphans(s) == {r \in Decides(s) : payload[s][r] # None}

\* The rows it puts or deletes: those there were then or are now.
Adopted(s) == {r \in Decides(s) : payload[s][r] # None \/ desired[r] # None}

AdoptOverlay(s) == [r \in Adopted(s) |-> payload[s][r]]

\* Mutant: a row that is to be created is not pinned.
Pins_Existing(change) == [r \in {q \in DOMAIN change : desired[q] # None} |-> rev[r]]

Pins(change) == [r \in DOMAIN change |-> rev[r]]

\* A missing row or payload is a blocker, which nobody looks at again at apply.
Plan(s, adopt) ==
    /\ roll.st = "new" /\ roll.n < MaxRollbacks
    /\ roll' = IF adopt /\ payload[s] # None
               THEN LET change == AdoptOverlay(s)
                    IN [NoRoll(roll.n) EXCEPT !.st = "planned", !.to = s, !.decides = Decides(s),
                                              !.change = change, !.pins = Pins(change)]
               ELSE [NoRoll(roll.n) EXCEPT !.st = "planned", !.to = s]
    /\ UNCHANGED <<desired, rev, file, task, snaps, history, faults>>

Fresh == \A r \in DOMAIN roll.pins : rev[r] = roll.pins[r]

\* A stale plan is refused, and made again.
Refuse ==
    /\ roll.st = "planned" /\ ~Fresh
    /\ roll' = NoRoll(roll.n)
    /\ UNCHANGED <<desired, rev, file, task, snaps, history, faults>>

\* Rows the plan would have deleted, had they been there: they carry no pin.
Late == {r \in roll.since \ DOMAIN roll.change : desired[r] # None}

\* The second pin of the code, on the observed snapshot (engine.ts:427-436), can
\* only refuse more and is left out.
ApplyRollback ==
    /\ roll.st = "planned" /\ Fresh
    /\ Write(roll.change)
    /\ roll' = [roll EXCEPT !.st = "applied", !.pins = NoRows, !.prior = Before(roll.change),
                            !.since = {}, !.gone = {}]
    /\ odd' = odd \cup (IF Live # {} THEN {"overlap"} ELSE {})
                  \cup (IF roll.decides # {} /\ roll.to \in mixed THEN {"mixed"} ELSE {})
                  \cup (IF Late # {} THEN {"late"} ELSE {})
    /\ mixed' = mixed \cup Live
    /\ UNCHANGED <<file, task, snaps, drift, faults>>

-----------------------------------------------------------------------------
(***************************************************************************)
(* The run of a rollback: one stage, the runner's restore.                 *)
(***************************************************************************)
Restore ==
    /\ roll.st = "applied" /\ roll.to \in store
    /\ file' = snap[roll.to]
    /\ roll' = [roll EXCEPT !.st = "writing", !.before = file]
    /\ UNCHANGED <<desired, rev, task, snaps, history, faults>>

RestoreMissing ==
    /\ roll.st = "applied" /\ roll.to \notin store
    /\ roll' = [roll EXCEPT !.st = "failing"]
    /\ UNCHANGED <<desired, rev, file, task, snaps, history, faults>>

\* An exception between two files ends the restore as it is.
RestoreBreaks ==
    /\ roll.st = "applied" /\ roll.to \in store /\ Fault
    /\ \E fs \in SUBSET Differ(file, snap[roll.to]) :
          file' = [r \in Row |-> IF FileOf(r) \in fs THEN snap[roll.to][r] ELSE file[r]]
    /\ roll' = [roll EXCEPT !.st = "failing"]
    /\ odd' = odd \cup {"left"}
    /\ UNCHANGED <<desired, rev, task, snaps, drift, mixed>>

RestoreDone ==
    /\ roll.st = "writing"
    /\ roll' = [roll EXCEPT !.st = "restored"]
    /\ UNCHANGED <<desired, rev, file, task, snaps, history, faults>>

\* The bytes of before are written back; a file that was not there stays.
RestoreUndone ==
    /\ roll.st = "writing" /\ Fault
    /\ LET undone == Differ(roll.before, snap[roll.to]) \ Missing(roll.before)
       IN /\ file' = [r \in Row |-> IF FileOf(r) \in undone THEN roll.before[r] ELSE file[r]]
          /\ odd' = IF Differ(roll.before, snap[roll.to]) \subseteq undone THEN odd
                    ELSE odd \cup {"left"}
    /\ roll' = [roll EXCEPT !.st = "failing"]
    /\ UNCHANGED <<desired, rev, task, snaps, drift, mixed>>

\* The snapshot after the stage: the executor has no rollback of its own.
RollbackSnapshotFails ==
    /\ roll.st = "restored" /\ Fault
    /\ roll' = [roll EXCEPT !.st = "failing"]
    /\ odd' = odd \cup {"manual"}
    /\ UNCHANGED <<desired, rev, file, task, snaps, drift, mixed>>

\* Nothing is captured for the snapshot a rollback leaves.
RollbackSucceeds ==
    /\ roll.st = "restored"
    /\ drift' = (drift \cup {r \in Row : FileOf(r) \in Differ(roll.before, snap[roll.to])})
                  \ roll.decides
    /\ roll' = NoRoll(roll.n + 1)
    /\ UNCHANGED <<desired, rev, file, task, snaps, odd, mixed, faults>>

\* revertDesired
RollbackFails ==
    /\ roll.st = "failing"
    /\ Write(roll.prior)
    /\ roll' = NoRoll(roll.n + 1)
    /\ UNCHANGED <<file, task, snaps, history, faults>>

-----------------------------------------------------------------------------
\* A task of the past has left its snapshot and its payload, others have run since.
Init ==
    /\ desired \in Present /\ file = desired
    /\ rev = [r \in Row |-> IF desired[r] = None THEN 0 ELSE 1]
    /\ task = [t \in Task |-> Idle("new")]
    /\ roll = NoRoll(0)
    /\ \E old \in Past :
          /\ snap = [s \in Snap |-> IF s = Old THEN old ELSE None]
          /\ payload = snap
    /\ store = {Old} /\ shown = {Old}
    /\ odd = {} /\ drift = {} /\ mixed = {} /\ faults = 0

Next ==
    \/ \E t \in Task :
          \/ \E r \in Row, v \in Value \cup {None} : Apply(t, r, v)
          \/ Stage(t) \/ StageFails(t) \/ RollBack(t)
          \/ SnapshotAfter(t) \/ SnapshotFails(t) \/ Succeed(t) \/ Fail(t)
    \/ ObserveSnapshots \/ \E s \in Snap : Collect(s)
    \/ \E s \in Snap, adopt \in BOOLEAN : Plan(s, adopt)
    \/ Refuse \/ ApplyRollback
    \/ Restore \/ RestoreMissing \/ RestoreBreaks \/ RestoreDone \/ RestoreUndone
    \/ RollbackSnapshotFails \/ RollbackSucceeds \/ RollbackFails

Spec == Init /\ [][Next]_vars

-----------------------------------------------------------------------------
(***************************************************************************)
(* Properties.                                                             *)
(***************************************************************************)
Content  == Value \cup {None}
TaskType ==
    [st : {"new", "applied", "changed", "snapped", "failing", "done"}, row : Row \cup {None},
     val : Content, prior : Content, before : Content]

\* A function of some of the rows.
OfRows(f, values) == \E rows \in SUBSET Row : f \in [rows -> values]

RollType ==
    [st : {"new", "planned", "applied", "writing", "restored", "failing"}, n : Nat,
     to : Snap, decides : SUBSET Row, since : SUBSET Row, gone : SUBSET Row,
     before : Rows \cup {None}, change : {roll.change}, pins : {roll.pins}, prior : {roll.prior}]

RowsTyped ==
    /\ desired \in Rows /\ rev \in [Row -> Nat]
    /\ \A r \in Row : rev[r] = 0 <=> desired[r] = None

TaskTyped == task \in [Task -> TaskType] /\ \A t \in Live : task[t].row \in Row

RollTyped ==
    /\ roll \in RollType
    /\ OfRows(roll.change, Content) /\ OfRows(roll.prior, Content) /\ OfRows(roll.pins, Nat)
    /\ roll.st \in {"writing", "restored"} => roll.before \in Rows

SnapTyped ==
    /\ snap \in [Snap -> Rows \cup {None}] /\ payload \in [Snap -> Rows \cup {None}]
    /\ store \subseteq Snap /\ shown \subseteq Snap /\ \A s \in store : snap[s] \in Rows

HistoryTyped ==
    /\ odd \subseteq {"overlap", "mixed", "late", "left", "manual"}
    /\ drift \subseteq Row /\ mixed \subseteq Task /\ faults \in 0..MaxFaults

TypeOK == RowsTyped /\ file \in Rows /\ TaskTyped /\ RollTyped /\ SnapTyped /\ HistoryTyped

Rendered == \A r \in Row \ drift : desired[r] = file[r]

\* Between tasks the files hold what is desired, after any failure and any adoption; not
\* the rows whose file only was restored, and not once a rollback ran beside another task,
\* adopted what such a task captured, missed a row made after its plan, or was left halfway.
\* (config-rollback.ts adoptOverlay, snapshot-desired.ts, engine.ts revertDesired)
AdoptedIsRestored == Live = {} /\ ~Rolling /\ odd = {} => Rendered

\* An adoption overwrites no row that was written after its plan, unless the row was
\* deleted in between, which starts its revisions again.  (engine.ts apply, adoptOverlay)
OverwritesOnlyPlanned ==
    [][roll.st = "planned" /\ roll'.st = "applied"
         => DOMAIN roll.change \cap roll.since \subseteq roll.gone]_vars
=============================================================================
