------------------------ MODULE ConfigHistoryProofs -------------------------
(***************************************************************************)
(* The types of ConfigHistory, its inductive invariant and the safety      *)
(* properties that follow from it, for every set of processes, files and   *)
(* contents, every history, playbook and retention.                        *)
(***************************************************************************)
EXTENDS ConfigHistory, FiniteSetTheorems, TLAPS

USE ProcAssumption, AbsentAssumption, MaxIdAssumption DEF Id, NoSnapshot

-----------------------------------------------------------------------------
(***************************************************************************)
(* Types.  Every step of a process gives it a new job record and leaves    *)
(* the others' alone.                                                      *)
(***************************************************************************)

Moves(p) == /\ job' \in [Proc -> Job]
            /\ \A q \in Proc \ {p} : job'[q] = job[q]

\* The parts of the record few actions change.
SameTask(p) == /\ job'[p].kind = job[p].kind
               /\ job'[p].target = job[p].target
               /\ job'[p].pre = job[p].pre
SamePlan(p) == /\ job'[p].plan = job[p].plan
               /\ job'[p].deletes = job[p].deletes

LEMMA MoveTo ==
    ASSUME TypeOK, NEW p \in Proc, NEW j \in Job, job' = [job EXCEPT ![p] = j]
    PROVE  Moves(p) /\ job'[p] = j
    BY DEF TypeOK, Moves

LEMMA JobTypes ==
    ASSUME TypeOK, NEW p \in Proc
    PROVE  job[p] \in Job /\ Idle \in Job
    BY DEF TypeOK, Idle, Job, PC

\* The shared pieces of the actions keep the types of what they write.
LEMMA SnapshotType ==
    ASSUME TypeOK, NEW type \in {"rollback_eligible", "ephemeral"},
           NEW status \in {"pending", "applied"}, TakeSnapshot(type, status)
    PROVE  snap' \in [Id -> Manifest] /\ nextId' \in 1..(MaxId + 1) /\ nextId \in Id
    BY DEF TypeOK, TakeSnapshot, Manifest

LEMMA MarkType ==
    ASSUME TypeOK, NEW s \in Id, NEW status \in {"applied", "rolled_back", "failed"},
           Mark(s, status)
    PROVE  snap' \in [Id -> Manifest]
    <1>1. snap \in [Id -> Manifest]
        BY DEF TypeOK
    <1>2. [snap[s] EXCEPT !.status = status] \in Manifest
        BY <1>1 DEF Manifest
    <1>3. CASE snap' = snap
        BY <1>1, <1>3
    <1>4. CASE snap' = [snap EXCEPT ![s].status = status]
        BY <1>1, <1>2, <1>4
    <1>5. QED BY <1>3, <1>4 DEF Mark

LEMMA JournalType ==
    ASSUME TypeOK, NEW phase \in Phase \ {"none"}, NEW pre \in Id \union {NoSnapshot},
           UpdateJournal(phase, pre)
    PROVE  /\ journal' \in [owner : Proc \union {NoProc}, phase : Phase, pre : Id \union {NoSnapshot}]
           /\ journal'.owner = NoProc => journal' = NoJournal
    BY DEF TypeOK, UpdateJournal, NoJournal

\* A file written keeps the host's type.
LEMMA WriteType ==
    ASSUME TypeOK, NEW f \in File, NEW c \in Content \union {Absent}, live' = [live EXCEPT ![f] = c]
    PROVE  live' \in Files
    BY DEF TypeOK, Files

-----------------------------------------------------------------------------
(***************************************************************************)
(* What a step of one process may do to the others.                        *)
(***************************************************************************)

Grants(p) ==
    /\ live' = live \/ flock = p
    /\ nextId' \in Nat /\ nextId' >= nextId
    /\ \A s \in Id : s < nextId =>
          \/ snap'[s].type = snap[s].type /\ snap'[s].files = snap[s].files
          \/ snap[s].type # "ephemeral" /\ snap'[s].type = "none"
    /\ \/ flock' = flock
       \/ flock = NoProc /\ flock' = p
       \/ flock = p /\ flock' = NoProc
    /\ flock = p \/ journal'.owner \in {journal.owner, NoProc}

\* The others stay consistent under it.
LEMMA OthersConsistent ==
    ASSUME IInv, NEW p \in Proc, Moves(p), Grants(p), NEW q \in Proc, q # p
    PROVE  Consistent(q)'
    <1>1. TypeOK /\ Consistent(q)
        BY DEF IInv
    <1>2. job'[q] = job[q] /\ job[q] \in Job /\ nextId \in Nat
             /\ nextId' \in Nat /\ nextId' >= nextId
        BY <1>1 DEF Moves, TypeOK, Grants
    <1>3. Staged(q)'
        BY <1>1, <1>2 DEF Consistent, Staged
    <1>4. flock' = q <=> flock = q
        BY <1>1 DEF Grants, TypeOK
    <1>5. LockHeld(q)'
        BY <1>1, <1>2, <1>4 DEF Consistent, LockHeld
    <1>6. ASSUME NEW s \in Id, s < nextId, snap[s].type = "ephemeral"
          PROVE  snap'[s].type = "ephemeral" /\ snap'[s].files = snap[s].files
        BY <1>6 DEF Grants
    <1>7. job[q].pre \in Id \union {0} /\ job[q].pre < nextId /\ job[q].target \in Id \union {0}
            /\ job[q].target < nextId /\ job[q].doomed \subseteq Id
        BY <1>1, <1>2 DEF Consistent, References, Job
    <1>8. References(q)'
        <2>1. job[q].pre # 0 => snap'[job[q].pre].type = "ephemeral"
            BY <1>1, <1>6, <1>7 DEF Consistent, References
        <2>2. \A s \in job[q].doomed : s < nextId' /\ snap'[s].type # "ephemeral"
            <3>1. TAKE s \in job[q].doomed
            <3>2. s \in Id /\ s < nextId /\ snap[s].type # "ephemeral"
                BY <1>1, <1>7 DEF Consistent, References
            <3>3. snap'[s].type # "ephemeral"
                BY <3>2 DEF Grants
            <3>4. QED BY <1>2, <3>2, <3>3
        <2>3. job[q].pre < nextId' /\ job[q].target < nextId'
            BY <1>2, <1>7
        <2>4. job[q].kind = "restore" => job[q].target \notin job[q].doomed
            BY <1>1 DEF Consistent, References
        <2>5. QED BY <1>2, <2>1, <2>2, <2>3, <2>4 DEF References
    <1>9. flock = q => live' = live
        BY DEF Grants
    <1>10. job[q].pre # 0 => job[q].pre \in Id /\ snap'[job[q].pre].files = snap[job[q].pre].files
                              /\ snap'[job[q].pre].type = snap[job[q].pre].type
        BY <1>1, <1>6, <1>7 DEF Consistent, References
    <1>11. Untouched(q)'
        BY <1>1, <1>2, <1>4, <1>9, <1>10 DEF Consistent, Untouched, Touched
    <1>12. job[q].kind = "restore" =>
              /\ job[q].target \in Id
              /\ Exists(job[q].target)' => /\ Exists(job[q].target)
                                           /\ snap'[job[q].target].files = snap[job[q].target].files
        BY <1>1, <1>2, <1>7 DEF Consistent, Staged, Exists, Grants
    <1>13. Planned(q)'
        BY <1>1, <1>2, <1>12 DEF Consistent, Planned, Exists
    <1>14. Written(q)'
        <2>1. job[q].pc \in {"writing", "releasing", "rollingBack"} => live' = live
            BY <1>1, <1>2, <1>9 DEF Consistent, LockHeld, LockedPC, Staged, Job
        <2>2. job[q].pc = "rollingBack" \/ job[q].result = "rolled_back" => job[q].pre # 0
            BY <1>1 DEF Consistent, Staged
        <2>3. QED BY <1>1, <1>2, <1>10, <1>12, <2>1, <2>2 DEF Consistent, Written, Exists, Captured
    <1>15. OwnJournal(q)'
        BY <1>1, <1>2, <1>4 DEF Consistent, OwnJournal, Grants, TypeOK
    <1>16. QED BY <1>3, <1>5, <1>8, <1>11, <1>13, <1>14, <1>15 DEF Consistent

\* What a step of p has to establish for the invariant.
LEMMA StepKeeps ==
    ASSUME IInv, NEW p \in Proc, TypeOK', Moves(p), Grants(p), Recoverable', Consistent(p)'
    PROVE  IInv'
    <1>1. \A q \in Proc : Consistent(q)'
        BY OthersConsistent
    <1>2. QED BY <1>1 DEF IInv

\* A step that changes nothing but the job of p.
LEMMA JobOnly ==
    ASSUME IInv, NEW p \in Proc, Moves(p), UNCHANGED <<live, snap, nextId, flock, journal>>,
           Consistent(p)'
    PROVE  IInv'
    <1>1. TypeOK'
        BY DEF IInv, TypeOK, Moves
    <1>2. Recoverable'
        BY DEF IInv, Recoverable, Exists
    <1>3. Grants(p)
        BY DEF Grants, IInv, TypeOK
    <1>4. QED BY <1>1, <1>2, <1>3, StepKeeps

\* A list of purgeable snapshots: eligible ones, so none is ephemeral.
LEMMA ListForGcKeeps ==
    ASSUME IInv, NEW p \in Proc, ListForGc(p)
    PROVE  IInv'
    <1> DEFINE j == [job[p] EXCEPT !.pc = "purging", !.doomed = Doomed(p)]
    <1>1. TypeOK /\ Consistent(p) /\ job[p] \in Job
        BY JobTypes DEF IInv
    <1>2. job[p].pc = "listing" /\ UNCHANGED <<live, snap, nextId, flock, journal>>
        BY DEF ListForGc, Purged
    <1>3. j \in Job
        BY <1>1 DEF Job, PC, Doomed, Eligible
    <1>4. job' = [job EXCEPT ![p] = j]
        BY <1>1 DEF ListForGc, TypeOK
    <1>5. Moves(p) /\ job'[p] = j
        BY <1>1, <1>3, <1>4, MoveTo
    <1>6. /\ SameTask(p) /\ SamePlan(p)
          /\ job'[p].pc = "purging" /\ job'[p].todo = job[p].todo
          /\ job'[p].result = job[p].result /\ job'[p].doomed = Doomed(p)
        BY <1>1, <1>5 DEF Job, SameTask, SamePlan
    <1>7. \A s \in Doomed(p) : s < nextId /\ snap[s].type # "ephemeral"
        BY <1>1 DEF IInv, Recoverable, Doomed, Eligible, Exists, TypeOK
    <1>8. job[p].kind = "restore" => job[p].target \notin Doomed(p)
        BY DEF Doomed, InProgress
    <1>9. Staged(p)' /\ LockHeld(p)' /\ OwnJournal(p)'
        BY <1>1, <1>2, <1>6 DEF Consistent, Staged, LockHeld, LockedPC, OwnJournal, SameTask
    <1>10. References(p)' /\ Untouched(p)'
        BY <1>1, <1>2, <1>7, <1>8, <1>6 DEF Consistent, References, Untouched, Touched, SameTask, SamePlan
    <1>11. Planned(p)'
        BY <1>1, <1>2, <1>6 DEF Consistent, Planned, SameTask, SamePlan, Exists
    <1>12. Written(p)'
        BY <1>1, <1>2, <1>6 DEF Consistent, Written, Untouched, Touched, SameTask, SamePlan, Exists, Captured
    <1>13. QED BY <1>2, <1>5, <1>9, <1>10, <1>11, <1>12, JobOnly DEF Consistent

LEMMA GcDoneKeeps ==
    ASSUME IInv, NEW p \in Proc, GcDone(p)
    PROVE  IInv'
    <1> DEFINE j == [job[p] EXCEPT !.pc = "releasing", !.result = "success"]
    <1>1. TypeOK /\ Consistent(p) /\ job[p] \in Job
        BY JobTypes DEF IInv
    <1>2. job[p].pc = "purging" /\ job[p].kind = "gc" /\ UNCHANGED <<live, snap, nextId, flock, journal>>
        BY DEF GcDone, Purged
    <1>3. j \in Job
        BY <1>1 DEF Job, PC
    <1>4. job' = [job EXCEPT ![p] = j]
        BY <1>1 DEF GcDone, TypeOK
    <1>5. Moves(p) /\ job'[p] = j
        BY <1>1, <1>3, <1>4, MoveTo
    <1>6. /\ SameTask(p) /\ SamePlan(p)
          /\ job'[p].pc = "releasing" /\ job'[p].todo = job[p].todo
          /\ job'[p].result = "success" /\ job'[p].doomed = job[p].doomed
        BY <1>1, <1>5 DEF Job, SameTask, SamePlan
    <1>7. Staged(p)' /\ LockHeld(p)' /\ OwnJournal(p)'
        BY <1>1, <1>2, <1>6 DEF Consistent, Staged, LockHeld, LockedPC, OwnJournal, SameTask
    <1>8. References(p)' /\ Untouched(p)'
        BY <1>1, <1>2, <1>6 DEF Consistent, References, Untouched, Touched, SameTask, SamePlan
    <1>9. Planned(p)'
        BY <1>1, <1>2, <1>6 DEF Consistent, Planned, SameTask, SamePlan, Exists
    <1>10. Written(p)'
        BY <1>1, <1>2, <1>6 DEF Consistent, Written, Untouched, Touched, SameTask, SamePlan, Exists, Captured
    <1>11. QED BY <1>2, <1>5, <1>7, <1>8, <1>9, <1>10, JobOnly DEF Consistent

LEMMA RefuseKeeps ==
    ASSUME IInv, NEW p \in Proc, Refuse(p)
    PROVE  IInv'
    <1> DEFINE j == [job[p] EXCEPT !.pc = "releasing", !.result = "refused"]
    <1>1. TypeOK /\ Consistent(p) /\ job[p] \in Job
        BY JobTypes DEF IInv
    <1>2. job[p].pc = "capturing" /\ UNCHANGED <<live, snap, nextId, flock, journal>>
        BY DEF Refuse, Purged
    <1>3. j \in Job
        BY <1>1 DEF Job, PC
    <1>4. job' = [job EXCEPT ![p] = j]
        BY <1>1 DEF Refuse, TypeOK
    <1>5. Moves(p) /\ job'[p] = j
        BY <1>1, <1>3, <1>4, MoveTo
    <1>6. /\ SameTask(p) /\ SamePlan(p)
          /\ job'[p].pc = "releasing" /\ job'[p].todo = job[p].todo
          /\ job'[p].result = "refused" /\ job'[p].doomed = job[p].doomed
        BY <1>1, <1>5 DEF Job, SameTask, SamePlan
    <1>7. Staged(p)' /\ LockHeld(p)' /\ OwnJournal(p)'
        BY <1>1, <1>2, <1>6 DEF Consistent, Staged, LockHeld, LockedPC, OwnJournal, SameTask
    <1>8. References(p)' /\ Untouched(p)'
        BY <1>1, <1>2, <1>6 DEF Consistent, References, Untouched, Touched, SameTask, SamePlan
    <1>9. Planned(p)'
        BY <1>1, <1>2, <1>6 DEF Consistent, Planned, SameTask, SamePlan, Exists
    <1>10. Written(p)'
        BY <1>1, <1>2, <1>6 DEF Consistent, Written, Untouched, Touched, SameTask, SamePlan, Exists, Captured
    <1>11. QED BY <1>2, <1>5, <1>7, <1>8, <1>9, <1>10, JobOnly DEF Consistent

LEMMA StartWritingKeeps ==
    ASSUME IInv, NEW p \in Proc, StartWriting(p)
    PROVE  IInv'
    <1> DEFINE j == [job[p] EXCEPT !.pc = "writing", !.todo = job[p].plan]
    <1>1. TypeOK /\ Consistent(p) /\ job[p] \in Job
        BY JobTypes DEF IInv
    <1>2. job[p].pc = "purging" /\ job[p].kind = "restore" /\ UNCHANGED <<live, snap, nextId, flock, journal>>
        BY DEF StartWriting, Purged
    <1>3. j \in Job
        BY <1>1 DEF Job, PC
    <1>4. job' = [job EXCEPT ![p] = j]
        BY <1>1 DEF StartWriting, TypeOK
    <1>5. Moves(p) /\ job'[p] = j
        BY <1>1, <1>3, <1>4, MoveTo
    <1>6. /\ SameTask(p) /\ SamePlan(p)
          /\ job'[p].pc = "writing" /\ job'[p].todo = job[p].plan
          /\ job'[p].result = job[p].result /\ job'[p].doomed = job[p].doomed
        BY <1>1, <1>5 DEF Job, SameTask, SamePlan
    <1>7. Staged(p)' /\ LockHeld(p)' /\ OwnJournal(p)'
        BY <1>1, <1>2, <1>6 DEF Consistent, Staged, LockHeld, LockedPC, OwnJournal, SameTask
    <1>8. References(p)' /\ Untouched(p)'
        BY <1>1, <1>2, <1>6 DEF Consistent, References, Untouched, Touched, SameTask, SamePlan
    <1>9. Planned(p)'
        BY <1>1, <1>2, <1>6 DEF Consistent, Planned, SameTask, SamePlan, Exists
    <1>10. Written(p)'
        BY <1>1, <1>2, <1>6 DEF Consistent, Written, Untouched, Touched, SameTask, SamePlan, Exists, Captured
    <1>11. QED BY <1>2, <1>5, <1>7, <1>8, <1>9, <1>10, JobOnly DEF Consistent

\* What the restore did not touch is the pre-change state already.
LEMMA ReconvergeFailsKeeps ==
    ASSUME IInv, NEW p \in Proc, ReconvergeFails(p)
    PROVE  IInv'
    <1> DEFINE j == [job[p] EXCEPT !.pc = "rollingBack", !.todo = RestoreRollbackSet(p)]
    <1>1. TypeOK /\ Consistent(p) /\ job[p] \in Job
        BY JobTypes DEF IInv
    <1>2. job[p].pc = "writing" /\ job[p].todo = {} /\ UNCHANGED <<live, snap, nextId, flock, journal>>
        BY DEF ReconvergeFails, Purged
    <1>3. j \in Job
        BY <1>1 DEF Job, PC, RestoreRollbackSet
    <1>4. job' = [job EXCEPT ![p] = j]
        BY <1>1 DEF ReconvergeFails, TypeOK
    <1>5. Moves(p) /\ job'[p] = j
        BY <1>1, <1>3, <1>4, MoveTo
    <1>6. /\ SameTask(p) /\ SamePlan(p)
          /\ job'[p].pc = "rollingBack" /\ job'[p].todo = job[p].plan
          /\ job'[p].result = job[p].result /\ job'[p].doomed = job[p].doomed
        BY <1>1, <1>5 DEF Job, SameTask, SamePlan, RestoreRollbackSet
    <1>7. flock = p /\ job[p].kind = "restore" /\ job[p].pre # 0
        BY <1>1, <1>2 DEF Consistent, Staged, LockHeld, LockedPC
    <1>8. Staged(p)' /\ LockHeld(p)' /\ OwnJournal(p)'
        BY <1>1, <1>2, <1>6 DEF Consistent, Staged, LockHeld, LockedPC, OwnJournal, SameTask
    <1>9. References(p)' /\ Untouched(p)'
        BY <1>1, <1>2, <1>6 DEF Consistent, References, Untouched, Touched, SameTask, SamePlan
    <1>10. Planned(p)'
        BY <1>1, <1>2, <1>6 DEF Consistent, Planned, SameTask, SamePlan, Exists
    <1>11. Written(p)'
        BY <1>1, <1>2, <1>7, <1>6 DEF Consistent, Written, Untouched, Touched, SameTask, SamePlan, Exists, Captured
    <1>12. QED BY <1>2, <1>5, <1>8, <1>9, <1>10, <1>11, JobOnly DEF Consistent

LEMMA RecordFailsKeeps ==
    ASSUME IInv, NEW p \in Proc, RecordFails(p)
    PROVE  IInv'
    <1> DEFINE j == [job[p] EXCEPT !.pc = "releasing", !.result = "unrecorded"]
    <1>1. TypeOK /\ Consistent(p) /\ job[p] \in Job
        BY JobTypes DEF IInv
    <1>2. job[p].pc = "validating" /\ UNCHANGED <<live, snap, nextId, flock, journal>>
        BY DEF RecordFails, Purged
    <1>3. j \in Job
        BY <1>1 DEF Job, PC
    <1>4. job' = [job EXCEPT ![p] = j]
        BY <1>1 DEF RecordFails, TypeOK
    <1>5. Moves(p) /\ job'[p] = j
        BY <1>1, <1>3, <1>4, MoveTo
    <1>6. /\ SameTask(p) /\ SamePlan(p)
          /\ job'[p].pc = "releasing" /\ job'[p].todo = job[p].todo
          /\ job'[p].result = "unrecorded" /\ job'[p].doomed = job[p].doomed
        BY <1>1, <1>5 DEF Job, SameTask, SamePlan
    <1>7. Staged(p)' /\ LockHeld(p)' /\ OwnJournal(p)'
        BY <1>1, <1>2, <1>6 DEF Consistent, Staged, LockHeld, LockedPC, OwnJournal, SameTask
    <1>8. References(p)' /\ Untouched(p)'
        BY <1>1, <1>2, <1>6 DEF Consistent, References, Untouched, Touched, SameTask, SamePlan
    <1>9. Planned(p)'
        BY <1>1, <1>2, <1>6 DEF Consistent, Planned, SameTask, SamePlan, Exists
    <1>10. Written(p)'
        BY <1>1, <1>2, <1>6 DEF Consistent, Written, Untouched, Touched, SameTask, SamePlan, Exists, Captured
    <1>11. QED BY <1>2, <1>5, <1>7, <1>8, <1>9, <1>10, JobOnly DEF Consistent
-----------------------------------------------------------------------------
(***************************************************************************)
(* Steps that end an operation, or start one.                              *)
(***************************************************************************)

LEMMA IdleConsistent ==
    ASSUME TypeOK', NEW p \in Proc, job'[p] = Idle, flock' # p
    PROVE  Consistent(p)'
    <1>1. nextId' > 0
        BY DEF TypeOK
    <1>2. Staged(p)' /\ LockHeld(p)' /\ References(p)'
        BY <1>1 DEF Staged, LockHeld, References, Idle, LockedPC
    <1>3. Untouched(p)' /\ Planned(p)' /\ Written(p)' /\ OwnJournal(p)'
        BY DEF Untouched, Planned, Written, OwnJournal, Idle
    <1>4. QED BY <1>2, <1>3 DEF Consistent

LEMMA CreateDoneKeeps ==
    ASSUME IInv, NEW p \in Proc, CreateDone(p)
    PROVE  IInv'
    <1>1. Moves(p) /\ job'[p] = Idle
        BY JobTypes, MoveTo DEF CreateDone, IInv
    <1>2. flock # p
        BY DEF CreateDone, Purged, IInv, Consistent, LockHeld
    <1>3. TypeOK'
        BY <1>1 DEF CreateDone, IInv, TypeOK, Moves
    <1>4. QED BY <1>1, <1>2, <1>3, IdleConsistent, JobOnly DEF CreateDone

LEMMA LockRefusedKeeps ==
    ASSUME IInv, NEW p \in Proc, LockRefused(p)
    PROVE  IInv'
    <1>1. Moves(p) /\ job'[p] = Idle
        BY JobTypes, MoveTo DEF LockRefused, IInv
    <1>2. flock # p
        BY DEF LockRefused, IInv, Consistent, LockHeld, LockedPC
    <1>3. TypeOK'
        BY <1>1 DEF LockRefused, IInv, TypeOK, Moves
    <1>4. QED BY <1>1, <1>2, <1>3, IdleConsistent, JobOnly DEF LockRefused

LEMMA ClearJournalKeeps ==
    ASSUME IInv, NEW p \in Proc, ClearJournal(p)
    PROVE  IInv'
    <1>1. Moves(p) /\ job'[p] = Idle
        BY JobTypes, MoveTo DEF ClearJournal, IInv
    <1>2. flock # p
        BY DEF ClearJournal, IInv, Consistent, LockHeld, LockedPC
    <1>3. TypeOK'
        BY <1>1 DEF ClearJournal, IInv, TypeOK, Moves, NoJournal, Phase
    <1>4. Grants(p)
        BY DEF ClearJournal, Grants, IInv, TypeOK, NoJournal
    <1>5. Recoverable'
        BY DEF ClearJournal, IInv, TypeOK, Recoverable, Exists, NoJournal
    <1>6. Consistent(p)'
        BY <1>1, <1>2, <1>3, IdleConsistent DEF ClearJournal
    <1>7. QED BY <1>1, <1>3, <1>4, <1>5, <1>6, StepKeeps

\* A death leaves the files and the journal; only the flock is given back.
LEMMA CrashKeeps ==
    ASSUME IInv, NEW p \in Proc, Crash(p)
    PROVE  IInv'
    <1>1. Moves(p) /\ job'[p] = Idle
        BY JobTypes, MoveTo DEF Crash, IInv
    <1>2. flock' # p
        BY DEF Crash
    <1>3. TypeOK'
        BY <1>1 DEF Crash, IInv, TypeOK, Moves
    <1>4. Grants(p)
        BY DEF Crash, Grants, IInv, TypeOK
    <1>5. Recoverable'
        BY DEF Crash, IInv, TypeOK, Recoverable, Exists
    <1>6. Consistent(p)'
        BY <1>1, <1>2, <1>3, IdleConsistent
    <1>7. QED BY <1>1, <1>3, <1>4, <1>5, <1>6, StepKeeps

\* The change set of a restore is split into writes and deletions as its source
\* says.
LEMMA PlanRestoreKeeps ==
    ASSUME IInv, NEW p \in Proc, NEW s \in Id, PlanRestore(p, s)
    PROVE  IInv'
    <1> DEFINE changed == {f \in File : live[f] # snap[s].files[f]}
               j == [Idle EXCEPT !.kind = "restore", !.pc = "planned", !.target = s, !.plan = changed,
                                 !.deletes = {f \in changed : snap[s].files[f] = Absent}]
    <1>1. TypeOK /\ Consistent(p) /\ Idle \in Job
        BY JobTypes DEF IInv
    <1>2. job[p].pc = "idle" /\ Exists(s) /\ UNCHANGED <<live, snap, nextId, flock, journal>>
        BY DEF PlanRestore
    <1>3. j \in Job
        BY <1>1 DEF Job, PC
    <1>4. job' = [job EXCEPT ![p] = j]
        BY DEF PlanRestore
    <1>5. Moves(p) /\ job'[p] = j
        BY <1>1, <1>3, <1>4, MoveTo
    <1>6. /\ job'[p].kind = "restore" /\ job'[p].pc = "planned" /\ job'[p].target = s
          /\ job'[p].pre = 0 /\ job'[p].doomed = {} /\ job'[p].todo = {} /\ job'[p].result = "none"
          /\ job'[p].plan = changed /\ job'[p].deletes = {f \in changed : snap[s].files[f] = Absent}
        BY <1>5 DEF Idle
    <1>7. s < nextId /\ 0 < nextId
        BY <1>1, <1>2 DEF IInv, Recoverable, TypeOK
    <1>8. flock # p
        BY <1>1, <1>2 DEF Consistent, LockHeld, LockedPC
    <1>9. Staged(p)' /\ LockHeld(p)' /\ OwnJournal(p)'
        BY <1>2, <1>6, <1>8 DEF Staged, LockHeld, LockedPC, OwnJournal
    <1>10. References(p)' /\ Untouched(p)'
        BY <1>2, <1>6, <1>7 DEF References, Untouched
    <1>11. Planned(p)' /\ Written(p)'
        BY <1>2, <1>6 DEF Planned, Written, Exists
    <1>12. QED BY <1>2, <1>5, <1>9, <1>10, <1>11, JobOnly DEF Consistent

-----------------------------------------------------------------------------
(***************************************************************************)
(* The lock and the journal.                                               *)
(***************************************************************************)

\* Whoever gets the flock has no pre-change snapshot yet.
LEMMA AcquireKeeps ==
    ASSUME IInv, NEW p \in Proc, Acquire(p)
    PROVE  IInv'
    <1>1. TypeOK /\ Consistent(p) /\ job[p] \in Job /\ Idle \in Job
        BY JobTypes DEF IInv
    <1>2. flock = NoProc /\ flock' = p /\ UNCHANGED <<live, snap, nextId, journal>>
        BY DEF Acquire
    <1>3. /\ Moves(p)
          /\ job'[p].pc = "locked" /\ job'[p].kind \in {"restore", "reset", "gc"}
          /\ job'[p].pre = 0 /\ job'[p].todo = {} /\ job'[p].result # "rolled_back"
          /\ \/ SameTask(p) /\ SamePlan(p) /\ job'[p].doomed = job[p].doomed
             \/ job'[p].kind # "restore" /\ job'[p].target = 0 /\ job'[p].doomed = {}
        <2>1. CASE job[p].pc = "planned" /\ job' = [job EXCEPT ![p].pc = "locked"]
            <3>1. [job[p] EXCEPT !.pc = "locked"] \in Job
                BY <1>1 DEF Job, PC
            <3>2. job' = [job EXCEPT ![p] = [job[p] EXCEPT !.pc = "locked"]]
                BY <1>1, <2>1 DEF TypeOK
            <3>3. Moves(p) /\ job'[p] = [job[p] EXCEPT !.pc = "locked"]
                BY <1>1, <3>1, <3>2, MoveTo
            <3>4. /\ SameTask(p) /\ SamePlan(p) /\ job'[p].doomed = job[p].doomed
                  /\ job'[p].pc = "locked" /\ job'[p].todo = job[p].todo /\ job'[p].result = job[p].result
                BY <1>1, <3>3 DEF Job, SameTask, SamePlan
            <3>5. QED BY <1>1, <2>1, <3>3, <3>4 DEF Consistent, Staged, Planned, SameTask
        <2>2. ASSUME NEW kind \in {"reset", "gc"},
                     job' = [job EXCEPT ![p] = [Idle EXCEPT !.kind = kind, !.pc = "locked"]]
              PROVE  Moves(p) /\ job'[p] = [Idle EXCEPT !.kind = kind, !.pc = "locked"]
            <3>1. CASE kind = "reset"
                <4>1. [Idle EXCEPT !.kind = "reset", !.pc = "locked"] \in Job
                    BY <1>1 DEF Job, PC, Idle
                <4>2. QED BY <1>1, <2>2, <3>1, <4>1, MoveTo
            <3>2. CASE kind = "gc"
                <4>1. [Idle EXCEPT !.kind = "gc", !.pc = "locked"] \in Job
                    BY <1>1 DEF Job, PC, Idle
                <4>2. QED BY <1>1, <2>2, <3>2, <4>1, MoveTo
            <3>3. QED BY <3>1, <3>2
        <2>3. QED BY <2>1, <2>2 DEF Acquire, Idle
    <1>4. TypeOK'
        BY <1>2, <1>3 DEF IInv, TypeOK, Moves
    <1>5. Grants(p)
        BY <1>1, <1>2 DEF Grants, TypeOK
    <1>6. Recoverable'
        BY <1>2 DEF IInv, Recoverable, Exists
    <1>7. Staged(p)' /\ LockHeld(p)' /\ OwnJournal(p)'
        BY <1>1, <1>2, <1>3 DEF Consistent, Staged, LockHeld, LockedPC, OwnJournal, SameTask
    <1>8. References(p)' /\ Untouched(p)'
        BY <1>1, <1>2, <1>3 DEF Consistent, References, Untouched, SameTask, TypeOK
    <1>9. Planned(p)' /\ Written(p)'
        BY <1>1, <1>2, <1>3 DEF Consistent, Planned, Written, SameTask, SamePlan, Exists
    <1>10. QED BY <1>3, <1>4, <1>5, <1>6, <1>7, <1>8, <1>9, StepKeeps DEF Consistent

LEMMA UnlockKeeps ==
    ASSUME IInv, NEW p \in Proc, Unlock(p)
    PROVE  IInv'
    <1> DEFINE j == [job[p] EXCEPT !.pc = "clearing"]
    <1>1. TypeOK /\ Consistent(p) /\ job[p] \in Job
        BY JobTypes DEF IInv
    <1>2. job[p].pc = "releasing" /\ flock' = NoProc /\ UNCHANGED <<live, snap, nextId, journal>>
        BY DEF Unlock
    <1>3. j \in Job
        BY <1>1 DEF Job, PC
    <1>4. job' = [job EXCEPT ![p] = j]
        BY <1>1 DEF Unlock, TypeOK
    <1>5. Moves(p) /\ job'[p] = j
        BY <1>1, <1>3, <1>4, MoveTo
    <1>6. /\ SameTask(p) /\ SamePlan(p)
          /\ job'[p].pc = "clearing" /\ job'[p].todo = job[p].todo
          /\ job'[p].result = job[p].result /\ job'[p].doomed = job[p].doomed
        BY <1>1, <1>5 DEF Job, SameTask, SamePlan
    <1>7. TypeOK'
        BY <1>2, <1>5 DEF IInv, TypeOK, Moves
    <1>8. flock = p
        BY <1>1, <1>2 DEF Consistent, Staged, LockHeld, LockedPC, Job
    <1>9. Grants(p)
        BY <1>1, <1>2, <1>8 DEF Grants, TypeOK
    <1>10. Recoverable'
        BY <1>2 DEF IInv, Recoverable, Exists
    <1>11. Staged(p)' /\ LockHeld(p)' /\ OwnJournal(p)'
        BY <1>1, <1>2, <1>6 DEF Consistent, Staged, LockHeld, LockedPC, OwnJournal, SameTask
    <1>12. References(p)' /\ Untouched(p)'
        BY <1>1, <1>2, <1>6 DEF Consistent, References, Untouched, SameTask
    <1>13. Planned(p)' /\ Written(p)'
        BY <1>1, <1>2, <1>6 DEF Consistent, Planned, Written, SameTask, SamePlan, Exists
    <1>14. QED BY <1>5, <1>7, <1>9, <1>10, <1>11, <1>12, <1>13, StepKeeps DEF Consistent

LEMMA WriteJournalKeeps ==
    ASSUME IInv, NEW p \in Proc, WriteJournal(p)
    PROVE  IInv'
    <1> DEFINE pc == IF job[p].kind = "gc" THEN "listing" ELSE "capturing"
               j == [job[p] EXCEPT !.pc = pc]
    <1>1. TypeOK /\ Consistent(p) /\ job[p] \in Job
        BY JobTypes DEF IInv
    <1>2. /\ job[p].pc = "locked" /\ UNCHANGED <<live, snap, nextId, flock>>
          /\ journal' = [owner |-> p, phase |-> "preflight", pre |-> 0]
        BY DEF WriteJournal, StartJournal
    <1>3. j \in Job
        BY <1>1 DEF Job, PC
    <1>4. job' = [job EXCEPT ![p] = j]
        BY <1>1 DEF WriteJournal, TypeOK
    <1>5. Moves(p) /\ job'[p] = j
        BY <1>1, <1>3, <1>4, MoveTo
    <1>6. /\ SameTask(p) /\ SamePlan(p)
          /\ job'[p].pc = pc /\ job'[p].todo = job[p].todo
          /\ job'[p].result = job[p].result /\ job'[p].doomed = job[p].doomed
        BY <1>1, <1>5 DEF Job, SameTask, SamePlan
    <1>7. TypeOK'
        BY <1>2, <1>5 DEF IInv, TypeOK, Moves, Phase, NoJournal
    <1>8. flock = p /\ job[p].kind \in {"restore", "reset", "gc"}
        BY <1>1, <1>2 DEF Consistent, Staged, LockHeld, LockedPC, Job
    <1>9. Grants(p)
        BY <1>1, <1>2, <1>8 DEF Grants, TypeOK
    <1>10. Recoverable'
        BY <1>1, <1>2 DEF IInv, Recoverable, Exists, TypeOK
    <1>11. Staged(p)' /\ LockHeld(p)' /\ OwnJournal(p)'
        BY <1>1, <1>2, <1>6, <1>8 DEF Consistent, Staged, LockHeld, LockedPC, OwnJournal, SameTask
    <1>12. References(p)' /\ Untouched(p)'
        BY <1>1, <1>2, <1>6 DEF Consistent, References, Untouched, Touched, SameTask, SamePlan
    <1>13. Planned(p)' /\ Written(p)'
        BY <1>1, <1>2, <1>6 DEF Consistent, Planned, Written, SameTask, SamePlan, Exists
    <1>14. QED BY <1>5, <1>7, <1>9, <1>10, <1>11, <1>12, <1>13, StepKeeps DEF Consistent

\* A phase of p's journal names p's pre-change snapshot, which is there.
LEMMA PhaseKeeps ==
    ASSUME IInv, NEW p \in Proc, NEW phase \in {"executing", "validating", "completed", "rolling_back"},
           flock = p, job[p].pre # 0, UpdateJournal(phase, job[p].pre)
    PROVE  /\ journal' \in [owner : Proc \union {NoProc}, phase : Phase, pre : Id \union {NoSnapshot}]
           /\ journal'.owner = NoProc => journal' = NoJournal
           /\ journal'.owner = journal.owner
           /\ journal'.pre < nextId
           /\ journal'.phase \in {"executing", "validating", "rolling_back"} =>
                 journal'.pre \in Id /\ snap[journal'.pre].type = "ephemeral"
    <1>1. TypeOK /\ Recoverable /\ References(p) /\ job[p] \in Job
        BY JobTypes DEF IInv, Consistent
    <1>2. job[p].pre \in Id \union {NoSnapshot}
        BY <1>1 DEF Job
    <1>3. phase \in Phase \ {"none"}
        BY DEF Phase
    <1>4. CASE journal.owner = NoProc
        BY <1>1, <1>4 DEF TypeOK, Recoverable, UpdateJournal
    <1>5. CASE journal.owner # NoProc
        <2>1. journal' = [journal EXCEPT !.phase = phase, !.pre = job[p].pre]
            BY <1>5 DEF UpdateJournal
        <2>2. journal' = [owner |-> journal.owner, phase |-> phase, pre |-> job[p].pre]
            BY <1>1, <2>1 DEF TypeOK
        <2>3. QED BY <1>1, <1>2, <1>3, <1>5, <2>2 DEF TypeOK, References
    <1>6. QED BY <1>4, <1>5

LEMMA StartApplyKeeps ==
    ASSUME IInv, NEW p \in Proc, StartApply(p)
    PROVE  IInv'
    <1> DEFINE j == [job[p] EXCEPT !.pc = "applying", !.todo = DOMAIN Playbook]
    <1>1. TypeOK /\ Consistent(p) /\ job[p] \in Job
        BY JobTypes DEF IInv
    <1>2. /\ job[p].pc = "purging" /\ job[p].kind = "reset" /\ UNCHANGED <<live, snap, nextId, flock>>
          /\ UpdateJournal("executing", job[p].pre)
        BY DEF StartApply, Purged
    <1>3. j \in Job
        BY <1>1, PlaybookAssumption DEF Job, PC
    <1>4. job' = [job EXCEPT ![p] = j]
        BY <1>1 DEF StartApply, TypeOK
    <1>5. Moves(p) /\ job'[p] = j
        BY <1>1, <1>3, <1>4, MoveTo
    <1>6. /\ SameTask(p) /\ SamePlan(p)
          /\ job'[p].pc = "applying" /\ job'[p].todo = DOMAIN Playbook
          /\ job'[p].result = job[p].result /\ job'[p].doomed = job[p].doomed
        BY <1>1, <1>5 DEF Job, SameTask, SamePlan
    <1>7. flock = p /\ job[p].pre # 0
        BY <1>1, <1>2 DEF Consistent, Staged, LockHeld, LockedPC
    <1>8. /\ journal' \in [owner : Proc \union {NoProc}, phase : Phase, pre : Id \union {NoSnapshot}]
          /\ journal'.owner = NoProc => journal' = NoJournal
          /\ journal'.owner = journal.owner /\ journal'.pre < nextId
          /\ journal'.phase \in {"executing", "validating", "rolling_back"} =>
                 journal'.pre \in Id /\ snap[journal'.pre].type = "ephemeral"
        BY <1>2, <1>7, PhaseKeeps
    <1>9. TypeOK'
        BY <1>2, <1>5, <1>8 DEF IInv, TypeOK, Moves
    <1>10. Grants(p)
        BY <1>1, <1>2, <1>7 DEF Grants, TypeOK
    <1>11. Recoverable'
        BY <1>2, <1>8 DEF IInv, Recoverable, Exists
    <1>12. Staged(p)' /\ LockHeld(p)' /\ OwnJournal(p)'
        BY <1>1, <1>2, <1>6, <1>7, <1>8 DEF Consistent, Staged, LockHeld, LockedPC, OwnJournal, SameTask
    <1>13. References(p)' /\ Untouched(p)'
        BY <1>1, <1>2, <1>6 DEF Consistent, References, Untouched, Touched, SameTask, SamePlan
    <1>14. Planned(p)' /\ Written(p)'
        BY <1>1, <1>2, <1>6 DEF Consistent, Planned, Written, SameTask, SamePlan, Exists
    <1>15. QED BY <1>5, <1>9, <1>10, <1>11, <1>12, <1>13, <1>14, StepKeeps DEF Consistent

LEMMA AppliedKeeps ==
    ASSUME IInv, NEW p \in Proc, Applied(p)
    PROVE  IInv'
    <1> DEFINE j == [job[p] EXCEPT !.pc = "validating"]
    <1>1. TypeOK /\ Consistent(p) /\ job[p] \in Job
        BY JobTypes DEF IInv
    <1>2. /\ job[p].pc = "applying" /\ job[p].todo = {} /\ UNCHANGED <<live, snap, nextId, flock>>
          /\ UpdateJournal("validating", job[p].pre)
        BY DEF Applied
    <1>3. j \in Job
        BY <1>1 DEF Job, PC
    <1>4. job' = [job EXCEPT ![p] = j]
        BY <1>1 DEF Applied, TypeOK
    <1>5. Moves(p) /\ job'[p] = j
        BY <1>1, <1>3, <1>4, MoveTo
    <1>6. /\ SameTask(p) /\ SamePlan(p)
          /\ job'[p].pc = "validating" /\ job'[p].todo = {}
          /\ job'[p].result = job[p].result /\ job'[p].doomed = job[p].doomed
        BY <1>1, <1>2, <1>5 DEF Job, SameTask, SamePlan
    <1>7. flock = p /\ job[p].pre # 0 /\ job[p].kind = "reset"
        BY <1>1, <1>2 DEF Consistent, Staged, LockHeld, LockedPC
    <1>8. /\ journal' \in [owner : Proc \union {NoProc}, phase : Phase, pre : Id \union {NoSnapshot}]
          /\ journal'.owner = NoProc => journal' = NoJournal
          /\ journal'.owner = journal.owner /\ journal'.pre < nextId
          /\ journal'.phase \in {"executing", "validating", "rolling_back"} =>
                 journal'.pre \in Id /\ snap[journal'.pre].type = "ephemeral"
        BY <1>2, <1>7, PhaseKeeps
    <1>9. TypeOK'
        BY <1>2, <1>5, <1>8 DEF IInv, TypeOK, Moves
    <1>10. Grants(p)
        BY <1>1, <1>2, <1>7 DEF Grants, TypeOK
    <1>11. Recoverable'
        BY <1>2, <1>8 DEF IInv, Recoverable, Exists
    <1>12. Staged(p)' /\ LockHeld(p)' /\ OwnJournal(p)'
        BY <1>1, <1>2, <1>6, <1>7, <1>8 DEF Consistent, Staged, LockHeld, LockedPC, OwnJournal, SameTask
    <1>13. References(p)' /\ Untouched(p)'
        BY <1>1, <1>2, <1>6 DEF Consistent, References, Untouched, Touched, SameTask, SamePlan
    <1>14. Planned(p)' /\ Written(p)'
        BY <1>1, <1>2, <1>6, <1>7 DEF Consistent, Planned, Written, SameTask, SamePlan, Exists
    <1>15. QED BY <1>5, <1>9, <1>10, <1>11, <1>12, <1>13, <1>14, StepKeeps DEF Consistent

-----------------------------------------------------------------------------
(***************************************************************************)
(* Writes to the host.  Only a process with the flock makes one.           *)
(***************************************************************************)

\* One file less to do.
LEMMA FileDone ==
    ASSUME TypeOK, NEW p \in Proc, NEW f, job' = [job EXCEPT ![p].todo = @ \ {f}]
    PROVE  /\ Moves(p) /\ SameTask(p) /\ SamePlan(p)
           /\ job'[p].pc = job[p].pc /\ job'[p].todo = job[p].todo \ {f}
           /\ job'[p].result = job[p].result /\ job'[p].doomed = job[p].doomed
    <1> DEFINE j == [job[p] EXCEPT !.todo = @ \ {f}]
    <1>1. job[p] \in Job
        BY JobTypes
    <1>2. j \in Job
        BY <1>1 DEF Job
    <1>3. job' = [job EXCEPT ![p] = j]
        BY DEF TypeOK
    <1>4. Moves(p) /\ job'[p] = j
        BY <1>2, <1>3, MoveTo
    <1>5. QED BY <1>1, <1>4 DEF Job, SameTask, SamePlan

\* A write by the holder of the flock disturbs nobody else.
LEMMA WriteGrants ==
    ASSUME IInv, NEW p \in Proc, flock = p, live' \in Files, Moves(p),
           UNCHANGED <<snap, nextId, flock, journal>>
    PROVE  TypeOK' /\ Grants(p) /\ Recoverable'
    <1>1. TypeOK'
        BY DEF IInv, TypeOK, Moves
    <1>2. Grants(p)
        BY DEF IInv, TypeOK, Grants
    <1>3. Recoverable'
        BY DEF IInv, Recoverable, Exists
    <1>4. QED BY <1>1, <1>2, <1>3

LEMMA WriteFileKeeps ==
    ASSUME IInv, NEW p \in Proc, NEW f \in File, WriteFile(p, f)
    PROVE  IInv'
    <1>1. TypeOK /\ Consistent(p) /\ job[p] \in Job
        BY JobTypes DEF IInv
    <1>2. /\ job[p].pc = "writing" /\ f \in job[p].todo
          /\ UNCHANGED <<snap, nextId, flock, journal>>
          /\ job' = [job EXCEPT ![p].todo = @ \ {f}]
        BY DEF WriteFile
    <1>3. /\ Moves(p) /\ SameTask(p) /\ SamePlan(p)
          /\ job'[p].pc = "writing" /\ job'[p].todo = job[p].todo \ {f}
          /\ job'[p].result = job[p].result /\ job'[p].doomed = job[p].doomed
        BY <1>1, <1>2, FileDone
    <1>4. /\ job[p].kind = "restore" /\ flock = p
          /\ job[p].target # 0 /\ f \in job[p].plan
        BY <1>1, <1>2 DEF Consistent, Staged, LockHeld, LockedPC, Planned
    <1>5. job[p].target \in Id
        BY <1>1, <1>4 DEF Job
    <1>6. /\ live' \in Files
          /\ \A g \in File \ {f} : live'[g] = live[g]
          /\ Exists(job[p].target) => live'[f] = snap[job[p].target].files[f]
        <2>1. snap[job[p].target].files[f] \in Content \union {Absent}
            BY <1>1, <1>5 DEF TypeOK, Manifest, Files
        <2>2. CASE f \in job[p].deletes
            <3>1. live' = [live EXCEPT ![f] = Absent]
                BY <2>2 DEF WriteFile
            <3>2. Exists(job[p].target) => snap[job[p].target].files[f] = Absent
                BY <1>1, <1>4, <2>2 DEF Consistent, Planned
            <3>3. QED BY <1>1, <3>1, <3>2, WriteType DEF TypeOK, Files
        <2>3. CASE f \notin job[p].deletes /\ Captured(job[p].target, f)
            <3>1. live' = [live EXCEPT ![f] = snap[job[p].target].files[f]]
                BY <2>3 DEF WriteFile
            <3>2. QED BY <1>1, <2>1, <3>1, WriteType DEF TypeOK, Files
        <2>4. CASE f \notin job[p].deletes /\ ~Captured(job[p].target, f)
            <3>1. live' = live
                BY <2>4 DEF WriteFile
            <3>2. ~Exists(job[p].target)
                BY <1>1, <1>4, <2>4 DEF Consistent, Planned, Captured
            <3>3. QED BY <1>1, <3>1, <3>2 DEF TypeOK
        <2>5. QED BY <2>2, <2>3, <2>4
    <1>7. TypeOK' /\ Grants(p) /\ Recoverable'
        BY <1>2, <1>3, <1>4, <1>6, WriteGrants
    <1>8. Staged(p)' /\ LockHeld(p)' /\ OwnJournal(p)'
        BY <1>1, <1>2, <1>3 DEF Consistent, Staged, LockHeld, LockedPC, OwnJournal, SameTask
    <1>9. References(p)' /\ Untouched(p)'
        BY <1>1, <1>2, <1>3, <1>4, <1>6 DEF Consistent, References, Untouched, Touched, SameTask, SamePlan
    <1>10. Planned(p)' /\ Written(p)'
        <2>1. Planned(p)'
            BY <1>1, <1>2, <1>3 DEF Consistent, Planned, SameTask, SamePlan, Exists
        <2>2. job[p].plan \subseteq File
            BY <1>1 DEF Job
        <2>3. Written(p)'
            BY <1>1, <1>2, <1>3, <1>6, <2>2 DEF Consistent, Written, SameTask, SamePlan, Exists
        <2>4. QED BY <2>1, <2>3
    <1>11. QED BY <1>3, <1>7, <1>8, <1>9, <1>10, StepKeeps DEF Consistent

LEMMA RollBackFileKeeps ==
    ASSUME IInv, NEW p \in Proc, NEW f \in File, RollBackFile(p, f)
    PROVE  IInv'
    <1>1. TypeOK /\ Consistent(p) /\ job[p] \in Job
        BY JobTypes DEF IInv
    <1>2. /\ job[p].pc = "rollingBack" /\ f \in job[p].todo
          /\ UNCHANGED <<snap, nextId, flock, journal>>
          /\ job' = [job EXCEPT ![p].todo = @ \ {f}]
        BY DEF RollBackFile
    <1>3. /\ Moves(p) /\ SameTask(p) /\ SamePlan(p)
          /\ job'[p].pc = "rollingBack" /\ job'[p].todo = job[p].todo \ {f}
          /\ job'[p].result = job[p].result /\ job'[p].doomed = job[p].doomed
        BY <1>1, <1>2, FileDone
    <1>4. flock = p /\ job[p].pre # 0
        BY <1>1, <1>2 DEF Consistent, Staged, LockHeld, LockedPC
    <1>5. job[p].pre \in Id
        BY <1>1, <1>4 DEF Job
    <1>6. /\ live' \in Files
          /\ \A g \in File \ {f} : live'[g] = live[g]
          /\ Captured(job[p].pre, f) => live'[f] = snap[job[p].pre].files[f]
          /\ ~Captured(job[p].pre, f) => live'[f] = live[f]
        <2>1. snap[job[p].pre].files[f] \in Content \union {Absent}
            BY <1>1, <1>5 DEF TypeOK, Manifest, Files
        <2>2. CASE Captured(job[p].pre, f)
            <3>1. live' = [live EXCEPT ![f] = snap[job[p].pre].files[f]]
                BY <2>2 DEF RollBackFile
            <3>2. QED BY <1>1, <2>1, <2>2, <3>1, WriteType DEF TypeOK, Files
        <2>3. CASE ~Captured(job[p].pre, f)
            BY <1>1, <2>3 DEF RollBackFile, TypeOK
        <2>4. QED BY <2>2, <2>3
    <1>7. TypeOK' /\ Grants(p) /\ Recoverable'
        BY <1>2, <1>3, <1>4, <1>6, WriteGrants
    <1>8. Staged(p)' /\ LockHeld(p)' /\ OwnJournal(p)'
        BY <1>1, <1>2, <1>3 DEF Consistent, Staged, LockHeld, LockedPC, OwnJournal, SameTask
    <1>9. References(p)'
        BY <1>1, <1>2, <1>3 DEF Consistent, References, SameTask
    <1>10. Untouched(p)'
        BY <1>1, <1>2, <1>3, <1>4, <1>6 DEF Consistent, Untouched, Touched, SameTask, SamePlan
    <1>11. Planned(p)'
        BY <1>1, <1>2, <1>3 DEF Consistent, Planned, SameTask, SamePlan, Exists
    <1>12. Written(p)'
        BY <1>1, <1>2, <1>3, <1>6 DEF Consistent, Written, SameTask, SamePlan, Exists, Captured
    <1>13. QED BY <1>3, <1>7, <1>8, <1>9, <1>10, <1>11, <1>12, StepKeeps DEF Consistent

LEMMA ApplyFileKeeps ==
    ASSUME IInv, NEW p \in Proc, NEW f \in File, ApplyFile(p, f)
    PROVE  IInv'
    <1>1. TypeOK /\ Consistent(p) /\ job[p] \in Job
        BY JobTypes DEF IInv
    <1>2. /\ job[p].pc = "applying" /\ f \in job[p].todo
          /\ UNCHANGED <<snap, nextId, flock, journal>>
          /\ live' = [live EXCEPT ![f] = Playbook[f]]
          /\ job' = [job EXCEPT ![p].todo = @ \ {f}]
        BY DEF ApplyFile
    <1>3. /\ Moves(p) /\ SameTask(p) /\ SamePlan(p)
          /\ job'[p].pc = "applying" /\ job'[p].todo = job[p].todo \ {f}
          /\ job'[p].result = job[p].result /\ job'[p].doomed = job[p].doomed
        BY <1>1, <1>2, FileDone
    <1>4. job[p].kind = "reset" /\ flock = p /\ f \in DOMAIN Playbook
        BY <1>1, <1>2 DEF Consistent, Staged, LockHeld, LockedPC, Planned
    <1>5. Playbook[f] \in Content
        BY <1>4, PlaybookAssumption
    <1>6. live' \in Files /\ \A g \in File \ {f} : live'[g] = live[g]
        BY <1>1, <1>2, <1>5, WriteType DEF TypeOK, Files
    <1>7. TypeOK' /\ Grants(p) /\ Recoverable'
        BY <1>2, <1>3, <1>4, <1>6, WriteGrants
    <1>8. Staged(p)' /\ LockHeld(p)' /\ OwnJournal(p)'
        BY <1>1, <1>2, <1>3 DEF Consistent, Staged, LockHeld, LockedPC, OwnJournal, SameTask
    <1>9. References(p)' /\ Untouched(p)'
        BY <1>1, <1>2, <1>3, <1>4, <1>6 DEF Consistent, References, Untouched, Touched, SameTask
    <1>10. Planned(p)' /\ Written(p)'
        BY <1>1, <1>2, <1>3, <1>4 DEF Consistent, Planned, Written, SameTask, SamePlan, Exists
    <1>11. QED BY <1>3, <1>7, <1>8, <1>9, <1>10, StepKeeps DEF Consistent

-----------------------------------------------------------------------------
(***************************************************************************)
(* Snapshots come and go.                                                  *)
(***************************************************************************)

\* A pass deletes no pre-change snapshot, and not the source of its own restore.
LEMMA PurgeKeeps ==
    ASSUME IInv, NEW p \in Proc, Purge(p)
    PROVE  IInv'
    <1>1. TypeOK /\ Consistent(p) /\ job[p] \in Job /\ Recoverable
        BY JobTypes DEF IInv
    <1>2. job[p].pc = "purging" /\ UNCHANGED <<live, nextId, flock, journal>>
        BY DEF Purge
    <1>3. PICK s \in job[p].doomed :
              snap' = [snap EXCEPT ![s] = Missing] /\ job' = [job EXCEPT ![p].doomed = @ \ {s}]
        BY DEF Purge
    <1>4. s \in Id /\ s < nextId /\ snap[s].type # "ephemeral"
        BY <1>1, <1>3 DEF Consistent, References, Job
    <1>5. /\ Moves(p) /\ SameTask(p) /\ SamePlan(p)
          /\ job'[p].pc = "purging" /\ job'[p].todo = job[p].todo
          /\ job'[p].result = job[p].result /\ job'[p].doomed = job[p].doomed \ {s}
        <2> DEFINE j == [job[p] EXCEPT !.doomed = @ \ {s}]
        <2>1. j \in Job
            BY <1>1 DEF Job
        <2>2. job' = [job EXCEPT ![p] = j]
            BY <1>1, <1>3 DEF TypeOK
        <2>3. Moves(p) /\ job'[p] = j
            BY <1>1, <2>1, <2>2, MoveTo
        <2>4. QED BY <1>1, <1>2, <2>3 DEF Job, SameTask, SamePlan
    <1>6. /\ snap' \in [Id -> Manifest] /\ snap'[s].type = "none"
          /\ \A u \in Id \ {s} : snap'[u] = snap[u]
        <2>1. Missing \in Manifest /\ Missing.type = "none"
            BY DEF Missing, Manifest, Files
        <2>2. QED BY <1>1, <1>3, <1>4, <2>1 DEF TypeOK
    <1>7. TypeOK'
        BY <1>1, <1>2, <1>5, <1>6 DEF TypeOK, Moves
    <1>8. Grants(p)
        BY <1>1, <1>2, <1>4, <1>6 DEF Grants, TypeOK
    <1>9. Recoverable'
        BY <1>1, <1>2, <1>4, <1>6 DEF Recoverable, Exists, TypeOK
    <1>10. job[p].pre # 0 => job[p].pre \in Id /\ snap'[job[p].pre] = snap[job[p].pre]
        BY <1>1, <1>4, <1>6 DEF Consistent, References, Job
    <1>11. job[p].kind = "restore" => snap'[job[p].target] = snap[job[p].target]
        BY <1>1, <1>3, <1>6 DEF Consistent, Staged, References, Job
    <1>12. Staged(p)' /\ LockHeld(p)' /\ OwnJournal(p)'
        BY <1>1, <1>2, <1>5 DEF Consistent, Staged, LockHeld, LockedPC, OwnJournal, SameTask
    <1>13. References(p)'
        <2>1. \A u \in job'[p].doomed : u < nextId /\ snap'[u].type # "ephemeral"
            BY <1>1, <1>5, <1>6 DEF Consistent, References, Job
        <2>2. QED BY <1>1, <1>2, <1>5, <1>10, <2>1 DEF Consistent, References, SameTask
    <1>14. Untouched(p)'
        BY <1>1, <1>2, <1>5, <1>10 DEF Consistent, Untouched, Touched, SameTask, SamePlan
    <1>15. Planned(p)' /\ Written(p)'
        BY <1>1, <1>2, <1>5, <1>11 DEF Consistent, Planned, Written, SameTask, SamePlan, Exists
    <1>16. QED BY <1>5, <1>7, <1>8, <1>9, <1>12, <1>13, <1>14, <1>15, StepKeeps DEF Consistent

\* A new snapshot is nobody's yet.
LEMMA SnapshotGrants ==
    ASSUME IInv, NEW p \in Proc, Moves(p), UNCHANGED <<live, flock, journal>>,
           NEW type \in {"rollback_eligible", "ephemeral"}, NEW status \in {"pending", "applied"},
           TakeSnapshot(type, status)
    PROVE  /\ TypeOK' /\ Grants(p) /\ Recoverable'
           /\ nextId \in Id /\ nextId' = nextId + 1
           /\ snap'[nextId].type = type /\ snap'[nextId].files = live
           /\ \A s \in Id : s < nextId => snap'[s] = snap[s]
    <1>1. TypeOK /\ Recoverable
        BY DEF IInv
    <1>2. snap' \in [Id -> Manifest] /\ nextId' \in 1..(MaxId + 1) /\ nextId \in Id
        BY <1>1, SnapshotType
    <1>3. /\ nextId' = nextId + 1
          /\ snap' = [snap EXCEPT ![nextId] = [type |-> type, status |-> status, files |-> live]]
        BY DEF TakeSnapshot
    <1>4. /\ snap'[nextId].type = type /\ snap'[nextId].files = live
          /\ \A s \in Id \ {nextId} : snap'[s] = snap[s]
        BY <1>1, <1>2, <1>3 DEF TypeOK
    <1>5. TypeOK'
        BY <1>1, <1>2 DEF TypeOK, Moves
    <1>6. Grants(p)
        BY <1>1, <1>2, <1>3, <1>4 DEF Grants, TypeOK
    <1>7. Recoverable'
        <2>1. \A s \in Id : s >= nextId' => ~Exists(s)'
            BY <1>1, <1>2, <1>3, <1>4 DEF Recoverable, Exists
        <2>2. journal.pre \in Id \union {0}
            BY <1>1 DEF TypeOK
        <2>3. QED BY <1>1, <1>2, <1>3, <1>4, <2>1, <2>2 DEF Recoverable
    <1>8. QED BY <1>2, <1>3, <1>4, <1>5, <1>6, <1>7

LEMMA CreateKeeps ==
    ASSUME IInv, NEW p \in Proc, Create(p)
    PROVE  IInv'
    <1> DEFINE j == [Idle EXCEPT !.kind = "create", !.pc = "listing", !.own = nextId]
    <1>1. TypeOK /\ Consistent(p) /\ Idle \in Job
        BY JobTypes DEF IInv
    <1>2. /\ job[p].pc = "idle" /\ UNCHANGED <<live, flock, journal>>
          /\ TakeSnapshot("rollback_eligible", "applied") /\ job' = [job EXCEPT ![p] = j]
        BY DEF Create
    <1>3. j \in Job
        BY <1>1, <1>2 DEF Job, PC, TakeSnapshot
    <1>4. Moves(p) /\ job'[p] = j
        BY <1>1, <1>2, <1>3, MoveTo
    <1>5. /\ job'[p].kind = "create" /\ job'[p].pc = "listing" /\ job'[p].target = 0
          /\ job'[p].pre = 0 /\ job'[p].doomed = {} /\ job'[p].todo = {} /\ job'[p].result = "none"
        BY <1>4 DEF Idle
    <1>6. TypeOK' /\ Grants(p) /\ Recoverable' /\ nextId' > 0
        BY <1>1, <1>2, <1>4, SnapshotGrants DEF TypeOK
    <1>7. flock # p
        BY <1>1, <1>2 DEF Consistent, LockHeld, LockedPC
    <1>8. Consistent(p)'
        BY <1>2, <1>5, <1>6, <1>7
           DEF Consistent, Staged, LockHeld, References, Untouched, Planned, Written, OwnJournal
    <1>9. QED BY <1>4, <1>6, <1>8, StepKeeps

\* The host is what the pre-change snapshot says, until something is written.
LEMMA TakePreChangeKeeps ==
    ASSUME IInv, NEW p \in Proc, TakePreChange(p)
    PROVE  IInv'
    <1> DEFINE j == [job[p] EXCEPT !.pc = "listing", !.pre = nextId, !.own = nextId]
    <1>1. TypeOK /\ Consistent(p) /\ job[p] \in Job
        BY JobTypes DEF IInv
    <1>2. /\ job[p].pc = "capturing" /\ UNCHANGED <<live, flock, journal>>
          /\ TakeSnapshot("ephemeral", "pending")
        BY DEF TakePreChange
    <1>3. j \in Job
        BY <1>1, <1>2 DEF Job, PC, TakeSnapshot
    <1>4. job' = [job EXCEPT ![p] = j]
        BY <1>1 DEF TakePreChange, TypeOK
    <1>5. Moves(p) /\ job'[p] = j
        BY <1>1, <1>3, <1>4, MoveTo
    <1>6. /\ SamePlan(p) /\ job'[p].kind = job[p].kind /\ job'[p].target = job[p].target
          /\ job'[p].pre = nextId /\ job'[p].pc = "listing" /\ job'[p].todo = job[p].todo
          /\ job'[p].result = job[p].result /\ job'[p].doomed = job[p].doomed
        BY <1>1, <1>5 DEF Job, SamePlan
    <1>7. /\ TypeOK' /\ Grants(p) /\ Recoverable'
          /\ nextId \in Id /\ nextId' = nextId + 1
          /\ snap'[nextId].type = "ephemeral" /\ snap'[nextId].files = live
          /\ \A s \in Id : s < nextId => snap'[s] = snap[s]
        BY <1>2, <1>5, SnapshotGrants
    <1>8. job[p].kind \in {"restore", "reset"} /\ job[p].pre = 0
        BY <1>1, <1>2 DEF Consistent, Staged
    <1>9. Staged(p)' /\ LockHeld(p)' /\ OwnJournal(p)'
        BY <1>1, <1>2, <1>6, <1>7, <1>8 DEF Consistent, Staged, LockHeld, LockedPC, OwnJournal
    <1>10. References(p)'
        <2>1. job[p].target \in Id \union {0} /\ job[p].doomed \subseteq Id
            BY <1>1 DEF Job
        <2>2. \A s \in job[p].doomed : s < nextId' /\ snap'[s].type # "ephemeral"
            BY <1>1, <1>7, <2>1 DEF Consistent, References
        <2>3. QED BY <1>1, <1>6, <1>7, <2>1, <2>2 DEF Consistent, References
    <1>11. Untouched(p)'
        BY <1>2, <1>6, <1>7 DEF Untouched
    <1>12. job[p].kind = "restore" => snap'[job[p].target] = snap[job[p].target]
        BY <1>1, <1>7 DEF Consistent, Staged, References, Job
    <1>13. Planned(p)' /\ Written(p)'
        BY <1>1, <1>2, <1>6, <1>12 DEF Consistent, Planned, Written, SamePlan, Exists
    <1>14. QED BY <1>5, <1>7, <1>9, <1>10, <1>11, <1>13, StepKeeps DEF Consistent

LEMMA RecordAppliedKeeps ==
    ASSUME IInv, NEW p \in Proc, RecordApplied(p)
    PROVE  IInv'
    <1> DEFINE j == [job[p] EXCEPT !.pc = "listing", !.own = nextId]
    <1>1. TypeOK /\ Consistent(p) /\ job[p] \in Job
        BY JobTypes DEF IInv
    <1>2. /\ job[p].pc = "validating" /\ UNCHANGED <<live, flock, journal>>
          /\ TakeSnapshot("rollback_eligible", "applied")
        BY DEF RecordApplied
    <1>3. j \in Job
        BY <1>1, <1>2 DEF Job, PC, TakeSnapshot
    <1>4. job' = [job EXCEPT ![p] = j]
        BY <1>1 DEF RecordApplied, TypeOK
    <1>5. Moves(p) /\ job'[p] = j
        BY <1>1, <1>3, <1>4, MoveTo
    <1>6. /\ SameTask(p) /\ SamePlan(p)
          /\ job'[p].pc = "listing" /\ job'[p].todo = job[p].todo
          /\ job'[p].result = job[p].result /\ job'[p].doomed = job[p].doomed
        BY <1>1, <1>5 DEF Job, SameTask, SamePlan
    <1>7. /\ TypeOK' /\ Grants(p) /\ Recoverable'
          /\ nextId \in Id /\ nextId' = nextId + 1
          /\ \A s \in Id : s < nextId => snap'[s] = snap[s]
        BY <1>2, <1>5, SnapshotGrants
    <1>8. job[p].kind = "reset" /\ job[p].pre # 0
        BY <1>1, <1>2 DEF Consistent, Staged
    <1>9. Staged(p)' /\ LockHeld(p)' /\ OwnJournal(p)'
        BY <1>1, <1>2, <1>6, <1>8 DEF Consistent, Staged, LockHeld, LockedPC, OwnJournal, SameTask
    <1>10. /\ job[p].target \in Id \union {0} /\ job[p].doomed \subseteq Id /\ job[p].pre \in Id
           /\ job[p].pre < nextId
        BY <1>1, <1>8 DEF Job, Consistent, References
    <1>11. References(p)'
        <2>1. \A s \in job[p].doomed : s < nextId' /\ snap'[s].type # "ephemeral"
            BY <1>1, <1>7, <1>10 DEF Consistent, References
        <2>2. QED BY <1>1, <1>6, <1>7, <1>8, <1>10, <2>1 DEF Consistent, References, SameTask
    <1>12. Untouched(p)'
        BY <1>1, <1>2, <1>6, <1>7, <1>8, <1>10 DEF Consistent, Untouched, Touched, SameTask
    <1>13. Planned(p)' /\ Written(p)'
        BY <1>1, <1>2, <1>6, <1>8 DEF Consistent, Planned, Written, SameTask
    <1>14. QED BY <1>5, <1>7, <1>9, <1>11, <1>12, <1>13, StepKeeps DEF Consistent

-----------------------------------------------------------------------------
(***************************************************************************)
(* Ends of transactions.                                                   *)
(***************************************************************************)

\* The journal after a step that leaves it or writes a phase into it.
JournalFine ==
    /\ journal' \in [owner : Proc \union {NoProc}, phase : Phase, pre : Id \union {NoSnapshot}]
    /\ journal'.owner = NoProc => journal' = NoJournal
    /\ journal'.owner = journal.owner /\ journal'.pre < nextId
    /\ journal'.phase \in {"executing", "validating", "rolling_back"} =>
           journal'.pre \in Id /\ snap[journal'.pre].type = "ephemeral"

LEMMA JournalStays ==
    ASSUME IInv, UNCHANGED journal
    PROVE  JournalFine
    BY DEF IInv, TypeOK, Recoverable, JournalFine

\* Marking a manifest changes its status and nothing else.
LEMMA MarkGrants ==
    ASSUME IInv, NEW p \in Proc, Moves(p), flock = p, JournalFine, UNCHANGED <<live, nextId, flock>>,
           NEW s \in Id, NEW status \in {"applied", "rolled_back", "failed"}, Mark(s, status)
    PROVE  /\ TypeOK' /\ Grants(p) /\ Recoverable'
           /\ \A u \in Id : snap'[u].type = snap[u].type /\ snap'[u].files = snap[u].files
    <1>1. TypeOK /\ Recoverable
        BY DEF IInv
    <1>2. snap' \in [Id -> Manifest]
        BY <1>1, MarkType
    <1>3. \A u \in Id : snap'[u].type = snap[u].type /\ snap'[u].files = snap[u].files
        <2>1. CASE snap' = snap
            BY <2>1
        <2>2. CASE snap' = [snap EXCEPT ![s].status = status]
            <3>1. snap[s] \in Manifest /\ \A u \in Id \ {s} : snap'[u] = snap[u]
                BY <1>1, <2>2 DEF TypeOK
            <3>2. snap'[s] = [snap[s] EXCEPT !.status = status]
                BY <1>1, <2>2 DEF TypeOK
            <3>3. snap'[s].type = snap[s].type /\ snap'[s].files = snap[s].files
                BY <3>1, <3>2 DEF Manifest
            <3>4. QED BY <3>1, <3>3
        <2>3. QED BY <2>1, <2>2 DEF Mark
    <1>4. TypeOK'
        BY <1>1, <1>2 DEF TypeOK, Moves, JournalFine
    <1>5. Grants(p)
        BY <1>1, <1>3 DEF Grants, TypeOK
    <1>6. Recoverable'
        BY <1>1, <1>3 DEF Recoverable, Exists, JournalFine
    <1>7. QED BY <1>3, <1>4, <1>5, <1>6

LEMMA FinishKeeps ==
    ASSUME IInv, NEW p \in Proc, flock = p, job[p].pre # 0, JournalFine,
           NEW result \in {"success", "failed", "rolled_back", "rollback_failed"},
           NEW status \in {"applied", "rolled_back", "failed"}, Finish(p, result, status),
           result = "success" /\ job[p].kind = "restore" /\ Exists(job[p].target) =>
              \A f \in job[p].plan : live[f] = snap[job[p].target].files[f],
           result = "rolled_back" =>
              \A f \in File : Captured(job[p].pre, f) => live[f] = snap[job[p].pre].files[f]
    PROVE  IInv'
    <1> DEFINE j == [job[p] EXCEPT !.pc = "releasing", !.result = result, !.todo = {}]
    <1>1. TypeOK /\ Consistent(p) /\ job[p] \in Job
        BY JobTypes DEF IInv
    <1>2. Mark(job[p].pre, status) /\ UNCHANGED <<live, nextId, flock>>
        BY DEF Finish
    <1>3. j \in Job
        BY <1>1 DEF Job, PC
    <1>4. job' = [job EXCEPT ![p] = j]
        BY <1>1 DEF Finish, TypeOK
    <1>5. Moves(p) /\ job'[p] = j
        BY <1>1, <1>3, <1>4, MoveTo
    <1>6. /\ SameTask(p) /\ SamePlan(p)
          /\ job'[p].pc = "releasing" /\ job'[p].todo = {}
          /\ job'[p].result = result /\ job'[p].doomed = job[p].doomed
        BY <1>1, <1>5 DEF Job, SameTask, SamePlan
    <1>7. job[p].pre \in Id /\ job[p].target \in Id \union {0} /\ job[p].doomed \subseteq Id
        BY <1>1 DEF Job
    <1>8. /\ TypeOK' /\ Grants(p) /\ Recoverable'
          /\ \A u \in Id : snap'[u].type = snap[u].type /\ snap'[u].files = snap[u].files
        BY <1>2, <1>5, <1>7, MarkGrants
    <1>9. job[p].kind \in {"restore", "reset", "gc"}
        BY <1>1 DEF Consistent, LockHeld
    <1>10. Staged(p)' /\ LockHeld(p)' /\ OwnJournal(p)'
        <2>1. OwnJournal(p)'
            <3>1. journal.owner \in {p, NoProc} \/ job[p].pc = "locked"
                BY <1>1 DEF Consistent, OwnJournal
            <3>2. job[p].pc # "locked"
                BY <1>1 DEF Consistent, Staged
            <3>3. QED BY <3>1, <3>2 DEF OwnJournal, JournalFine
        <2>2. QED BY <1>1, <1>2, <1>6, <1>9, <2>1
                     DEF Consistent, Staged, LockHeld, LockedPC, SameTask
    <1>11. References(p)'
        BY <1>1, <1>2, <1>6, <1>7, <1>8 DEF Consistent, References, SameTask
    <1>12. Untouched(p)'
        BY <1>1, <1>2, <1>6, <1>7, <1>8 DEF Consistent, Untouched, Touched, SameTask, SamePlan
    <1>13. job[p].kind = "restore" => job[p].target \in Id
        BY <1>1, <1>7 DEF Consistent, Staged
    <1>14. Planned(p)'
        BY <1>1, <1>2, <1>6, <1>8, <1>13 DEF Consistent, Planned, SameTask, SamePlan, Exists
    <1>15. Written(p)'
        BY <1>1, <1>2, <1>6, <1>7, <1>8, <1>13 DEF Written, SameTask, SamePlan, Exists, Captured
    <1>16. QED BY <1>5, <1>8, <1>10, <1>11, <1>12, <1>14, <1>15, StepKeeps DEF Consistent

\* Where a transaction writes, it has the flock and its pre-change snapshot.
LEMMA InTransaction ==
    ASSUME IInv, NEW p \in Proc, job[p].pc \in {"writing", "rollingBack", "applying", "validating"}
    PROVE  flock = p /\ job[p].pre # 0
    BY DEF IInv, Consistent, Staged, LockHeld, LockedPC

LEMMA WriteFailsKeeps ==
    ASSUME IInv, NEW p \in Proc, WriteFails(p)
    PROVE  IInv'
    BY FinishKeeps, InTransaction, JournalStays DEF WriteFails

LEMMA ReconvergedKeeps ==
    ASSUME IInv, NEW p \in Proc, Reconverged(p)
    PROVE  IInv'
    <1>1. job[p].pc = "writing" /\ Finish(p, "success", "applied") /\ JournalFine
        BY JournalStays DEF Reconverged
    <1>2. job[p].kind = "restore" /\ Exists(job[p].target) =>
             \A f \in job[p].plan : live[f] = snap[job[p].target].files[f]
        BY DEF Reconverged, IInv, Consistent, Written
    <1>3. QED BY <1>1, <1>2, FinishKeeps, InTransaction

LEMMA RolledBackKeeps ==
    ASSUME IInv, NEW p \in Proc, RolledBack(p)
    PROVE  IInv'
    <1>1. job[p].pc = "rollingBack" /\ Finish(p, "rolled_back", "rolled_back") /\ JournalFine
        BY JournalStays DEF RolledBack
    <1>2. \A f \in File : Captured(job[p].pre, f) => live[f] = snap[job[p].pre].files[f]
        BY DEF RolledBack, IInv, Consistent, Written
    <1>3. QED BY <1>1, <1>2, FinishKeeps, InTransaction

LEMMA RollBackFailsKeeps ==
    ASSUME IInv, NEW p \in Proc, RollBackFails(p)
    PROVE  IInv'
    BY FinishKeeps, InTransaction, JournalStays DEF RollBackFails

\* An auto-rollback takes exactly the captured files that differ.
LEMMA ApplyFailsKeeps ==
    ASSUME IInv, NEW p \in Proc, ApplyFails(p)
    PROVE  IInv'
    <1>1. TypeOK /\ Consistent(p) /\ job[p] \in Job
        BY JobTypes DEF IInv
    <1>2. /\ job[p].pc \in {"applying", "validating"} /\ UpdateJournal("rolling_back", job[p].pre)
          /\ flock = p /\ job[p].pre # 0
        BY InTransaction DEF ApplyFails
    <1>3. JournalFine
        BY <1>2, PhaseKeeps DEF JournalFine
    <1>4. CASE AutoRollbackSet(p) = {} /\ Finish(p, "rolled_back", "rolled_back")
        <2>1. \A f \in File : Captured(job[p].pre, f) => live[f] = snap[job[p].pre].files[f]
            BY <1>4 DEF AutoRollbackSet
        <2>2. QED BY <1>2, <1>3, <1>4, <2>1, FinishKeeps
    <1>5. CASE Finish(p, "rollback_failed", "failed")
        BY <1>2, <1>3, <1>5, FinishKeeps
    <1>6. CASE /\ job' = [job EXCEPT ![p].pc = "rollingBack", ![p].todo = AutoRollbackSet(p),
                                     ![p].plan = AutoRollbackSet(p)]
               /\ UNCHANGED <<live, snap, nextId, flock>>
        <2> DEFINE j == [job[p] EXCEPT !.pc = "rollingBack", !.todo = AutoRollbackSet(p),
                                       !.plan = AutoRollbackSet(p)]
        <2>1. AutoRollbackSet(p) \subseteq File
            BY DEF AutoRollbackSet
        <2>2. j \in Job
            BY <1>1, <2>1 DEF Job, PC
        <2>3. job' = [job EXCEPT ![p] = j]
            BY <1>1, <1>6 DEF TypeOK
        <2>4. Moves(p) /\ job'[p] = j
            BY <1>1, <2>2, <2>3, MoveTo
        <2>5. /\ SameTask(p) /\ job'[p].pc = "rollingBack" /\ job'[p].todo = AutoRollbackSet(p)
              /\ job'[p].result = job[p].result /\ job'[p].doomed = job[p].doomed
            BY <1>1, <2>4 DEF Job, SameTask
        <2>6. TypeOK'
            BY <1>1, <1>3, <1>6, <2>4 DEF TypeOK, Moves, JournalFine
        <2>7. Grants(p)
            BY <1>1, <1>2, <1>6 DEF Grants, TypeOK
        <2>8. Recoverable'
            BY <1>3, <1>6 DEF IInv, Recoverable, Exists, JournalFine
        <2>9. job[p].kind = "reset"
            BY <1>1, <1>2 DEF Consistent, Staged
        <2>10. Staged(p)' /\ LockHeld(p)' /\ OwnJournal(p)'
            BY <1>1, <1>2, <1>3, <1>6, <2>5, <2>9
               DEF Consistent, Staged, LockHeld, LockedPC, OwnJournal, SameTask, JournalFine
        <2>11. References(p)' /\ Untouched(p)'
            BY <1>1, <1>6, <2>5, <2>9 DEF Consistent, References, Untouched, Touched, SameTask
        <2>12. Planned(p)' /\ Written(p)'
            BY <1>6, <2>5, <2>9 DEF Planned, Written, SameTask, Exists, Captured, AutoRollbackSet
        <2>13. QED BY <2>4, <2>6, <2>7, <2>8, <2>10, <2>11, <2>12, StepKeeps DEF Consistent
    <1>7. QED BY <1>4, <1>5, <1>6 DEF ApplyFails

LEMMA CompleteKeeps ==
    ASSUME IInv, NEW p \in Proc, Complete(p)
    PROVE  IInv'
    <1>1. TypeOK /\ Consistent(p) /\ job[p] \in Job
        BY JobTypes DEF IInv
    <1>2. job[p].pc = "purging" /\ job[p].kind = "reset" /\ UNCHANGED <<live, nextId, flock>>
        BY DEF Complete, Purged
    <1>3. flock = p /\ job[p].pre # 0
        BY <1>1, <1>2 DEF Consistent, Staged, LockHeld, LockedPC
    <1>4. CASE /\ UpdateJournal("completed", job[p].pre) /\ Mark(job[p].pre, "applied")
               /\ job' = [job EXCEPT ![p].pc = "listing", ![p].result = "success"]
        <2> DEFINE j == [job[p] EXCEPT !.pc = "listing", !.result = "success"]
        <2>1. j \in Job
            BY <1>1 DEF Job, PC
        <2>2. job' = [job EXCEPT ![p] = j]
            BY <1>1, <1>4 DEF TypeOK
        <2>3. Moves(p) /\ job'[p] = j
            BY <1>1, <2>1, <2>2, MoveTo
        <2>4. /\ SameTask(p) /\ SamePlan(p)
              /\ job'[p].pc = "listing" /\ job'[p].todo = job[p].todo
              /\ job'[p].result = "success" /\ job'[p].doomed = job[p].doomed
            BY <1>1, <2>3 DEF Job, SameTask, SamePlan
        <2>5. job[p].pre \in Id /\ job[p].doomed \subseteq Id
            BY <1>1, <1>3 DEF Job
        <2>6. JournalFine
            BY <1>3, <1>4, PhaseKeeps DEF JournalFine
        <2>7. /\ TypeOK' /\ Grants(p) /\ Recoverable'
              /\ \A u \in Id : snap'[u].type = snap[u].type /\ snap'[u].files = snap[u].files
            BY <1>2, <1>3, <1>4, <2>3, <2>5, <2>6, MarkGrants
        <2>8. Staged(p)' /\ LockHeld(p)' /\ OwnJournal(p)'
            BY <1>1, <1>2, <1>3, <2>4, <2>6
               DEF Consistent, Staged, LockHeld, LockedPC, OwnJournal, SameTask, JournalFine
        <2>9. References(p)' /\ Untouched(p)'
            BY <1>1, <1>2, <2>4, <2>5, <2>7 DEF Consistent, References, Untouched, Touched, SameTask
        <2>10. Planned(p)' /\ Written(p)'
            BY <1>1, <1>2, <2>4 DEF Consistent, Planned, Written, SameTask
        <2>11. QED BY <2>3, <2>7, <2>8, <2>9, <2>10, StepKeeps DEF Consistent
    <1>5. CASE job' = [job EXCEPT ![p].pc = "releasing"] /\ job[p].result = "success"
               /\ UNCHANGED <<snap, journal>>
        <2> DEFINE j == [job[p] EXCEPT !.pc = "releasing"]
        <2>1. j \in Job
            BY <1>1 DEF Job, PC
        <2>2. job' = [job EXCEPT ![p] = j]
            BY <1>1, <1>5 DEF TypeOK
        <2>3. Moves(p) /\ job'[p] = j
            BY <1>1, <2>1, <2>2, MoveTo
        <2>4. /\ SameTask(p) /\ SamePlan(p)
              /\ job'[p].pc = "releasing" /\ job'[p].todo = job[p].todo
              /\ job'[p].result = "success" /\ job'[p].doomed = job[p].doomed
            BY <1>1, <1>5, <2>3 DEF Job, SameTask, SamePlan
        <2>5. Staged(p)' /\ LockHeld(p)' /\ OwnJournal(p)'
            BY <1>1, <1>2, <1>5, <2>4 DEF Consistent, Staged, LockHeld, LockedPC, OwnJournal, SameTask
        <2>6. References(p)' /\ Untouched(p)'
            BY <1>1, <1>2, <1>5, <2>4 DEF Consistent, References, Untouched, Touched, SameTask
        <2>7. Planned(p)' /\ Written(p)'
            BY <1>1, <1>2, <2>4 DEF Consistent, Planned, Written, SameTask
        <2>8. QED BY <1>2, <1>5, <2>3, <2>5, <2>6, <2>7, JobOnly DEF Consistent
    <1>6. QED BY <1>4, <1>5 DEF Complete


-----------------------------------------------------------------------------
(***************************************************************************)
(* The inductive invariant.                                                *)
(***************************************************************************)

LEMMA InitInv == Init => IInv
    <1> SUFFICES ASSUME Init PROVE IInv
        OBVIOUS
    <1>1. PICK n \in 0..MaxId : History \in [1..n -> Files]
        BY HistoryAssumption
    <1>2. DOMAIN History = 1..n /\ Cardinality(DOMAIN History) = n
        BY <1>1, FS_Interval
    <1>3. snap \in [Id -> Manifest]
        BY <1>1, <1>2 DEF Init, Manifest, Missing, Files
    <1>4. nextId = n + 1 /\ nextId \in 1..(MaxId + 1)
        BY <1>2 DEF Init
    <1>5. job \in [Proc -> Job]
        BY DEF Init, Idle, Job, PC
    <1>6. TypeOK
        BY <1>3, <1>4, <1>5 DEF TypeOK, Init, NoJournal, Phase
    <1>7. Recoverable
        <2>1. \A s \in Id : s >= nextId => ~Exists(s)
            BY <1>1, <1>2, <1>4 DEF Init, Exists, Missing
        <2>2. journal.pre < nextId /\ journal.phase = "none"
            BY <1>1, <1>4 DEF Init, NoJournal
        <2>3. QED BY <2>1, <2>2 DEF Recoverable
    <1>8. ASSUME NEW p \in Proc PROVE Consistent(p)
        BY <1>1, <1>4 DEF Init, Idle, Consistent, Staged, LockHeld, LockedPC, References, Untouched,
           Planned, Written, OwnJournal
    <1>9. QED BY <1>6, <1>7, <1>8 DEF IInv

LEMMA StutterKeeps ==
    ASSUME IInv, UNCHANGED vars
    PROVE  IInv'
    BY DEF vars, IInv, TypeOK, Recoverable, Exists, Captured, Consistent, Staged, LockHeld, References,
       Untouched, Touched, Planned, Written, OwnJournal

LEMMA NextKeeps ==
    ASSUME IInv, [Next]_vars
    PROVE  IInv'
    <1>1. ASSUME NEW p \in Proc, Collect(p)
          PROVE  IInv'
        BY <1>1, CreateKeeps, ListForGcKeeps, PurgeKeeps, CreateDoneKeeps, GcDoneKeeps DEF Collect
    <1>2. ASSUME NEW p \in Proc, Locking(p)
          PROVE  IInv'
        BY <1>2, PlanRestoreKeeps, AcquireKeeps, LockRefusedKeeps, WriteJournalKeeps, UnlockKeeps,
           ClearJournalKeeps, RefuseKeeps, TakePreChangeKeeps DEF Locking
    <1>3. ASSUME NEW p \in Proc, Restore(p)
          PROVE  IInv'
        BY <1>3, StartWritingKeeps, WriteFailsKeeps, ReconvergedKeeps, ReconvergeFailsKeeps,
           WriteFileKeeps, RollBackFileKeeps, RolledBackKeeps, RollBackFailsKeeps DEF Restore
    <1>4. ASSUME NEW p \in Proc, Reset(p)
          PROVE  IInv'
        BY <1>4, StartApplyKeeps, AppliedKeeps, ApplyFailsKeeps, ApplyFileKeeps, RecordAppliedKeeps,
           RecordFailsKeeps, CompleteKeeps DEF Reset
    <1>5. QED BY <1>1, <1>2, <1>3, <1>4, CrashKeeps, StutterKeeps DEF Next

\* Whatever the processes do to each other, wherever they die and however the
\* unlocked GC passes interleave, every process stays consistent with the files,
\* the snapshots, the flock and the journal.
THEOREM HistoryInductive == Spec => []IInv
    <1>1. IInv /\ [Next]_vars => IInv'
        BY NextKeeps
    <1>2. QED BY InitInv, <1>1, PTL DEF Spec

-----------------------------------------------------------------------------
(***************************************************************************)
(* What follows from it.                                                   *)
(***************************************************************************)

\* The pre-change snapshot of a running transaction, and the one a journal in
\* mid-operation names, are on disk, and the former says what every file the
\* transaction leaves alone holds (_create_pre_change_snapshot, gc.py, lock.py).
THEOREM PreChangeStays == Spec => []PreChangeKept
    <1>1. IInv => PreChangeKept
        BY DEF IInv, Recoverable, Consistent, References, Untouched, PreChangeKept
    <1>2. QED BY <1>1, HistoryInductive, PTL

\* A restore or a reset that reports a rollback has put every captured file back
\* (_restore_rollback, _auto_rollback).
THEOREM RollbacksRestore == Spec => []RollbackRestores
    <1>1. ASSUME IInv, NEW p \in Proc, job[p].pc = "releasing", job[p].result = "rolled_back"
          PROVE  \A f \in File : Captured(job[p].pre, f) => live[f] = snap[job[p].pre].files[f]
        <2>1. job[p].todo = {}
            BY <1>1 DEF IInv, Consistent, Planned
        <2>2. QED BY <1>1, <2>1 DEF IInv, Consistent, Written
    <1>2. IInv => RollbackRestores
        BY <1>1 DEF RollbackRestores
    <1>3. QED BY <1>2, HistoryInductive, PTL

\* A restore that reports success wrote the change set it planned before it had
\* the lock, and nothing else (execute_restore_snapshot).
THEOREM RestoresWrite == Spec => []RestoreWrites
    <1>1. ASSUME IInv, NEW p \in Proc,
                 job[p].kind = "restore", job[p].pc = "releasing", job[p].result = "success"
          PROVE  /\ \A f \in job[p].plan : Exists(job[p].target) =>
                                              live[f] = snap[job[p].target].files[f]
                 /\ \A f \in File \ job[p].plan : live[f] = snap[job[p].pre].files[f]
        <2>1. Consistent(p) /\ job[p].todo = {}
            BY <1>1 DEF IInv, Consistent, Planned
        <2>2. flock = p /\ job[p].pre # 0 /\ Touched(p) = job[p].plan
            BY <1>1, <2>1 DEF Consistent, Staged, LockHeld, LockedPC, Touched
        <2>3. QED BY <1>1, <2>1, <2>2 DEF Consistent, Written, Untouched
    <1>2. IInv => RestoreWrites
        BY <1>1 DEF RestoreWrites
    <1>3. QED BY <1>2, HistoryInductive, PTL

\* Past its start a transaction has its own journal on disk or none (acquire,
\* update_journal, release).
THEOREM JournalIsOwn == Spec => []JournalOwn
    <1>1. IInv => JournalOwn
        BY DEF IInv, Consistent, JournalOwn
    <1>2. QED BY <1>1, HistoryInductive, PTL

\* A snapshot goes only by a deletion of a GC pass that listed it.
LEMMA OnlyPurgeRemoves ==
    ASSUME IInv, [Next]_vars, NEW s \in Id, Exists(s), snap'[s].type = "none"
    PROVE  \E q \in Proc : job[q].pc = "purging" /\ s \in job[q].doomed
    <1>1. TypeOK
        BY DEF IInv
    <1>2. snap' # snap
        BY DEF Exists
    <1>3. ASSUME NEW type \in {"rollback_eligible", "ephemeral"}, NEW status \in {"pending", "applied"},
                 TakeSnapshot(type, status)
          PROVE  FALSE
        BY <1>1, <1>3 DEF TakeSnapshot, TypeOK, Exists
    <1>4. ASSUME NEW u, NEW status, Mark(u, status)
          PROVE  FALSE
        BY <1>1, <1>4 DEF Mark, TypeOK, Exists, Manifest
    <1>5. ASSUME NEW p \in Proc, Purge(p)
          PROVE  job[p].pc = "purging" /\ s \in job[p].doomed
        BY <1>1, <1>5 DEF Purge, TypeOK, Exists
    <1>6. ASSUME NEW p \in Proc, Collect(p)
          PROVE  Purge(p)
        BY <1>2, <1>3, <1>6 DEF Collect, Create, ListForGc, CreateDone, GcDone
    <1>7. ASSUME NEW p \in Proc, Locking(p)
          PROVE  FALSE
        BY <1>2, <1>3, <1>7 DEF Locking, PlanRestore, Acquire, LockRefused, WriteJournal, Unlock,
           ClearJournal, Refuse, TakePreChange
    <1>8. ASSUME NEW p \in Proc, Restore(p)
          PROVE  FALSE
        BY <1>2, <1>4, <1>8 DEF Restore, StartWriting, WriteFails, Reconverged, ReconvergeFails,
           WriteFile, RollBackFile, RolledBack, RollBackFails, Finish
    <1>9. ASSUME NEW p \in Proc, Reset(p)
          PROVE  FALSE
        BY <1>2, <1>3, <1>4, <1>9 DEF Reset, StartApply, Applied, ApplyFails, ApplyFile,
           RecordApplied, RecordFails, Complete, Finish
    <1>10. ASSUME NEW p \in Proc, Crash(p)
           PROVE  FALSE
        BY <1>2, <1>10 DEF Crash
    <1>11. QED BY <1>2, <1>5, <1>6, <1>7, <1>8, <1>9, <1>10 DEF Next, vars

\* While a restore holds the lock its source goes only by the pass of an unlocked
\* `snapshot create`: its own pass is told of the source, and the passes of the
\* other kinds need the lock (gc_protect_ids, `gc run`).
THEOREM SourceIsSpared == Spec => SourceSpared
    <1> DEFINE Spares(p) ==
            (job[p].kind = "restore" /\ flock = p /\ Exists(job[p].target)
               /\ snap'[job[p].target].type = "none") =>
                \E q \in Proc : job[q].kind = "create" /\ job[p].target \in job[q].doomed
    <1>1. ASSUME IInv, [Next]_vars, NEW p \in Proc
          PROVE  Spares(p)
        <2> SUFFICES ASSUME job[p].kind = "restore", flock = p, Exists(job[p].target),
                            snap'[job[p].target].type = "none"
                     PROVE  \E q \in Proc : job[q].kind = "create" /\ job[p].target \in job[q].doomed
            OBVIOUS
        <2>1. Consistent(p) /\ job[p].target \in Id
            BY <1>1, JobTypes DEF IInv, Consistent, Staged, Job
        <2>2. PICK q \in Proc : job[q].pc = "purging" /\ job[p].target \in job[q].doomed
            BY <1>1, <2>1, OnlyPurgeRemoves
        <2>3. q # p
            BY <2>1, <2>2 DEF Consistent, References
        <2>4. Consistent(q) /\ job[q] \in Job
            BY <1>1, JobTypes DEF IInv
        <2>5. job[q].kind \notin {"restore", "reset", "gc"}
            BY <2>2, <2>3, <2>4 DEF Consistent, LockHeld, LockedPC
        <2>6. job[q].kind # "none"
            BY <2>2, <2>4 DEF Consistent, Staged
        <2>7. QED BY <2>2, <2>4, <2>5, <2>6 DEF Job
    <1> DEFINE Spared == \A p \in Proc : Spares(p)
    <1>2. ASSUME IInv, [Next]_vars
          PROVE  [Spared]_vars
        BY <1>1, <1>2
    <1>3. QED BY <1>2, HistoryInductive, PTL DEF Spec, SourceSpared
=============================================================================
