------------------------ MODULE ConfigRollbackProofs ------------------------
(***************************************************************************)
(* Proofs about ConfigRollback, for any rows, tasks, snapshots, failures and *)
(* bounds: the types; that an adoption overwrites nothing its plan did not *)
(* see; that the files hold what is desired whenever nothing runs          *)
(* (AdoptedIsRestored).                                                    *)
(***************************************************************************)
EXTENDS ConfigRollback, TLAPS

PinsBound ==
    roll.st = "planned" =>
        /\ DOMAIN roll.pins = DOMAIN roll.change
        /\ DOMAIN roll.change \subseteq roll.decides
        /\ \A r \in DOMAIN roll.change :
              /\ r \notin roll.since => rev[r] = roll.pins[r]
              /\ r \in roll.since \ roll.gone => rev[r] > roll.pins[r]

-----------------------------------------------------------------------------
(***************************************************************************)
(* The rows: what a write, and the history of a plan, do to the types.     *)
(***************************************************************************)
\* Writing contents over some rows keeps rows and revisions well typed.
LEMMA WriteTyped ==
    ASSUME TypeOK, NEW change, OfRows(change, Content), Write(change)
    PROVE  /\ desired' \in Rows /\ rev' \in [Row -> Nat]
           /\ \A r \in Row : rev'[r] = 0 <=> desired'[r] = None
<1>1. /\ \A r \in DOMAIN change : change[r] \in Content
      /\ desired \in [Row -> Content] /\ rev \in [Row -> Nat]
      /\ \A r \in Row : rev[r] = 0 <=> desired[r] = None
  BY DEF TypeOK, RowsTyped, OfRows, Rows, Content
<1>2. desired' \in [Row -> Content]
  BY <1>1 DEF Write
<1>3. rev' \in [Row -> Nat]
  BY <1>1 DEF Write
<1>4. \A r \in Row : rev'[r] = 0 <=> desired'[r] = None
  BY <1>1 DEF Write
<1> QED
  BY <1>2, <1>3, <1>4 DEF Rows, Content

\* One row with a content is a function of some rows.
LEMMA OneTyped ==
    ASSUME NEW r \in Row, NEW v \in Content
    PROVE  OfRows(One(r, v), Content) /\ DOMAIN One(r, v) = {r} /\ One(r, v)[r] = v
<1>1. {r} \in SUBSET Row /\ One(r, v) \in [{r} -> Content]
  BY DEF One
<1> QED
  BY <1>1 DEF OfRows, One

\* So is none.
LEMMA NoRowsTyped ==
    OfRows(NoRows, Content) /\ OfRows(NoRows, Nat) /\ DOMAIN NoRows = {}
<1>1. /\ {} \in SUBSET Row /\ DOMAIN NoRows = {}
      /\ NoRows \in [{} -> Content] /\ NoRows \in [{} -> Nat]
  BY DEF NoRows
<1> QED
  BY <1>1 DEF OfRows

\* A write that a plan does not know of changes nothing of the plan but its history.
LEMMA UnplannedTyped ==
    ASSUME TypeOK, NEW change, OfRows(change, Content), roll' = Unplanned(change)
    PROVE  /\ RollTyped'
           /\ roll'.st = roll.st /\ roll'.change = roll.change /\ roll'.pins = roll.pins
           /\ roll'.decides = roll.decides /\ roll'.to = roll.to
           /\ roll.st = "planned" =>
                LET rows == DOMAIN change \cap roll.decides
                IN  /\ roll'.since = roll.since \cup rows
                    /\ roll'.gone = roll.gone \cup {r \in rows : change[r] = None}
<1>1. DOMAIN change \subseteq Row
  BY DEF OfRows
<1> DEFINE rows == IF roll.st = "planned" THEN DOMAIN change \cap roll.decides ELSE {}
<1>2. /\ rows \subseteq Row
      /\ roll' = [roll EXCEPT !.since = @ \cup rows,
                              !.gone = @ \cup {r \in rows : change[r] = None}]
      /\ roll.st = "planned" => rows = DOMAIN change \cap roll.decides
  <2>1. rows \subseteq Row
    BY <1>1
  <2>2. roll' = [roll EXCEPT !.since = @ \cup rows,
                             !.gone = @ \cup {r \in rows : change[r] = None}]
    BY Zenon DEF Unplanned
  <2> QED
    BY <2>1, <2>2
<1> HIDE DEF rows
<1>3. roll \in RollType
  BY DEF TypeOK, RollTyped
<1>4. /\ roll'.st = roll.st /\ roll'.change = roll.change /\ roll'.pins = roll.pins
      /\ roll'.decides = roll.decides /\ roll'.to = roll.to /\ roll'.prior = roll.prior
      /\ roll'.before = roll.before
      /\ roll'.since = roll.since \cup rows
      /\ roll'.gone = roll.gone \cup {r \in rows : change[r] = None}
  BY <1>2, <1>3 DEF RollType
<1>5. roll' \in RollType'
  BY <1>2, <1>3, <1>4 DEF RollType
<1> QED
  BY <1>2, <1>4, <1>5 DEF RollTyped, TypeOK, OfRows

-----------------------------------------------------------------------------
(***************************************************************************)
(* The types.                                                              *)
(***************************************************************************)
LEMMA TypeInit == Init => TypeOK
<1> SUFFICES ASSUME Init PROVE TypeOK
  OBVIOUS
<1>1. RowsTyped /\ file \in Rows
  BY RollbackBounds DEF Init, RowsTyped, Rows
<1>2. TaskTyped
  BY DEF Init, TaskTyped, TaskType, Idle, Content, Live
<1>3. RollTyped
  <2>1. roll = NoRoll(0)
    BY DEF Init
  <2>2. roll \in RollType
    BY <2>1 DEF NoRoll, RollType, Snap
  <2> QED
    BY <2>1, <2>2, NoRowsTyped DEF RollTyped, NoRoll
<1>4. SnapTyped
  <2>1. PICK old \in Past : snap = [s \in Snap |-> IF s = Old THEN old ELSE None] /\ payload = snap
    BY DEF Init
  <2>2. old \in Rows
    BY RollbackBounds
  <2> QED
    BY <2>1, <2>2 DEF Init, SnapTyped, Snap
<1>5. HistoryTyped
  BY RollbackBounds DEF Init, HistoryTyped
<1> QED
  BY <1>1, <1>2, <1>3, <1>4, <1>5 DEF TypeOK

\* What a step leaves alone stays well typed; a fault is counted within its bound.
LEMMA Frame ==
    ASSUME TypeOK
    PROVE  /\ UNCHANGED <<desired, rev>> => RowsTyped'
           /\ UNCHANGED file => (file \in Rows)'
           /\ UNCHANGED task => TaskTyped'
           /\ UNCHANGED roll => RollTyped'
           /\ UNCHANGED snaps => SnapTyped'
           /\ UNCHANGED <<history, faults>> => HistoryTyped'
           /\ UNCHANGED history /\ Fault => HistoryTyped'
<1>1. UNCHANGED <<desired, rev>> => RowsTyped'
  BY DEF TypeOK, RowsTyped
<1>2. UNCHANGED task => TaskTyped'
  BY DEF TypeOK, TaskTyped, Live
<1>3. UNCHANGED roll => RollTyped'
  BY DEF TypeOK, RollTyped, RollType
<1>4. UNCHANGED snaps => SnapTyped'
  BY DEF TypeOK, SnapTyped, snaps
<1>5. UNCHANGED <<history, faults>> => HistoryTyped'
  BY DEF TypeOK, HistoryTyped, history
<1>6. UNCHANGED history /\ Fault => HistoryTyped'
  BY RollbackBounds DEF TypeOK, HistoryTyped, history, Fault
<1> QED
  BY <1>1, <1>2, <1>3, <1>4, <1>5, <1>6 DEF TypeOK

\* A task that works has a row and contents.
LEMMA Working ==
    ASSUME TypeOK, NEW t \in Task, task[t].st \notin {"new", "done"}
    PROVE  task[t] \in TaskType /\ task[t].row \in Row
BY DEF TypeOK, TaskTyped, Live

\* A task that goes on with its row, or ends, stays well typed.
LEMMA Moved ==
    ASSUME TypeOK, NEW t \in Task, NEW next \in TaskType,
           next.st \notin {"new", "done"} => next.row \in Row,
           task' = [task EXCEPT ![t] = next]
    PROVE  TaskTyped'
BY DEF TypeOK, TaskTyped, Live

\* Every step of a task keeps the types.
LEMMA TaskStep ==
    ASSUME TypeOK, NEW t \in Task,
           \/ \E r \in Row, v \in Value \cup {None} : Apply(t, r, v)
           \/ Stage(t) \/ StageFails(t) \/ RollBack(t)
           \/ SnapshotAfter(t) \/ SnapshotFails(t) \/ Succeed(t) \/ Fail(t)
    PROVE  TypeOK'
<1> USE Frame, Working
<1>1. CASE \E r \in Row, v \in Value \cup {None} : Apply(t, r, v)
  <2>1. PICK r \in Row, v \in Content : Apply(t, r, v)
    BY <1>1 DEF Content
  <2>2. OfRows(One(r, v), Content)
    BY OneTyped
  <2>3. RowsTyped'
    BY <2>1, <2>2, WriteTyped DEF Apply, RowsTyped
  <2>4. RollTyped'
    BY <2>1, <2>2, UnplannedTyped DEF Apply
  <2>5. TaskTyped'
    <3>1. desired[r] \in Content
      BY DEF TypeOK, RowsTyped, Rows, Content
    <3> DEFINE next == [st |-> "applied", row |-> r, val |-> v, prior |-> desired[r], before |-> None]
    <3>2. next \in TaskType /\ next.row \in Row
      BY <3>1 DEF TaskType, Content
    <3>3. task' = [task EXCEPT ![t] = next]
      BY <2>1 DEF Apply
    <3> QED
      BY <3>2, <3>3, Moved
  <2>6. HistoryTyped'
    BY <2>1 DEF Apply, TypeOK, HistoryTyped, Live
  <2> QED
    BY <2>1, <2>3, <2>4, <2>5, <2>6 DEF Apply, TypeOK
<1>2. CASE Stage(t)
  <2>1. task[t] \in TaskType /\ task[t].row \in Row
    BY <1>2 DEF Stage
  <2>2. file[task[t].row] \in Content
    BY <2>1 DEF TypeOK, Rows, Content
  <2> DEFINE next == [task[t] EXCEPT !.st = "changed", !.before = file[task[t].row]]
  <2>3. next \in TaskType /\ next.row \in Row
    BY <2>1, <2>2 DEF TaskType
  <2>4. task' = [task EXCEPT ![t] = next]
    BY <1>2 DEF Stage, TypeOK, TaskTyped
  <2>5. (file \in Rows)'
    BY <1>2, <2>1 DEF Stage, TypeOK, Rows, TaskType, Content
  <2> QED
    BY <1>2, <2>3, <2>4, <2>5, Moved DEF Stage, TypeOK
<1>3. CASE StageFails(t)
  <2>1. task[t] \in TaskType /\ task[t].row \in Row
    BY <1>3 DEF StageFails
  <2> DEFINE next == [task[t] EXCEPT !.st = "failing"]
  <2>2. next \in TaskType /\ next.row \in Row
    BY <2>1 DEF TaskType
  <2>3. task' = [task EXCEPT ![t] = next]
    BY <1>3 DEF StageFails
  <2> QED
    BY <1>3, <2>2, <2>3, Moved DEF StageFails, TypeOK
<1>4. CASE RollBack(t)
  <2>1. task[t] \in TaskType /\ task[t].row \in Row
    BY <1>4 DEF RollBack
  <2> DEFINE next == [task[t] EXCEPT !.st = "failing"]
  <2>2. next \in TaskType /\ next.row \in Row
    BY <2>1 DEF TaskType
  <2>3. task' = [task EXCEPT ![t] = next]
    BY <1>4 DEF RollBack
  <2>4. (file \in Rows)'
    BY <1>4, <2>1 DEF RollBack, TypeOK, Rows, TaskType, Content
  <2> QED
    BY <1>4, <2>2, <2>3, <2>4, Moved DEF RollBack, TypeOK
<1>5. CASE SnapshotAfter(t)
  <2>1. task[t] \in TaskType /\ task[t].row \in Row
    BY <1>5 DEF SnapshotAfter
  <2> DEFINE next == [task[t] EXCEPT !.st = "snapped"]
  <2>2. next \in TaskType /\ next.row \in Row
    BY <2>1 DEF TaskType
  <2>3. task' = [task EXCEPT ![t] = next]
    BY <1>5 DEF SnapshotAfter
  <2>4. SnapTyped'
    BY <1>5 DEF SnapshotAfter, TypeOK, SnapTyped, Snap
  <2> QED
    BY <1>5, <2>2, <2>3, <2>4, Moved DEF SnapshotAfter, TypeOK
<1>6. CASE SnapshotFails(t)
  <2>1. task[t] \in TaskType /\ task[t].row \in Row
    BY <1>6 DEF SnapshotFails
  <2> DEFINE next == [task[t] EXCEPT !.st = "failing"]
  <2>2. next \in TaskType /\ next.row \in Row
    BY <2>1 DEF TaskType
  <2>3. task' = [task EXCEPT ![t] = next]
    BY <1>6 DEF SnapshotFails
  <2>4. HistoryTyped'
    BY <1>6, RollbackBounds DEF SnapshotFails, TypeOK, HistoryTyped, Fault
  <2> QED
    BY <1>6, <2>2, <2>3, <2>4, Moved DEF SnapshotFails, TypeOK
<1>7. CASE Succeed(t)
  <2>1. Idle("done") \in TaskType /\ Idle("done").st = "done"
    BY DEF Idle, TaskType, Content
  <2>2. TaskTyped'
    BY <1>7, <2>1, Moved DEF Succeed
  <2>3. SnapTyped'
    BY <1>7 DEF Succeed, Capture, TypeOK, RowsTyped, SnapTyped, Snap
  <2>4. HistoryTyped'
    BY <1>7 DEF Succeed, TypeOK, HistoryTyped
  <2> QED
    BY <1>7, <2>2, <2>3, <2>4 DEF Succeed, TypeOK
<1>8. CASE Fail(t)
  <2> DEFINE undo == One(task[t].row, task[t].prior)
  <2>1. task[t].row \in Row /\ task[t].prior \in Content
    BY <1>8 DEF Fail, TaskType
  <2>2. OfRows(undo, Content)
    BY <2>1, OneTyped
  <2>3. Write(undo) /\ roll' = Unplanned(undo)
    BY <1>8 DEF Fail
  <2>4. RowsTyped'
    BY <2>2, <2>3, WriteTyped DEF RowsTyped
  <2>5. RollTyped'
    BY <2>2, <2>3, UnplannedTyped
  <2>6. Idle("done") \in TaskType /\ Idle("done").st = "done"
    BY DEF Idle, TaskType, Content
  <2>7. TaskTyped'
    BY <1>8, <2>6, Moved DEF Fail
  <2> QED
    BY <1>8, <2>4, <2>5, <2>7 DEF Fail, TypeOK
<1> QED
  BY <1>1, <1>2, <1>3, <1>4, <1>5, <1>6, <1>7, <1>8

\* Between two rollbacks nothing is planned.
LEMMA NoRollTyped ==
    ASSUME NEW n \in Nat, roll' = NoRoll(n)
    PROVE  RollTyped'
<1>1. roll' \in RollType'
  BY DEF NoRoll, RollType, Snap
<1> QED
  BY <1>1, NoRowsTyped DEF RollTyped, NoRoll

\* What an adoption decides, and the overlay of a payload with its pins, are of rows.
LEMMA OverlayTyped ==
    ASSUME TypeOK, NEW s \in Snap, payload[s] # None
    PROVE  /\ Decides(s) \subseteq Row
           /\ DOMAIN AdoptOverlay(s) \subseteq Decides(s)
           /\ OfRows(AdoptOverlay(s), Content) /\ OfRows(Pins(AdoptOverlay(s)), Nat)
           /\ DOMAIN Pins(AdoptOverlay(s)) = DOMAIN AdoptOverlay(s)
<1>1. \A d \in Domains : d.kinds \subseteq Row /\ d.primary \subseteq Row
  BY DEF Domains, Row
<1>2. Decides(s) \subseteq Row
  BY <1>1 DEF Decides
<1>3. Adopted(s) \subseteq Decides(s)
  BY DEF Adopted
<1>4. payload[s] \in [Row -> Content] /\ rev \in [Row -> Nat]
  BY DEF TypeOK, RowsTyped, SnapTyped, Rows, Content
<1>5. AdoptOverlay(s) \in [Adopted(s) -> Content]
  BY <1>2, <1>3, <1>4 DEF AdoptOverlay
<1>6. Pins(AdoptOverlay(s)) \in [Adopted(s) -> Nat]
  BY <1>2, <1>3, <1>4, <1>5 DEF Pins
<1>7. Adopted(s) \in SUBSET Row
  BY <1>2, <1>3
<1> QED
  BY <1>2, <1>3, <1>5, <1>6, <1>7 DEF OfRows

\* Every step of snapshots and of the plan of a rollback keeps the types.
LEMMA PlanStep ==
    ASSUME TypeOK,
           \/ ObserveSnapshots \/ \E s \in Snap : Collect(s)
           \/ \E s \in Snap, adopt \in BOOLEAN : Plan(s, adopt)
           \/ Refuse \/ ApplyRollback
    PROVE  TypeOK'
<1> USE Frame
<1>1. CASE ObserveSnapshots
  <2>1. SnapTyped'
    BY <1>1 DEF ObserveSnapshots, TypeOK, SnapTyped
  <2> QED
    BY <1>1, <2>1 DEF ObserveSnapshots, TypeOK
<1>2. CASE \E s \in Snap : Collect(s)
  <2>1. SnapTyped'
    BY <1>2 DEF Collect, TypeOK, SnapTyped
  <2> QED
    BY <1>2, <2>1 DEF Collect, TypeOK
<1>3. CASE \E s \in Snap, adopt \in BOOLEAN : Plan(s, adopt)
  <2>1. PICK s \in Snap, adopt \in BOOLEAN : Plan(s, adopt)
    BY <1>3
  <2>2. roll.n \in Nat
    BY DEF TypeOK, RollTyped, RollType
  <2>3. RollTyped'
    <3>1. CASE adopt /\ payload[s] # None
      <4> DEFINE change == AdoptOverlay(s)
      <4>1. roll' = [NoRoll(roll.n) EXCEPT !.st = "planned", !.to = s, !.decides = Decides(s),
                                           !.change = change, !.pins = Pins(change)]
        BY <2>1, <3>1 DEF Plan
      <4>2. Decides(s) \subseteq Row /\ OfRows(change, Content) /\ OfRows(Pins(change), Nat)
        BY <3>1, OverlayTyped
      <4> HIDE DEF change
      <4>3. /\ roll'.change = change /\ roll'.pins = Pins(change) /\ roll'.prior = NoRows
            /\ roll'.st = "planned"
        BY <4>1 DEF NoRoll
      <4>4. roll' \in RollType'
        BY <2>2, <4>1, <4>2 DEF NoRoll, RollType
      <4> QED
        BY <4>2, <4>3, <4>4, NoRowsTyped DEF RollTyped
    <3>2. CASE ~(adopt /\ payload[s] # None)
      <4>1. roll' = [NoRoll(roll.n) EXCEPT !.st = "planned", !.to = s]
        BY <2>1, <3>2 DEF Plan
      <4>2. /\ roll'.change = NoRows /\ roll'.pins = NoRows /\ roll'.prior = NoRows
            /\ roll'.st = "planned"
        BY <4>1 DEF NoRoll
      <4>3. roll' \in RollType'
        BY <2>2, <4>1 DEF NoRoll, RollType
      <4> QED
        BY <4>2, <4>3, NoRowsTyped DEF RollTyped
    <3> QED
      BY <3>1, <3>2
  <2> QED
    BY <2>1, <2>3 DEF Plan, TypeOK
<1>4. CASE Refuse
  <2>1. roll.n \in Nat
    BY DEF TypeOK, RollTyped, RollType
  <2>2. RollTyped'
    BY <1>4, <2>1, NoRollTyped DEF Refuse
  <2> QED
    BY <1>4, <2>2 DEF Refuse, TypeOK
<1>5. CASE ApplyRollback
  <2>1. roll \in RollType /\ OfRows(roll.change, Content)
    BY DEF TypeOK, RollTyped
  <2>2. RowsTyped'
    BY <1>5, <2>1, WriteTyped DEF ApplyRollback, RowsTyped
  <2>3. OfRows(Before(roll.change), Content)
    BY <2>1 DEF OfRows, Before, TypeOK, RowsTyped, Rows, Content
  <2>4. roll' = [roll EXCEPT !.st = "applied", !.pins = NoRows, !.prior = Before(roll.change),
                            !.since = {}, !.gone = {}]
    BY <1>5 DEF ApplyRollback
  <2>5. /\ roll'.st = "applied" /\ roll'.pins = NoRows /\ roll'.prior = Before(roll.change)
        /\ roll'.change = roll.change
    BY <2>1, <2>4 DEF RollType
  <2>6. roll' \in RollType'
    BY <2>1, <2>4 DEF RollType
  <2>7. RollTyped'
    BY <2>1, <2>3, <2>5, <2>6, NoRowsTyped DEF RollTyped
  <2>8. HistoryTyped'
    BY <1>5 DEF ApplyRollback, TypeOK, HistoryTyped, Live
  <2> QED
    BY <1>5, <2>2, <2>7, <2>8 DEF ApplyRollback, TypeOK
<1> QED
  BY <1>1, <1>2, <1>3, <1>4, <1>5

\* A run of the rollback that goes on keeps its plan.
LEMMA RollMoved ==
    ASSUME TypeOK,
           NEW st \in {"writing", "restored", "failing"}, NEW before \in Rows \cup {None},
           st # "failing" => before \in Rows,
           roll' = [roll EXCEPT !.st = st, !.before = before]
    PROVE  RollTyped'
<1>1. roll \in RollType /\ OfRows(roll.change, Content) /\ OfRows(roll.prior, Content)
      /\ OfRows(roll.pins, Nat)
  BY DEF TypeOK, RollTyped
<1>2. /\ roll' \in RollType' /\ roll'.st = st /\ roll'.before = before
      /\ roll'.change = roll.change /\ roll'.prior = roll.prior /\ roll'.pins = roll.pins
  BY <1>1 DEF RollType
<1> QED
  BY <1>1, <1>2 DEF RollTyped

\* Every step of the run of a rollback keeps the types.
LEMMA RunStep ==
    ASSUME TypeOK,
           \/ Restore \/ RestoreMissing \/ RestoreBreaks \/ RestoreDone \/ RestoreUndone
           \/ RollbackSnapshotFails \/ RollbackSucceeds \/ RollbackFails
    PROVE  TypeOK'
<1> USE Frame
<1>1. /\ roll \in RollType /\ roll.before \in Rows \cup {None} /\ roll.n + 1 \in Nat
      /\ roll.to \in Snap
  BY DEF TypeOK, RollTyped, RollType
<1>2. \A s \in store : snap[s] \in [Row -> Content]
  BY DEF TypeOK, SnapTyped, Rows, Content
<1>3. file \in [Row -> Content] /\ Rows = [Row -> Content]
  BY DEF TypeOK, Rows, Content
\* A step that only moves the state of the run.
<1>4. ASSUME NEW st \in {"restored", "failing"}, roll' = [roll EXCEPT !.st = st],
             st # "failing" => roll.before \in Rows
      PROVE  RollTyped'
  <2>1. roll' = [roll EXCEPT !.st = st, !.before = roll.before]
    BY <1>1, <1>4 DEF RollType
  <2> QED
    BY <1>1, <1>4, <2>1, RollMoved
<1>5. CASE Restore
  <2>1. file' \in Rows /\ file \in Rows
    BY <1>2, <1>3, <1>5 DEF Restore
  <2>2. RollTyped'
    BY <1>5, <2>1, RollMoved DEF Restore
  <2> QED
    BY <1>5, <2>1, <2>2 DEF Restore, TypeOK
<1>6. CASE RestoreMissing
  BY <1>4, <1>6 DEF RestoreMissing, TypeOK
<1>7. CASE RestoreBreaks
  <2>1. (file \in Rows)'
    BY <1>2, <1>3, <1>7 DEF RestoreBreaks
  <2>2. RollTyped'
    BY <1>4, <1>7 DEF RestoreBreaks
  <2>3. HistoryTyped'
    BY <1>7, RollbackBounds DEF RestoreBreaks, TypeOK, HistoryTyped, Fault
  <2> QED
    BY <1>7, <2>1, <2>2, <2>3 DEF RestoreBreaks, TypeOK
<1>8. CASE RestoreDone
  <2>1. roll.before \in Rows
    BY <1>8 DEF RestoreDone, TypeOK, RollTyped
  <2> QED
    BY <1>4, <1>8, <2>1 DEF RestoreDone, TypeOK
<1>9. CASE RestoreUndone
  <2>1. roll.before \in [Row -> Content]
    BY <1>3, <1>9 DEF RestoreUndone, TypeOK, RollTyped
  <2>2. (file \in Rows)'
    BY <1>3, <1>9, <2>1 DEF RestoreUndone
  <2>3. RollTyped'
    BY <1>4, <1>9 DEF RestoreUndone
  <2>4. HistoryTyped'
    BY <1>9, RollbackBounds DEF RestoreUndone, TypeOK, HistoryTyped, Fault
  <2> QED
    BY <1>9, <2>2, <2>3, <2>4 DEF RestoreUndone, TypeOK
<1>10. CASE RollbackSnapshotFails
  <2>1. RollTyped'
    BY <1>4, <1>10 DEF RollbackSnapshotFails
  <2>2. HistoryTyped'
    BY <1>10, RollbackBounds DEF RollbackSnapshotFails, TypeOK, HistoryTyped, Fault
  <2> QED
    BY <1>10, <2>1, <2>2 DEF RollbackSnapshotFails, TypeOK
<1>11. CASE RollbackSucceeds
  <2>1. RollTyped'
    BY <1>1, <1>11, NoRollTyped DEF RollbackSucceeds
  <2>2. HistoryTyped'
    BY <1>11 DEF RollbackSucceeds, TypeOK, HistoryTyped
  <2> QED
    BY <1>11, <2>1, <2>2 DEF RollbackSucceeds, TypeOK
<1>12. CASE RollbackFails
  <2>1. RollTyped'
    BY <1>1, <1>12, NoRollTyped DEF RollbackFails
  <2>2. RowsTyped'
    BY <1>12, WriteTyped DEF RollbackFails, RowsTyped, TypeOK, RollTyped
  <2> QED
    BY <1>12, <2>1, <2>2 DEF RollbackFails, TypeOK
<1> QED
  BY <1>5, <1>6, <1>7, <1>8, <1>9, <1>10, <1>11, <1>12

LEMMA TypeStep == TypeOK /\ [Next]_vars => TypeOK'
<1> SUFFICES ASSUME TypeOK, [Next]_vars PROVE TypeOK'
  OBVIOUS
<1>1. CASE UNCHANGED vars
  BY <1>1, Frame DEF vars, snaps, history, TypeOK
<1>2. CASE Next
  BY <1>2, TaskStep, PlanStep, RunStep DEF Next
<1> QED
  BY <1>1, <1>2

\* The variables keep their types through every failure of a task, a restore or a
\* snapshot (config-rollback.ts, config-rollback-executor.ts, engine.ts apply).
THEOREM TypeCorrect == Spec => []TypeOK
<1>1. Init => TypeOK
  BY TypeInit
<1>2. TypeOK /\ [Next]_vars => TypeOK'
  BY TypeStep
<1> QED
  BY <1>1, <1>2, PTL DEF Spec

-----------------------------------------------------------------------------
(***************************************************************************)
(* An adoption and the writes since its plan.                              *)
(***************************************************************************)
\* A write by a task keeps what is known of the pins of a plan.
LEMMA PinsUnderWrite ==
    ASSUME TypeOK, PinsBound, NEW change, OfRows(change, Content), Write(change),
           roll' = Unplanned(change)
    PROVE  PinsBound'
<1> SUFFICES ASSUME roll'.st = "planned", NEW r \in DOMAIN roll'.change
             PROVE  /\ DOMAIN roll'.pins = DOMAIN roll'.change
                    /\ DOMAIN roll'.change \subseteq roll'.decides
                    /\ r \notin roll'.since => rev'[r] = roll'.pins[r]
                    /\ r \in roll'.since \ roll'.gone => rev'[r] > roll'.pins[r]
  <2>1. roll'.st = "planned" => DOMAIN roll'.pins = DOMAIN roll'.change
                                  /\ DOMAIN roll'.change \subseteq roll'.decides
    BY UnplannedTyped DEF PinsBound
  <2> QED
    BY <2>1 DEF PinsBound
<1> DEFINE rows == DOMAIN change \cap roll.decides
<1>1. /\ roll.st = "planned" /\ roll'.change = roll.change /\ roll'.pins = roll.pins
      /\ roll'.decides = roll.decides /\ roll'.since = roll.since \cup rows
      /\ roll'.gone = roll.gone \cup {q \in rows : change[q] = None}
  BY UnplannedTyped
<1>2. /\ DOMAIN roll.pins = DOMAIN roll.change /\ DOMAIN roll.change \subseteq roll.decides
      /\ r \notin roll.since => rev[r] = roll.pins[r]
      /\ r \in roll.since \ roll.gone => rev[r] > roll.pins[r]
  BY <1>1 DEF PinsBound
<1>3. r \in Row /\ r \in roll.decides /\ rev[r] \in Nat /\ roll.pins[r] \in Nat
  BY <1>1, <1>2 DEF TypeOK, RollTyped, RowsTyped, OfRows
<1>4. CASE r \notin DOMAIN change
  BY <1>1, <1>2, <1>3, <1>4 DEF Write
<1>5. CASE r \in DOMAIN change /\ change[r] = None
  BY <1>1, <1>2, <1>3, <1>5
<1>6. CASE r \in DOMAIN change /\ change[r] # None
  <2>1. rev'[r] = rev[r] + 1
    BY <1>3, <1>6 DEF Write
  <2>2. r \in roll'.since /\ (r \in roll'.gone => r \in roll.gone)
    BY <1>1, <1>3, <1>6
  <2>3. r \notin roll'.gone => r \notin roll.gone
    BY <1>1
  <2> QED
    BY <1>1, <1>2, <1>3, <2>1, <2>2, <2>3
<1> QED
  BY <1>4, <1>5, <1>6

\* Every step keeps what is known of the pins.
LEMMA PinsStep == TypeOK /\ PinsBound /\ [Next]_vars => PinsBound'
<1> SUFFICES ASSUME TypeOK, PinsBound, [Next]_vars PROVE PinsBound'
  OBVIOUS
<1>1. UNCHANGED <<rev, roll>> => PinsBound'
  BY DEF PinsBound
<1>2. roll'.st # "planned" => PinsBound'
  BY DEF PinsBound
<1>3. \A n : NoRoll(n).st = "new"
  BY DEF NoRoll
<1>4. roll \in RollType
  BY DEF TypeOK, RollTyped
<1>5. ASSUME NEW t \in Task, NEW r \in Row, NEW v \in Value \cup {None}, Apply(t, r, v)
      PROVE  PinsBound'
  <2>1. OfRows(One(r, v), Content)
    BY OneTyped DEF Content
  <2> QED
    BY <1>5, <2>1, PinsUnderWrite DEF Apply
<1>6. ASSUME NEW t \in Task, Fail(t)
      PROVE  PinsBound'
  <2>1. task[t].row \in Row /\ task[t].prior \in Content
    BY <1>6, Working DEF Fail, TaskType
  <2>2. OfRows(One(task[t].row, task[t].prior), Content)
    BY <2>1, OneTyped
  <2> QED
    BY <1>6, <2>2, PinsUnderWrite DEF Fail
<1>7. ASSUME NEW t \in Task,
             \/ Stage(t) \/ StageFails(t) \/ RollBack(t)
             \/ SnapshotAfter(t) \/ SnapshotFails(t) \/ Succeed(t)
      PROVE  PinsBound'
  BY <1>1, <1>7 DEF Stage, StageFails, RollBack, SnapshotAfter, SnapshotFails, Succeed
<1>8. ASSUME ObserveSnapshots \/ \E s \in Snap : Collect(s)
      PROVE  PinsBound'
  BY <1>1, <1>8 DEF ObserveSnapshots, Collect
<1>9. ASSUME NEW s \in Snap, NEW adopt \in BOOLEAN, Plan(s, adopt)
      PROVE  PinsBound'
  <2>1. CASE adopt /\ payload[s] # None
    <3> DEFINE change == AdoptOverlay(s)
    <3>1. /\ DOMAIN change \subseteq Decides(s) /\ DOMAIN Pins(change) = DOMAIN change
      BY <2>1, OverlayTyped
    <3>2. \A r \in DOMAIN change : Pins(change)[r] = rev[r]
      BY DEF Pins
    <3>3. roll' = [NoRoll(roll.n) EXCEPT !.st = "planned", !.to = s, !.decides = Decides(s),
                                         !.change = change, !.pins = Pins(change)]
      BY <1>9, <2>1 DEF Plan
    <3> HIDE DEF change
    <3>4. /\ roll'.change = change /\ roll'.pins = Pins(change) /\ roll'.decides = Decides(s)
          /\ roll'.since = {}
      BY <3>3 DEF NoRoll
    <3>5. rev' = rev
      BY <1>9 DEF Plan
    <3> QED
      BY <3>1, <3>2, <3>4, <3>5 DEF PinsBound
  <2>2. CASE ~(adopt /\ payload[s] # None)
    <3>1. roll' = [NoRoll(roll.n) EXCEPT !.st = "planned", !.to = s]
      BY <1>9, <2>2 DEF Plan
    <3>2. roll'.change = NoRows /\ roll'.pins = NoRows
      BY <3>1 DEF NoRoll
    <3> QED
      BY <3>2, NoRowsTyped DEF PinsBound
  <2> QED
    BY <2>1, <2>2
<1>10. ASSUME \/ Refuse \/ ApplyRollback
              \/ Restore \/ RestoreMissing \/ RestoreBreaks \/ RestoreDone \/ RestoreUndone
              \/ RollbackSnapshotFails \/ RollbackSucceeds \/ RollbackFails
       PROVE  PinsBound'
  BY <1>2, <1>3, <1>4, <1>10
     DEF Refuse, ApplyRollback, Restore, RestoreMissing, RestoreBreaks, RestoreDone,
         RestoreUndone, RollbackSnapshotFails, RollbackSucceeds, RollbackFails, RollType
<1>11. CASE UNCHANGED vars
  BY <1>1, <1>11 DEF vars
<1>12. CASE Next
  BY <1>5, <1>6, <1>7, <1>8, <1>9, <1>10, <1>12 DEF Next
<1> QED
  BY <1>11, <1>12

LEMMA PinsInit == Init => PinsBound
BY DEF Init, NoRoll, PinsBound

\* For any rows and tasks: an adoption overwrites no row that was written after its
\* plan, unless that row was deleted meanwhile (the apply's check of the pinned
\* revisions, engine.ts; the pins of adoptOverlay, config-rollback.ts).
THEOREM PlannedOnly == Spec => OverwritesOnlyPlanned
<1>1. Init => TypeOK /\ PinsBound
  BY TypeInit, PinsInit
<1>2. TypeOK /\ PinsBound /\ [Next]_vars => (TypeOK /\ PinsBound)'
  BY TypeStep, PinsStep
<1>3. TypeOK /\ PinsBound /\ [Next]_vars
        => [roll.st = "planned" /\ roll'.st = "applied"
              => DOMAIN roll.change \cap roll.since \subseteq roll.gone]_vars
  <2> SUFFICES ASSUME TypeOK, PinsBound, [Next]_vars, roll.st = "planned", roll'.st = "applied",
                      NEW r \in DOMAIN roll.change \cap roll.since, r \notin roll.gone
               PROVE  FALSE
    OBVIOUS
  <2>1. Fresh
    <3>1. roll \in RollType /\ \A n : NoRoll(n).st = "new"
      BY DEF TypeOK, RollTyped, NoRoll
    <3>2. roll' # roll
      OBVIOUS
    <3>3. ASSUME NEW change, roll' = Unplanned(change) PROVE FALSE
      BY <3>1, <3>3 DEF Unplanned, RollType
    <3>4. Next
      BY <3>2 DEF vars
    <3> QED
      BY <3>1, <3>2, <3>3, <3>4
         DEF Next, Apply, Stage, StageFails, RollBack, SnapshotAfter, SnapshotFails, Succeed, Fail,
             ObserveSnapshots, Collect, Plan, Refuse, ApplyRollback, Restore, RestoreMissing,
             RestoreBreaks, RestoreDone, RestoreUndone, RollbackSnapshotFails, RollbackSucceeds,
             RollbackFails
  <2>2. rev[r] > roll.pins[r] /\ r \in DOMAIN roll.pins
    BY DEF PinsBound
  <2>3. rev[r] = roll.pins[r] /\ rev[r] \in Nat
    BY <2>1, <2>2 DEF Fresh, TypeOK, RollTyped, RowsTyped, OfRows
  <2> QED
    BY <2>2, <2>3
<1> QED
  BY <1>1, <1>2, <1>3, PTL DEF Spec, OverwritesOnlyPlanned

Held(r) == \E t \in Live : task[t].row = r

\* Tasks hold different rows, and a payload is captured when its task is over.
RowsApart  == \A t, u \in Live : task[t].row = task[u].row => t = u
OverToCapture == \A t \in Task : payload[t] # None => task[t].st = "done"

\* A row that no task holds is rendered.
OthersRendered ==
    odd = {} /\ ~Rolling => \A r \in Row \ drift : Held(r) \/ desired[r] = file[r]

\* What a task's row and its file hold, at each point of its run.
HeldBy(t) ==
    /\ task[t].st # "failing" => desired[task[t].row] = task[t].val
    /\ task[t].st \in {"changed", "snapped"} => file[task[t].row] = task[t].val
    /\ task[t].row \notin drift =>
          /\ task[t].st \in {"applied", "failing"} => file[task[t].row] = task[t].prior
          /\ task[t].st = "changed" => task[t].before = task[t].prior

HeldRendered == odd = {} => \A t \in Live : HeldBy(t)

\* A task that runs alone takes its snapshot of what is desired.
AloneRendered ==
    odd = {} => \A t \in Live \ mixed :
        /\ Live = {t} /\ ~Rolling /\ drift = {}
        /\ task[t].st = "snapped" => snap[t] = desired

\* The payload of such a task renders to the files of its snapshot.
PayloadRenders ==
    odd = {} => \A s \in Snap \ mixed : payload[s] # None => payload[s] = snap[s]

\* What a plan that adopts decides is what the snapshot has, as long as no row is late.
PlanRenders ==
    odd = {} /\ roll.st = "planned" =>
        /\ DOMAIN roll.change \subseteq roll.decides
        /\ roll.decides # {} => roll.to = Old \/ (roll.to \in Task /\ task[roll.to].st = "done")
        /\ \A r \in roll.decides :
              /\ roll.to \notin mixed =>
                    snap[roll.to][r] = IF r \in DOMAIN roll.change THEN roll.change[r] ELSE None
              /\ r \notin DOMAIN roll.change \cup roll.since => desired[r] = None

\* The files as the rollback found them.
Found == IF roll.st \in {"writing", "restored"} THEN roll.before ELSE file

\* A rollback under way runs alone: what it found can be desired again, and what it
\* adopted is what it restores.
RollRenders ==
    odd = {} /\ Rolling =>
        /\ Live = {}
        /\ DOMAIN roll.prior = DOMAIN roll.change /\ DOMAIN roll.change \subseteq roll.decides
        /\ \A r \in Row \ drift :
              Found[r] = IF r \in DOMAIN roll.prior THEN roll.prior[r] ELSE desired[r]
        /\ roll.st # "failing" => \A r \in roll.decides : desired[r] = snap[roll.to][r]
        /\ roll.st \in {"writing", "restored"} => file = snap[roll.to]

IInv ==
    /\ TypeOK /\ RowsApart /\ OverToCapture /\ OthersRendered /\ HeldRendered
    /\ AloneRendered /\ PayloadRenders /\ PlanRenders /\ RollRenders

-----------------------------------------------------------------------------
(***************************************************************************)
(* Tasks.                                                                  *)
(***************************************************************************)
LEMMA SafeInit == Init => IInv
<1> SUFFICES ASSUME Init PROVE IInv
  OBVIOUS
<1>1. TypeOK
  BY TypeInit
<1>2. Live = {} /\ ~Rolling /\ roll.st = "new"
  BY DEF Init, Live, Idle, Rolling, NoRoll
<1>3. RowsApart /\ OthersRendered /\ HeldRendered /\ AloneRendered
  BY <1>2 DEF RowsApart, OthersRendered, HeldRendered, AloneRendered, Init
<1>4. OverToCapture /\ PayloadRenders
  BY OldIsPast DEF OverToCapture, PayloadRenders, Init, Snap
<1>5. PlanRenders /\ RollRenders
  BY <1>2 DEF PlanRenders, RollRenders
<1> QED
  BY <1>1, <1>3, <1>4, <1>5 DEF IInv

\* A task that goes on keeps its row, and the rows stay apart.
LEMMA GoesOn ==
    ASSUME IInv, NEW t \in Live, NEW next, next.st \notin {"new", "done"},
           next.row = task[t].row, task' = [task EXCEPT ![t] = next]
    PROVE  /\ Live' = Live /\ RowsApart'
           /\ task'[t] = next /\ \A u \in Task : u # t => task'[u] = task[u]
           /\ \A r : Held(r)' <=> Held(r)
<1>1. /\ t \in Task /\ task'[t] = next /\ \A u \in Task : u # t => task'[u] = task[u]
      /\ task[t].st \notin {"new", "done"}
  BY DEF IInv, TypeOK, TaskTyped, Live
<1>2. Live' = Live
  BY <1>1 DEF Live
<1>3. \A u \in Live : task'[u].row = task[u].row
  BY <1>1 DEF Live
<1> QED
  BY <1>1, <1>2, <1>3 DEF IInv, RowsApart, Held

\* A task that ends gives its row back.
LEMMA GoesOut ==
    ASSUME IInv, NEW t \in Live, task' = [task EXCEPT ![t] = Idle("done")]
    PROVE  /\ Live' = Live \ {t} /\ RowsApart'
           /\ task'[t].st = "done" /\ \A u \in Task : u # t => task'[u] = task[u]
           /\ \A r \in Row : r # task[t].row => (Held(r)' <=> Held(r))
           /\ \A u \in Live' : task[u].row # task[t].row
<1>1. /\ t \in Task /\ task'[t] = Idle("done") /\ \A u \in Task : u # t => task'[u] = task[u]
  BY DEF IInv, TypeOK, TaskTyped, Live
<1>2. Live' = Live \ {t}
  BY <1>1 DEF Live, Idle
<1>3. \A u \in Live' : task'[u] = task[u] /\ u \in Live /\ u # t
  BY <1>1, <1>2 DEF Live
<1> QED
  BY <1>1, <1>2, <1>3 DEF IInv, RowsApart, Held, Idle

LEMMA ApplySafe ==
    ASSUME IInv, TypeOK', NEW t \in Task, NEW r \in Row, NEW v \in Content, Apply(t, r, v)
    PROVE  IInv'
<1> DEFINE next == [st |-> "applied", row |-> r, val |-> v, prior |-> desired[r], before |-> None]
<1>1. /\ task'[t] = next /\ \A u \in Task : u # t => task'[u] = task[u]
      /\ task[t].st = "new" /\ \A u \in Live : task[u].row # r
  BY DEF Apply, IInv, TypeOK, TaskTyped
<1>2. Live' = Live \cup {t} /\ t \notin Live
  BY <1>1 DEF Live
<1>3. \A u \in Live : u # t /\ task'[u] = task[u] /\ u \in Task
  BY <1>1, <1>2 DEF Live
<1>4. /\ desired'[r] = v /\ \A q \in Row : q # r => desired'[q] = desired[q]
      /\ file' = file /\ drift' = drift /\ snap' = snap /\ payload' = payload
  BY DEF Apply, Write, One, snaps
<1>5. odd' = {} => odd = {} /\ ~Rolling
  BY DEF Apply
<1>6. roll'.st = roll.st
  BY OneTyped, UnplannedTyped DEF Apply, IInv
<1>7. RowsApart'
  BY <1>1, <1>2, <1>3 DEF IInv, RowsApart
<1>8. OverToCapture'
  BY <1>1, <1>4 DEF IInv, OverToCapture
<1>9. \A q \in Row : (Held(q)' <=> Held(q) \/ q = r) /\ ~Held(r)
  BY <1>1, <1>2, <1>3 DEF Held
<1>10. OthersRendered'
  BY <1>4, <1>5, <1>6, <1>9 DEF IInv, OthersRendered, Rolling
<1>11. HeldRendered'
  <2> SUFFICES ASSUME odd' = {}, NEW u \in Live' PROVE HeldBy(u)'
    BY DEF HeldRendered
  <2>1. CASE u = t
    <3>1. r \notin drift => desired[r] = file[r]
      BY <1>5, <1>9 DEF IInv, OthersRendered
    <3> QED
      BY <1>1, <1>4, <2>1, <3>1 DEF HeldBy
  <2>2. CASE u # t
    <3>1. u \in Live /\ task'[u] = task[u] /\ task[u].row # r /\ task[u].row \in Row
      BY <1>1, <1>2, <1>3, <2>2 DEF IInv, TypeOK, TaskTyped
    <3> QED
      BY <1>4, <1>5, <3>1 DEF IInv, HeldRendered, HeldBy
  <2> QED
    BY <2>1, <2>2
<1>12. AloneRendered'
  <2> SUFFICES ASSUME odd' = {}, NEW u \in Live' \ mixed'
               PROVE  /\ Live' = {u} /\ ~Rolling' /\ drift' = {}
                      /\ task'[u].st = "snapped" => snap'[u] = desired'
    BY DEF AloneRendered
  <2>1. Live = {} /\ ~Rolling /\ drift = {}
    BY <1>2 DEF Apply
  <2> QED
    BY <1>1, <1>2, <1>4, <1>6, <2>1 DEF Rolling
<1>13. mixed \subseteq mixed'
  BY DEF Apply
<1>14. PayloadRenders'
  BY <1>4, <1>5, <1>13 DEF IInv, PayloadRenders
<1>15. PlanRenders'
  <2> SUFFICES ASSUME odd' = {}, roll'.st = "planned" PROVE PlanRenders'
    BY DEF PlanRenders
  <2>1. /\ roll.st = "planned" /\ roll'.change = roll.change /\ roll'.decides = roll.decides
        /\ roll'.to = roll.to /\ roll'.since = roll.since \cup ({r} \cap roll.decides)
    <3>1. OfRows(One(r, v), Content) /\ DOMAIN One(r, v) = {r} /\ TypeOK /\ roll.st = "planned"
      BY <1>6, OneTyped DEF IInv
    <3>2. roll' = Unplanned(One(r, v))
      BY DEF Apply
    <3> HIDE DEF next
    <3> QED
      BY <3>1, <3>2, UnplannedTyped
  <2>2. roll.decides \subseteq Row
    BY DEF IInv, TypeOK, RollTyped, RollType
  <2>3. roll.decides # {} => roll.to = Old \/ (roll.to \in Task /\ task'[roll.to].st = "done")
    BY <1>1, <1>5, <2>1 DEF IInv, PlanRenders
  <2>4. \A q \in roll.decides : q \notin roll'.since => q # r
    BY <2>1
  <2> QED
    BY <1>4, <1>5, <1>13, <2>1, <2>2, <2>3, <2>4 DEF IInv, PlanRenders
<1>16. RollRenders'
  BY <1>5, <1>6 DEF RollRenders, Rolling
<1> QED
  BY <1>7, <1>8, <1>10, <1>11, <1>12, <1>14, <1>15, <1>16 DEF IInv

\* A step of a task before its end changes no desired row and no rollback, and of the files
\* only its row.
LEMMA GoesOnSafe ==
    ASSUME IInv, TypeOK', NEW t \in Live, NEW next,
           next.st \notin {"new", "done"}, next.row = task[t].row,
           task' = [task EXCEPT ![t] = next],
           UNCHANGED <<desired, roll, payload, odd, drift, mixed>>,
           \A q \in Row : q # task[t].row => file'[q] = file[q],
           \A s \in Snap : s # t => snap'[s] = snap[s],
           odd = {} => HeldBy(t)',
           odd = {} /\ Live = {t} /\ drift = {} /\ next.st = "snapped" => snap'[t] = desired
    PROVE  IInv'
<1>1. /\ Live' = Live /\ RowsApart' /\ \A q : Held(q)' <=> Held(q)
      /\ task'[t] = next /\ \A u \in Task : u # t => task'[u] = task[u]
  BY GoesOn
<1>2. t \in Task /\ task[t].st \notin {"new", "done"} /\ t # Old /\ Held(task[t].row)
  BY OldIsPast DEF Live, Held
<1>3. OverToCapture'
  BY <1>1, <1>2 DEF IInv, OverToCapture
<1>4. OthersRendered'
  BY <1>1, <1>2 DEF IInv, OthersRendered, Rolling
<1>5. HeldRendered'
  <2> SUFFICES ASSUME odd' = {}, NEW u \in Live' PROVE HeldBy(u)'
    BY DEF HeldRendered
  <2>1. CASE u # t
    <3>1. u \in Live /\ u \in Task /\ task'[u] = task[u] /\ task[u].row \in Row
      BY <1>1, <2>1 DEF Live, IInv, TypeOK, TaskTyped
    <3>2. task[u].row # task[t].row
      BY <2>1, <3>1 DEF IInv, RowsApart
    <3> QED
      BY <3>1, <3>2 DEF IInv, HeldRendered, HeldBy
  <2> QED
    BY <2>1
<1>6. AloneRendered'
  BY <1>1, <1>2 DEF IInv, AloneRendered, Rolling, Live, Snap
<1>7. PayloadRenders'
  <2>1. payload[t] = None
    BY <1>2 DEF IInv, OverToCapture
  <2> QED
    BY <2>1 DEF IInv, PayloadRenders
<1>8. PlanRenders'
  <2> SUFFICES ASSUME odd = {}, roll.st = "planned" PROVE PlanRenders'
    BY DEF PlanRenders
  <2>1. roll.to \in Snap /\ (roll.decides # {} => roll.to # t)
    BY <1>2 DEF IInv, PlanRenders, TypeOK, RollTyped, RollType
  <2>2. roll.decides # {} => snap'[roll.to] = snap[roll.to]
    BY <2>1
  <2>3. roll.decides # {} => roll.to = Old \/ (roll.to \in Task /\ task'[roll.to].st = "done")
    BY <1>1, <2>1 DEF IInv, PlanRenders
  <2> QED
    BY <2>2, <2>3 DEF IInv, PlanRenders
<1>9. RollRenders'
  BY <1>2 DEF IInv, RollRenders, Rolling
<1> QED
  BY <1>1, <1>3, <1>4, <1>5, <1>6, <1>7, <1>8, <1>9 DEF IInv

\* The stage of a task, its failure, and the executor's rollback.
LEMMA StageSafe ==
    ASSUME IInv, TypeOK', NEW t \in Task, Stage(t) \/ StageFails(t) \/ RollBack(t)
    PROVE  IInv'
<1> DEFINE next == task'[t]
<1>1. t \in Live /\ task[t] \in TaskType /\ task[t].row \in Row /\ task \in [Task -> TaskType]
  BY DEF Stage, StageFails, RollBack, Live, IInv, TypeOK, TaskTyped
<1>2. /\ UNCHANGED <<desired, roll, payload, odd, drift, mixed, snap>>
      /\ file \in [Row -> Content]
  BY DEF Stage, StageFails, RollBack, snaps, history, IInv, TypeOK, Rows, Content
<1>3. /\ next.st \in {"changed", "failing"} /\ next.row = task[t].row
      /\ task' = [task EXCEPT ![t] = next]
      /\ \A q \in Row : q # task[t].row => file'[q] = file[q]
  BY <1>1, <1>2 DEF Stage, StageFails, RollBack, TaskType
<1>4. odd = {} => HeldBy(t)
  BY <1>1 DEF IInv, HeldRendered, HeldBy
<1>5. odd = {} => HeldBy(t)'
  BY <1>1, <1>2, <1>4 DEF Stage, StageFails, RollBack, TaskType, HeldBy
<1> HIDE DEF next
<1> QED
  BY <1>1, <1>2, <1>3, <1>5, GoesOnSafe

\* The snapshot after the stage is of all files: of what is desired, for a task alone.
LEMMA SnapshotAfterSafe ==
    ASSUME IInv, TypeOK', NEW t \in Task, SnapshotAfter(t)
    PROVE  IInv'
<1> DEFINE next == task'[t]
<1>1. t \in Live /\ task[t] \in TaskType /\ task[t].row \in Row /\ task \in [Task -> TaskType]
  BY DEF SnapshotAfter, Live, IInv, TypeOK, TaskTyped
<1>2. UNCHANGED <<desired, roll, payload, odd, drift, mixed, file>>
  BY DEF SnapshotAfter, history
<1>3. /\ next.st = "snapped" /\ next.row = task[t].row /\ next.val = task[t].val
      /\ task' = [task EXCEPT ![t] = next] /\ task[t].st = "changed"
  BY <1>1 DEF SnapshotAfter, TaskType
<1>4. \A s \in Snap : s # t => snap'[s] = snap[s]
  BY DEF SnapshotAfter, IInv, TypeOK, SnapTyped
<1>5. odd = {} => HeldBy(t)
  BY <1>1 DEF IInv, HeldRendered, HeldBy
<1>6. odd = {} => HeldBy(t)'
  BY <1>2, <1>3, <1>5 DEF HeldBy
<1>7. ASSUME odd = {}, Live = {t}, drift = {} PROVE snap'[t] = desired
  <2>1. snap'[t] = file
    BY DEF SnapshotAfter, IInv, TypeOK, SnapTyped, Snap
  <2>2. ~Rolling
    BY <1>7 DEF IInv, RollRenders
  <2>3. \A r \in Row : r # task[t].row => desired[r] = file[r]
    BY <1>7, <2>2 DEF IInv, OthersRendered, Held
  <2>4. desired[task[t].row] = file[task[t].row]
    BY <1>3, <1>5, <1>7 DEF HeldBy
  <2>5. desired \in [Row -> Content] /\ file \in [Row -> Content]
    BY DEF IInv, TypeOK, RowsTyped, Rows, Content
  <2> QED
    BY <2>1, <2>3, <2>4, <2>5
<1> HIDE DEF next
<1> QED
  BY <1>1, <1>2, <1>3, <1>4, <1>6, <1>7, GoesOnSafe

\* A task whose snapshot fails is for an operator.
LEMMA SnapshotFailsSafe ==
    ASSUME IInv, TypeOK', NEW t \in Task, SnapshotFails(t)
    PROVE  IInv'
<1> DEFINE next == [task[t] EXCEPT !.st = "failing"]
<1>1. t \in Live /\ task[t] \in TaskType
  BY DEF SnapshotFails, Live, IInv, TypeOK, TaskTyped
<1>2. /\ task' = [task EXCEPT ![t] = next] /\ next.st = "failing" /\ next.row = task[t].row
      /\ odd' # {} /\ payload' = payload
  BY <1>1 DEF SnapshotFails, TaskType, snaps
<1> HIDE DEF next
<1>3. /\ RowsApart' /\ task'[t] = next /\ \A u \in Task : u # t => task'[u] = task[u]
  BY <1>1, <1>2, GoesOn
<1>4. OverToCapture'
  BY <1>1, <1>2, <1>3 DEF IInv, OverToCapture, Live
<1> QED
  BY <1>2, <1>3, <1>4
     DEF IInv, OthersRendered, HeldRendered, AloneRendered, PayloadRenders, PlanRenders, RollRenders

\* A task that succeeds leaves its row rendered, and the payload it captures is what its
\* snapshot has, if it ran alone.
LEMMA SucceedSafe ==
    ASSUME IInv, TypeOK', NEW t \in Task, Succeed(t)
    PROVE  IInv'
<1>1. t \in Live /\ task[t].st = "snapped" /\ task[t].row \in Row /\ t # Old
  BY OldIsPast DEF Succeed, Live, IInv, TypeOK, TaskTyped
<1>2. /\ UNCHANGED <<desired, roll, odd, mixed, file, snap>> /\ drift' = drift \ {task[t].row}
      /\ task' = [task EXCEPT ![t] = Idle("done")] /\ payload' = [payload EXCEPT ![t] = desired]
      /\ payload \in [Snap -> Rows \cup {None}]
  BY DEF Succeed, Capture, IInv, TypeOK, SnapTyped
<1>3. /\ Live' = Live \ {t} /\ RowsApart'
      /\ task'[t].st = "done" /\ \A u \in Task : u # t => task'[u] = task[u]
      /\ \A r \in Row : r # task[t].row => (Held(r)' <=> Held(r))
      /\ \A u \in Live' : task[u].row # task[t].row
  BY <1>1, <1>2, GoesOut
<1>4. payload'[t] = desired /\ \A s \in Snap : s # t => payload'[s] = payload[s]
  BY <1>2 DEF Snap
<1>5. OverToCapture'
  BY <1>3, <1>4 DEF IInv, OverToCapture, Snap
<1>6. odd = {} => desired[task[t].row] = file[task[t].row]
  BY <1>1 DEF IInv, HeldRendered, HeldBy
<1>7. OthersRendered'
  BY <1>2, <1>3, <1>6 DEF IInv, OthersRendered, Rolling
<1>8. HeldRendered'
  <2> SUFFICES ASSUME odd' = {}, NEW u \in Live' PROVE HeldBy(u)'
    BY DEF HeldRendered
  <2>1. u \in Live /\ task'[u] = task[u] /\ task[u].row # task[t].row
    BY <1>3 DEF Live
  <2> QED
    BY <1>2, <2>1 DEF IInv, HeldRendered, HeldBy
<1>9. AloneRendered'
  <2> SUFFICES ASSUME odd' = {}, NEW u \in Live' \ mixed' PROVE FALSE
    BY DEF AloneRendered
  <2>1. u \in Live \ mixed /\ u # t
    BY <1>2, <1>3
  <2> QED
    BY <1>1, <1>2, <2>1 DEF IInv, AloneRendered
<1>10. PayloadRenders'
  <2>1. odd = {} /\ t \notin mixed => snap[t] = desired
    BY <1>1 DEF IInv, AloneRendered
  <2> QED
    BY <1>2, <1>4, <2>1 DEF IInv, PayloadRenders
<1>11. PlanRenders'
  BY <1>2, <1>3 DEF IInv, PlanRenders
<1>12. RollRenders'
  BY <1>1, <1>2 DEF IInv, RollRenders, Rolling
<1> QED
  BY <1>3, <1>5, <1>7, <1>8, <1>9, <1>10, <1>11, <1>12 DEF IInv

\* A task that fails gives its row back, and its file has it back.
LEMMA FailSafe ==
    ASSUME IInv, TypeOK', NEW t \in Task, Fail(t)
    PROVE  IInv'
<1> DEFINE undo == One(task[t].row, task[t].prior)
<1>1. t \in Live /\ task[t].st = "failing" /\ task[t].row \in Row /\ task[t].prior \in Content
  BY DEF Fail, Live, IInv, TypeOK, TaskTyped, TaskType
<1>2. /\ UNCHANGED <<odd, mixed, drift, file, snap, payload>>
      /\ task' = [task EXCEPT ![t] = Idle("done")]
      /\ desired'[task[t].row] = task[t].prior
      /\ \A q \in Row : q # task[t].row => desired'[q] = desired[q]
  BY <1>1 DEF Fail, Write, One, snaps, history
<1>3. /\ Live' = Live \ {t} /\ RowsApart'
      /\ task'[t].st = "done" /\ \A u \in Task : u # t => task'[u] = task[u]
      /\ \A r \in Row : r # task[t].row => (Held(r)' <=> Held(r))
      /\ \A u \in Live' : task[u].row # task[t].row
  BY <1>1, <1>2, GoesOut
<1>4. /\ OfRows(undo, Content) /\ DOMAIN undo = {task[t].row} /\ roll' = Unplanned(undo) /\ TypeOK
  BY <1>1, OneTyped DEF Fail, IInv
<1> HIDE DEF undo
<1>5. /\ roll'.st = roll.st /\ roll'.change = roll.change /\ roll'.decides = roll.decides
      /\ roll'.to = roll.to
      /\ roll.st = "planned" => roll'.since = roll.since \cup ({task[t].row} \cap roll.decides)
  BY <1>4, UnplannedTyped
<1>6. OverToCapture'
  BY <1>2, <1>3 DEF IInv, OverToCapture
<1>7. odd = {} /\ task[t].row \notin drift => file[task[t].row] = task[t].prior
  BY <1>1 DEF IInv, HeldRendered, HeldBy
<1>8. OthersRendered'
  BY <1>2, <1>3, <1>5, <1>7 DEF IInv, OthersRendered, Rolling
<1>9. HeldRendered'
  <2> SUFFICES ASSUME odd' = {}, NEW u \in Live' PROVE HeldBy(u)'
    BY DEF HeldRendered
  <2>1. u \in Live /\ task'[u] = task[u] /\ task[u].row # task[t].row /\ task[u].row \in Row
    BY <1>3 DEF Live, IInv, TypeOK, TaskTyped
  <2> QED
    BY <1>2, <2>1 DEF IInv, HeldRendered, HeldBy
<1>10. AloneRendered'
  <2> SUFFICES ASSUME odd' = {}, NEW u \in Live' \ mixed' PROVE FALSE
    BY DEF AloneRendered
  <2>1. u \in Live \ mixed /\ u # t
    BY <1>2, <1>3
  <2> QED
    BY <1>1, <1>2, <2>1 DEF IInv, AloneRendered
<1>11. PayloadRenders'
  BY <1>2 DEF IInv, PayloadRenders
<1>12. PlanRenders'
  <2> SUFFICES ASSUME odd' = {}, roll'.st = "planned" PROVE PlanRenders'
    BY DEF PlanRenders
  <2>1. roll.decides \subseteq Row
    BY DEF IInv, TypeOK, RollTyped, RollType
  <2>2. roll.decides # {} => roll.to = Old \/ (roll.to \in Task /\ task'[roll.to].st = "done")
    BY <1>2, <1>3, <1>5 DEF IInv, PlanRenders
  <2>3. \A q \in roll.decides : q \notin roll'.since => q # task[t].row
    BY <1>5
  <2> QED
    BY <1>2, <1>5, <2>1, <2>2, <2>3 DEF IInv, PlanRenders
<1>13. RollRenders'
  BY <1>1, <1>2, <1>5 DEF IInv, RollRenders, Rolling
<1> QED
  BY <1>3, <1>6, <1>8, <1>9, <1>10, <1>11, <1>12, <1>13 DEF IInv

-----------------------------------------------------------------------------
(***************************************************************************)
(* Snapshots and plans.                                                    *)
(***************************************************************************)
\* What a step leaves alone, as far as tasks go.
LEMMA TasksFrame ==
    ASSUME IInv, UNCHANGED <<desired, file, task, odd, drift, mixed, snap>>
    PROVE  /\ RowsApart' /\ HeldRendered' /\ Live' = Live /\ \A r : Held(r)' <=> Held(r)
           /\ Rolling' = Rolling => OthersRendered' /\ AloneRendered'
<1>1. Live' = Live /\ \A r : Held(r)' <=> Held(r)
  BY DEF Live, Held
<1> QED
  BY <1>1 DEF IInv, RowsApart, HeldRendered, HeldBy, OthersRendered, AloneRendered

\* Payloads are only dropped.
LEMMA SnapshotsSafe ==
    ASSUME IInv, TypeOK', ObserveSnapshots \/ \E s \in Snap : Collect(s)
    PROVE  IInv'
<1>1. /\ UNCHANGED <<desired, file, task, odd, drift, mixed, snap, roll>>
      /\ \A s \in Snap : payload'[s] # None => payload'[s] = payload[s]
  BY DEF ObserveSnapshots, Collect, history
<1>2. /\ RowsApart' /\ HeldRendered' /\ Live' = Live /\ OthersRendered' /\ AloneRendered'
  BY <1>1, TasksFrame DEF Rolling
<1>3. OverToCapture' /\ PayloadRenders'
  BY <1>1 DEF IInv, OverToCapture, PayloadRenders, Snap
<1>4. PlanRenders' /\ RollRenders'
  BY <1>1, <1>2 DEF IInv, PlanRenders, RollRenders, Rolling, Found
<1> QED
  BY <1>2, <1>3, <1>4 DEF IInv

\* A plan decides what its snapshot's payload has.
LEMMA PlanSafe ==
    ASSUME IInv, TypeOK', NEW s \in Snap, NEW adopt \in BOOLEAN, Plan(s, adopt)
    PROVE  IInv'
<1>1. /\ UNCHANGED <<desired, file, task, odd, drift, mixed, snap, payload>>
      /\ roll.st = "new"
  BY DEF Plan, snaps, history
<1>2. roll'.st = "planned" /\ roll'.since = {} /\ roll'.to = s
  BY DEF Plan, NoRoll
<1>3. Rolling' = Rolling
  BY <1>1, <1>2 DEF Rolling
<1>4. /\ RowsApart' /\ HeldRendered' /\ Live' = Live /\ OthersRendered' /\ AloneRendered'
  BY <1>1, <1>3, TasksFrame
<1>5. OverToCapture' /\ PayloadRenders'
  BY <1>1 DEF IInv, OverToCapture, PayloadRenders
<1>6. PlanRenders'
  <2>1. CASE adopt /\ payload[s] # None
    <3> DEFINE change == AdoptOverlay(s)
    <3>1. roll'.change = change /\ roll'.decides = Decides(s)
      BY <2>1 DEF Plan, NoRoll
    <3>2. DOMAIN change = Adopted(s) /\ \A r \in Adopted(s) : change[r] = payload[s][r]
      BY DEF AdoptOverlay
    <3> HIDE DEF change
    <3>3. Adopted(s) \subseteq Decides(s)
      BY DEF Adopted
    <3>4. \A r \in Decides(s) : r \notin Adopted(s) => payload[s][r] = None /\ desired[r] = None
      BY DEF Adopted
    <3>5. s = Old \/ (s \in Task /\ task[s].st = "done")
      BY <2>1 DEF IInv, OverToCapture, Snap
    <3>6. odd = {} /\ s \notin mixed => payload[s] = snap[s]
      BY <2>1 DEF IInv, PayloadRenders
    <3> QED
      BY <1>1, <1>2, <3>1, <3>2, <3>3, <3>4, <3>5, <3>6 DEF PlanRenders
  <2>2. CASE ~(adopt /\ payload[s] # None)
    <3>1. roll'.change = NoRows /\ roll'.decides = {} /\ DOMAIN NoRows = {}
      BY <2>2, NoRowsTyped DEF Plan, NoRoll
    <3> QED
      BY <3>1 DEF PlanRenders
  <2> QED
    BY <2>1, <2>2
<1>7. RollRenders'
  BY <1>2 DEF RollRenders, Rolling
<1> QED
  BY <1>4, <1>5, <1>6, <1>7 DEF IInv

LEMMA RefuseSafe ==
    ASSUME IInv, TypeOK', Refuse
    PROVE  IInv'
<1>1. /\ UNCHANGED <<desired, file, task, odd, drift, mixed, snap, payload>>
      /\ roll.st = "planned" /\ roll'.st = "new"
  BY DEF Refuse, snaps, history, NoRoll
<1>2. Rolling' = Rolling
  BY <1>1 DEF Rolling
<1>3. /\ RowsApart' /\ HeldRendered' /\ OthersRendered' /\ AloneRendered'
  BY <1>1, <1>2, TasksFrame
<1> QED
  BY <1>1, <1>3 DEF IInv, OverToCapture, PayloadRenders, PlanRenders, RollRenders, Rolling

\* An adoption with nothing beside it and no late row desires what its snapshot has.
LEMMA ApplyRollbackSafe ==
    ASSUME IInv, TypeOK', ApplyRollback
    PROVE  IInv'
<1>1. /\ UNCHANGED <<file, task, snap, payload, drift>> /\ mixed' = mixed \cup Live
      /\ roll.st = "planned" /\ roll \in RollType /\ OfRows(roll.change, Content)
      /\ desired \in [Row -> Content]
  BY DEF ApplyRollback, snaps, IInv, TypeOK, RollTyped, RowsTyped, Rows, Content
<1>2. /\ roll'.st = "applied" /\ roll'.change = roll.change /\ roll'.decides = roll.decides
      /\ roll'.to = roll.to /\ roll'.prior = Before(roll.change)
  BY <1>1 DEF ApplyRollback, RollType
<1>3. odd' = {} => odd = {} /\ Live = {} /\ Late = {}
                     /\ (roll.decides # {} => roll.to \notin mixed)
  BY DEF ApplyRollback
<1>4. Live' = Live /\ RowsApart'
  BY <1>1 DEF IInv, RowsApart, Live
<1>5. OverToCapture'
  BY <1>1 DEF IInv, OverToCapture
<1>6. OthersRendered' /\ PlanRenders'
  BY <1>2 DEF OthersRendered, PlanRenders, Rolling
<1>7. HeldRendered' /\ AloneRendered'
  BY <1>3, <1>4 DEF HeldRendered, AloneRendered
<1>8. PayloadRenders'
  BY <1>1, <1>3 DEF IInv, PayloadRenders
<1>9. RollRenders'
  <2> SUFFICES ASSUME odd' = {} PROVE RollRenders'
    BY DEF RollRenders
  <2>1. /\ odd = {} /\ Live = {} /\ Late = {} /\ (roll.decides # {} => roll.to \notin mixed)
        /\ DOMAIN roll.change \subseteq roll.decides /\ roll.decides \subseteq Row
    BY <1>1, <1>3 DEF IInv, PlanRenders, RollType
  <2>2. DOMAIN roll'.prior = DOMAIN roll.change /\ \A r \in DOMAIN roll.change : roll'.prior[r] = desired[r]
    BY <1>2 DEF Before
  <2>3. \A r \in Row : desired'[r] = IF r \in DOMAIN roll.change THEN roll.change[r] ELSE desired[r]
    BY DEF ApplyRollback, Write
  <2>4. \A r \in Row \ drift : desired[r] = file[r]
    BY <1>1, <2>1 DEF IInv, OthersRendered, Rolling, Held
  <2>5. ASSUME NEW r \in roll.decides PROVE desired'[r] = snap[roll.to][r]
    <3>1. roll.to \notin mixed
      BY <2>1
    <3>2. /\ snap[roll.to][r] = IF r \in DOMAIN roll.change THEN roll.change[r] ELSE None
          /\ r \notin DOMAIN roll.change \cup roll.since => desired[r] = None
      BY <1>1, <2>1, <2>5, <3>1 DEF IInv, PlanRenders
    <3>3. r \in roll.since \ DOMAIN roll.change => desired[r] = None
      BY <2>1 DEF Late
    <3> QED
      BY <2>1, <2>3, <3>2, <3>3
  <2>6. Found' = file
    BY <1>1, <1>2 DEF Found
  <2> QED
    BY <1>1, <1>2, <1>4, <2>1, <2>2, <2>3, <2>4, <2>5, <2>6 DEF RollRenders
<1> QED
  BY <1>4, <1>5, <1>6, <1>7, <1>8, <1>9 DEF IInv

-----------------------------------------------------------------------------
(***************************************************************************)
(* The run of a rollback.                                                  *)
(***************************************************************************)
\* A step of the run that ends in a state for an operator.
LEMMA OddSafe ==
    ASSUME IInv, TypeOK', RestoreBreaks \/ RollbackSnapshotFails
    PROVE  IInv'
<1>1. UNCHANGED <<task, payload>> /\ odd' # {}
  BY DEF RestoreBreaks, RollbackSnapshotFails, snaps
<1>2. RowsApart' /\ OverToCapture'
  BY <1>1 DEF IInv, RowsApart, OverToCapture, Live
<1> QED
  BY <1>1, <1>2
     DEF IInv, OthersRendered, HeldRendered, AloneRendered, PayloadRenders, PlanRenders, RollRenders

\* A run that goes on keeps the tasks' part; with nothing odd there are no tasks.
LEMMA RollsOn ==
    ASSUME IInv, TypeOK', Rolling, Rolling',
           UNCHANGED <<desired, task, snap, payload, drift, mixed>>, odd' = {} => odd = {},
           RollRenders'
    PROVE  IInv'
<1>1. Live' = Live /\ RowsApart' /\ OverToCapture'
  BY DEF IInv, RowsApart, OverToCapture, Live
<1>2. odd' = {} => Live = {}
  BY DEF IInv, RollRenders
<1>3. OthersRendered' /\ PlanRenders'
  BY DEF OthersRendered, PlanRenders, Rolling
<1>4. HeldRendered' /\ AloneRendered'
  BY <1>1, <1>2 DEF HeldRendered, AloneRendered
<1>5. PayloadRenders'
  BY DEF IInv, PayloadRenders
<1> QED
  BY <1>1, <1>3, <1>4, <1>5 DEF IInv

LEMMA RestoreSafe ==
    ASSUME IInv, TypeOK', Restore \/ RestoreMissing \/ RestoreDone \/ RestoreUndone
    PROVE  IInv'
<1>1. /\ UNCHANGED <<desired, task, snap, payload, drift, mixed>> /\ odd \subseteq odd'
      /\ Rolling /\ roll \in RollType
  BY DEF Restore, RestoreMissing, RestoreDone, RestoreUndone, snaps, history, Rolling,
         IInv, TypeOK, RollTyped
<1>2. /\ Rolling' /\ roll'.prior = roll.prior /\ roll'.change = roll.change
      /\ roll'.decides = roll.decides /\ roll'.to = roll.to
  BY <1>1 DEF Restore, RestoreMissing, RestoreDone, RestoreUndone, Rolling, RollType
<1>3. Live' = Live
  BY <1>1 DEF Live
<1>4. odd' = {} => RollRenders
  BY <1>1 DEF IInv
<1>5. CASE Restore
  <2>1. Found' = Found /\ roll'.st = "writing" /\ file' = snap[roll.to]
    BY <1>1, <1>5 DEF Restore, Found, RollType
  <2> QED
    BY <1>1, <1>2, <1>3, <1>4, <2>1, <1>5, RollsOn DEF Restore, RollRenders
<1>6. CASE RestoreMissing
  <2>1. Found' = Found /\ roll'.st = "failing"
    BY <1>1, <1>6 DEF RestoreMissing, Found, RollType
  <2> QED
    BY <1>1, <1>2, <1>3, <1>4, <2>1, <1>6, RollsOn DEF RestoreMissing, RollRenders
<1>7. CASE RestoreDone
  <2>1. Found' = Found /\ roll'.st = "restored" /\ file' = file
    BY <1>1, <1>7 DEF RestoreDone, Found, RollType
  <2> QED
    BY <1>1, <1>2, <1>3, <1>4, <2>1, <1>7, RollsOn DEF RestoreDone, RollRenders
<1>8. CASE RestoreUndone
  <2>1. odd' = {} => odd = {} /\ file = snap[roll.to]
    BY <1>1, <1>4, <1>8 DEF RestoreUndone, RollRenders
  <2>2. odd' = {} => \A r \in Row : file'[r] = roll.before[r]
    <3>1. odd' = {} => Differ(roll.before, snap[roll.to]) \subseteq
                          Differ(roll.before, snap[roll.to]) \ Missing(roll.before)
      BY <1>8 DEF RestoreUndone
    <3>2. \A r \in Row : roll.before[r] # snap[roll.to][r] => FileOf(r) \in Differ(roll.before, snap[roll.to])
      BY DEF Differ
    <3> QED
      BY <1>8, <2>1, <3>1, <3>2 DEF RestoreUndone
  <2>3. roll'.st = "failing"
    BY <1>1, <1>8 DEF RestoreUndone, RollType
  <2>4. Found' = file' /\ Found = roll.before
    BY <1>8, <2>3 DEF Found, RestoreUndone
  <2> QED
    BY <1>1, <1>2, <1>3, <1>4, <2>1, <2>2, <2>3, <2>4, RollsOn DEF RollRenders
<1> QED
  BY <1>5, <1>6, <1>7, <1>8

\* The rows a rollback restored are desired, or adrift, or as they were.
LEMMA RollbackSucceedsSafe ==
    ASSUME IInv, TypeOK', RollbackSucceeds
    PROVE  IInv'
<1>1. /\ UNCHANGED <<desired, task, snap, payload, mixed, odd, file>>
      /\ roll.st = "restored" /\ roll'.st = "new" /\ Rolling
  BY DEF RollbackSucceeds, snaps, NoRoll, Rolling
<1>2. Live' = Live /\ RowsApart' /\ OverToCapture'
  BY <1>1 DEF IInv, RowsApart, OverToCapture, Live
<1>3. odd = {} => Live = {}
  BY <1>1 DEF IInv, RollRenders
<1>4. HeldRendered' /\ AloneRendered' /\ PayloadRenders' /\ PlanRenders' /\ RollRenders'
  BY <1>1, <1>2, <1>3
     DEF HeldRendered, AloneRendered, PayloadRenders, PlanRenders, RollRenders, IInv, Rolling
<1>5. OthersRendered'
  <2> SUFFICES ASSUME odd = {}, NEW r \in Row, r \notin drift' PROVE desired[r] = file[r]
    BY <1>1 DEF OthersRendered
  <2>1. /\ DOMAIN roll.prior \subseteq roll.decides /\ file = snap[roll.to]
        /\ r \notin drift => roll.before[r] = IF r \in DOMAIN roll.prior THEN roll.prior[r] ELSE desired[r]
        /\ r \in roll.decides => desired[r] = snap[roll.to][r]
    BY <1>1 DEF IInv, RollRenders, Found
  <2>2. CASE r \in roll.decides
    BY <2>1, <2>2
  <2>3. CASE r \notin roll.decides
    <3>1. r \notin drift /\ FileOf(r) \notin Differ(roll.before, snap[roll.to])
      BY <2>3 DEF RollbackSucceeds
    <3>2. roll.before[r] = snap[roll.to][r]
      BY <3>1 DEF Differ
    <3> QED
      BY <2>1, <2>3, <3>1, <3>2
  <2> QED
    BY <2>2, <2>3
<1> QED
  BY <1>2, <1>4, <1>5 DEF IInv

\* A rollback that failed has its files back, and desires what it had found.
LEMMA RollbackFailsSafe ==
    ASSUME IInv, TypeOK', RollbackFails
    PROVE  IInv'
<1>1. /\ UNCHANGED <<task, snap, payload, mixed, odd, file, drift>>
      /\ roll.st = "failing" /\ roll'.st = "new" /\ Rolling
      /\ \A r \in Row : desired'[r] = IF r \in DOMAIN roll.prior THEN roll.prior[r] ELSE desired[r]
  BY DEF RollbackFails, Write, snaps, history, NoRoll, Rolling
<1>2. Live' = Live /\ RowsApart' /\ OverToCapture'
  BY <1>1 DEF IInv, RowsApart, OverToCapture, Live
<1>3. odd = {} => Live = {}
  BY <1>1 DEF IInv, RollRenders
<1>4. HeldRendered' /\ AloneRendered' /\ PayloadRenders' /\ PlanRenders' /\ RollRenders'
  BY <1>1, <1>2, <1>3
     DEF HeldRendered, AloneRendered, PayloadRenders, PlanRenders, RollRenders, IInv, Rolling
<1>5. OthersRendered'
  BY <1>1 DEF IInv, OthersRendered, RollRenders, Found
<1> QED
  BY <1>2, <1>4, <1>5 DEF IInv

-----------------------------------------------------------------------------
\* Every step keeps the invariant.
LEMMA SafeStep == IInv /\ [Next]_vars => IInv'
<1> SUFFICES ASSUME IInv, [Next]_vars PROVE IInv'
  OBVIOUS
<1>1. TypeOK'
  BY TypeStep DEF IInv
<1>2. CASE UNCHANGED vars
  <2>1. /\ UNCHANGED <<desired, file, task, odd, drift, mixed, snap, roll, payload>>
    BY <1>2 DEF vars
  <2>2. /\ RowsApart' /\ HeldRendered' /\ OthersRendered' /\ AloneRendered' /\ Live' = Live
    BY <2>1, TasksFrame DEF Rolling
  <2> QED
    BY <1>1, <2>1, <2>2 DEF IInv, OverToCapture, PayloadRenders, PlanRenders, RollRenders, Rolling, Found
<1>3. ASSUME NEW t \in Task, NEW r \in Row, NEW v \in Value \cup {None}, Apply(t, r, v)
      PROVE  IInv'
  BY <1>1, <1>3, ApplySafe DEF Content
<1>4. ASSUME NEW t \in Task,
             \/ Stage(t) \/ StageFails(t) \/ RollBack(t)
             \/ SnapshotAfter(t) \/ SnapshotFails(t) \/ Succeed(t) \/ Fail(t)
      PROVE  IInv'
  BY <1>1, <1>4, StageSafe, SnapshotAfterSafe, SnapshotFailsSafe, SucceedSafe, FailSafe
<1>5. ASSUME NEW s \in Snap, NEW adopt \in BOOLEAN, Plan(s, adopt)
      PROVE  IInv'
  BY <1>1, <1>5, PlanSafe
<1>6. CASE ObserveSnapshots \/ \E s \in Snap : Collect(s)
  BY <1>1, <1>6, SnapshotsSafe
<1>7. CASE \/ Refuse \/ ApplyRollback
           \/ Restore \/ RestoreMissing \/ RestoreBreaks \/ RestoreDone \/ RestoreUndone
           \/ RollbackSnapshotFails \/ RollbackSucceeds \/ RollbackFails
  BY <1>1, <1>7, RefuseSafe, ApplyRollbackSafe, OddSafe, RestoreSafe, RollbackSucceedsSafe,
     RollbackFailsSafe
<1> QED
  BY <1>2, <1>3, <1>4, <1>5, <1>6, <1>7 DEF Next

\* For any rows, tasks, snapshots and failures, the invariant behind Restored.
THEOREM Inductive == Spec => []IInv
<1>1. Init => IInv
  BY SafeInit
<1>2. IInv /\ [Next]_vars => IInv'
  BY SafeStep
<1> QED
  BY <1>1, <1>2, PTL DEF Spec

\* Whenever nothing runs the files hold what is desired, after any failure and any
\* adoption that ran alone (config-rollback.ts adoptOverlay, snapshot-desired.ts,
\* engine.ts revertDesired, config-rollback-executor.ts).
THEOREM Restored == Spec => []AdoptedIsRestored
<1>1. IInv => AdoptedIsRestored
  BY DEF IInv, OthersRendered, AdoptedIsRestored, Rendered, Held
<1> QED
  BY <1>1, Inductive, PTL
=============================================================================
