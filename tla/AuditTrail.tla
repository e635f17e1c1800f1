----------------------------- MODULE AuditTrail -----------------------------
(***************************************************************************)
(* The audit outbox and the drainer that copies it to audit.jsonl.  When   *)
(* the response of a request is out, its entry is queued as the next row;  *)
(* a drain appends the pending rows line by line, each with an fsync, and  *)
(* marks the batch durable in one transaction; a restart first reads the   *)
(* whole file, marks the rows it finds there and appends the others.       *)
(* A row is named by its audit_seq, its position in rows; its hash covers  *)
(* the rows before it, which no statement ever deletes, so the chain in    *)
(* the file is intact when each line comes after that of its predecessor.  *)
(* The database is in WAL mode and never told to sync at a commit: when    *)
(* the machine stops, what was committed since the WAL was last synced is  *)
(* gone, and no one knows when that was, while the lines of the file are   *)
(* synced one by one.                                                      *)
(*   rows     the outbox, each with the line that the mark recorded        *)
(*   wal      the versions of the outbox that a crash of the machine may   *)
(*            bring back: each one committed since the machine started,    *)
(*            for the WAL may last have been synced at any of them         *)
(*   served   the requests whose response is out                           *)
(*   file     the lines of audit.jsonl, each with its row's number and     *)
(*            entry; seq is 0 for one that does not parse, ended FALSE     *)
(*            when its newline is missing                                  *)
(*   synced   the lines that a crash of the machine leaves                 *)
(*   up       whether the api serves                                       *)
(*   batch    the drain under way: rows to do, the one being written, the  *)
(*            lines recorded, whether it is the recovery's                 *)
(*   missed   history: a line that is not whole on disk passed for written *)
(*   stranded history: a crash of the machine took a row and left its line *)
(*   retried  history: a drain failed                                      *)
(***************************************************************************)
EXTENDS Naturals, Sequences

CONSTANTS
    Request,
    NoEntry,     \* what a line says that does not parse
    MaxFaults    \* bound: failed and missed writes, failed marks and inserts, crashes

ASSUME FaultBound == MaxFaults \in Nat

VARIABLES rows, wal, served, file, synced, up, batch, missed, stranded, retried, faults
database == <<rows, wal>>
history  == <<missed, stranded, retried>>
vars == <<database, served, file, synced, up, batch, history, faults>>

\* marks has the line of each row that was written, and 0 for the others.
NoBatch == [on |-> FALSE, todo |-> {}, cur |-> 0, marks |-> <<>>, boot |-> FALSE]
Batch   == [on : BOOLEAN, todo : SUBSET Nat, cur : Nat, marks : Seq(Nat), boot : BOOLEAN]
Idle    == ~batch.on

FileLine == [seq : Nat, entry : Request \cup {NoEntry}, ended : BOOLEAN]
Line(n) == [seq |-> n, entry |-> rows[n].entry, ended |-> TRUE]
Garbled == [seq |-> 0, entry |-> NoEntry, ended |-> TRUE]
Cut     == [seq |-> 0, entry |-> NoEntry, ended |-> FALSE]

Row  == [entry : Request, durable : BOOLEAN, at : Nat]
Seqs == DOMAIN rows
Pending == {n \in Seqs : ~rows[n].durable}

Fault == faults < MaxFaults /\ faults' = faults + 1

\* A transaction ends: the system has it, the disk perhaps not yet.
Commit(version) == rows' = version /\ wal' = wal \cup {version}

-----------------------------------------------------------------------------
(***************************************************************************)
(* The audit middleware.                                                   *)
(***************************************************************************)
\* The response is out: the entry becomes the last row, if the insert succeeds.
Finish(r) ==
    /\ up /\ Idle /\ r \notin served
    /\ served' = served \cup {r}
    /\ Commit(Append(rows, [entry |-> r, durable |-> FALSE, at |-> 0]))
    /\ UNCHANGED <<file, synced, up, batch, history, faults>>

\* An insert that throws is logged, and the entry is gone.
QueueFails(r) ==
    /\ up /\ Idle /\ r \notin served
    /\ Fault
    /\ served' = served \cup {r}
    /\ UNCHANGED <<database, file, synced, up, batch, history>>

-----------------------------------------------------------------------------
(***************************************************************************)
(* A drain, of the timer or before a query.  It runs without a pause: only *)
(* a crash comes between its steps.                                        *)
(***************************************************************************)
DrainOf(todo, boot) ==
    [on |-> TRUE, todo |-> todo, cur |-> 0, marks |-> [n \in Seqs |-> 0], boot |-> boot]

\* Mutant: a drain that failed ends the timer.
StartDrain_Stopped ==
    /\ up /\ Idle /\ Pending # {} /\ ~retried
    /\ batch' = DrainOf(Pending, FALSE)
    /\ UNCHANGED <<database, served, file, synced, up, history, faults>>

StartDrain ==
    /\ up /\ Idle /\ Pending # {}
    /\ batch' = DrainOf(Pending, FALSE)
    /\ UNCHANGED <<database, served, file, synced, up, history, faults>>

\* Mutant: the rows come in no order.
First_Any(n) == n \in batch.todo

First(n) == n \in batch.todo /\ \A m \in batch.todo : n <= m

\* What is written after a line without an end becomes part of it.
Unended == Len(file) > 0 /\ ~file[Len(file)].ended

WriteLine ==
    /\ batch.on /\ batch.cur = 0
    /\ \E n \in Seqs :
         /\ First(n)
         /\ batch' = [batch EXCEPT !.cur = n, !.todo = @ \ {n}]
         /\ file' = IF Unended THEN [file EXCEPT ![Len(file)] = Garbled]
                    ELSE Append(file, Line(n))
    /\ UNCHANGED <<database, served, synced, up, history, faults>>

\* The count that the write returns is not looked at.
WriteShort ==
    /\ batch.on /\ batch.cur = 0 /\ Fault
    /\ \E n \in Seqs :
         /\ First(n)
         /\ batch' = [batch EXCEPT !.cur = n, !.todo = @ \ {n}]
         /\ file' = IF Unended THEN file ELSE Append(file, Cut)
    /\ missed' = TRUE
    /\ UNCHANGED <<database, served, synced, up, stranded, retried>>

Sync ==
    /\ batch.on /\ batch.cur # 0
    /\ synced' = Len(file)
    /\ batch' = [batch EXCEPT !.cur = 0, !.marks[batch.cur] = Len(file)]
    /\ UNCHANGED <<database, served, file, up, history, faults>>

Marked(marks) ==
    [n \in Seqs |-> IF marks[n] # 0 THEN [rows[n] EXCEPT !.durable = TRUE, !.at = marks[n]]
                    ELSE rows[n]]

MarkBatchDurable ==
    /\ batch.on /\ batch.cur = 0 /\ batch.todo = {}
    /\ Commit(Marked(batch.marks))
    /\ batch' = NoBatch
    /\ up' = TRUE
    /\ UNCHANGED <<served, file, synced, history, faults>>

\* Mutant: the rows that were written are marked all the same.
DrainThrows_Marks ==
    /\ batch.on /\ Fault
    /\ Commit(Marked([n \in Seqs |-> IF n = batch.cur THEN Len(file) ELSE batch.marks[n]]))
    /\ batch' = NoBatch
    /\ retried' = TRUE
    /\ UNCHANGED <<served, file, synced, up, missed, stranded>>

\* The open, a write, an fsync or the transaction throws: the lines that were
\* written stay and no row is marked; a recovery that fails ends the process.
DrainThrows ==
    /\ batch.on /\ Fault
    /\ batch' = NoBatch
    /\ retried' = TRUE
    /\ UNCHANGED <<database, served, file, synced, up, missed, stranded>>

-----------------------------------------------------------------------------
(***************************************************************************)
(* Crash and restart.                                                      *)
(***************************************************************************)
Down == up' = FALSE /\ batch' = NoBatch

\* The process ends; the system keeps what was written.
ProcessCrash ==
    /\ up \/ batch.on
    /\ Fault /\ Down
    /\ UNCHANGED <<database, served, file, synced, history>>

\* The machine stops.  Of the lines that were not synced a part is left, the last one
\* cut, or without its newline, which nobody sees; of the commits that were not synced
\* the first so many, whatever the file says: a line may be left whose row is gone, and
\* whose number the next row gets.
MachineCrash ==
    /\ Fault /\ Down
    /\ \E k \in synced..Len(file) :
         \/ file' = SubSeq(file, 1, k) /\ UNCHANGED missed
         \/ k < Len(file) /\ file' = Append(SubSeq(file, 1, k), Cut) /\ UNCHANGED missed
         \/ /\ k < Len(file)
            /\ file' = Append(SubSeq(file, 1, k), [file[k + 1] EXCEPT !.ended = FALSE])
            /\ missed' = TRUE
    /\ synced' = Len(file')
    /\ \E version \in wal : rows' = version /\ wal' = {version}
    /\ stranded' = (stranded \/ \E i \in 1..Len(file') : file'[i].seq > Len(rows'))
    /\ UNCHANGED <<served, retried>>

Readable == \A i \in 1..Len(file) : file[i].seq # 0

LinesOf(n) == {i \in 1..Len(file) : file[i].seq = n}

\* Mutant: the file is not looked at.
Persisted_None == {}

\* The pending rows up to the greatest one of the file.
Persisted == {n \in Pending : \E i \in 1..Len(file) : n <= file[i].seq}

\* A file that does not parse, or that lacks a row it should have.
Refused == ~Readable \/ \E n \in Persisted : LinesOf(n) = {}

\* Of the lines of a row the last one counts.
Found(marks) ==
    \A n \in Seqs :
        IF n \in Persisted THEN marks[n] \in LinesOf(n) /\ \A i \in LinesOf(n) : i <= marks[n]
        ELSE marks[n] = 0

\* The rows found in the file are marked, without a sync of it.
Recover ==
    /\ ~up /\ Idle /\ ~Refused
    /\ missed' = (missed \/ synced < Len(file))
    /\ \E marks \in [Seqs -> 0..Len(file)] : Found(marks) /\ Commit(Marked(marks))
    /\ IF Pending = Persisted
         THEN up' = TRUE /\ UNCHANGED batch
         ELSE batch' = DrainOf(Pending \ Persisted, TRUE) /\ UNCHANGED up
    /\ UNCHANGED <<served, file, synced, stranded, retried, faults>>

\* An operator removes a line that was cut.
Repair ==
    /\ ~up /\ Idle /\ Unended
    /\ file' = SubSeq(file, 1, Len(file) - 1)
    /\ synced' = IF synced = Len(file) THEN synced - 1 ELSE synced
    /\ UNCHANGED <<database, served, up, batch, history, faults>>

-----------------------------------------------------------------------------
Init ==
    /\ rows = <<>> /\ wal = {rows} /\ served = {}
    /\ file = <<>> /\ synced = 0
    /\ up = TRUE /\ batch = NoBatch
    /\ missed = FALSE /\ stranded = FALSE /\ retried = FALSE /\ faults = 0

Next ==
    \/ \E r \in Request : Finish(r) \/ QueueFails(r)
    \/ StartDrain \/ WriteLine \/ WriteShort \/ Sync \/ MarkBatchDurable \/ DrainThrows
    \/ ProcessCrash \/ MachineCrash \/ Recover \/ Repair

Spec == Init /\ [][Next]_vars

\* The drain timer goes off, a drain runs through, systemd starts the api again.
FairSpec ==
    Spec /\ WF_vars(StartDrain) /\ WF_vars(WriteLine) /\ WF_vars(Sync)
         /\ WF_vars(MarkBatchDurable) /\ WF_vars(Recover)

-----------------------------------------------------------------------------
(***************************************************************************)
(* Properties.  Sound holds until a line that is not whole on disk passes  *)
(* for written, or the machine stops and a line outlives its row.          *)
(***************************************************************************)
Sound == ~missed /\ ~stranded

TypeOK ==
    /\ rows \in Seq(Row)
    /\ wal \subseteq Seq(Row) /\ rows \in wal
    /\ served \subseteq Request
    /\ file \in Seq(FileLine)
    /\ synced \in 0..Len(file)
    /\ batch \in Batch
    /\ batch.on => batch.todo \subseteq Seqs /\ batch.cur \in Seqs \cup {0} /\ DOMAIN batch.marks = Seqs
    /\ up \in BOOLEAN /\ missed \in BOOLEAN /\ stranded \in BOOLEAN /\ retried \in BOOLEAN
    /\ batch.on /\ ~batch.boot => up
    /\ faults \in 0..MaxFaults

\* A row that counts as durable has its own line on disk, whole, where its mark says, and
\* no crash takes it away: also after one that took back marks, or rows no line of which
\* was left.  (audit-drainer.ts appendAndMark, recover)
DurableInFile ==
    Sound => \A n \in Seqs :
               rows[n].durable => rows[n].at \in 1..synced /\ file[rows[n].at] = Line(n)

\* The line of a row comes after that of the row before it, through failed drains,
\* crashes and recoveries: the hash chain can be followed in the file.
\* (audit-drainer.ts listPendingStmt, recover)
FileInOrder ==
    Sound => \A i \in 1..Len(file) :
               file[i].seq > 1 => \E j \in 1..(i - 1) : file[j].seq = file[i].seq - 1

\* What makes the last two inductive.
Written(n, i) == i \in 1..synced /\ file[i] = Line(n)

\* Any version that may come back says of its rows what the outbox does, and calls none
\* durable that is not written.
Before(version) ==
    /\ Len(version) <= Len(rows)
    /\ \A n \in 1..Len(version) :
         /\ version[n].entry = rows[n].entry
         /\ version[n].durable => Written(n, version[n].at)

VersionsTrue == \A version \in wal : Before(version)
LinesKnown   == \A i \in 1..Len(file) : file[i] = Cut \/ \E n \in Seqs : file[i] = Line(n)
ServedWhole  == (up \/ batch.on) => Readable
MarksTrue    == batch.on => \A n \in Seqs : batch.marks[n] # 0 => Written(n, batch.marks[n])
CurLast      == batch.on /\ batch.cur # 0 => Len(file) > 0 /\ file[Len(file)] = Line(batch.cur)
PendingSeen  ==
    batch.on => \A n \in Pending : n \in batch.todo \/ n = batch.cur \/ batch.marks[n] # 0

IInv ==
    /\ TypeOK
    /\ (Sound => VersionsTrue /\ LinesKnown /\ ServedWhole /\ MarksTrue /\ CurLast /\ PendingSeen)
    /\ DurableInFile /\ FileInOrder

\* Neither a crash between the fsync and the mark nor one that takes the mark back makes
\* a second line.  (recover)
WrittenOnce ==
    Sound /\ ~retried =>
        \A i, j \in 1..Len(file) : file[i].seq = file[j].seq /\ file[i].seq # 0 => i = j

\* Every entry that was queued becomes durable, unless a crash of the machine takes it
\* back or recovery refuses the file.  (drainer.start, recover)
Waiting(r) == \E n \in Pending : rows[n].entry = r

EveryRowDrained == \A r \in Request : Waiting(r) ~> ~Waiting(r) \/ Refused

\* The outbox and the file implement an append-only trail: what is on disk grows
\* in the order in which the entries were queued, and none is lost, overtaken or, to
\* a reader who skips the repeated lines, doubled; only a crash of the machine loses, and
\* only the last ones of those that wait.  So it is as long as Sound holds.
\* (audit-drainer.ts, audit.ts queue)

\* The numbers up to n that are in S, the least one first.
InOrder(S, n) ==
    LET upTo[k \in 0..n] ==
            IF k = 0 THEN <<>> ELSE IF k \in S THEN Append(upTo[k - 1], k) ELSE upTo[k - 1]
    IN  upTo[n]

FirstLines == {i \in 1..synced : file[i].seq # 0 /\ \A j \in 1..(i - 1) : file[j].seq # file[i].seq}
OnDisk ==
    LET first == InOrder(FirstLines, synced)
    IN  [i \in 1..Len(first) |-> file[first[i]].entry]

NotOnDisk ==
    LET unwritten == InOrder({n \in Seqs : \A i \in 1..synced : file[i].seq # n}, Len(rows))
    IN  [i \in 1..Len(unwritten) |-> rows[unwritten[i]].entry]

Trail == INSTANCE AppendOnlyTrail WITH Entry <- Request, log <- OnDisk, waiting <- NotOnDisk
ImplementsTrail ==
    /\ Trail!Init
    /\ [][Trail!Grow \/ (MachineCrash /\ Trail!PowerLoss) \/ ~Sound']_(Trail!vars)
=============================================================================
