-------------------------- MODULE AuditTrailProofs --------------------------
(***************************************************************************)
(* The audit trail's type invariant and, until a line that is not whole on *)
(* disk passes for written or a line outlives its row, that a durable      *)
(* row's line is on disk, that the file is in order, and that file and     *)
(* outbox implement an append-only trail, for any requests and faults.     *)
(***************************************************************************)
EXTENDS AuditTrail, SequenceTheorems, WellFoundedInduction, TLAPS

USE FaultBound

-----------------------------------------------------------------------------
(***************************************************************************)
(* Sequences: what is appended, cut off or replaced.                       *)
(***************************************************************************)
LEMMA Appended ==
    ASSUME NEW S, NEW s \in Seq(S), NEW x \in S
    PROVE  /\ Append(s, x) \in Seq(S)
           /\ Len(Append(s, x)) = Len(s) + 1
           /\ \A i \in 1..Len(s) : Append(s, x)[i] = s[i]
           /\ Append(s, x)[Len(s) + 1] = x
    BY AppendProperties

LEMMA Prefix ==
    ASSUME NEW S, NEW s \in Seq(S), NEW k \in 0..Len(s)
    PROVE  /\ SubSeq(s, 1, k) \in Seq(S)
           /\ Len(SubSeq(s, 1, k)) = k
           /\ \A i \in 1..k : SubSeq(s, 1, k)[i] = s[i]
    <1>1. Len(s) \in Nat /\ k \in Nat
        BY LenProperties
    <1>2. CASE k = 0
        BY <1>2, SubSeqProperties, EmptySeq
    <1>3. CASE k # 0
        BY <1>1, <1>3, SubSeqProperties
    <1>4. QED BY <1>2, <1>3

LEMMA Replaced ==
    ASSUME NEW S, NEW s \in Seq(S), NEW k \in 1..Len(s), NEW x \in S
    PROVE  /\ [s EXCEPT ![k] = x] \in Seq(S)
           /\ Len([s EXCEPT ![k] = x]) = Len(s)
           /\ \A i \in 1..Len(s) : [s EXCEPT ![k] = x][i] = IF i = k THEN x ELSE s[i]
    BY ExceptSeq

LEMMA FunctionIsSeq ==
    ASSUME NEW S, NEW n \in Nat, NEW f \in [1..n -> S]
    PROVE  f \in Seq(S) /\ Len(f) = n
    <1>1. f \in Seq(S)
        BY SeqDef
    <1>2. Len(f) \in Nat /\ 1..Len(f) = 1..n
        BY <1>1, LenProperties
    <1>3. QED BY <1>1, <1>2

\* What the type invariant says of the parts.
LEMMA Types ==
    ASSUME TypeOK
    PROVE  /\ rows \in Seq(Row) /\ Len(rows) \in Nat /\ Seqs = 1..Len(rows)
           /\ rows \in wal /\ wal \subseteq Seq(Row) /\ \A version \in wal : Len(version) \in Nat
           /\ Seqs \subseteq Nat /\ Pending \subseteq Seqs
           /\ \A n \in Seqs : rows[n] \in Row
           /\ file \in Seq(FileLine) /\ Len(file) \in Nat
           /\ \A i \in 1..Len(file) : file[i] \in FileLine
           /\ synced \in 0..Len(file)
           /\ batch \in Batch
           /\ batch.on => /\ batch.todo \subseteq Seqs /\ batch.cur \in Seqs \cup {0}
                          /\ batch.marks \in [Seqs -> Nat]
    <1>1. rows \in Seq(Row) /\ file \in Seq(FileLine) /\ synced \in 0..Len(file) /\ batch \in Batch
        BY DEF TypeOK
    <1>2. Len(rows) \in Nat /\ Seqs = 1..Len(rows) /\ Len(file) \in Nat
        BY <1>1, LenProperties DEF Seqs
    <1>3. Seqs \subseteq Nat /\ Pending \subseteq Seqs
        BY <1>2 DEF Pending
    <1>4. \A n \in Seqs : rows[n] \in Row
        BY <1>1, <1>2, ElementOfSeq
    <1>5. \A i \in 1..Len(file) : file[i] \in FileLine
        BY <1>1, ElementOfSeq
    <1>6. ASSUME batch.on
          PROVE  /\ batch.todo \subseteq Seqs /\ batch.cur \in Seqs \cup {0}
                 /\ batch.marks \in [Seqs -> Nat]
        <2>1. batch.todo \subseteq Seqs /\ batch.cur \in Seqs \cup {0} /\ DOMAIN batch.marks = Seqs
            BY <1>6 DEF TypeOK
        <2>2. batch.marks \in Seq(Nat)
            BY <1>1 DEF Batch
        <2>3. batch.marks \in [1..Len(batch.marks) -> Nat] /\ DOMAIN batch.marks = 1..Len(batch.marks)
            BY <2>2, LenProperties
        <2>4. QED BY <2>1, <2>3
    <1>7. rows \in wal /\ wal \subseteq Seq(Row) /\ \A version \in wal : Len(version) \in Nat
        BY LenProperties DEF TypeOK
    <1>8. QED BY <1>1, <1>2, <1>3, <1>4, <1>5, <1>6, <1>7

\* The line of a row is one that the file can have.
LEMMA LineOfRow ==
    ASSUME TypeOK, NEW n \in Seqs
    PROVE  Line(n) \in FileLine /\ Line(n).seq = n /\ Line(n).ended /\ n \in Nat /\ n > 0
    <1>1. n \in Nat /\ n > 0 /\ rows[n].entry \in Request
        BY Types DEF Row
    <1>2. QED BY <1>1 DEF Line, FileLine

\* A commit of rows leaves versions of the outbox.
LEMMA Committed ==
    ASSUME TypeOK, NEW version \in Seq(Row), Commit(version)
    PROVE  /\ rows' = version /\ wal' = wal \cup {rows'}
           /\ rows' \in Seq(Row) /\ rows' \in wal' /\ wal' \subseteq Seq(Row)
    BY Types DEF Commit

\* Marking rows changes neither their number nor their type.
LEMMA MarkedRows ==
    ASSUME TypeOK, NEW marks \in [Seqs -> Nat]
    PROVE  /\ Marked(marks) \in Seq(Row)
           /\ Len(Marked(marks)) = Len(rows)
           /\ DOMAIN Marked(marks) = Seqs
           /\ \A n \in Seqs :
                Marked(marks)[n] = IF marks[n] # 0 THEN [rows[n] EXCEPT !.durable = TRUE, !.at = marks[n]]
                                   ELSE rows[n]
    <1>1. Seqs = 1..Len(rows) /\ Len(rows) \in Nat /\ \A n \in Seqs : rows[n] \in Row
        BY Types
    <1>2. \A n \in Seqs : [rows[n] EXCEPT !.durable = TRUE, !.at = marks[n]] \in Row
        BY <1>1 DEF Row
    <1>3. Marked(marks) \in [1..Len(rows) -> Row] /\ DOMAIN Marked(marks) = Seqs
        BY <1>1, <1>2 DEF Marked
    <1>4. Marked(marks) \in Seq(Row) /\ Len(Marked(marks)) = Len(rows)
        BY <1>1, <1>3, FunctionIsSeq
    <1>5. QED BY <1>3, <1>4 DEF Marked

\* Taking the next row to write leaves a batch.
LEMMA Taken ==
    ASSUME TypeOK, batch.on, NEW n \in Seqs,
           batch' = [batch EXCEPT !.cur = n, !.todo = @ \ {n}]
    PROVE  /\ batch' \in Batch /\ batch'.on /\ batch'.cur = n /\ batch'.todo = batch.todo \ {n}
           /\ batch'.marks = batch.marks /\ batch'.boot = batch.boot
    <1>1. n \in Nat /\ batch \in Batch
        BY Types
    <1>2. QED BY <1>1 DEF Batch

\* So does recording the line of the row that was written.
LEMMA SyncedRow ==
    ASSUME TypeOK, batch.on, NEW m \in Seq(Nat), DOMAIN m = Seqs,
           batch' = [batch EXCEPT !.cur = 0, !.marks = m]
    PROVE  /\ batch' \in Batch /\ batch'.on /\ batch'.cur = 0 /\ batch'.todo = batch.todo
           /\ batch'.marks = m /\ batch'.boot = batch.boot
    <1>1. batch \in Batch
        BY Types
    <1>2. QED BY <1>1 DEF Batch

\* A new batch.
LEMMA Begun ==
    ASSUME TypeOK, NEW todo \in SUBSET Seqs, NEW boot \in BOOLEAN
    PROVE  /\ DrainOf(todo, boot) \in Batch /\ DrainOf(todo, boot).on /\ DrainOf(todo, boot).boot = boot
           /\ DrainOf(todo, boot).cur = 0 /\ DrainOf(todo, boot).todo = todo
           /\ DOMAIN DrainOf(todo, boot).marks = Seqs
           /\ \A n \in Seqs : DrainOf(todo, boot).marks[n] = 0
    <1>1. Seqs = 1..Len(rows) /\ Len(rows) \in Nat /\ Seqs \subseteq Nat
        BY Types
    <1>2. [n \in Seqs |-> 0] \in Seq(Nat)
        BY <1>1, FunctionIsSeq, [n \in Seqs |-> 0] \in [1..Len(rows) -> Nat]
    <1>3. todo \in SUBSET Nat
        BY <1>1
    <1>4. QED BY <1>2, <1>3 DEF DrainOf, Batch

LEMMA NoBatchIsBatch == NoBatch \in Batch /\ ~NoBatch.on
    <1>1. <<>> \in Seq(Nat)
        BY EmptySeq
    <1>2. QED BY <1>1 DEF NoBatch, Batch

-----------------------------------------------------------------------------
(***************************************************************************)
(* Type correctness.                                                       *)
(***************************************************************************)
LEMMA TypeInit == Init => TypeOK
    <1> SUFFICES ASSUME Init PROVE TypeOK
        OBVIOUS
    <1>1. rows \in Seq(Row) /\ file \in Seq(FileLine) /\ Len(file) = 0
        BY EmptySeq DEF Init
    <1>2. /\ batch \in Batch /\ ~batch.on
          /\ served \subseteq Request /\ synced = 0 /\ faults = 0
        BY NoBatchIsBatch DEF Init
    <1>3. up \in BOOLEAN /\ missed \in BOOLEAN /\ stranded \in BOOLEAN /\ retried \in BOOLEAN
        BY DEF Init
    <1>4. synced \in 0..Len(file) /\ faults \in 0..MaxFaults
        BY <1>1, <1>2
    <1>5. wal \subseteq Seq(Row) /\ rows \in wal
        BY <1>1 DEF Init
    <1>6. QED BY <1>1, <1>2, <1>3, <1>4, <1>5 DEF TypeOK

\* The file after a crash of the machine that left k lines and perhaps one more.
LEMMA CrashedFile ==
    ASSUME TypeOK, MachineCrash
    PROVE  \E k \in synced..Len(file) :
             /\ file' \in Seq(FileLine) /\ Len(file') \in k..(k + 1) /\ k \in 0..Len(file)
             /\ \A i \in 1..k : file'[i] = file[i]
             /\ missed' = TRUE \/ (missed' = missed /\ (Len(file') = k + 1 => file'[k + 1] = Cut))
    <1>1. PICK k \in synced..Len(file) :
            \/ file' = SubSeq(file, 1, k) /\ UNCHANGED missed
            \/ k < Len(file) /\ file' = Append(SubSeq(file, 1, k), Cut) /\ UNCHANGED missed
            \/ /\ k < Len(file)
               /\ file' = Append(SubSeq(file, 1, k), [file[k + 1] EXCEPT !.ended = FALSE])
               /\ missed' = TRUE
        BY DEF MachineCrash
    <1>2. file \in Seq(FileLine) /\ Len(file) \in Nat /\ k \in 0..Len(file)
          /\ \A i \in 1..Len(file) : file[i] \in FileLine
        BY Types
    <1>3. /\ SubSeq(file, 1, k) \in Seq(FileLine) /\ Len(SubSeq(file, 1, k)) = k
          /\ \A i \in 1..k : SubSeq(file, 1, k)[i] = file[i]
        BY <1>2, Prefix
    <1>4. Cut \in FileLine
        BY DEF Cut, FileLine
    <1>a. ASSUME k < Len(file) PROVE [file[k + 1] EXCEPT !.ended = FALSE] \in FileLine
        <2>1. file[k + 1] \in FileLine
            BY <1>2, <1>a
        <2>2. QED BY <2>1 DEF FileLine
    <1>b. ASSUME NEW x \in FileLine
          PROVE  /\ Append(SubSeq(file, 1, k), x) \in Seq(FileLine)
                 /\ Len(Append(SubSeq(file, 1, k), x)) = k + 1
                 /\ \A i \in 1..k : Append(SubSeq(file, 1, k), x)[i] = file[i]
                 /\ Append(SubSeq(file, 1, k), x)[k + 1] = x
        <2>1. \A i \in 1..k : Append(SubSeq(file, 1, k), x)[i] = SubSeq(file, 1, k)[i]
            BY <1>3, Appended
        <2>2. QED BY <1>2, <1>3, <2>1, Appended
    <1>5. CASE file' = SubSeq(file, 1, k) /\ UNCHANGED missed
        BY <1>2, <1>3, <1>5
    <1>6. CASE file' = Append(SubSeq(file, 1, k), Cut) /\ UNCHANGED missed
        BY <1>2, <1>4, <1>b, <1>6
    <1>7. CASE /\ k < Len(file) /\ missed' = TRUE
               /\ file' = Append(SubSeq(file, 1, k), [file[k + 1] EXCEPT !.ended = FALSE])
        <2>1. PICK x \in FileLine : file' = Append(SubSeq(file, 1, k), x)
            BY <1>a, <1>7
        <2>2. Len(file') = k + 1 /\ file' \in Seq(FileLine) /\ \A i \in 1..k : file'[i] = file[i]
            BY <1>b, <2>1
        <2>3. QED BY <1>2, <1>7, <2>2
    <1>8. QED BY <1>1, <1>5, <1>6, <1>7

LEMMA TypeStep == TypeOK /\ [Next]_vars => TypeOK'
    <1> SUFFICES ASSUME TypeOK, [Next]_vars PROVE TypeOK'
        OBVIOUS
    <1>0. /\ served \subseteq Request /\ up \in BOOLEAN /\ missed \in BOOLEAN /\ stranded \in BOOLEAN
          /\ retried \in BOOLEAN /\ faults \in 0..MaxFaults
          /\ (batch.on /\ ~batch.boot => up)
        BY DEF TypeOK
    <1>1. ASSUME NEW r \in Request, Finish(r) PROVE TypeOK'
        <2>1. [entry |-> r, durable |-> FALSE, at |-> 0] \in Row
            BY DEF Row
        <2>2. rows' \in Seq(Row) /\ rows' \in wal' /\ wal' \subseteq Seq(Row)
            BY <1>1, <2>1, Appended, Committed, Types DEF Finish
        <2>3. QED BY <1>0, <1>1, <2>2, Types DEF Finish, history, Idle, TypeOK
    <1>2. ASSUME NEW r \in Request, QueueFails(r) PROVE TypeOK'
        BY <1>0, <1>2, Types DEF QueueFails, database, history, Fault, Idle, TypeOK, Seqs
    <1>3. CASE StartDrain
        <2>1. batch' = DrainOf(Pending, FALSE) /\ rows' = rows
            BY <1>3 DEF StartDrain, database
        <2>2. batch' \in Batch /\ ~batch'.boot /\ batch'.cur = 0 /\ batch'.todo = Pending
              /\ DOMAIN batch'.marks = Seqs
            BY <2>1, Begun, Types
        <2>3. QED BY <1>0, <1>3, <2>2, Types DEF StartDrain, database, history, TypeOK, Seqs
    <1>4. CASE WriteLine
        <2>1. PICK n \in Seqs : /\ batch' = [batch EXCEPT !.cur = n, !.todo = @ \ {n}]
                                /\ file' = IF Unended THEN [file EXCEPT ![Len(file)] = Garbled]
                                           ELSE Append(file, Line(n))
            BY <1>4 DEF WriteLine
        <2>2. Garbled \in FileLine /\ Line(n) \in FileLine
            BY LineOfRow DEF Garbled, FileLine
        <2>3. file' \in Seq(FileLine) /\ Len(file') >= Len(file)
            <3>1. CASE Unended
                BY <2>1, <2>2, <3>1, Types, Replaced DEF Unended
            <3>2. CASE ~Unended
                BY <2>1, <2>2, <3>2, Types, Appended
            <3>3. QED BY <3>1, <3>2
        <2>4. /\ batch' \in Batch /\ batch'.on /\ batch'.cur = n /\ batch'.todo = batch.todo \ {n}
              /\ batch'.marks = batch.marks /\ batch'.boot = batch.boot
            BY <1>4, <2>1, Taken DEF WriteLine
        <2>5. Len(file') \in Nat
            BY <2>3, LenProperties
        <2>6. QED BY <1>0, <1>4, <2>3, <2>4, <2>5, Types DEF WriteLine, database, history, TypeOK, Seqs
    <1>5. CASE WriteShort
        <2>1. PICK n \in Seqs : /\ batch' = [batch EXCEPT !.cur = n, !.todo = @ \ {n}]
                                /\ file' = IF Unended THEN file ELSE Append(file, Cut)
            BY <1>5 DEF WriteShort
        <2>2. Cut \in FileLine
            BY DEF Cut, FileLine
        <2>3. file' \in Seq(FileLine) /\ Len(file') >= Len(file) /\ Len(file') \in Nat
            BY <2>1, <2>2, Types, Appended
        <2>4. /\ batch' \in Batch /\ batch'.on /\ batch'.cur = n /\ batch'.todo = batch.todo \ {n}
              /\ batch'.marks = batch.marks /\ batch'.boot = batch.boot
            BY <1>5, <2>1, Taken DEF WriteShort
        <2>5. QED BY <1>0, <1>5, <2>3, <2>4, Types DEF WriteShort, database, Fault, TypeOK, Seqs
    <1>6. CASE Sync
        <2>1. /\ batch' \in Batch /\ DOMAIN batch'.marks = Seqs /\ batch'.on /\ batch'.cur = 0
              /\ batch'.todo = batch.todo /\ batch'.boot = batch.boot
            <3>1. batch.marks \in Seq(Nat) /\ batch \in Batch
                BY Types DEF Batch
            <3>2. batch.cur \in 1..Len(batch.marks) /\ DOMAIN batch.marks = Seqs
                BY <1>6, <3>1, Types, LenProperties DEF Sync
            <3>3. [batch.marks EXCEPT ![batch.cur] = Len(file)] \in Seq(Nat)
                BY <3>1, <3>2, Types, ExceptSeq
            <3>4. batch' = [batch EXCEPT !.cur = 0, !.marks = [batch.marks EXCEPT ![batch.cur] = Len(file)]]
                BY <1>6 DEF Sync
            <3>5. DOMAIN [batch.marks EXCEPT ![batch.cur] = Len(file)] = Seqs
                BY <3>2
            <3>6. QED BY <1>6, <3>3, <3>4, <3>5, SyncedRow DEF Sync
        <2>2. QED BY <1>0, <1>6, <2>1, Types DEF Sync, database, history, TypeOK, Seqs
    <1>7. CASE MarkBatchDurable
        <2>1. Commit(Marked(batch.marks)) /\ batch.marks \in [Seqs -> Nat]
            BY <1>7, Types DEF MarkBatchDurable
        <2>2. rows' \in Seq(Row) /\ rows' \in wal' /\ wal' \subseteq Seq(Row)
            BY <2>1, MarkedRows, Committed
        <2>3. QED BY <1>0, <1>7, <2>2, Types, NoBatchIsBatch DEF MarkBatchDurable, history, TypeOK
    <1>8. CASE DrainThrows
        BY <1>0, <1>8, Types, NoBatchIsBatch DEF DrainThrows, database, Fault, TypeOK
    <1>9. CASE ProcessCrash
        <2>1. up' \in BOOLEAN /\ batch' \in Batch /\ ~batch'.on
            BY <1>9, NoBatchIsBatch DEF ProcessCrash, Down
        <2>2. faults' \in 0..MaxFaults
            BY <1>0, <1>9 DEF ProcessCrash, Fault
        <2>3. QED BY <1>0, <1>9, <2>1, <2>2, Types DEF ProcessCrash, database, history, TypeOK
    <1>10. CASE MachineCrash
        <2>1. file' \in Seq(FileLine) /\ missed' \in BOOLEAN
            BY <1>0, <1>10, CrashedFile
        <2>2. synced' \in 0..Len(file')
            BY <1>10, <2>1, LenProperties DEF MachineCrash
        <2>3. up' \in BOOLEAN /\ batch' \in Batch /\ ~batch'.on
            BY <1>10, NoBatchIsBatch DEF MachineCrash, Down
        <2>4. faults' \in 0..MaxFaults
            BY <1>0, <1>10 DEF MachineCrash, Fault
        <2>5. rows' \in Seq(Row) /\ rows' \in wal' /\ wal' \subseteq Seq(Row)
            BY <1>10, Types DEF MachineCrash
        <2>6. stranded' \in BOOLEAN /\ retried' = retried /\ served' = served
            BY <1>0, <1>10 DEF MachineCrash
        <2>7. QED BY <1>0, <2>1, <2>2, <2>3, <2>4, <2>5, <2>6 DEF TypeOK
    <1>11. CASE Recover
        <2>1. PICK marks \in [Seqs -> 0..Len(file)] : Commit(Marked(marks))
            BY <1>11 DEF Recover
        <2>2. marks \in [Seqs -> Nat]
            BY Types
        <2>a. rows' \in Seq(Row) /\ DOMAIN rows' = Seqs /\ rows' \in wal' /\ wal' \subseteq Seq(Row)
            BY <2>1, <2>2, MarkedRows, Committed
        <2>3. CASE Pending = Persisted
            BY <1>0, <1>11, <2>a, <2>3, Types DEF Recover, TypeOK, Idle
        <2>4. CASE Pending # Persisted
            <3>1. batch' = DrainOf(Pending \ Persisted, TRUE) /\ Pending \ Persisted \in SUBSET Seqs
                BY <1>11, <2>4, Types DEF Recover
            <3>2. /\ batch' \in Batch /\ batch'.boot /\ batch'.cur = 0 /\ batch'.todo \subseteq Seqs
                  /\ DOMAIN batch'.marks = Seqs
                BY <3>1, Begun
            <3>3. QED BY <1>0, <1>11, <2>a, <2>4, <3>2, Types DEF Recover, TypeOK, Seqs
        <2>5. QED BY <2>3, <2>4
    <1>12. CASE Repair
        <2>1. Len(file) - 1 \in 0..Len(file) /\ Len(file) > 0
            BY <1>12, Types DEF Repair, Unended
        <2>2. file' \in Seq(FileLine) /\ Len(file') = Len(file) - 1
            BY <1>12, <2>1, Types, Prefix DEF Repair
        <2>3. QED BY <1>0, <1>12, <2>1, <2>2, Types DEF Repair, database, history, TypeOK, Seqs
    <1>13. CASE UNCHANGED vars
        BY <1>0, <1>13, Types DEF vars, database, history, TypeOK, Seqs
    <1>14. QED BY <1>1, <1>2, <1>3, <1>4, <1>5, <1>6, <1>7, <1>8, <1>9, <1>10, <1>11, <1>12, <1>13 DEF Next

\* Every reachable state is of the declared types.
THEOREM TypeCorrect == Spec => []TypeOK
    BY TypeInit, TypeStep, PTL DEF Spec

-----------------------------------------------------------------------------
(***************************************************************************)
(* As long as Sound holds: until a line that is not whole passes for       *)
(* written, or the machine stops and a line outlives its row.              *)
(***************************************************************************)
Durable == \A n \in Seqs : rows[n].durable => Written(n, rows[n].at)
Ordered == \A i \in 1..Len(file) :
             file[i].seq > 1 => \E j \in 1..(i - 1) : file[j].seq = file[i].seq - 1
Good == VersionsTrue /\ LinesKnown /\ ServedWhole /\ MarksTrue /\ CurLast /\ PendingSeen /\ Ordered

\* The outbox is one of the versions that may come back.
LEMMA GoodDurable ==
    ASSUME TypeOK, Good
    PROVE  Durable
    <1>1. rows \in wal /\ Seqs = 1..Len(rows)
        BY Types
    <1>2. Before(rows)
        BY <1>1 DEF Good, VersionsTrue
    <1>3. QED BY <1>1, <1>2 DEF Before, Durable

LEMMA IInvIsGood == IInv <=> TypeOK /\ (Sound => Good)
    <1>1. IInv => TypeOK /\ (Sound => Good)
        BY DEF IInv, Good, FileInOrder, Ordered
    <1>2. TypeOK /\ (Sound => Good) => DurableInFile
        BY GoodDurable DEF Durable, DurableInFile, Written
    <1>3. TypeOK /\ (Sound => Good) => IInv
        BY <1>2 DEF IInv, Good, FileInOrder, Ordered
    <1>4. QED BY <1>1, <1>3

\* A line that ends names a row and says what the row does.
LEMMA LinesAre ==
    ASSUME TypeOK, Good, NEW i \in 1..Len(file)
    PROVE  /\ file[i].seq \in Nat
           /\ \/ file[i] = Cut /\ file[i].seq = 0 /\ ~file[i].ended
              \/ /\ file[i].seq \in Seqs /\ file[i].seq > 0 /\ file[i].ended
                 /\ file[i] = Line(file[i].seq)
    <1>1. CASE file[i] = Cut
        BY <1>1 DEF Cut
    <1>2. ASSUME NEW n \in Seqs, file[i] = Line(n)
          PROVE  file[i].seq = n /\ file[i].ended /\ n \in Nat /\ n > 0
        BY <1>2, LineOfRow
    <1>3. file[i] = Cut \/ \E n \in Seqs : file[i] = Line(n)
        BY DEF Good, LinesKnown
    <1>4. QED BY <1>1, <1>2, <1>3

LEMMA ReadableEnds ==
    ASSUME TypeOK, Good, Readable
    PROVE  ~Unended
    <1>1. SUFFICES ASSUME Len(file) > 0 PROVE file[Len(file)].ended
        BY DEF Unended
    <1>2. Len(file) \in 1..Len(file)
        BY <1>1, Types
    <1>3. QED BY <1>2, LinesAre DEF Readable

\* The outbox keeps the rows it has, and what the synced lines say.
EntriesKept == Len(rows) <= Len(rows') /\ \A n \in Seqs : rows'[n].entry = rows[n].entry
FileKept    == synced <= synced' /\ \A i \in 1..synced : file'[i] = file[i]

LEMMA WrittenKept ==
    ASSUME TypeOK, EntriesKept, FileKept, synced' \in Nat, NEW n \in Seqs, NEW i, Written(n, i)
    PROVE  Written(n, i)'
    <1>1. i \in 1..synced /\ file[i] = Line(n) /\ synced \in Nat
        BY Types DEF Written
    <1>2. i \in 1..synced' /\ file'[i] = file[i]
        BY <1>1 DEF FileKept
    <1>3. Line(n)' = Line(n)
        BY DEF EntriesKept, Line
    <1>4. QED BY <1>1, <1>2, <1>3 DEF Written

\* A step that commits nothing, or rows that are written where they say.
LEMMA VersionsKept ==
    ASSUME TypeOK, TypeOK', Good, EntriesKept,
           \A n \in Seqs : \A i : Written(n, i) => Written(n, i)',
           wal' \subseteq wal \cup {rows'},
           \/ rows' = rows
           \/ \A n \in Seqs' : rows'[n].durable => Written(n, rows[n].at)'
    PROVE  VersionsTrue'
    <1>1. /\ Seqs = 1..Len(rows) /\ Len(rows) \in Nat /\ Seqs' = 1..Len(rows') /\ Len(rows') \in Nat
          /\ \A version \in wal : Len(version) \in Nat
        BY Types, LenProperties DEF TypeOK, Seqs
    <1>2. ASSUME NEW version \in wal PROVE Before(version)'
        <2>1. Before(version) /\ Len(version) \in Nat
            BY <1>1 DEF Good, VersionsTrue
        <2>2. Len(version) <= Len(rows')
            BY <1>1, <2>1 DEF Before, EntriesKept
        <2>3. ASSUME NEW n \in 1..Len(version)
              PROVE  /\ version[n].entry = rows'[n].entry
                     /\ version[n].durable => Written(n, version[n].at)'
            <3>1. n \in Seqs
                BY <1>1, <2>1 DEF Before
            <3>2. QED BY <2>1, <3>1 DEF Before, EntriesKept
        <2>4. QED BY <2>2, <2>3 DEF Before
    <1>3. CASE rows' = rows
        <2>1. wal' \subseteq wal
            BY <1>3, Types
        <2>2. QED BY <1>2, <2>1 DEF VersionsTrue
    <1>4. CASE \A n \in Seqs' : rows'[n].durable => Written(n, rows[n].at)'
        <2>1. Before(rows)'
            BY <1>1, <1>4 DEF Before
        <2>2. ASSUME NEW version \in wal' PROVE Before(version)'
            BY <1>2, <2>1
        <2>3. QED BY <2>2 DEF VersionsTrue
    <1>5. QED BY <1>3, <1>4

\* A step that leaves the file alone, and the rows' lines known, keeps the file in order.
LEMMA LinesKept ==
    ASSUME TypeOK, TypeOK', Good, EntriesKept, file' = file, up' => Readable, batch'.on => Readable
    PROVE  LinesKnown' /\ ServedWhole' /\ Ordered'
    <1>1. Seqs \subseteq Seqs'
        <2>1. Seqs = 1..Len(rows) /\ Len(rows) \in Nat /\ Seqs' = 1..Len(rows') /\ Len(rows') \in Nat
            BY Types, LenProperties DEF TypeOK, Seqs
        <2>2. QED BY <2>1 DEF EntriesKept
    <1>2. \A n \in Seqs : Line(n)' = Line(n)
        BY DEF EntriesKept, Line
    <1>3. LinesKnown'
        BY <1>1, <1>2 DEF Good, LinesKnown
    <1>4. QED BY <1>3 DEF Good, ServedWhole, Ordered, Readable

\* Then what was written stays so.
LEMMA AllKept ==
    ASSUME TypeOK, TypeOK', EntriesKept, file' = file, synced' = synced
    PROVE  \A n \in Seqs : \A i : Written(n, i) => Written(n, i)'
    <1>1. FileKept /\ synced' \in Nat
        BY Types DEF FileKept
    <1>2. QED BY <1>1, WrittenKept

LEMMA GoodInit == Init => Good
    <1> SUFFICES ASSUME Init PROVE Good
        OBVIOUS
    <1>1. Len(file) = 0 /\ Len(rows) = 0 /\ Seqs = {} /\ ~batch.on /\ wal = {rows}
        BY EmptySeq, NoBatchIsBatch DEF Init, Seqs
    <1>2. VersionsTrue
        BY <1>1 DEF VersionsTrue, Before
    <1>3. QED BY <1>1, <1>2 DEF Good, LinesKnown, ServedWhole, Readable, MarksTrue, CurLast, PendingSeen,
                         Ordered

LEMMA GoodFinish ==
    ASSUME TypeOK, TypeOK', Good, NEW r \in Request, Finish(r)
    PROVE  Good'
    <1>1. [entry |-> r, durable |-> FALSE, at |-> 0] \in Row /\ rows \in Seq(Row)
        BY Types DEF Row
    <1>2. /\ rows' \in Seq(Row) /\ Len(rows') = Len(rows) + 1
          /\ \A n \in 1..Len(rows) : rows'[n] = rows[n]
          /\ ~rows'[Len(rows) + 1].durable
          /\ wal' = wal \cup {rows'}
        <2>1. /\ rows' = Append(rows, [entry |-> r, durable |-> FALSE, at |-> 0])
              /\ wal' = wal \cup {rows'}
            BY DEF Finish, Commit
        <2>2. QED BY <1>1, <2>1, Appended
    <1>3. Seqs = 1..Len(rows) /\ Len(rows) \in Nat /\ Seqs' = 1..(Len(rows) + 1)
        BY <1>2, Types, LenProperties DEF Seqs
    <1>4. EntriesKept /\ file' = file /\ synced' = synced /\ up /\ up' = up /\ ~batch.on /\ batch' = batch
        BY <1>2, <1>3 DEF EntriesKept, Finish, Idle
    <1>5. LinesKnown' /\ ServedWhole' /\ Ordered'
        BY <1>4, LinesKept DEF Good, ServedWhole
    <1>6. \A n \in Seqs : \A i : Written(n, i) => Written(n, i)'
        BY <1>4, AllKept
    <1>7. VersionsTrue'
        <2>1. ASSUME NEW n \in Seqs', rows'[n].durable PROVE Written(n, rows[n].at)'
            <3>1. n \in Seqs /\ rows'[n] = rows[n]
                BY <1>2, <1>3, <2>1
            <3>2. QED BY <1>6, <2>1, <3>1, GoodDurable DEF Durable
        <2>2. QED BY <1>2, <1>4, <1>6, <2>1, VersionsKept
    <1>8. QED BY <1>4, <1>5, <1>7 DEF Good, MarksTrue, CurLast, PendingSeen

LEMMA GoodStartDrain ==
    ASSUME TypeOK, TypeOK', Good, StartDrain
    PROVE  Good'
    <1>1. /\ batch'.cur = 0 /\ batch'.todo = Pending
          /\ \A n \in Seqs : batch'.marks[n] = 0
        BY Begun, Types DEF StartDrain
    <1>2. Seqs' = Seqs /\ Pending' = Pending /\ rows' = rows /\ wal' = wal /\ file' = file
          /\ synced' = synced
        BY DEF StartDrain, database, Seqs, Pending
    <1>3. EntriesKept
        BY <1>2, Types DEF EntriesKept
    <1>4. LinesKnown' /\ ServedWhole' /\ Ordered'
        BY <1>2, <1>3, LinesKept DEF StartDrain, Good, ServedWhole
    <1>5. VersionsTrue'
        BY <1>2, <1>3, AllKept, VersionsKept
    <1>6. QED BY <1>1, <1>2, <1>4, <1>5 DEF Good, MarksTrue, CurLast, PendingSeen

LEMMA GoodWriteLine ==
    ASSUME TypeOK, TypeOK', Good, WriteLine
    PROVE  Good'
    <1>1. PICK n \in Seqs : /\ First(n) /\ batch' = [batch EXCEPT !.cur = n, !.todo = @ \ {n}]
                            /\ file' = IF Unended THEN [file EXCEPT ![Len(file)] = Garbled]
                                       ELSE Append(file, Line(n))
        BY DEF WriteLine
    <1>2. /\ batch'.on /\ batch'.cur = n /\ batch'.todo = batch.todo \ {n}
          /\ batch'.marks = batch.marks /\ batch.on /\ batch.cur = 0
        BY <1>1, Taken DEF WriteLine
    <1>3. Len(file) \in Nat /\ n \in Nat /\ n > 0
        BY Types, LineOfRow
    <1>4. Readable
        BY <1>2 DEF Good, ServedWhole
    <1>5. ~Unended
        BY <1>4, ReadableEnds
    <1>6. /\ Len(file') = Len(file) + 1 /\ file'[Len(file) + 1] = Line(n)
          /\ \A i \in 1..Len(file) : file'[i] = file[i]
        <2>1. Line(n) \in FileLine /\ file \in Seq(FileLine)
            BY LineOfRow, Types
        <2>2. QED BY <1>1, <1>5, <2>1, Appended
    <1>7. /\ Seqs' = Seqs /\ rows' = rows /\ wal' = wal /\ synced' = synced /\ Pending' = Pending
          /\ EntriesKept /\ \A m : Line(m)' = Line(m)
        <2>1. Seqs' = Seqs /\ rows' = rows /\ wal' = wal /\ synced' = synced /\ Pending' = Pending
            BY DEF WriteLine, database, Seqs, Pending
        <2>2. QED BY <2>1, Types DEF EntriesKept, Line
    <1>8. Line(n).seq = n /\ Line(n).ended
        BY LineOfRow
    <1>9. LinesKnown'
        BY <1>3, <1>6, <1>7 DEF Good, LinesKnown
    <1>10. ServedWhole'
        BY <1>3, <1>4, <1>6, <1>8 DEF ServedWhole, Readable
    <1>11. \A m \in Seqs : \A i : Written(m, i) => Written(m, i)'
        <2>1. FileKept /\ synced' \in Nat
            BY <1>3, <1>6, <1>7, Types DEF FileKept
        <2>2. QED BY <1>7, <2>1, WrittenKept
    <1>12. VersionsTrue'
        BY <1>7, <1>11, VersionsKept
    <1>13. MarksTrue' /\ PendingSeen'
        <2>1. MarksTrue'
            BY <1>2, <1>7, <1>11 DEF Good, MarksTrue
        <2>2. PendingSeen'
            <3>1. ASSUME NEW m \in Pending PROVE m \in batch.todo \/ batch.marks[m] # 0
                <4>1. m # 0
                    BY Types
                <4>2. QED BY <1>2, <4>1 DEF Good, PendingSeen
            <3>2. ASSUME NEW m \in Pending PROVE m \in batch'.todo \/ m = batch'.cur \/ batch'.marks[m] # 0
                BY <1>2, <3>1
            <3>3. QED BY <1>7, <3>2 DEF PendingSeen
        <2>3. QED BY <2>1, <2>2
    <1>14. CurLast'
        BY <1>2, <1>3, <1>6, <1>7 DEF CurLast
    <1>15. Ordered'
        <2>1. ASSUME n > 1 PROVE \E j \in 1..Len(file) : file[j].seq = n - 1
            <3>1. n - 1 \in Seqs /\ n - 1 \notin batch.todo /\ n - 1 # 0
                BY <1>1, <1>3, <2>1, Types DEF First
            <3>2. PICK i : Written(n - 1, i)
                <4>1. CASE rows[n - 1].durable
                    BY <3>1, <4>1, GoodDurable DEF Durable
                <4>2. CASE ~rows[n - 1].durable
                    BY <1>2, <3>1, <4>2 DEF Good, PendingSeen, Pending, MarksTrue
                <4>3. QED BY <4>1, <4>2
            <3>3. QED BY <1>3, <3>2, Types DEF Written, Line
        <2>2. ASSUME NEW i \in 1..Len(file'), file'[i].seq > 1
              PROVE  \E j \in 1..(i - 1) : file'[j].seq = file'[i].seq - 1
            <3>1. CASE i = Len(file) + 1
                BY <1>3, <1>6, <1>8, <2>1, <2>2, <3>1
            <3>2. CASE i \in 1..Len(file)
                BY <1>3, <1>6, <2>2, <3>2 DEF Good, Ordered
            <3>3. QED BY <1>3, <1>6, <3>1, <3>2
        <2>3. QED BY <2>2 DEF Ordered
    <1>16. QED BY <1>9, <1>10, <1>12, <1>13, <1>14, <1>15 DEF Good

LEMMA GoodSync ==
    ASSUME TypeOK, TypeOK', Good, Sync
    PROVE  Good'
    <1>1. batch.marks \in Seq(Nat) /\ DOMAIN batch.marks = Seqs /\ batch.cur \in Seqs /\ batch.on
        BY Types DEF Batch, Sync
    <1>2. batch.cur \in 1..Len(batch.marks)
        BY <1>1, LenProperties
    <1>3. /\ [batch.marks EXCEPT ![batch.cur] = Len(file)] \in Seq(Nat)
          /\ DOMAIN [batch.marks EXCEPT ![batch.cur] = Len(file)] = Seqs
        BY <1>1, <1>2, Types, ExceptSeq
    <1>4. /\ batch' = [batch EXCEPT !.cur = 0, !.marks = [batch.marks EXCEPT ![batch.cur] = Len(file)]]
        BY DEF Sync
    <1>5. /\ batch'.on /\ batch'.cur = 0 /\ batch'.todo = batch.todo
          /\ batch'.marks = [batch.marks EXCEPT ![batch.cur] = Len(file)]
        BY <1>1, <1>3, <1>4, SyncedRow
    <1>6. /\ Seqs' = Seqs /\ rows' = rows /\ wal' = wal /\ file' = file /\ synced' = Len(file)
          /\ Pending' = Pending /\ up' = up /\ EntriesKept /\ \A m : Line(m)' = Line(m)
        <2>1. /\ Seqs' = Seqs /\ rows' = rows /\ wal' = wal /\ file' = file /\ synced' = Len(file)
              /\ Pending' = Pending /\ up' = up
            BY DEF Sync, database, Seqs, Pending
        <2>2. QED BY <2>1, Types DEF EntriesKept, Line
    <1>7. \A m \in Seqs : \A i : Written(m, i) => Written(m, i)'
        <2>1. FileKept /\ synced' \in Nat
            BY <1>6, Types DEF FileKept
        <2>2. QED BY <1>6, <2>1, WrittenKept
    <1>8. LinesKnown' /\ ServedWhole' /\ Ordered'
        BY <1>1, <1>6, LinesKept DEF Good, ServedWhole
    <1>9. /\ Len(file) > 0
          /\ \A n \in Seqs : n = batch.cur => \A i : i = Len(file) => Written(n, i)'
        <2>1. Len(file) > 0 /\ file[Len(file)] = Line(batch.cur) /\ Len(file) \in Nat
            BY <1>1, Types DEF Good, CurLast, Sync
        <2>2. QED BY <1>6, <2>1 DEF Written
    <1>10. MarksTrue'
        BY <1>1, <1>5, <1>6, <1>7, <1>9 DEF Good, MarksTrue
    <1>11. PendingSeen'
        BY <1>1, <1>5, <1>6, <1>9 DEF Good, PendingSeen, Pending
    <1>12. VersionsTrue'
        BY <1>6, <1>7, VersionsKept
    <1>13. QED BY <1>5, <1>8, <1>10, <1>11, <1>12 DEF Good, CurLast

\* A commit of marks that say where the rows are written.
LEMMA GoodMarks ==
    ASSUME TypeOK, TypeOK', Good, NEW marks \in [Seqs -> Nat], Commit(Marked(marks)),
           file' = file, synced' = synced,
           \A n \in Seqs : marks[n] # 0 => Written(n, marks[n])
    PROVE  /\ EntriesKept /\ VersionsTrue' /\ Seqs' = Seqs
           /\ \A n \in Seqs : n \in Pending' <=> n \in Pending /\ marks[n] = 0
    <1>1. rows' = Marked(marks) /\ wal' \subseteq wal \cup {rows'}
        BY DEF Commit
    <1>2. Len(rows') = Len(rows) /\ Len(rows) \in Nat /\ Seqs = 1..Len(rows) /\ Seqs' = Seqs
        BY <1>1, MarkedRows, Types DEF Seqs
    <1>3. ASSUME NEW n \in Seqs
          PROVE  /\ rows'[n].entry = rows[n].entry
                 /\ marks[n] # 0 => rows'[n].durable /\ rows'[n].at = marks[n]
                 /\ marks[n] = 0 => rows'[n] = rows[n]
        <2>1. rows'[n] = IF marks[n] # 0 THEN [rows[n] EXCEPT !.durable = TRUE, !.at = marks[n]]
                         ELSE rows[n]
            BY <1>1, MarkedRows
        <2>2. rows[n] \in Row
            BY Types
        <2>3. QED BY <2>1, <2>2 DEF Row
    <1>4. EntriesKept
        BY <1>2, <1>3 DEF EntriesKept
    <1>5. \A n \in Seqs : \A i : Written(n, i) => Written(n, i)'
        BY <1>4, AllKept
    <1>6. ASSUME NEW n \in Seqs', rows'[n].durable PROVE Written(n, rows[n].at)'
        <2>1. CASE marks[n] # 0
            BY <1>2, <1>3, <1>5, <2>1
        <2>2. CASE marks[n] = 0
            BY <1>2, <1>3, <1>5, <1>6, <2>2, GoodDurable DEF Durable
        <2>3. QED BY <2>1, <2>2
    <1>7. VersionsTrue'
        BY <1>1, <1>4, <1>5, <1>6, VersionsKept
    <1>8. \A n \in Seqs : n \in Pending' <=> n \in Pending /\ marks[n] = 0
        BY <1>2, <1>3 DEF Pending
    <1>9. QED BY <1>2, <1>4, <1>7, <1>8

LEMMA GoodMarkBatch ==
    ASSUME TypeOK, TypeOK', Good, MarkBatchDurable
    PROVE  Good'
    <1>1. /\ batch.marks \in [Seqs -> Nat] /\ batch.on /\ Commit(Marked(batch.marks))
          /\ file' = file /\ synced' = synced /\ ~batch'.on
        BY Types, NoBatchIsBatch DEF MarkBatchDurable
    <1>2. \A n \in Seqs : batch.marks[n] # 0 => Written(n, batch.marks[n])
        BY <1>1 DEF Good, MarksTrue
    <1>3. PICK marks \in [Seqs -> Nat] : marks = batch.marks
        BY <1>1
    <1>4. EntriesKept /\ VersionsTrue'
        BY <1>1, <1>2, <1>3, GoodMarks
    <1>5. LinesKnown' /\ ServedWhole' /\ Ordered'
        BY <1>1, <1>4, LinesKept DEF Good, ServedWhole
    <1>6. QED BY <1>1, <1>4, <1>5 DEF Good, MarksTrue, CurLast, PendingSeen

\* A drain that fails and a crash of the process leave rows and file alone.
LEMMA GoodBatchEnds ==
    ASSUME TypeOK, TypeOK', Good, batch' = NoBatch, up' => up,
           rows' = rows, wal' = wal, file' = file, synced' = synced
    PROVE  Good'
    <1>1. EntriesKept /\ ~batch'.on
        BY NoBatchIsBatch, Types DEF EntriesKept
    <1>2. LinesKnown' /\ ServedWhole' /\ Ordered'
        BY <1>1, LinesKept DEF Good, ServedWhole
    <1>3. VersionsTrue'
        BY <1>1, AllKept, VersionsKept
    <1>4. QED BY <1>1, <1>2, <1>3 DEF Good, MarksTrue, CurLast, PendingSeen

\* A step that leaves file, outbox and batch alone.
LEMMA GoodUnseen ==
    ASSUME TypeOK, TypeOK', Good, UNCHANGED <<rows, wal, file, synced, up, batch>>
    PROVE  Good'
    <1>1. EntriesKept /\ Seqs' = Seqs /\ Pending' = Pending
        BY Types DEF EntriesKept, Seqs, Pending
    <1>2. LinesKnown' /\ ServedWhole' /\ Ordered'
        BY <1>1, LinesKept DEF Good, ServedWhole
    <1>3. VersionsTrue'
        BY <1>1, AllKept, VersionsKept
    <1>4. MarksTrue' /\ CurLast' /\ PendingSeen'
        BY <1>1 DEF Good, MarksTrue, CurLast, PendingSeen, Written, Line
    <1>5. QED BY <1>2, <1>3, <1>4 DEF Good

\* The outbox that comes back has the first rows of the one that was, and while none of
\* the lines that are left has lost its row the file says nothing else.
LEMMA GoodMachineCrash ==
    ASSUME TypeOK, TypeOK', Good, MachineCrash, Sound'
    PROVE  Good'
    <1>1. PICK k \in synced..Len(file) :
             /\ file' \in Seq(FileLine) /\ Len(file') \in k..(k + 1) /\ k \in 0..Len(file)
             /\ \A i \in 1..k : file'[i] = file[i]
             /\ missed' = TRUE \/ (missed' = missed /\ (Len(file') = k + 1 => file'[k + 1] = Cut))
        BY CrashedFile
    <1>2. Len(file') = k + 1 => file'[k + 1] = Cut
        BY <1>1 DEF Sound
    <1>3. PICK version \in wal : rows' = version /\ wal' = {version}
        BY DEF MachineCrash
    <1>4. ~up' /\ ~batch'.on /\ synced' = Len(file')
        BY NoBatchIsBatch DEF MachineCrash, Down
    <1>5. /\ Len(file) \in Nat /\ synced \in 0..Len(file) /\ Len(file') \in Nat
          /\ Seqs = 1..Len(rows) /\ Len(rows) \in Nat /\ Seqs' = 1..Len(rows') /\ Len(rows') \in Nat
        BY Types, LenProperties DEF TypeOK, Seqs
    <1>6. /\ Len(rows') <= Len(rows)
          /\ \A n \in Seqs' : n \in Seqs /\ rows'[n].entry = rows[n].entry /\ Line(n)' = Line(n)
          /\ \A n \in Seqs' : rows'[n].durable => Written(n, rows'[n].at)
        <2>1. Before(version)
            BY DEF Good, VersionsTrue
        <2>2. Len(rows') <= Len(rows) /\ \A n \in Seqs' : n \in Seqs
            BY <1>3, <1>5, <2>1 DEF Before
        <2>3. \A n \in Seqs' : /\ rows'[n].entry = rows[n].entry
                               /\ rows'[n].durable => Written(n, rows'[n].at)
            BY <1>3, <1>5, <2>1 DEF Before
        <2>4. \A n \in Seqs' : Line(n)' = Line(n)
            BY <2>3 DEF Line
        <2>5. QED BY <2>2, <2>3, <2>4
    <1>7. VersionsTrue'
        <2>1. ASSUME NEW n \in Seqs', NEW i, Written(n, i) PROVE Written(n, i)'
            <3>1. i \in 1..synced /\ file[i] = Line(n)
                BY <2>1 DEF Written
            <3>2. i \in 1..synced' /\ file'[i] = file[i]
                BY <1>1, <1>4, <1>5, <3>1
            <3>3. QED BY <1>6, <2>1, <3>1, <3>2 DEF Written
        <2>2. Before(rows)'
            BY <1>5, <1>6, <2>1 DEF Before
        <2>3. ASSUME NEW v \in wal' PROVE Before(v)'
            BY <1>3, <2>2
        <2>4. QED BY <2>3 DEF VersionsTrue
    <1>8. ASSUME NEW i \in 1..Len(file') PROVE file'[i] = Cut \/ (i \in 1..k /\ file'[i] = file[i])
        BY <1>1, <1>2, <1>5
    <1>9. LinesKnown'
        <2>1. ASSUME NEW i \in 1..Len(file'), file'[i] # Cut
              PROVE  \E n \in Seqs' : file'[i] = Line(n)'
            <3>1. i \in 1..Len(file) /\ file'[i] = file[i]
                BY <1>1, <1>5, <1>8, <2>1
            <3>2. file[i].seq \in Seqs /\ file[i] = Line(file[i].seq)
                BY <2>1, <3>1, LinesAre
            <3>3. ~(file'[i].seq > Len(rows'))
                BY DEF MachineCrash, Sound
            <3>4. PICK n \in Seqs : n = file[i].seq
                BY <3>2
            <3>5. n \in Seqs'
                BY <1>5, <3>1, <3>3, <3>4
            <3>6. QED BY <1>6, <3>1, <3>2, <3>4, <3>5
        <2>2. QED BY <2>1 DEF LinesKnown
    <1>10. Ordered'
        <2>1. ASSUME NEW i \in 1..Len(file'), file'[i].seq > 1
              PROVE  \E j \in 1..(i - 1) : file'[j].seq = file'[i].seq - 1
            <3>1. i \in 1..k /\ file'[i] = file[i]
                BY <1>8, <2>1 DEF Cut
            <3>2. i \in 1..Len(file) /\ file[i].seq > 1
                BY <1>1, <1>5, <2>1, <3>1
            <3>3. PICK j \in 1..(i - 1) : file[j].seq = file[i].seq - 1
                BY <3>2 DEF Good, Ordered
            <3>4. j \in 1..k /\ file'[j] = file[j]
                BY <1>1, <1>5, <3>1
            <3>5. QED BY <3>1, <3>3, <3>4
        <2>2. QED BY <2>1 DEF Ordered
    <1>11. QED BY <1>4, <1>7, <1>9, <1>10 DEF Good, ServedWhole, MarksTrue, CurLast, PendingSeen

LEMMA GoodRecover ==
    ASSUME TypeOK, TypeOK', Good, Recover, Sound'
    PROVE  Good'
    <1>1. synced = Len(file) /\ ~Refused /\ ~batch.on /\ file' = file /\ synced' = synced
        <2>1. ~(synced < Len(file)) /\ ~Refused /\ ~batch.on /\ file' = file /\ synced' = synced
            BY DEF Recover, Idle, Sound
        <2>2. QED BY <2>1, Types
    <1>2. PICK marks \in [Seqs -> 0..Len(file)] : Found(marks) /\ Commit(Marked(marks))
        BY DEF Recover
    <1>3. marks \in [Seqs -> Nat]
        BY <1>2, Types
    <1>4. ASSUME NEW n \in Seqs, marks[n] # 0 PROVE Written(n, marks[n])
        <2>1. n \in Persisted /\ marks[n] \in LinesOf(n)
            BY <1>2, <1>4 DEF Found
        <2>2. marks[n] \in 1..Len(file) /\ file[marks[n]].seq = n
            BY <2>1 DEF LinesOf
        <2>3. n # 0
            BY Types
        <2>4. file[marks[n]] = Line(n)
            BY <2>2, <2>3, LinesAre
        <2>5. QED BY <1>1, <2>2, <2>4 DEF Written
    <1>5. /\ EntriesKept /\ VersionsTrue' /\ Seqs' = Seqs
          /\ \A n \in Seqs : n \in Pending' <=> n \in Pending /\ marks[n] = 0
        BY <1>1, <1>2, <1>3, <1>4, GoodMarks
    <1>6. LinesKnown' /\ ServedWhole' /\ Ordered'
        BY <1>1, <1>5, LinesKept DEF Refused
    <1>7. ASSUME NEW n \in Persisted PROVE n \in Seqs /\ marks[n] # 0
        BY <1>2, <1>7, Types DEF Found, LinesOf, Persisted
    <1>8. MarksTrue' /\ CurLast' /\ PendingSeen'
        <2>1. CASE Pending = Persisted
            BY <1>1, <2>1 DEF Recover, MarksTrue, CurLast, PendingSeen
        <2>2. CASE Pending # Persisted
            <3>1. batch' = DrainOf(Pending \ Persisted, TRUE) /\ Pending \ Persisted \in SUBSET Seqs
                BY <2>2, Types DEF Recover
            <3>2. /\ batch'.cur = 0 /\ batch'.todo = Pending \ Persisted
                  /\ \A n \in Seqs : batch'.marks[n] = 0
                BY <3>1, Begun
            <3>3. Pending' \subseteq Pending \ Persisted
                BY <1>5, <1>7 DEF Pending
            <3>4. QED BY <1>5, <3>2, <3>3 DEF MarksTrue, CurLast, PendingSeen
        <2>3. QED BY <2>1, <2>2
    <1>9. QED BY <1>5, <1>6, <1>8 DEF Good

LEMMA GoodRepair ==
    ASSUME TypeOK, TypeOK', Good, Repair
    PROVE  Good'
    <1>1. Len(file) \in Nat /\ Len(file) > 0 /\ ~file[Len(file)].ended /\ synced \in 0..Len(file)
        BY Types DEF Repair, Unended
    <1>2. Len(file) - 1 \in 0..Len(file)
        BY <1>1
    <1>3. Len(file') = Len(file) - 1 /\ \A i \in 1..(Len(file) - 1) : file'[i] = file[i]
        BY <1>2, Types, Prefix DEF Repair
    <1>4. /\ rows' = rows /\ wal' = wal /\ Seqs' = Seqs /\ ~up' /\ ~batch'.on
          /\ synced' = IF synced = Len(file) THEN synced - 1 ELSE synced
        BY DEF Repair, database, Idle, Seqs
    <1>5. EntriesKept /\ \A n : Line(n)' = Line(n)
        BY <1>4, Types DEF EntriesKept, Line
    <1>6. ASSUME NEW n \in Seqs, NEW i, Written(n, i) PROVE Written(n, i)'
        <2>1. i # Len(file)
            BY <1>1, <1>6, LineOfRow DEF Written
        <2>2. i \in 1..synced' /\ file'[i] = file[i]
            BY <1>1, <1>3, <1>4, <1>6, <2>1 DEF Written
        <2>3. QED BY <1>5, <1>6, <2>2 DEF Written
    <1>7. VersionsTrue'
        BY <1>4, <1>5, <1>6, VersionsKept
    <1>8. LinesKnown' /\ Ordered'
        BY <1>1, <1>3, <1>4, <1>5 DEF Good, LinesKnown, Ordered
    <1>9. QED BY <1>4, <1>7, <1>8 DEF Good, ServedWhole, MarksTrue, CurLast, PendingSeen

LEMMA GoodStep == TypeOK /\ TypeOK' /\ Good /\ Sound /\ [Next]_vars /\ Sound' => Good'
    <1> SUFFICES ASSUME TypeOK, TypeOK', Good, Sound, [Next]_vars, Sound' PROVE Good'
        OBVIOUS
    <1>1. ASSUME NEW r \in Request, Finish(r) PROVE Good'
        BY <1>1, GoodFinish
    <1>2. ASSUME NEW r \in Request, QueueFails(r) PROVE Good'
        BY <1>2, GoodUnseen DEF QueueFails, database
    <1>3. CASE StartDrain
        BY <1>3, GoodStartDrain
    <1>4. CASE WriteLine
        BY <1>4, GoodWriteLine
    <1>5. CASE WriteShort
        BY <1>5 DEF WriteShort, Sound
    <1>6. CASE Sync
        BY <1>6, GoodSync
    <1>7. CASE MarkBatchDurable
        BY <1>7, GoodMarkBatch
    <1>8. CASE DrainThrows
        BY <1>8, GoodBatchEnds DEF DrainThrows, database
    <1>9. CASE ProcessCrash
        BY <1>9, GoodBatchEnds DEF ProcessCrash, Down, database
    <1>10. CASE MachineCrash
        BY <1>10, GoodMachineCrash
    <1>11. CASE Recover
        BY <1>11, GoodRecover
    <1>12. CASE Repair
        BY <1>12, GoodRepair
    <1>13. CASE UNCHANGED vars
        BY <1>13, GoodUnseen DEF vars, database
    <1>14. QED BY <1>1, <1>2, <1>3, <1>4, <1>5, <1>6, <1>7, <1>8, <1>9, <1>10, <1>11, <1>12, <1>13 DEF Next

\* Nothing takes back that a line which is not whole passed for written, or that a line
\* lost its row.
LEMMA SoundBefore == TypeOK /\ [Next]_vars /\ Sound' => Sound
    <1>1. TypeOK /\ missed /\ [Next]_vars => missed'
        BY DEF Next, vars, history, Finish, QueueFails, StartDrain, WriteLine, WriteShort,
               Sync, MarkBatchDurable, DrainThrows, ProcessCrash, MachineCrash, Recover, Repair
    <1>2. TypeOK /\ stranded /\ [Next]_vars => stranded'
        BY DEF Next, vars, history, Finish, QueueFails, StartDrain, WriteLine, WriteShort,
               Sync, MarkBatchDurable, DrainThrows, ProcessCrash, MachineCrash, Recover, Repair
    <1>3. QED BY <1>1, <1>2 DEF Sound

-----------------------------------------------------------------------------
\* The inductive invariant holds, as long as Sound does: the marks of a batch, the line
\* being written and the rows still to do say where every row of the outbox stands, and no
\* version that a crash of the machine may bring back says otherwise.
THEOREM Inductive == Spec => []IInv
    <1>1. Init => IInv
        BY TypeInit, GoodInit, IInvIsGood
    <1>2. IInv /\ [Next]_vars => IInv'
        <2> SUFFICES ASSUME IInv, [Next]_vars PROVE IInv'
            OBVIOUS
        <2>1. TypeOK /\ TypeOK' /\ (Sound => Good)
            BY TypeStep, IInvIsGood
        <2>2. Sound' => Good'
            BY <2>1, GoodStep, SoundBefore
        <2>3. (TypeOK /\ (Sound => Good) => IInv)'
            BY IInvIsGood, PTL
        <2>4. QED BY <2>1, <2>2, <2>3
    <1>3. QED BY <1>1, <1>2, PTL DEF Spec

\* A row that counts as durable has its own line on disk, whole, where its mark says, for
\* any number of requests, failures and crashes, as long as Sound holds.
THEOREM DurableKept == Spec => []DurableInFile
    <1>1. IInv => DurableInFile
        BY DEF IInv
    <1>2. QED BY Inductive, <1>1, PTL

\* No line of the file comes before that of the row it follows in the hash chain, as long
\* as Sound holds.
THEOREM ChainInOrder == Spec => []FileInOrder
    <1>1. IInv => FileInOrder
        BY DEF IInv
    <1>2. QED BY Inductive, <1>1, PTL

-----------------------------------------------------------------------------
(***************************************************************************)
(* As long as Sound holds and until a drain fails: a row that a drain      *)
(* still has to write, or that the api has not drained yet, has no line in *)
(* the file.  A crash leaves rows with a line; the recovery is done before *)
(* the api serves.                                                         *)
(***************************************************************************)
NoLine(n)    == \A i \in 1..Len(file) : file[i].seq # n
SingleLines  == \A i, j \in 1..Len(file) : file[i].seq = file[j].seq /\ file[i].seq # 0 => i = j
TodoUnwritten == batch.on => \A n \in batch.todo : NoLine(n)
RestUnwritten == up /\ ~batch.on => \A n \in Pending : NoLine(n)
Single == SingleLines /\ TodoUnwritten /\ RestUnwritten

OnceInv == IInv /\ (Sound /\ ~retried => Single)

\* A step that leaves the file alone, and gives rows without a line to whom they belong.
LEMMA SingleKept ==
    ASSUME Single, file' = file,
           batch'.on => \A n \in batch'.todo : NoLine(n),
           up' /\ ~batch'.on => \A n \in Pending' : NoLine(n)
    PROVE  Single'
    <1>1. SingleLines'
        BY DEF Single, SingleLines
    <1>2. TodoUnwritten' /\ RestUnwritten'
        BY DEF TodoUnwritten, RestUnwritten, NoLine
    <1>3. QED BY <1>1, <1>2 DEF Single

LEMMA SingleFinish ==
    ASSUME TypeOK, Good, Single, NEW r \in Request, Finish(r)
    PROVE  Single'
    <1>1. [entry |-> r, durable |-> FALSE, at |-> 0] \in Row /\ rows \in Seq(Row)
        BY Types DEF Row
    <1>2. /\ rows' \in Seq(Row) /\ Len(rows') = Len(rows) + 1
          /\ \A n \in 1..Len(rows) : rows'[n] = rows[n]
        <2>1. rows' = Append(rows, [entry |-> r, durable |-> FALSE, at |-> 0])
            BY DEF Finish, Commit
        <2>2. QED BY <1>1, <2>1, Appended
    <1>3. Seqs = 1..Len(rows) /\ Len(rows) \in Nat /\ Seqs' = 1..(Len(rows) + 1)
        BY <1>2, Types, LenProperties DEF Seqs
    <1>4. file' = file /\ up /\ ~batch.on /\ batch' = batch
        BY DEF Finish, Idle
    <1>5. ASSUME NEW n \in Pending' PROVE NoLine(n)
        <2>1. n \in Pending \/ n = Len(rows) + 1
            BY <1>2, <1>3 DEF Pending
        <2>2. CASE n \in Pending
            BY <1>4, <2>2 DEF Single, RestUnwritten
        <2>3. CASE n = Len(rows) + 1
            <3>1. \A i \in 1..Len(file) : file[i].seq \in Seqs \cup {0}
                BY LinesAre
            <3>2. QED BY <1>3, <2>3, <3>1 DEF NoLine
        <2>4. QED BY <2>1, <2>2, <2>3
    <1>6. QED BY <1>4, <1>5, SingleKept

LEMMA SingleWriteLine ==
    ASSUME TypeOK, Good, Single, WriteLine
    PROVE  Single'
    <1>1. PICK n \in Seqs : /\ First(n) /\ batch' = [batch EXCEPT !.cur = n, !.todo = @ \ {n}]
                            /\ file' = IF Unended THEN [file EXCEPT ![Len(file)] = Garbled]
                                       ELSE Append(file, Line(n))
        BY DEF WriteLine
    <1>2. batch'.on /\ batch'.todo = batch.todo \ {n} /\ batch.on
        BY <1>1, Taken DEF WriteLine
    <1>3. Len(file) \in Nat /\ n \in Nat /\ n > 0
        BY Types, LineOfRow
    <1>4. ~Unended
        BY <1>2, ReadableEnds DEF Good, ServedWhole
    <1>5. /\ Len(file') = Len(file) + 1 /\ file'[Len(file) + 1].seq = n
          /\ \A i \in 1..Len(file) : file'[i] = file[i]
        <2>1. Line(n) \in FileLine /\ Line(n).seq = n /\ file \in Seq(FileLine)
            BY LineOfRow, Types
        <2>2. QED BY <1>1, <1>4, <2>1, Appended
    <1>6. NoLine(n) /\ \A m \in batch.todo : NoLine(m)
        BY <1>1, <1>2 DEF First, Single, TodoUnwritten
    <1>7. SingleLines'
        BY <1>3, <1>5, <1>6 DEF Single, SingleLines, NoLine
    <1>8. TodoUnwritten' /\ RestUnwritten'
        BY <1>2, <1>3, <1>5, <1>6 DEF TodoUnwritten, RestUnwritten, NoLine
    <1>9. QED BY <1>7, <1>8 DEF Single

\* Of the rows of the batch none is pending any more.
LEMMA SingleMarkBatch ==
    ASSUME TypeOK, Good, Single, MarkBatchDurable
    PROVE  Single'
    <1>1. /\ batch.marks \in [Seqs -> Nat] /\ batch.on /\ batch.cur = 0 /\ batch.todo = {}
          /\ rows' = Marked(batch.marks) /\ file' = file /\ ~batch'.on
        BY Types, NoBatchIsBatch DEF MarkBatchDurable, Commit
    <1>2. Seqs' = Seqs
        BY <1>1, MarkedRows DEF Seqs
    <1>3. ASSUME NEW n \in Pending' PROVE FALSE
        <2>1. n \in Seqs /\ ~rows'[n].durable /\ n # 0
            BY <1>2, <1>3, Types DEF Pending
        <2>2. CASE batch.marks[n] # 0
            <3>1. rows'[n] = [rows[n] EXCEPT !.durable = TRUE, !.at = batch.marks[n]]
                BY <1>1, <2>1, <2>2, MarkedRows
            <3>2. QED BY <2>1, <3>1, Types DEF Row
        <2>3. CASE batch.marks[n] = 0
            <3>1. rows'[n] = rows[n]
                BY <1>1, <2>1, <2>3, MarkedRows
            <3>2. n \in Pending
                BY <2>1, <3>1 DEF Pending
            <3>3. QED BY <1>1, <2>1, <2>3, <3>2 DEF Good, PendingSeen
        <2>4. QED BY <2>2, <2>3
    <1>4. QED BY <1>1, <1>3, SingleKept

\* What is left of the file has no more lines than before, but one that was cut.
LEMMA SingleMachineCrash ==
    ASSUME TypeOK, Single, MachineCrash, Sound'
    PROVE  Single'
    <1>1. PICK k \in synced..Len(file) :
             /\ file' \in Seq(FileLine) /\ Len(file') \in k..(k + 1) /\ k \in 0..Len(file)
             /\ \A i \in 1..k : file'[i] = file[i]
             /\ missed' = TRUE \/ (missed' = missed /\ (Len(file') = k + 1 => file'[k + 1] = Cut))
        BY CrashedFile
    <1>2. Len(file') = k + 1 => file'[k + 1].seq = 0
        BY <1>1 DEF Cut, Sound
    <1>3. Len(file) \in Nat /\ k \in Nat
        BY <1>1, Types
    <1>4. ASSUME NEW i \in 1..Len(file'), file'[i].seq # 0 PROVE i \in 1..k /\ file'[i] = file[i]
        BY <1>1, <1>2, <1>3, <1>4
    <1>5. SingleLines'
        BY <1>3, <1>4, <1>1 DEF Single, SingleLines
    <1>6. ~batch'.on /\ ~up'
        BY NoBatchIsBatch DEF MachineCrash, Down
    <1>7. QED BY <1>5, <1>6 DEF Single, TodoUnwritten, RestUnwritten

\* The rows left to the drain of a recovery come after every row of the file; when there
\* are none the rows found are all there were.
LEMMA SingleRecover ==
    ASSUME TypeOK, Good, Single, Recover
    PROVE  Single'
    <1>1. file' = file /\ ~batch.on /\ ~up
        BY DEF Recover, Idle
    <1>2. PICK marks \in [Seqs -> 0..Len(file)] : Found(marks) /\ rows' = Marked(marks)
        BY DEF Recover, Commit
    <1>3. CASE Pending = Persisted
        <2>1. ~batch'.on
            BY <1>1, <1>3 DEF Recover
        <2>2. marks \in [Seqs -> Nat]
            BY <1>2, Types
        <2>3. Seqs' = Seqs
            BY <1>2, <2>2, MarkedRows DEF Seqs
        <2>4. ASSUME NEW n \in Pending' PROVE FALSE
            <3>1. n \in Seqs /\ ~rows'[n].durable
                BY <2>3, <2>4 DEF Pending
            <3>2. CASE marks[n] = 0
                <4>1. rows'[n] = rows[n]
                    BY <1>2, <2>2, <3>1, <3>2, MarkedRows
                <4>2. n \in Persisted
                    BY <1>3, <3>1, <4>1 DEF Pending
                <4>3. marks[n] \in 1..Len(file)
                    BY <1>2, <3>1, <4>2 DEF Found, LinesOf
                <4>4. QED BY <3>2, <4>3, Types
            <3>3. CASE marks[n] # 0
                <4>1. rows'[n] = [rows[n] EXCEPT !.durable = TRUE, !.at = marks[n]]
                    BY <1>2, <2>2, <3>1, <3>3, MarkedRows
                <4>2. QED BY <3>1, <4>1, Types DEF Row
            <3>4. QED BY <3>2, <3>3
        <2>5. QED BY <1>1, <2>1, <2>4, SingleKept
    <1>4. CASE Pending # Persisted
        <2>1. batch' = DrainOf(Pending \ Persisted, TRUE) /\ Pending \ Persisted \in SUBSET Seqs
            BY <1>4, Types DEF Recover
        <2>2. batch'.on /\ batch'.todo = Pending \ Persisted
            BY <2>1, Begun
        <2>3. ASSUME NEW n \in Pending \ Persisted PROVE NoLine(n)
            <3>1. n \in Nat /\ \A i \in 1..Len(file) : ~(n <= file[i].seq)
                BY <2>3, Types DEF Persisted
            <3>2. QED BY <3>1 DEF NoLine
        <2>4. QED BY <1>1, <2>2, <2>3, SingleKept
    <1>5. QED BY <1>3, <1>4

LEMMA SingleRepair ==
    ASSUME TypeOK, Single, Repair
    PROVE  Single'
    <1>1. Len(file) \in Nat /\ Len(file) > 0
        BY Types DEF Repair, Unended
    <1>2. Len(file) - 1 \in 0..Len(file)
        BY <1>1
    <1>3. Len(file') = Len(file) - 1 /\ \A i \in 1..(Len(file) - 1) : file'[i] = file[i]
        BY <1>2, Types, Prefix DEF Repair
    <1>4. ~up' /\ ~batch'.on
        BY DEF Repair, Idle
    <1>5. SingleLines'
        BY <1>1, <1>3 DEF Single, SingleLines
    <1>6. QED BY <1>4, <1>5 DEF Single, TodoUnwritten, RestUnwritten

LEMMA SingleStep ==
    TypeOK /\ Good /\ Single /\ [Next]_vars /\ Sound' /\ ~retried' => Single'
    <1> SUFFICES ASSUME TypeOK, Good, Single, [Next]_vars, Sound', ~retried' PROVE Single'
        OBVIOUS
    <1>1. ASSUME NEW r \in Request, Finish(r) PROVE Single'
        BY <1>1, SingleFinish
    <1>2. ASSUME UNCHANGED <<rows, file, up, batch>> PROVE Single'
        <2>1. Pending' = Pending
            BY <1>2 DEF Pending, Seqs
        <2>2. QED BY <1>2, <2>1 DEF Single, SingleLines, TodoUnwritten, RestUnwritten, NoLine
    <1>3. CASE StartDrain
        <2>1. batch'.on /\ batch'.todo = Pending /\ file' = file
            BY <1>3, Begun, Types DEF StartDrain
        <2>2. \A n \in Pending : NoLine(n)
            BY <1>3 DEF StartDrain, Idle, Single, RestUnwritten
        <2>3. QED BY <2>1, <2>2, SingleKept
    <1>4. CASE WriteLine
        BY <1>4, SingleWriteLine
    <1>5. CASE Sync
        <2>1. batch.on /\ batch'.on /\ batch'.todo = batch.todo /\ file' = file
            <3>1. batch.marks \in Seq(Nat) /\ DOMAIN batch.marks = Seqs /\ batch.on
                BY <1>5, Types DEF Batch, Sync
            <3>2. batch.cur \in 1..Len(batch.marks)
                BY <1>5, <3>1, Types, LenProperties DEF Sync
            <3>3. /\ [batch.marks EXCEPT ![batch.cur] = Len(file)] \in Seq(Nat)
                  /\ DOMAIN [batch.marks EXCEPT ![batch.cur] = Len(file)] = Seqs
                BY <3>1, <3>2, Types, ExceptSeq
            <3>4. batch' = [batch EXCEPT !.cur = 0,
                                         !.marks = [batch.marks EXCEPT ![batch.cur] = Len(file)]]
                BY <1>5 DEF Sync
            <3>5. QED BY <1>5, <3>1, <3>3, <3>4, SyncedRow DEF Sync
        <2>2. QED BY <2>1, SingleKept DEF Single, TodoUnwritten
    <1>6. CASE MarkBatchDurable
        BY <1>6, SingleMarkBatch
    <1>7. CASE ProcessCrash
        <2>1. file' = file /\ ~batch'.on /\ ~up'
            BY <1>7, NoBatchIsBatch DEF ProcessCrash, Down
        <2>2. QED BY <2>1, SingleKept
    <1>8. CASE MachineCrash
        BY <1>8, SingleMachineCrash
    <1>9. CASE Recover
        BY <1>9, SingleRecover
    <1>10. CASE Repair
        BY <1>10, SingleRepair
    <1>11. ~WriteShort /\ ~DrainThrows
        BY DEF WriteShort, DrainThrows, Sound
    <1>12. QED BY <1>1, <1>2, <1>3, <1>4, <1>5, <1>6, <1>7, <1>8, <1>9, <1>10, <1>11
               DEF Next, vars, database, QueueFails

\* Nothing takes back that a drain failed.
LEMMA RetriedStays == retried /\ [Next]_vars => retried'
    BY DEF Next, vars, history, Finish, QueueFails, StartDrain, WriteLine, WriteShort, Sync,
           MarkBatchDurable, DrainThrows, ProcessCrash, MachineCrash, Recover, Repair

\* As long as Sound holds and until a drain fails, what a drain still has to write is not
\* in the file, and neither is what the next drain of a serving api finds; crashes and
\* recoveries included.
THEOREM UnwrittenInductive == Spec => []OnceInv
    <1>1. Init => OnceInv
        <2> SUFFICES ASSUME Init PROVE OnceInv
            OBVIOUS
        <2>1. IInv
            BY TypeInit, GoodInit, IInvIsGood
        <2>2. Len(file) = 0 /\ Pending = {} /\ ~batch.on
            BY EmptySeq, NoBatchIsBatch DEF Init, Pending, Seqs
        <2>3. QED BY <2>1, <2>2 DEF OnceInv, Single, SingleLines, TodoUnwritten, RestUnwritten
    <1>2. IInv /\ IInv' /\ OnceInv /\ [Next]_vars => OnceInv'
        <2> SUFFICES ASSUME IInv', OnceInv, [Next]_vars PROVE OnceInv'
            OBVIOUS
        <2>1. TypeOK /\ (Sound => Good)
            BY IInvIsGood DEF OnceInv
        <2>2. ASSUME Sound', ~retried' PROVE Single'
            <3>1. Sound /\ ~retried
                BY <2>1, <2>2, SoundBefore, RetriedStays
            <3>2. QED BY <2>1, <2>2, <3>1, SingleStep DEF OnceInv
        <2>3. QED BY <2>2 DEF OnceInv
    <1>3. QED BY Inductive, <1>1, <1>2, PTL DEF Spec

\* No row has two lines in the file, as long as Sound holds and until a drain fails:
\* neither a crash between the fsync and the mark nor one that takes the mark back makes a
\* second line, for any requests and crashes.
THEOREM LinesOnce == Spec => []WrittenOnce
    <1>1. OnceInv => WrittenOnce
        BY DEF OnceInv, Single, SingleLines, WrittenOnce
    <1>2. QED BY UnwrittenInductive, <1>1, PTL

-----------------------------------------------------------------------------
(***************************************************************************)
(* The trail.  As long as Sound holds, the rows that are on disk are the   *)
(* first ones, in their order (the chain is), so the log is a prefix of    *)
(* the outbox and the rest of it waits.  A crash of the machine takes the  *)
(* last rows away, and none of those that are on disk.                     *)
(***************************************************************************)
LEMMA LeastNumber ==
    ASSUME NEW S \in SUBSET Nat, S # {}
    PROVE  \E n \in S : \A m \in S : n <= m
    <1> DEFINE R == {ss \in Nat \X Nat : ss[1] < ss[2]}
    <1>1. IsWellFoundedOn(R, Nat)
        BY NatLessThanWellFounded DEF OpToRel
    <1>2. \E n \in S : \A m \in S : ~(<<m, n>> \in R)
        <2> HIDE DEF R
        <2>1. S \subseteq Nat
            OBVIOUS
        <2>2. QED BY <1>1, <2>1, WFMin
    <1>3. PICK n \in S : \A m \in S : ~(<<m, n>> \in R)
        BY <1>2
    <1>4. \A m \in S : ~(m < n)
        BY <1>3
    <1>5. QED BY <1>4

LEMMA Induction ==
    ASSUME NEW T, 0 \in T, \A n \in Nat : n \in T => n + 1 \in T
    PROVE  \A n \in Nat : n \in T
    <1> DEFINE U == Nat \ T
    <1>1. ASSUME U # {} PROVE FALSE
        <2>1. U \in SUBSET Nat
            OBVIOUS
        <2>2. PICK x \in U : \A y \in U : x <= y
            <3> HIDE DEF U
            <3>1. QED BY <1>1, <2>1, LeastNumber
        <2>3. x \in Nat /\ x # 0
            OBVIOUS
        <2>4. x - 1 \in Nat /\ (x - 1) + 1 = x
            BY <2>3
        <2>5. x - 1 \in U
            BY <2>4
        <2>6. QED BY <2>2, <2>3, <2>5
    <1>2. QED BY <1>1

\* The steps by which numbers are put in order.
Ordering(upTo, S, n) ==
    /\ upTo[0] = <<>>
    /\ \A k \in 1..n : upTo[k] = IF k \in S THEN Append(upTo[k - 1], k) ELSE upTo[k - 1]

LEMMA OrderingSteps ==
    ASSUME NEW S, NEW n \in Nat
    PROVE  \E upTo : Ordering(upTo, S, n) /\ InOrder(S, n) = upTo[n]
    <1> DEFINE G(g) == [k \in 0..n |-> IF k = 0 THEN <<>>
                                       ELSE IF k \in S THEN Append(g[k - 1], k) ELSE g[k - 1]]
               g == CHOOSE g : g = G(g)
               T == {m \in Nat : \E f : f = [k \in 0..m |-> IF k = 0 THEN <<>>
                                       ELSE IF k \in S THEN Append(f[k - 1], k) ELSE f[k - 1]]}
    <1>1. 0 \in T
        <2> DEFINE f == [k \in 0..0 |-> <<>>]
        <2>1. f = [k \in 0..0 |-> IF k = 0 THEN <<>>
                                  ELSE IF k \in S THEN Append(f[k - 1], k) ELSE f[k - 1]]
            OBVIOUS
        <2> HIDE DEF f
        <2>2. QED BY <2>1
    <1>2. ASSUME NEW m \in Nat, m \in T PROVE m + 1 \in T
        <2>1. PICK f : f = [k \in 0..m |-> IF k = 0 THEN <<>>
                                  ELSE IF k \in S THEN Append(f[k - 1], k) ELSE f[k - 1]]
            BY <1>2
        <2> DEFINE h == [k \in 0..(m + 1) |->
                            IF k = m + 1 THEN IF k \in S THEN Append(f[m], k) ELSE f[m] ELSE f[k]]
        <2>2. ASSUME NEW k \in 0..(m + 1)
              PROVE  h[k] = IF k = 0 THEN <<>> ELSE IF k \in S THEN Append(h[k - 1], k) ELSE h[k - 1]
            <3>1. CASE k = m + 1
                <4>1. k # 0 /\ k - 1 = m /\ h[m] = f[m]
                    BY <3>1
                <4>2. h[k] = IF k \in S THEN Append(f[m], k) ELSE f[m]
                    BY <3>1
                <4> HIDE DEF h
                <4>3. QED BY <4>1, <4>2
            <3>2. CASE k \in 0..m
                <4>1. f[k] = IF k = 0 THEN <<>> ELSE IF k \in S THEN Append(f[k - 1], k) ELSE f[k - 1]
                    BY <2>1, <3>2
                <4>2. h[k] = f[k] /\ (k # 0 => h[k - 1] = f[k - 1])
                    BY <3>2
                <4> HIDE DEF h
                <4>3. QED BY <4>1, <4>2
            <3>3. QED BY <3>1, <3>2
        <2>3. h = [k \in 0..(m + 1) |-> IF k = 0 THEN <<>>
                                        ELSE IF k \in S THEN Append(h[k - 1], k) ELSE h[k - 1]]
            <3>1. h = [k \in 0..(m + 1) |-> h[k]]
                OBVIOUS
            <3> HIDE DEF h
            <3>2. QED BY <2>2, <3>1
        <2> HIDE DEF h
        <2>4. \E f1 : f1 = [k \in 0..(m + 1) |-> IF k = 0 THEN <<>>
                                        ELSE IF k \in S THEN Append(f1[k - 1], k) ELSE f1[k - 1]]
            BY <2>3, Zenon
        <2>5. m + 1 \in Nat
            OBVIOUS
        <2>6. QED BY <2>4, <2>5, Zenon
    <1>3. n \in T
        <2> HIDE DEF T
        <2>1. QED BY <1>1, <1>2, Induction
    <1>4. g = G(g)
        <2>1. \E f : f = G(f)
            BY <1>3
        <2>2. QED BY <2>1
    <1>5. InOrder(S, n) = g[n]
        BY DEF InOrder
    <1>6. Ordering(g, S, n)
        <2> HIDE DEF g
        <2>1. \A k \in 0..n : g[k] = IF k = 0 THEN <<>> ELSE IF k \in S THEN Append(g[k - 1], k) ELSE g[k - 1]
            BY <1>4
        <2>2. QED BY <2>1 DEF Ordering
    <1> HIDE DEF g
    <1>7. QED BY <1>5, <1>6

\* Of the numbers above d those up to n are so many, each d above its place.
LEMMA InOrderAbove ==
    ASSUME NEW S, NEW n \in Nat, NEW d \in 0..n, \A k \in 1..n : k \in S <=> k > d
    PROVE  /\ InOrder(S, n) \in Seq(Nat) /\ Len(InOrder(S, n)) = n - d
           /\ \A i \in 1..(n - d) : InOrder(S, n)[i] = d + i
    <1>1. PICK upTo : Ordering(upTo, S, n) /\ InOrder(S, n) = upTo[n]
        BY OrderingSteps
    <1> DEFINE Above(k) == IF k > d THEN k - d ELSE 0
               Says(k) == /\ upTo[k] \in Seq(Nat) /\ Len(upTo[k]) = Above(k)
                          /\ \A i \in 1..Above(k) : upTo[k][i] = d + i
               T == {k \in Nat : k <= n => Says(k)}
    <1>2. 0 \in T
        <2>1. upTo[0] \in Seq(Nat) /\ Len(upTo[0]) = 0 /\ Above(0) = 0
            BY <1>1, EmptySeq DEF Ordering
        <2>2. QED BY <2>1
    <1>3. ASSUME NEW k \in Nat, k \in T PROVE k + 1 \in T
        <2>1. SUFFICES ASSUME k + 1 <= n PROVE Says(k + 1)
            OBVIOUS
        <2>2. Says(k)
            BY <1>3, <2>1
        <2>3. upTo[k + 1] = IF k + 1 \in S THEN Append(upTo[k], k + 1) ELSE upTo[k]
            <3>1. k + 1 \in 1..n /\ (k + 1) - 1 = k
                BY <2>1
            <3>2. QED BY <1>1, <3>1 DEF Ordering
        <2>4. CASE k + 1 > d
            <3>1. upTo[k + 1] = Append(upTo[k], k + 1)
                BY <2>1, <2>3, <2>4
            <3>2. Above(k) = k - d /\ Above(k + 1) = (k - d) + 1 /\ k - d \in Nat
                BY <2>4
            <3>3. /\ upTo[k + 1] \in Seq(Nat) /\ Len(upTo[k + 1]) = Len(upTo[k]) + 1
                  /\ \A i \in 1..Len(upTo[k]) : upTo[k + 1][i] = upTo[k][i]
                  /\ upTo[k + 1][Len(upTo[k]) + 1] = k + 1
                BY <2>2, <3>1, Appended
            <3>4. ASSUME NEW i \in 1..Above(k + 1) PROVE upTo[k + 1][i] = d + i
                <4>1. CASE i \in 1..(k - d)
                    BY <2>2, <3>2, <3>3, <4>1
                <4>2. CASE i = (k - d) + 1
                    BY <2>2, <3>2, <3>3, <4>2
                <4>3. QED BY <3>2, <4>1, <4>2
            <3>5. QED BY <2>2, <3>2, <3>3, <3>4
        <2>5. CASE ~(k + 1 > d)
            BY <2>1, <2>2, <2>3, <2>5
        <2>6. QED BY <2>4, <2>5
    <1>4. n \in T
        <2> HIDE DEF T
        <2>1. QED BY <1>2, <1>3, Induction
    <1>5. Says(n)
        BY <1>4
    <1>6. Above(n) = n - d
        OBVIOUS
    <1>7. QED BY <1>1, <1>5, <1>6

\* The rows with a line among the first k of the file.
SeqsUpTo(k) == {file[i].seq : i \in 1..k} \ {0}

\* In a file that is in order these are the first rows, and the first lines of them come
\* in their order.
LEMMA FirstLinesInOrder ==
    ASSUME TypeOK, Good
    PROVE  \E d \in 0..Len(rows) :
              /\ SeqsUpTo(synced) = 1..d
              /\ OnDisk = [i \in 1..d |-> rows[i].entry]
    <1>0. /\ Len(rows) \in Nat /\ Len(file) \in Nat /\ synced \in 0..Len(file) /\ Seqs = 1..Len(rows)
          /\ \A i \in 1..Len(file) : file[i].seq \in Nat /\ (file[i].seq = 0 \/ file[i].seq \in Seqs)
        BY Types, LinesAre
    <1>1. PICK upTo : Ordering(upTo, FirstLines, synced) /\ InOrder(FirstLines, synced) = upTo[synced]
        BY <1>0, OrderingSteps
    <1> DEFINE Says(k) == /\ upTo[k] \in Seq(1..k)
                          /\ SeqsUpTo(k) = 1..Len(upTo[k])
                          /\ \A i \in 1..Len(upTo[k]) : file[upTo[k][i]].seq = i
               T == {k \in Nat : k <= synced => Says(k)}
    <1>2. 0 \in T
        <2>1. upTo[0] = <<>>
            BY <1>1 DEF Ordering
        <2>2. upTo[0] \in Seq(1..0) /\ Len(upTo[0]) = 0
            BY <2>1, EmptySeq
        <2>3. SeqsUpTo(0) = {} /\ 1..0 = {}
            BY DEF SeqsUpTo
        <2>4. QED BY <2>2, <2>3
    <1>3. ASSUME NEW k \in Nat, k \in T PROVE k + 1 \in T
        <2>1. SUFFICES ASSUME k + 1 <= synced PROVE Says(k + 1)
            OBVIOUS
        <2>2. Says(k)
            BY <1>0, <1>3, <2>1
        <2> DEFINE q == file[k + 1].seq
                   l == Len(upTo[k])
        <2>3. upTo[k + 1] = IF k + 1 \in FirstLines THEN Append(upTo[k], k + 1) ELSE upTo[k]
            <3>1. k + 1 \in 1..synced /\ (k + 1) - 1 = k
                BY <1>0, <2>1
            <3>2. QED BY <1>1, <3>1 DEF Ordering
        <2>4. k + 1 \in 1..Len(file) /\ q \in Nat /\ l \in Nat
            BY <1>0, <2>1, <2>2, LenProperties
        <2>5. SeqsUpTo(k + 1) = (SeqsUpTo(k) \cup {q}) \ {0}
            <3>1. 1..(k + 1) = (1..k) \cup {k + 1}
                OBVIOUS
            <3>2. QED BY <3>1 DEF SeqsUpTo
        <2>6. k + 1 \in FirstLines <=> q # 0 /\ q \notin 1..l
            <3>1. k + 1 \in 1..synced /\ (k + 1) - 1 = k
                BY <1>0, <2>1
            <3>2. k + 1 \in FirstLines <=> q # 0 /\ \A j \in 1..k : file[j].seq # q
                BY <3>1 DEF FirstLines
            <3>3. QED BY <2>2, <3>2 DEF SeqsUpTo
        <2> HIDE DEF q, l
        <2>7. upTo[k] \in Seq(1..(k + 1))
            <3>1. 1..k \subseteq 1..(k + 1)
                OBVIOUS
            <3>2. QED BY <2>2, <3>1, SeqMonotonic
        <2>8. CASE q # 0 /\ q \notin 1..l
            <3>1. q = l + 1
                <4>1. CASE q = 1
                    BY <2>4, <2>8, <4>1
                <4>2. CASE q > 1
                    <5>1. PICK j \in 1..((k + 1) - 1) : file[j].seq = q - 1
                        BY <2>4, <4>2 DEF Good, Ordered, q
                    <5>2. j \in 1..k
                        BY <5>1
                    <5>3. q - 1 \in SeqsUpTo(k)
                        BY <2>4, <4>2, <5>1, <5>2 DEF SeqsUpTo
                    <5>4. q - 1 \in 1..l
                        BY <2>2, <5>3 DEF l
                    <5>5. QED BY <2>4, <2>8, <5>4
                <4>3. QED BY <2>4, <2>8, <4>1, <4>2
            <3>2. upTo[k + 1] = Append(upTo[k], k + 1)
                BY <2>3, <2>6, <2>8
            <3>3. /\ upTo[k + 1] \in Seq(1..(k + 1)) /\ Len(upTo[k + 1]) = l + 1
                  /\ \A i \in 1..l : upTo[k + 1][i] = upTo[k][i]
                  /\ upTo[k + 1][l + 1] = k + 1
                <4>1. k + 1 \in 1..(k + 1)
                    OBVIOUS
                <4>2. QED BY <2>7, <3>2, <4>1, Appended DEF l
            <3>4. SeqsUpTo(k + 1) = 1..(l + 1)
                <4>1. SeqsUpTo(k) = 1..l
                    BY <2>2 DEF l
                <4>2. SeqsUpTo(k + 1) = ((1..l) \cup {l + 1}) \ {0}
                    BY <2>5, <3>1, <4>1
                <4>3. ((1..l) \cup {l + 1}) \ {0} = 1..(l + 1)
                    BY <2>4
                <4>4. QED BY <4>2, <4>3
            <3>5. ASSUME NEW i \in 1..(l + 1) PROVE file[upTo[k + 1][i]].seq = i
                <4>1. CASE i \in 1..l
                    BY <2>2, <3>3, <4>1 DEF l
                <4>2. CASE i = l + 1
                    BY <3>1, <3>3, <4>2 DEF q
                <4>3. QED BY <2>4, <4>1, <4>2
            <3>6. QED BY <3>3, <3>4, <3>5
        <2>9. CASE ~(q # 0 /\ q \notin 1..l)
            <3>1. upTo[k + 1] = upTo[k]
                BY <2>3, <2>6, <2>9
            <3>2. SeqsUpTo(k + 1) = SeqsUpTo(k)
                <4>1. 0 \notin SeqsUpTo(k) /\ (q = 0 \/ q \in SeqsUpTo(k))
                    BY <2>2, <2>9 DEF l, SeqsUpTo
                <4> HIDE DEF Says, T
                <4>2. QED BY <2>5, <4>1
            <3>3. QED BY <2>2, <2>7, <3>1, <3>2
        <2>10. QED BY <2>8, <2>9
    <1>4. synced \in T
        <2> HIDE DEF T
        <2>1. QED BY <1>0, <1>2, <1>3, Induction
    <1>5. Says(synced)
        BY <1>0, <1>4
    <1> DEFINE d == Len(upTo[synced])
    <1>6. d \in Nat
        BY <1>5, LenProperties
    <1>7. OnDisk = [i \in 1..d |-> rows[i].entry]
        <2>1. OnDisk = [i \in 1..d |-> file[upTo[synced][i]].entry]
            BY <1>1 DEF OnDisk
        <2>2. ASSUME NEW i \in 1..d PROVE file[upTo[synced][i]].entry = rows[i].entry
            <3>1. upTo[synced][i] \in 1..Len(file) /\ file[upTo[synced][i]].seq = i /\ i # 0
                <4>1. upTo[synced][i] \in 1..synced
                    BY <1>5, ElementOfSeq
                <4>2. QED BY <1>0, <1>5, <1>6, <4>1
            <3>2. file[upTo[synced][i]] = Line(i)
                BY <3>1, LinesAre
            <3>3. QED BY <3>2 DEF Line
        <2>3. QED BY <2>1, <2>2
    <1>8. d <= Len(rows)
        <2>1. SUFFICES ASSUME d # 0 PROVE d <= Len(rows)
            BY <1>0, <1>6
        <2>2. d \in SeqsUpTo(synced)
            BY <1>5, <1>6, <2>1
        <2>3. d \in Seqs
            BY <1>0, <2>2 DEF SeqsUpTo
        <2>4. QED BY <1>0, <2>3
    <1> HIDE DEF d
    <1>9. SeqsUpTo(synced) = 1..d
        BY <1>5 DEF d
    <1>10. d \in 0..Len(rows)
        BY <1>0, <1>6, <1>8
    <1>11. QED BY <1>7, <1>9, <1>10

LEMMA NotOnDiskIsRest ==
    ASSUME TypeOK, NEW d \in 0..Len(rows), SeqsUpTo(synced) = 1..d
    PROVE  NotOnDisk = [i \in 1..(Len(rows) - d) |-> rows[d + i].entry]
    <1>1. Len(rows) \in Nat /\ Seqs = 1..Len(rows)
        BY Types
    <1> DEFINE S == {n \in Seqs : \A i \in 1..synced : file[i].seq # n}
    <1>2. ASSUME NEW n \in 1..Len(rows) PROVE n \in S <=> n > d
        <2>1. n \in S <=> n \notin SeqsUpTo(synced)
            BY <1>1 DEF SeqsUpTo
        <2>2. QED BY <1>1, <2>1
    <1> DEFINE rest == InOrder(S, Len(rows))
    <1>3. NotOnDisk = [i \in 1..Len(rest) |-> rows[rest[i]].entry]
        BY DEF NotOnDisk
    <1> HIDE DEF S
    <1> DEFINE N == Len(rows)
    <1>4. N \in Nat /\ d \in 0..N /\ \A n \in 1..N : n \in S <=> n > d
        BY <1>1, <1>2
    <1> HIDE DEF N
    <1>5. /\ Len(InOrder(S, N)) = N - d
          /\ \A i \in 1..(N - d) : InOrder(S, N)[i] = d + i
        BY <1>4, InOrderAbove
    <1>6. Len(rest) = Len(rows) - d /\ \A i \in 1..(Len(rows) - d) : rest[i] = d + i
        BY <1>5 DEF N
    <1> HIDE DEF rest
    <1>7. QED BY <1>3, <1>6

\* A sequence cut in two, and cut again further on and at its end.
LEMMA CutFurther ==
    ASSUME NEW E, NEW N \in Nat, NEW d \in 0..N, NEW e \in d..N, NEW M \in e..N, NEW f \in [1..N -> E]
    PROVE  /\ [i \in 1..e |-> f[i]] = [i \in 1..d |-> f[i]] \o SubSeq([i \in 1..(N - d) |-> f[d + i]], 1, e - d)
           /\ [i \in 1..(M - e) |-> f[e + i]] = SubSeq([i \in 1..(N - d) |-> f[d + i]], (e - d) + 1, M - d)
           /\ Len([i \in 1..(N - d) |-> f[d + i]]) = N - d
    <1> DEFINE head == [i \in 1..d |-> f[i]]
               rest == [i \in 1..(N - d) |-> f[d + i]]
               part == SubSeq(rest, 1, e - d)
               tail == SubSeq(rest, (e - d) + 1, M - d)
               whole == [i \in 1..e |-> f[i]]
               last == [i \in 1..(M - e) |-> f[e + i]]
    <1>1. /\ d \in Nat /\ e \in Nat /\ M \in Nat /\ N - d \in Nat /\ M - e \in Nat /\ M - d \in Nat
          /\ e - d \in 0..(N - d) /\ d <= e /\ e <= M /\ M <= N
        OBVIOUS
    <1>2. head \in Seq(E) /\ Len(head) = d
        <2>1. head \in [1..d -> E]
            BY <1>1
        <2>2. QED BY <1>1, <2>1, FunctionIsSeq
    <1>3. rest \in Seq(E) /\ Len(rest) = N - d
        <2>1. rest \in [1..(N - d) -> E]
            BY <1>1
        <2>2. QED BY <1>1, <2>1, FunctionIsSeq
    <1>4. whole \in Seq(E) /\ Len(whole) = e
        <2>1. whole \in [1..e -> E]
            BY <1>1
        <2>2. QED BY <1>1, <2>1, FunctionIsSeq
    <1>5. last \in Seq(E) /\ Len(last) = M - e
        <2>1. last \in [1..(M - e) -> E]
            BY <1>1
        <2>2. QED BY <1>1, <2>1, FunctionIsSeq
    <1>6. /\ \A i \in 1..d : head[i] = f[i]
          /\ \A i \in 1..(N - d) : rest[i] = f[d + i]
          /\ \A i \in 1..e : whole[i] = f[i]
          /\ \A i \in 1..(M - e) : last[i] = f[e + i]
        OBVIOUS
    <1> HIDE DEF head, rest, whole, last
    <1>7. /\ part \in Seq(E) /\ Len(part) = e - d
          /\ \A i \in 1..(e - d) : part[i] = rest[i]
        BY <1>1, <1>3, Prefix
    <1>8. /\ tail \in Seq(E) /\ Len(tail) = M - e
          /\ \A i \in 1..(M - e) : tail[i] = rest[(e - d) + i]
        <2>1. \A i \in ((e - d) + 1)..(M - d) : rest[i] \in E
            BY <1>1, <1>3, ElementOfSeq
        <2> DEFINE m == (e - d) + 1
                   n == M - d
        <2>2. m \in Int /\ n \in Int /\ tail = SubSeq(rest, m, n) /\ \A i \in m..n : rest[i] \in E
            BY <1>1, <2>1
        <2>3. n - m + 1 = M - e /\ (IF m <= n THEN n - m + 1 ELSE 0) = M - e
            BY <1>1
        <2>4. \A i \in 1..(M - e) : m + i - 1 = (e - d) + i
            BY <1>1
        <2> HIDE DEF tail, m, n
        <2>5. /\ tail \in Seq(E) /\ Len(tail) = IF m <= n THEN n - m + 1 ELSE 0
              /\ \A i \in 1..(n - m + 1) : tail[i] = rest[m + i - 1]
            BY <2>2, SubSeqProperties
        <2>6. QED BY <2>3, <2>4, <2>5
    <1> HIDE DEF part, tail
    <1>9. whole = head \o part
        <2>1. /\ head \o part \in Seq(E) /\ Len(head \o part) = e
              /\ \A i \in 1..e : (head \o part)[i] = IF i <= d THEN head[i] ELSE part[i - d]
            <3>1. /\ head \o part \in Seq(E) /\ Len(head \o part) = Len(head) + Len(part)
                  /\ \A i \in 1..(Len(head) + Len(part)) :
                        (head \o part)[i] = IF i <= Len(head) THEN head[i] ELSE part[i - Len(head)]
                BY <1>2, <1>7, ConcatProperties
            <3>2. Len(head) = d /\ Len(head) + Len(part) = e
                BY <1>1, <1>2, <1>7
            <3>3. QED BY <3>1, <3>2
        <2>2. ASSUME NEW i \in 1..e PROVE whole[i] = (head \o part)[i]
            <3>1. CASE i <= d
                BY <1>1, <1>6, <2>1, <3>1
            <3>2. CASE ~(i <= d)
                <4>1. i - d \in 1..(e - d) /\ i - d \in 1..(N - d) /\ d + (i - d) = i
                    BY <1>1, <3>2
                <4>2. QED BY <1>6, <1>7, <2>1, <3>2, <4>1
            <3>3. QED BY <3>1, <3>2
        <2>3. QED BY <1>4, <2>1, <2>2, SeqEqual
    <1>10. last = tail
        <2>1. ASSUME NEW i \in 1..(M - e) PROVE last[i] = tail[i]
            <3>1. (e - d) + i \in 1..(N - d) /\ d + ((e - d) + i) = e + i
                BY <1>1
            <3>2. QED BY <1>6, <1>8, <3>1
        <2>2. QED BY <1>5, <1>8, <2>1, SeqEqual
    <1>11. QED BY <1>3, <1>9, <1>10 DEF head, rest, part, tail, whole, last

\* The outbox is cut in two where what is on disk ends.
PrefixOnDisk ==
    \E d \in 0..Len(rows) :
        /\ SeqsUpTo(synced) = 1..d
        /\ OnDisk = [i \in 1..d |-> rows[i].entry]
        /\ NotOnDisk = [i \in 1..(Len(rows) - d) |-> rows[d + i].entry]

LEMMA OutboxIsCut ==
    TypeOK /\ Good => PrefixOnDisk
    <1> SUFFICES ASSUME TypeOK, Good PROVE PrefixOnDisk
        OBVIOUS
    <1>1. PICK d \in 0..Len(rows) :
             SeqsUpTo(synced) = 1..d /\ OnDisk = [i \in 1..d |-> rows[i].entry]
        BY FirstLinesInOrder
    <1>2. NotOnDisk = [i \in 1..(Len(rows) - d) |-> rows[d + i].entry]
        BY <1>1, NotOnDiskIsRest
    <1>3. QED BY <1>1, <1>2 DEF PrefixOnDisk

\* What is on disk stays there; but for a new entry a step leaves the entries of the
\* outbox as they are, and a crash of the machine those of the rows it does not take.
SameEntries  == Len(rows') = Len(rows) /\ \A n \in 1..Len(rows) : rows'[n].entry = rows[n].entry
FirstEntries == Len(rows') <= Len(rows) /\ \A n \in 1..Len(rows') : rows'[n].entry = rows[n].entry
OnDiskStays  == SeqsUpTo(synced) \subseteq SeqsUpTo(synced)'

LEMMA FileStays ==
    ASSUME TypeOK, TypeOK', synced <= synced', \A i \in 1..synced : file'[i].seq = file[i].seq
    PROVE  OnDiskStays
    <1>1. synced \in Nat /\ synced' \in Nat
        BY Types DEF TypeOK
    <1>2. 1..synced \subseteq 1..synced'
        BY <1>1
    <1>3. QED BY <1>2 DEF SeqsUpTo, OnDiskStays

LEMMA MarkedStays ==
    ASSUME TypeOK, NEW marks \in [Seqs -> Nat], rows' = Marked(marks)
    PROVE  SameEntries
    <1>1. Len(rows') = Len(rows)
        BY MarkedRows
    <1>2. ASSUME NEW n \in 1..Len(rows) PROVE rows'[n].entry = rows[n].entry
        <2>1. n \in Seqs /\ rows[n] \in Row
            BY Types
        <2>2. rows'[n] = IF marks[n] # 0 THEN [rows[n] EXCEPT !.durable = TRUE, !.at = marks[n]]
                         ELSE rows[n]
            BY <2>1, MarkedRows
        <2>3. QED BY <2>1, <2>2 DEF Row
    <1>3. QED BY <1>1, <1>2 DEF SameEntries

LEMMA StepStays ==
    ASSUME TypeOK, TypeOK', Good, [Next]_vars, Sound'
    PROVE  \/ SameEntries /\ OnDiskStays
           \/ MachineCrash /\ FirstEntries /\ OnDiskStays
           \/ \E r \in Request : Finish(r)
    <1>0. /\ Len(file) \in Nat /\ synced \in 0..Len(file) /\ synced \in Nat
          /\ file \in Seq(FileLine) /\ \A n \in Seqs : n \in Nat
        BY Types
    <1>1. ASSUME rows' = rows, file' = file, synced <= synced' PROVE SameEntries /\ OnDiskStays
        <2>1. \A i \in 1..synced : file'[i].seq = file[i].seq
            BY <1>1
        <2>2. QED BY <1>1, <2>1, FileStays DEF SameEntries
    <1>2. CASE UNCHANGED vars
        <2>1. rows' = rows /\ file' = file /\ synced <= synced'
            BY <1>0, <1>2 DEF vars, database
        <2>2. QED BY <1>1, <2>1
    <1>3. ASSUME NEW r \in Request, QueueFails(r) PROVE SameEntries /\ OnDiskStays
        <2>1. rows' = rows /\ file' = file /\ synced <= synced'
            BY <1>0, <1>3 DEF QueueFails, database
        <2>2. QED BY <1>1, <2>1
    <1>4. CASE StartDrain \/ DrainThrows \/ ProcessCrash
        <2>1. rows' = rows /\ file' = file /\ synced' = synced
            BY <1>4, Zenon DEF StartDrain, DrainThrows, ProcessCrash, database
        <2>2. synced <= synced'
            BY <1>0, <2>1
        <2>3. QED BY <1>1, <2>1, <2>2
    <1>5. CASE WriteLine
        <2>1. PICK n \in Seqs : file' = IF Unended THEN [file EXCEPT ![Len(file)] = Garbled]
                                        ELSE Append(file, Line(n))
            BY <1>5 DEF WriteLine
        <2>2. ~Unended
            BY <1>5, ReadableEnds DEF WriteLine, Good, ServedWhole
        <2>3. Line(n) \in FileLine
            BY LineOfRow
        <2>4. \A i \in 1..Len(file) : file'[i] = file[i]
            BY <1>0, <2>1, <2>2, <2>3, Appended
        <2>5. rows' = rows /\ synced' = synced
            BY <1>5 DEF WriteLine, database
        <2>6. QED BY <1>0, <2>4, <2>5, FileStays DEF SameEntries
    <1>6. CASE Sync
        <2>1. UNCHANGED <<rows, file>> /\ synced' = Len(file)
            BY <1>6 DEF Sync, database
        <2>2. QED BY <1>0, <1>1, <2>1
    <1>7. CASE MarkBatchDurable
        <2>1. rows' = Marked(batch.marks) /\ batch.marks \in [Seqs -> Nat] /\ UNCHANGED <<file, synced>>
            BY <1>7, Types DEF MarkBatchDurable, Commit
        <2>2. QED BY <1>0, <2>1, MarkedStays, FileStays
    <1>8. CASE MachineCrash
        <2>1. PICK k \in synced..Len(file) :
                 /\ file' \in Seq(FileLine) /\ Len(file') \in k..(k + 1) /\ k \in 0..Len(file)
                 /\ \A i \in 1..k : file'[i] = file[i]
                 /\ missed' = TRUE \/ (missed' = missed /\ (Len(file') = k + 1 => file'[k + 1] = Cut))
            BY <1>8, CrashedFile
        <2>2. synced' = Len(file')
            BY <1>8 DEF MachineCrash
        <2>3. synced <= synced' /\ \A i \in 1..synced : file'[i].seq = file[i].seq
            BY <1>0, <2>1, <2>2
        <2>4. PICK version \in wal : rows' = version
            BY <1>8 DEF MachineCrash
        <2>5. Before(version)
            BY DEF Good, VersionsTrue
        <2>6. FirstEntries
            BY <2>4, <2>5 DEF Before, FirstEntries
        <2>7. QED BY <1>8, <2>3, <2>6, FileStays
    <1>9. CASE Recover
        <2>1. PICK marks \in [Seqs -> 0..Len(file)] : rows' = Marked(marks)
            BY <1>9 DEF Recover, Commit
        <2>2. marks \in [Seqs -> Nat]
            BY <1>0
        <2>3. UNCHANGED <<file, synced>>
            BY <1>9 DEF Recover
        <2>4. QED BY <1>0, <2>1, <2>2, <2>3, MarkedStays, FileStays
    <1>10. CASE Repair
        <2>1. /\ rows' = rows /\ Unended /\ file' = SubSeq(file, 1, Len(file) - 1)
              /\ synced' = IF synced = Len(file) THEN synced - 1 ELSE synced
            BY <1>10 DEF Repair, database
        <2>2. Len(file) > 0 /\ file[Len(file)].seq = 0
            <3>1. Len(file) \in 1..Len(file) /\ ~file[Len(file)].ended
                BY <1>0, <2>1 DEF Unended
            <3>2. QED BY <3>1, LinesAre
        <2>3. \A i \in 1..(Len(file) - 1) : file'[i] = file[i]
            <3>1. Len(file) - 1 \in 0..Len(file)
                BY <1>0, <2>2
            <3>2. QED BY <1>0, <2>1, <3>1, Prefix
        <2>4. ASSUME NEW n \in SeqsUpTo(synced) PROVE n \in SeqsUpTo(synced)'
            <3>1. PICK i \in 1..synced : file[i].seq = n /\ n # 0
                BY <2>4 DEF SeqsUpTo
            <3>2. i # Len(file)
                BY <2>2, <3>1
            <3>3. i \in 1..synced' /\ i \in 1..(Len(file) - 1)
                BY <1>0, <2>1, <3>2
            <3>4. file'[i].seq = n
                BY <2>3, <3>1, <3>3
            <3>5. QED BY <3>1, <3>3, <3>4 DEF SeqsUpTo
        <2>5. QED BY <2>1, <2>4 DEF SameEntries, OnDiskStays
    <1>11. ~WriteShort
        BY DEF WriteShort, Sound
    <1>12. QED BY <1>2, <1>3, <1>4, <1>5, <1>6, <1>7, <1>8, <1>9, <1>10, <1>11 DEF Next

\* What came to disk was the first that waited, and what is gone the last.
LEMMA WaitingSettles ==
    ASSUME TypeOK, TypeOK', PrefixOnDisk, PrefixOnDisk', FirstEntries, OnDiskStays
    PROVE  \E m \in 0..Len(NotOnDisk) : \E n \in 0..m :
             /\ Trail!Settle(n, m)
             /\ Len(rows') = Len(rows) =>
                    m = Len(NotOnDisk) /\ (n = 0 => UNCHANGED Trail!vars)
    <1>1. PICK d \in 0..Len(rows) :
             /\ SeqsUpTo(synced) = 1..d
             /\ OnDisk = [i \in 1..d |-> rows[i].entry]
             /\ NotOnDisk = [i \in 1..(Len(rows) - d) |-> rows[d + i].entry]
        BY DEF PrefixOnDisk
    <1>2. PICK e \in 0..Len(rows') :
             /\ SeqsUpTo(synced)' = 1..e
             /\ OnDisk' = [i \in 1..e |-> rows'[i].entry]
             /\ NotOnDisk' = [i \in 1..(Len(rows') - e) |-> rows'[e + i].entry]
        BY DEF PrefixOnDisk
    <1> DEFINE N == Len(rows)
               M == Len(rows')
               f == [i \in 1..N |-> rows[i].entry]
    <1>3. N \in Nat /\ M \in Nat /\ M <= N /\ \A i \in 1..N : rows[i] \in Row
        BY Types, LenProperties DEF TypeOK, FirstEntries
    <1>4. f \in [1..N -> Request]
        BY <1>3 DEF Row
    <1>5. d \in 0..N /\ e \in d..N /\ M \in e..N
        <2>1. 1..d \subseteq 1..e
            BY <1>1, <1>2 DEF OnDiskStays
        <2> HIDE DEF N, M
        <2>2. d \in 0..N /\ e \in 0..M /\ d \in Nat /\ e \in Nat
            BY <1>1, <1>2, <1>3 DEF N, M
        <2>3. d <= e
            <3>1. SUFFICES ASSUME d # 0 PROVE d <= e
                BY <2>2
            <3>2. d \in 1..d
                BY <2>2, <3>1
            <3>3. d \in 1..e
                BY <2>1, <3>2
            <3>4. QED BY <2>2, <3>3
        <2>4. QED BY <1>3, <2>2, <2>3
    <1>6. /\ OnDisk = [i \in 1..d |-> f[i]]
          /\ NotOnDisk = [i \in 1..(N - d) |-> f[d + i]]
        <2>1. \A i \in 1..d : f[i] = rows[i].entry
            BY <1>3, <1>5
        <2>2. \A i \in 1..(N - d) : f[d + i] = rows[d + i].entry
            BY <1>3, <1>5
        <2> HIDE DEF f
        <2>3. QED BY <1>1, <2>1, <2>2
    <1>7. /\ OnDisk' = [i \in 1..e |-> f[i]]
          /\ NotOnDisk' = [i \in 1..(M - e) |-> f[e + i]]
        <2>1. \A i \in 1..M : f[i] = rows'[i].entry
            BY <1>3 DEF FirstEntries
        <2>2. (\A i \in 1..e : i \in 1..M) /\ (\A i \in 1..(M - e) : e + i \in 1..M)
            BY <1>3, <1>5
        <2> HIDE DEF f
        <2>3. QED BY <1>2, <2>1, <2>2
    <1> HIDE DEF f, N, M
    <1>8. /\ OnDisk' = OnDisk \o SubSeq(NotOnDisk, 1, e - d)
          /\ NotOnDisk' = SubSeq(NotOnDisk, (e - d) + 1, M - d)
          /\ Len(NotOnDisk) = N - d
        BY <1>3, <1>4, <1>5, <1>6, <1>7, CutFurther
    <1>9. M - d \in 0..Len(NotOnDisk) /\ e - d \in 0..(M - d)
        BY <1>3, <1>5, <1>8
    <1>10. Trail!Settle(e - d, M - d)
        BY <1>8 DEF Trail!Settle
    <1>11. ASSUME M = N PROVE M - d = Len(NotOnDisk) /\ (e - d = 0 => UNCHANGED Trail!vars)
        <2>1. ASSUME e - d = 0 PROVE UNCHANGED Trail!vars
            <3>1. e = d
                BY <1>3, <1>5, <2>1
            <3>2. QED BY <1>6, <1>7, <1>11, <3>1 DEF Trail!vars
        <2>2. QED BY <1>8, <1>11, <2>1
    <1>12. QED BY <1>9, <1>10, <1>11 DEF M, N

\* All steps but a crash of the machine and a new entry.
LEMMA StaysPersists ==
    ASSUME TypeOK, TypeOK', PrefixOnDisk, PrefixOnDisk', SameEntries, OnDiskStays
    PROVE  Trail!Grow \/ UNCHANGED Trail!vars
    <1>1. FirstEntries /\ Len(rows') = Len(rows) /\ Len(rows) \in Nat
        BY Types DEF SameEntries, FirstEntries
    <1>2. PICK m \in 0..Len(NotOnDisk) : \E n \in 0..m :
             /\ Trail!Settle(n, m)
             /\ m = Len(NotOnDisk) /\ (n = 0 => UNCHANGED Trail!vars)
        BY <1>1, WaitingSettles
    <1>3. PICK n \in 0..m :
             /\ Trail!Settle(n, m)
             /\ m = Len(NotOnDisk) /\ (n = 0 => UNCHANGED Trail!vars)
        BY <1>2
    <1>4. CASE n = 0
        BY <1>3, <1>4
    <1>5. CASE n # 0
        <2>1. n \in 1..Len(NotOnDisk) /\ Trail!Persist(n)
            BY <1>3, <1>5 DEF Trail!Persist
        <2>2. QED BY <2>1 DEF Trail!Grow
    <1>6. QED BY <1>4, <1>5

LEMMA CrashLoses ==
    ASSUME TypeOK, TypeOK', PrefixOnDisk, PrefixOnDisk', FirstEntries, OnDiskStays
    PROVE  Trail!PowerLoss
    BY WaitingSettles DEF Trail!PowerLoss

LEMMA FinishAccepts ==
    ASSUME TypeOK, TypeOK', PrefixOnDisk, PrefixOnDisk', NEW r \in Request, Finish(r)
    PROVE  Trail!Grow
    <1>1. PICK d \in 0..Len(rows) :
             /\ SeqsUpTo(synced) = 1..d
             /\ OnDisk = [i \in 1..d |-> rows[i].entry]
             /\ NotOnDisk = [i \in 1..(Len(rows) - d) |-> rows[d + i].entry]
        BY DEF PrefixOnDisk
    <1>2. PICK e \in 0..Len(rows') :
             /\ SeqsUpTo(synced)' = 1..e
             /\ OnDisk' = [i \in 1..e |-> rows'[i].entry]
             /\ NotOnDisk' = [i \in 1..(Len(rows') - e) |-> rows'[e + i].entry]
        BY DEF PrefixOnDisk
    <1> DEFINE N == Len(rows)
    <1>3. /\ N \in Nat /\ Len(rows') = N + 1 /\ rows'[N + 1].entry = r
          /\ \A i \in 1..N : rows'[i] = rows[i] /\ rows[i].entry \in Request
        <2>1. [entry |-> r, durable |-> FALSE, at |-> 0] \in Row
            BY DEF Row
        <2>2. rows \in Seq(Row) /\ N \in Nat /\ \A i \in 1..N : rows[i] \in Row
            BY Types
        <2>3. rows' = Append(rows, [entry |-> r, durable |-> FALSE, at |-> 0])
            BY DEF Finish, Commit
        <2>4. QED BY <2>1, <2>2, <2>3, Appended DEF Row
    <1>4. e = d /\ d \in 0..N
        <2>1. 1..d = 1..e
            BY <1>1, <1>2 DEF Finish, SeqsUpTo
        <2> HIDE DEF N
        <2>2. d \in Nat /\ e \in Nat
            BY <1>1, <1>2, <1>3 DEF N
        <2>3. QED BY <1>1, <2>1, <2>2 DEF N
    <1> DEFINE log == OnDisk
               waiting == NotOnDisk
    <1>5. log' = log
        <2>1. \A i \in 1..d : rows'[i].entry = rows[i].entry
            BY <1>3, <1>4
        <2>2. QED BY <1>1, <1>2, <1>4, <2>1
    <1>6. waiting' = Append(waiting, r)
        <2>1. /\ waiting = [i \in 1..(N - d) |-> rows[d + i].entry]
              /\ waiting' = [i \in 1..((N - d) + 1) |-> rows'[d + i].entry]
            <3>1. Len(rows') - e = (N - d) + 1
                BY <1>3, <1>4
            <3>2. QED BY <1>1, <1>2, <1>4, <3>1
        <2> HIDE DEF N, waiting
        <2>2. waiting \in Seq(Request) /\ Len(waiting) = N - d /\ N - d \in Nat
            <3>1. N - d \in Nat /\ \A i \in 1..(N - d) : d + i \in 1..N
                BY <1>3, <1>4
            <3>2. waiting \in [1..(N - d) -> Request]
                BY <1>3, <2>1, <3>1
            <3>3. QED BY <3>1, <3>2, FunctionIsSeq
        <2>3. \A i \in 1..((N - d) + 1) : rows'[d + i].entry \in Request
                 /\ rows'[d + i].entry = IF i = (N - d) + 1 THEN r ELSE waiting[i]
            <3>1. ASSUME NEW i \in 1..((N - d) + 1), i # (N - d) + 1
                  PROVE  i \in 1..(N - d) /\ d + i \in 1..N
                BY <1>3, <1>4, <3>1
            <3>2. d + ((N - d) + 1) = N + 1
                BY <1>3, <1>4
            <3>3. QED BY <1>3, <2>1, <3>1, <3>2
        <2>4. waiting' \in Seq(Request) /\ Len(waiting') = (N - d) + 1
            <3>1. (N - d) + 1 \in Nat
                BY <2>2
            <3>2. waiting' \in [1..((N - d) + 1) -> Request]
                BY <2>1, <2>3
            <3>3. QED BY <3>1, <3>2, FunctionIsSeq
        <2>5. /\ Append(waiting, r) \in Seq(Request) /\ Len(Append(waiting, r)) = (N - d) + 1
              /\ \A i \in 1..(N - d) : Append(waiting, r)[i] = waiting[i]
              /\ Append(waiting, r)[(N - d) + 1] = r
            BY <2>2, Appended
        <2>6. ASSUME NEW i \in 1..((N - d) + 1) PROVE waiting'[i] = Append(waiting, r)[i]
            <3>1. waiting'[i] = IF i = (N - d) + 1 THEN r ELSE waiting[i]
                BY <2>1, <2>3
            <3>2. i # (N - d) + 1 => i \in 1..(N - d)
                BY <2>2
            <3>3. QED BY <2>5, <3>1, <3>2
        <2>7. QED BY <2>4, <2>5, <2>6, SeqEqual
    <1>7. Trail!Accept(r)
        BY <1>5, <1>6 DEF Trail!Accept
    <1>8. QED BY <1>7 DEF Trail!Grow

\* What is on disk grows in the order in which entries were queued, none is lost,
\* overtaken or, to a reader who skips repeated lines, doubled, but that a crash of the
\* machine may lose the last ones of those that wait; for any requests, failures and
\* crashes, as long as Sound holds.  (audit-drainer.ts appendAndMark and recover, audit.ts
\* queue)
THEOREM TrailImplemented == Spec => ImplementsTrail
    <1>1. Init => Trail!Init
        <2> SUFFICES ASSUME Init PROVE Trail!Init
            OBVIOUS
        <2>1. PrefixOnDisk /\ Len(rows) = 0
            BY TypeInit, GoodInit, OutboxIsCut, EmptySeq DEF Init
        <2>2. PICK d \in 0..Len(rows) :
             /\ OnDisk = [i \in 1..d |-> rows[i].entry]
             /\ NotOnDisk = [i \in 1..(Len(rows) - d) |-> rows[d + i].entry]
            BY <2>1 DEF PrefixOnDisk
        <2>3. d = 0 /\ Len(rows) - d = 0
            <3>1. Len(rows) = 0
                BY <2>1
            <3>2. d \in 0..0
                BY <2>2, <3>1
            <3>3. d = 0
                BY <3>2
            <3>4. QED BY <3>1, <3>3
        <2>4. \A g : [i \in 1..0 |-> g[i]] = <<>>
            BY DEF EmptySeq
        <2>5. QED BY <2>2, <2>3, <2>4 DEF Trail!Init
    <1>2. IInv => (Sound => PrefixOnDisk)
        BY IInvIsGood, OutboxIsCut
    <1>3. ASSUME IInv, IInv', Sound => PrefixOnDisk, (Sound => PrefixOnDisk)', [Next]_vars
          PROVE  [Trail!Grow \/ (MachineCrash /\ Trail!PowerLoss) \/ ~Sound']_(Trail!vars)
        <2>1. SUFFICES ASSUME Sound'
                       PROVE  \/ Trail!Grow \/ (MachineCrash /\ Trail!PowerLoss)
                              \/ UNCHANGED Trail!vars
            OBVIOUS
        <2>2. TypeOK /\ TypeOK'
            BY <1>3 DEF IInv
        <2>3. Sound /\ Good
            BY <1>3, <2>1, <2>2, IInvIsGood, SoundBefore
        <2>4. PrefixOnDisk /\ PrefixOnDisk'
            BY <1>3, <2>1, <2>3
        <2>5. CASE SameEntries /\ OnDiskStays
            BY <2>2, <2>4, <2>5, StaysPersists
        <2>6. CASE MachineCrash /\ FirstEntries /\ OnDiskStays
            BY <2>2, <2>4, <2>6, CrashLoses
        <2>7. CASE \E r \in Request : Finish(r)
            BY <2>2, <2>4, <2>7, FinishAccepts
        <2>8. QED BY <1>3, <2>1, <2>2, <2>3, <2>5, <2>6, <2>7, StepStays
    <1>4. QED BY <1>1, <1>2, <1>3, Inductive, PTL DEF Spec, ImplementsTrail

=============================================================================
