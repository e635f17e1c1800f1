------------------------------- MODULE Network -------------------------------
(***************************************************************************)
(* Network tasks end to end: net.iface.update and net.pool.apply planned   *)
(* from what was observed, applied, run on the host one call at a time and *)
(* rolled back, beside the collector's sweeps, netlink events and an       *)
(* operator who edits netplan files by hand.                               *)
(* Every plan renders the whole of 99-xinas.yaml, so that every task       *)
(* writes what its plan took the other interfaces to be.                   *)
(***************************************************************************)
EXTENDS NetworkHost

CONSTANTS Task,       \* the tasks
          Cases,      \* where the system may start: [host, desired, job] records
          Edits,      \* the stanzas an operator may write into a foreign file
          MaxFaults, MaxPolls, MaxEvents, MaxEdits    \* how many of each happen

VARIABLES host,     \* the network side of the host
          seen,     \* rows: whether each interface is known to be mlx, and its
                    \* stanza; files: what NetworkConfig/default hashes
          desired,  \* rows and their revisions, 0 for none
          task,     \* each task's job, plan and run
          budget    \* faults, polls, events and edits left

vars == <<host, seen, desired, task, budget>>

Phase == {"new", "refused", "planned", "running", "failing", "rollback",
          "success", "failed", "cancelled", "manual"}
Live  == {"running", "failing", "rollback"}

\* sound and base are for the properties only: whether the plan has no blocker,
\* was made with no network task live and applied, as it was made, from a whole
\* observation; and the files the run found.
NewTask(j) == [job |-> j, phase |-> "new", plan |-> None, prior |-> None, stage |-> 1,
               calls |-> <<>>, stash |-> EmptyStash, cancelled |-> FALSE,
               sound |-> TRUE, base |-> None]

Ended(t, final) == [task[t] EXCEPT !.phase = final, !.plan = None, !.prior = None,
                                   !.calls = <<>>, !.stash = EmptyStash]

NetJob ==
    [kind : {"net.iface.update"}, iface : Iface, addrs : (SUBSET Addr) \cup {None},
     enabled : BOOLEAN \cup {None}, cleanup : BOOLEAN]
    \cup [kind : {"net.pool.apply"}, start : Addr, cleanup : BOOLEAN]

\* Revisions start at one; a row that is not there has none.
DesiredOK(d) ==
    \A i \in Iface : /\ d.rows[i] \in Desc \cup {None} /\ d.rev[i] \in Nat
                     /\ d.rows[i] = None <=> d.rev[i] = 0

ASSUME CasesAssumption ==
    \A c \in Cases : c.host \in NetHost /\ DesiredOK(c.desired) /\ c.job \in [Task -> NetJob]
ASSUME EditsAssumption == Edits \subseteq Stanza

TypeOK ==
    /\ host \in NetHost /\ DesiredOK(desired)
    /\ \A i \in Iface : seen.rows[i].mlx \in BOOLEAN /\ seen.rows[i].netplan \in Stanza \cup {None}
    /\ seen.files \in NetFiles
    /\ \A t \in Task : /\ task[t].job \in NetJob /\ task[t].phase \in Phase
                       /\ task[t].stage \in 1 .. Len(NetStages) + 1
                       /\ task[t].calls # <<>> => task[t].phase \in {"running", "rollback"}

Some(what) == budget[what] > 0 /\ budget' = [budget EXCEPT ![what] = @ - 1]

-----------------------------------------------------------------------------
(***************************************************************************)
(* Observation.                                                            *)
(***************************************************************************)
Rows(h) == [i \in Iface |-> [mlx |-> TRUE, netplan |-> StanzaOf(Files(h), i)]]

Init ==
    \E c \in Cases :
        /\ host = c.host /\ desired = c.desired
        /\ seen = [rows |-> Rows(c.host), files |-> Files(c.host)]
        /\ task = [t \in Task |-> NewTask(c.job[t])]
        /\ budget = [faults |-> MaxFaults, polls |-> MaxPolls, events |-> MaxEvents, edits |-> MaxEdits]

Sweep ==
    /\ Some("polls")
    /\ seen' = [rows |-> Rows(host), files |-> Files(host)]
    /\ seen' # seen
    /\ UNCHANGED <<host, desired, task>>

\* The readers of the netplan directory never fail: a sweep that cannot read it
\* gets nothing, and reports the interfaces without stanzas and hashes.  The two
\* readings of a sweep are one step.
SweepBlind ==
    /\ Some("events")
    /\ seen' = [seen EXCEPT !.rows = [i \in Iface |-> [mlx |-> TRUE, netplan |-> None]]]
    /\ UNCHANGED <<host, desired, task>>

\* A netlink event replaces the row by one without driver and stanza.
NetlinkEvent ==
    /\ Some("events")
    /\ \E i \in Iface : seen' = [seen EXCEPT !.rows[i] = [mlx |-> FALSE, netplan |-> None]]
    /\ UNCHANGED <<host, desired, task>>

\* An operator's edit of a foreign netplan file, while no network task runs.
OperatorEdit ==
    /\ Some("edits")
    /\ \A t \in Task : task[t].phase \notin Live
    /\ \E i \in Iface, s \in Edits \cup {None} : host' = [host EXCEPT !.foreign[i] = s]
    /\ UNCHANGED <<seen, desired, task>>

-----------------------------------------------------------------------------
(***************************************************************************)
(* The desired rows a plan resolves.                                       *)
(***************************************************************************)
Managed == {i \in Iface : seen.rows[i].mlx}
Dups    == IF seen.files = None THEN {} ELSE Duplicates(seen.files)
Adopted == {i \in Managed : desired.rows[i] = None}

\* The table an interface has: its row's, or else its stanza's, or None.
TableOf(i) ==
    IF desired.rows[i] # None THEN desired.rows[i].table
    ELSE IF seen.rows[i].netplan # None THEN seen.rows[i].netplan.table
    ELSE None

UsedTables == {TableOf(i) : i \in Managed} \ {None, 0}

\* The interfaces without a table take the free ones, the lowest first.
Allocated(i, needs) ==
    LET free == Table \ UsedTables
        mine == {c \in free : Cardinality({d \in free : d <= c}) = Cardinality({k \in needs : k <= i})}
    IN IF mine = {} THEN 0 ELSE CHOOSE c \in mine : TRUE

Resolved(target) ==
    LET needs == {i \in Managed : TableOf(i) = None \/ (i = target /\ TableOf(i) = 0)}
        stanza(i) == seen.rows[i].netplan
        base(i) == IF desired.rows[i] # None THEN desired.rows[i]
                   ELSE [addrs |-> IF stanza(i) = None THEN {} ELSE stanza(i).addrs,
                         enabled |-> TRUE, table |-> 0]
    IN [i \in Iface |-> IF i \notin Managed THEN None
                        ELSE [base(i) EXCEPT !.table = IF i \in needs THEN Allocated(i, needs) ELSE TableOf(i)]]

FreeAfter(rows) == Table \ {rows[i].table : i \in Managed}

-----------------------------------------------------------------------------
(***************************************************************************)
(* The two plan providers.                                                 *)
(***************************************************************************)
Of(ids) == {<<"NetworkInterface", i>> : i \in ids} \cup {<<"NetworkConfig", "99-xinas">>}

EmptyFile == [i \in Iface |-> None]

\* rows: the desired rows the plan writes; pins: the interfaces whose revision
\* it is pinned to; run: what its executor gets.  A blocked plan is kept, with
\* an empty render.
NetPlan(kind, cleanup, blocked, rows, written, pinned, targets, dups) ==
    [found |-> TRUE, blocked |-> blocked, leases |-> Of(written),
     pins |-> [i \in pinned |-> desired.rev[i]],
     rows |-> [i \in written |-> rows[i]],
     run |-> [kind |-> kind, cleanup |-> cleanup, hash |-> seen.files,
              render |-> IF blocked THEN EmptyFile ELSE Render(rows),
              cleaned |-> IF cleanup THEN dups ELSE {},
              targets |-> [i \in targets |-> rows[i]]]]

NotFound == [found |-> FALSE]

\* The free tables are counted after this plan took its own.
UpdateBlocked(j, rows) ==
    LET i == j.iface
    IN \/ i \in Dups /\ ~j.cleanup
       \/ j.addrs # None /\ \E k \in Managed \ {i} : rows[k].addrs \cap rows[i].addrs # {}
       \/ TableOf(i) = None /\ FreeAfter(rows) = {}

PoolBlocked(j, rows) ==
    \/ Managed = {}
    \/ Dups \cap Managed # {} /\ ~j.cleanup
    \/ Cardinality({i \in Adopted : TableOf(i) = None}) > Cardinality(FreeAfter(rows))

IfaceUpdatePlan(j) ==
    LET i    == j.iface
        base == Resolved(i)
        rows == [base EXCEPT ![i].addrs = IF j.addrs = None THEN @ ELSE j.addrs,
                             ![i].enabled = IF j.enabled = None THEN @ ELSE j.enabled]
    IN IF i \notin Managed THEN NotFound
       ELSE NetPlan(j.kind, j.cleanup, UpdateBlocked(j, rows),
                    rows, Adopted \cup {i}, {i}, {i}, Dups \cap {i})

\* Addresses in the order of the names from the first one on; tables are kept.
PoolAddr(start, i) == start + Cardinality({k \in Managed : k < i})

PoolApplyPlan(j) ==
    LET base == Resolved(None)
        overflow == \E i \in Managed : PoolAddr(j.start, i) \notin Addr
        rows == [i \in Iface |->
                    IF i \notin Managed THEN None
                    ELSE [base[i] EXCEPT !.addrs = IF overflow THEN @ ELSE {PoolAddr(j.start, i)},
                                         !.enabled = TRUE]]
    IN NetPlan(j.kind, j.cleanup, overflow \/ PoolBlocked(j, base),
               rows, Managed, Managed, Managed, Dups \cap Managed)

PlanOf(j) == IF j.kind = "net.iface.update" THEN IfaceUpdatePlan(j) ELSE PoolApplyPlan(j)

-----------------------------------------------------------------------------
(***************************************************************************)
(* The api: POST plan, POST apply.                                         *)
(***************************************************************************)
Whole == \A i \in Iface : /\ seen.rows[i].mlx /\ seen.files # None
                          /\ seen.rows[i].netplan = StanzaOf(seen.files, i)

MakePlan(t) ==
    LET plan == PlanOf(task[t].job)
    IN /\ task[t].phase = "new"
       /\ task' = [task EXCEPT ![t] =
             IF ~plan.found THEN Ended(t, "refused")
             ELSE [@ EXCEPT !.phase = "planned", !.plan = plan,
                            !.sound = /\ Whole /\ ~plan.blocked
                                      /\ \A u \in Task : task[u].phase \notin Live]]
       /\ UNCHANGED <<host, seen, desired, budget>>

Leases(t) == IF task[t].phase \in Live THEN task[t].plan.leases ELSE {}

\* Mutant: each task leases the interfaces it writes, nobody the file.
LeasesFree_NoFile(t) ==
    \A u \in Task \ {t} : Leases(u) \cap task[t].plan.leases \subseteq {<<"NetworkConfig", "99-xinas">>}

LeasesFree(t) == \A u \in Task \ {t} : Leases(u) \cap task[t].plan.leases = {}

\* Mutant: the plan is taken at its word.
Applicable_Unchecked(t) == \A i \in DOMAIN task[t].plan.pins : desired.rev[i] = task[t].plan.pins[i]

\* The plan made again has no blocker, the observed files have the hash of the
\* plan, and the pinned rows their revisions.
Applicable(t) ==
    LET plan  == task[t].plan
        again == PlanOf(task[t].job)
    IN /\ again.found /\ ~again.blocked
       /\ {plan.run.hash, seen.files} \cap {None} = {} => plan.run.hash = seen.files
       /\ \A i \in DOMAIN plan.pins : desired.rev[i] = plan.pins[i]

Replaced(rows, d) == [i \in Iface |-> IF i \in DOMAIN rows THEN rows[i] ELSE d.rows[i]]

Written(rows, d) ==
    [rows |-> Replaced(rows, d), rev |-> [i \in Iface |-> IF i \in DOMAIN rows THEN d.rev[i] + 1 ELSE d.rev[i]]]

\* One transaction, then the dispatch.  A conflict over a lease can be tried again.
Apply(t) ==
    LET rows == task[t].plan.rows
    IN /\ task[t].phase = "planned"
       /\ LeasesFree(t)
       /\ IF Applicable(t)
          THEN /\ desired' = Written(rows, desired)
               /\ task' = [task EXCEPT ![t].phase = "running", ![t].base = Files(host),
                                       ![t].sound = @ /\ Whole,
                                       ![t].prior = [i \in DOMAIN rows |-> desired.rows[i]]]
          ELSE /\ task' = [task EXCEPT ![t] = Ended(t, "refused")]
               /\ UNCHANGED desired
       /\ UNCHANGED <<host, seen, budget>>

-----------------------------------------------------------------------------
(***************************************************************************)
(* The agent's run.                                                        *)
(***************************************************************************)
\* Every end but success puts the prior rows back, under a new revision, and
\* deletes the ones that were not there.
Reverted(prior, d) ==
    [rows |-> Replaced(prior, d),
     rev |-> [i \in Iface |-> IF i \notin DOMAIN prior THEN d.rev[i]
                              ELSE IF prior[i] = None THEN 0 ELSE d.rev[i] + 1]]

End(t, final) ==
    /\ task' = [task EXCEPT ![t] = Ended(t, final)]
    /\ desired' = IF final = "success" THEN desired ELSE Reverted(task[t].prior, desired)

BetweenStages(t) == task[t].phase = "running" /\ task[t].calls = <<>>
StagesLeft(t)    == task[t].stage <= Len(NetStages)

RequestCancel(t) ==
    /\ task[t].phase = "running" /\ ~task[t].cancelled
    /\ Some("faults")
    /\ task' = [task EXCEPT ![t].cancelled = TRUE]
    /\ UNCHANGED <<host, seen, desired>>

CancelRun(t) ==
    /\ BetweenStages(t) /\ StagesLeft(t) /\ task[t].cancelled
    /\ task' = [task EXCEPT ![t].phase = "failing"]
    /\ UNCHANGED <<host, seen, desired, budget>>

StartStage(t) ==
    LET k == task[t]
        r == NetRunStage(k.plan.run, NetStages[k.stage], host, k.stash)
    IN /\ BetweenStages(t) /\ StagesLeft(t) /\ ~k.cancelled
       /\ task' = [task EXCEPT ![t] =
             IF r.pass THEN [k EXCEPT !.stage = @ + 1, !.calls = r.calls, !.stash = r.stash]
                       ELSE [k EXCEPT !.phase = "failing"]]
       /\ UNCHANGED <<host, seen, desired, budget>>

\* A call fails without having done anything, or after it did it.
Work(t) ==
    LET k == task[t]
        r == NetPerform(host, Head(k.calls))
    IN /\ k.calls # <<>>
       /\ \/ /\ host' = r.host
             /\ task' = [task EXCEPT ![t].calls = Tail(@)]
             /\ UNCHANGED <<desired, budget>>
          \/ /\ Some("faults")
             /\ host' \in {host, r.host}
             /\ IF k.phase = "running"
                THEN task' = [task EXCEPT ![t].phase = "failing", ![t].calls = <<>>] /\ UNCHANGED desired
                ELSE End(t, "manual")
       /\ UNCHANGED seen

StartRollback(t) ==
    /\ task[t].phase = "failing"
    /\ task' = [task EXCEPT ![t].phase = "rollback",
                            ![t].calls = NetRollback(task[t].plan.run, task[t].stash).calls]
    /\ UNCHANGED <<host, seen, desired, budget>>

EndRollback(t) ==
    /\ task[t].phase = "rollback" /\ task[t].calls = <<>>
    /\ End(t, IF task[t].cancelled THEN "cancelled" ELSE "failed")
    /\ UNCHANGED <<host, seen, budget>>

\* Network kinds are not observed again when they end; without the snapshot
\* after the last stage the run ends in manual recovery.
EndRun(t) ==
    /\ BetweenStages(t) /\ ~StagesLeft(t)
    /\ \/ End(t, "success") /\ UNCHANGED budget
       \/ End(t, "manual") /\ Some("faults")
    /\ UNCHANGED <<host, seen>>

TaskStep(t) ==
    \/ MakePlan(t) \/ Apply(t) \/ RequestCancel(t) \/ CancelRun(t) \/ StartStage(t)
    \/ Work(t) \/ StartRollback(t) \/ EndRollback(t) \/ EndRun(t)

Next ==
    \/ \E t \in Task : TaskStep(t)
    \/ Sweep \/ SweepBlind \/ NetlinkEvent \/ OperatorEdit

Spec == Init /\ [][Next]_vars

-----------------------------------------------------------------------------
(***************************************************************************)
(* Properties.                                                             *)
(***************************************************************************)
Becomes(t, finals) == task[t].phase \in Live /\ task'[t].phase \in finals
Targets(t)         == task[t].plan.run.targets

\* A task that succeeds leaves 99-xinas.yaml the render of every desired row, its
\* own and the ones other tasks wrote meanwhile, if its plan was not blocked, was
\* made while no other network task was running, and both were done from a whole
\* observation.
FileIsIntent ==
    [][\A t \in Task : Becomes(t, {"success"}) /\ task[t].sound
          => host'.xinas = Render(desired'.rows)]_vars

\* The claim that a blocked plan is never applied: its render is empty.
BlockedNeverApplied == \A t \in Task : task[t].phase \in Live => ~task[t].plan.blocked

\* No two interfaces get the same address or the same table.
Distinct ==
    (\A t \in Task : task[t].sound) =>
        \A i, k \in Iface : i # k /\ desired.rows[i] # None /\ desired.rows[k] # None
            => /\ desired.rows[i].addrs \cap desired.rows[k].addrs = {}
               /\ desired.rows[i].table # desired.rows[k].table

\* A table of the range that no netplan file gives to another interface.
OwnTable(h, i, table) ==
    table # 0 /\ \A k \in Iface \ {i} : \A s \in Merged(Files(h), k) : s.table # table

\* What the kernel has of an interface with carrier, and of its table.
Exactly(h, i, addrs, table) ==
    i \in h.linked =>
        /\ h.addrs[i] = addrs
        /\ OwnTable(h, i, table) => {r \in h.rules : r[2] = table} = addrs \X {table}

\* Success leaves the kernel with the addresses and source rules of the targets
\* and no others: what the file no longer has is flushed, although applying only
\* adds.  An interface a foreign file alone defines is excepted, see Duplicates,
\* and so are the rules of table 0, which a pool does not flush.
KernelIsIntent ==
    [][\A t \in Task : Becomes(t, {"success"}) => \A i \in DOMAIN Targets(t) :
          task[t].base.foreign[i] = None \/ InXinas(task[t].base, i)
          => LET row == Targets(t)[i]
             IN Exactly(host', i, IF row.enabled THEN row.addrs ELSE {}, row.table)]_vars

\* A task that failed or was cancelled leaves the files it found, and the kernel
\* with what those files configure for its targets.  A 99-xinas.yaml that did not
\* exist stays: see NetRollback.
FilesRestored ==
    [][\A t \in Task : Becomes(t, {"failed", "cancelled"}) /\ task[t].base.xinas # None
          => /\ Files(host') = task[t].base
             /\ task[t].stash.before # None => \A i \in DOMAIN Targets(t) :
                   i \in host.linked => host'.addrs[i] = Configured(task[t].base, i)]_vars

\* A task takes nothing out of a foreign file but the stanzas its plan named, as
\* the author of the plan saw them; a rollback may put them back.
ForeignKept ==
    [][\A t \in Task, i \in Iface :
          host.foreign[i] # host'.foreign[i] /\ task[t].calls # <<>> /\ task'[t].calls # task[t].calls
          => /\ i \in task[t].plan.run.cleaned
             /\ task[t].plan.run.hash.foreign[i] \in {host.foreign[i], host'.foreign[i]}]_vars
=============================================================================
