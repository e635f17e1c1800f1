---------------------------- MODULE StorageControl ----------------------------
(***************************************************************************)
(* Storage tasks end to end: plan, apply, the agent's run of the stages    *)
(* with their rollback, the reobservation and the end of the task, several *)
(* tasks at a time on one host.  The envelope around a run (queue, events, *)
(* crashes) is TaskEngine's; here a run is the calls it makes on the host. *)
(* Faults: a call fails before or after its effect, the host cannot be     *)
(* read, a snapshot fails, a run is cancelled, a reobservation is lost.    *)
(***************************************************************************)
EXTENDS StoragePlans

CONSTANTS Task,       \* the tasks
          Cases,      \* where the system may start and what the tasks ask for:
                      \* [host, desired, job] records, job a function on Task
          MaxFaults,  \* how many faults happen
          MaxPolls    \* how many sweeps of the collectors happen between them

VARIABLES host,     \* the storage host
          seen,     \* the observed state
          desired,  \* the desired shares and NFS profile
          task,     \* each task's job, plan and run
          exposed,  \* for the properties only: the arrays a task was let on without
                    \* their lease, or imports although they are there
          faults,   \* faults left
          polls     \* sweeps left

vars == <<host, seen, desired, task, exposed, faults, polls>>

\* Every desired share has a path of its own, and they are what is exported: so an
\* installation starts, whose first shares are seeded from what its installer exported.
Agree(shares, exports) ==
    /\ \A i, k \in ShareId : i # k /\ shares[i] # None /\ shares[k] # None => shares[i].path # shares[k].path
    /\ \A i \in ShareId : shares[i] # None => exports[shares[i].path] = shares[i].rule
    /\ \A p \in Path : exports[p] # None => \E i \in ShareId : shares[i] # None /\ shares[i].path = p

ASSUME BoundsAssumption == MaxFaults \in Nat /\ MaxPolls \in Nat
ASSUME CasesAssumption ==
    \A c \in Cases :
        /\ c.host \in Host /\ c.desired \in Wanted /\ c.job \in [Task -> Job]
        /\ \A p \in Path : Mounted(c.host, p) => Shown(c.host, c.host.mounts[p].what)
        /\ \A i \in ShareId : c.desired.rev[i] = 0 <=> c.desired.shares[i] = None
        /\ Agree(c.desired.shares, c.host.exports)

Phase == {"new", "refused", "planned", "running", "failing", "rollback",
          "success", "failed", "cancelled", "manual"}
Ended == {"refused", "success", "failed", "cancelled", "manual"}
Live  == {"running", "failing", "rollback"}

\* was: the desired state a plan was made from, then the one apply replaced;
\* base, for the properties only: what of the host the run began with.
NewTask(j) == [job |-> j, phase |-> "new", plan |-> None, was |-> None, base |-> None,
               stage |-> 1, calls |-> <<>>, stash |-> EmptyStash, cancelled |-> FALSE]

EndedTask(j, final) == [NewTask(j) EXCEPT !.phase = final]

\* What of a host a job is there to change.
Slice(j, h) ==
    CASE j.kind \in {"xiraid.array.create", "xiraid.array.modify"} ->
            [array |-> h.arrays[j.array], pool |-> h.pools[j.array]]
      [] j.kind \in {"xiraid.array.import", "xiraid.array.delete"} -> h.arrays[j.array]
      [] j.kind \in {"pool.create", "pool.modify", "pool.delete"} -> h.pools[j.pool]
      [] j.kind \in {"fs.create", "fs.mount", "fs.unmount", "fs.grow", "fs.set_quota_mode"} ->
            [unit |-> h.units[j.path], mount |-> h.mounts[j.path]]
      [] j.kind = "fs.unmanage" -> h.units[j.path]
      [] j.kind \in {"share.create", "share.update", "share.delete"} -> h.exports[j.path]
      [] j.kind = "nfs-idmap.set" -> h.domain
      [] j.kind = "nfs-profile.update" -> h.profile

TypeOK ==
    /\ host \in Host /\ desired \in Wanted /\ exposed \subseteq Array
    /\ \A t \in Task :
          /\ task[t].job \in Job
          /\ task[t].phase \in Phase
          /\ task[t].stage \in 1 .. Len(Stages(task[t].job.kind)) + 1
          /\ task[t].calls # <<>> => task[t].phase \in {"running", "rollback"}
          /\ task[t].phase \in Live \cup {"planned"} => task[t].was \in Wanted
    /\ faults \in 0 .. MaxFaults /\ polls \in 0 .. MaxPolls

Init ==
    \E c \in Cases :
        /\ host = c.host /\ desired = c.desired
        /\ seen = Look(c.host)
        /\ task = [t \in Task |-> NewTask(c.job[t])]
        /\ exposed = {}
        /\ faults = MaxFaults /\ polls = MaxPolls

Fault == faults > 0 /\ faults' = faults - 1

Leased(t) == IF task[t].phase \in Live THEN task[t].plan.leases ELSE {}

\* Mutant: only a task of the same kind is in the way.
LeasesFree_SameKind(t) ==
    \A u \in Task \ {t} :
        task[u].job.kind = task[t].job.kind => Leased(u) \cap task[t].plan.leases = {}

LeasesFree(t) == \A u \in Task \ {t} : Leased(u) \cap task[t].plan.leases = {}

-----------------------------------------------------------------------------
(***************************************************************************)
(* Observation.  Each kind has a collector and is swept on its own.        *)
(***************************************************************************)
ObserveKind(now, kind) ==
    CASE kind = "XiraidArray" -> [seen EXCEPT !.arrays = now.arrays]
      [] kind = "Pool"        -> [seen EXCEPT !.pools = now.pools]
      [] kind = "Filesystem"  -> [seen EXCEPT !.fss = now.fss]
      [] kind = "ExportRule"  -> [seen EXCEPT !.exports = now.exports, !.busy = now.busy]
      [] kind = "nfs_idmap"   -> [seen EXCEPT !.domain = now.domain]

Observe(kind) ==
    /\ polls > 0
    /\ seen' = ObserveKind(Look(host), kind)
    /\ seen' # seen
    /\ polls' = polls - 1
    /\ UNCHANGED <<host, desired, task, exposed, faults>>

\* The kind a successful run sweeps before its terminal event.
Reobserved(kind) ==
    CASE kind \in {"xiraid.array.create", "xiraid.array.modify", "xiraid.array.import",
                   "xiraid.array.delete"} -> {"XiraidArray"}
      [] kind \in {"pool.create", "pool.modify", "pool.delete"} -> {"Pool"}
      [] kind \in {"fs.create", "fs.mount", "fs.unmount", "fs.grow", "fs.set_quota_mode",
                   "fs.unmanage"} -> {"Filesystem"}
      [] kind \in {"share.create", "share.update", "share.delete"} -> {"ExportRule"}
      [] OTHER -> {}

-----------------------------------------------------------------------------
(***************************************************************************)
(* The api: POST plan, POST apply.                                         *)
(***************************************************************************)
MakePlan(t) ==
    LET j    == Enriched(task[t].job, seen, desired)
        plan == PlanOf(j, seen, desired)
    IN /\ task[t].phase = "new"
       /\ task' = [task EXCEPT ![t] =
             IF plan.found THEN [@ EXCEPT !.job = j, !.phase = "planned", !.plan = plan, !.was = desired]
                           ELSE EndedTask(j, "refused")]
       /\ UNCHANGED <<host, seen, desired, exposed, faults, polls>>

\* The arrays whose filesystem or mount the calls of a job are about.
Reached(j, h) ==
    CASE j.kind = "fs.create" -> Devices(j.unit)
      [] j.kind \in {"fs.mount", "fs.unmount", "fs.set_quota_mode"} ->
            IF HasUnit(h, j.path) THEN {h.units[j.path].what} ELSE {}
      [] OTHER -> {}

\* Those it goes on to without a lease; and an array an import was to bring, which is
\* there all the same: its rollback would take that one away.
Exposes(j, leases, h) ==
    {a \in Reached(j, h) : <<"XiraidArray", a>> \notin leases}
    \cup {a \in Array : j.kind = "xiraid.array.import" /\ j.array = a /\ Shown(h, a)}

\* One transaction, then the dispatch.  A conflict over a lease can be tried again.
Apply(t) ==
    LET k == task[t]
    IN /\ k.phase = "planned"
       /\ LeasesFree(t)
       /\ IF Applicable(k.job, k.plan, seen, desired) /\ DesiredFresh(k.job, k.was, desired)
          THEN /\ desired' = Intended(k.job, desired)
               /\ task' = [task EXCEPT ![t].phase = "running", ![t].was = desired,
                                       ![t].base = Slice(k.job, host)]
               /\ exposed' = exposed \cup Exposes(k.job, k.plan.leases, host)
          ELSE /\ task' = [task EXCEPT ![t] = EndedTask(k.job, "refused")]
               /\ UNCHANGED <<desired, exposed>>
       /\ UNCHANGED <<host, seen, faults, polls>>

-----------------------------------------------------------------------------
(***************************************************************************)
(* The agent's run.                                                        *)
(***************************************************************************)
End(t, final) ==
    /\ task' = [task EXCEPT ![t] = EndedTask(@.job, final)]
    /\ desired' = IF final = "success" THEN desired
                  ELSE Reverted(task[t].job, task[t].was, desired)

BetweenStages(t) == task[t].phase = "running" /\ task[t].calls = <<>>
StagesLeft(t)    == task[t].stage <= Len(Stages(task[t].job.kind))

RequestCancel(t) ==
    /\ task[t].phase = "running" /\ ~task[t].cancelled
    /\ Fault
    /\ task' = [task EXCEPT ![t].cancelled = TRUE]
    /\ UNCHANGED <<host, seen, desired, exposed, polls>>

\* The checkpoint between stages; there is none after the last one.
CancelRun(t) ==
    /\ BetweenStages(t) /\ StagesLeft(t) /\ task[t].cancelled
    /\ task' = [task EXCEPT ![t].phase = "failing"]
    /\ UNCHANGED <<host, seen, desired, exposed, faults, polls>>

Take(t, r, pass, fail) ==
    task' = [task EXCEPT ![t] =
        IF r.pass THEN [pass EXCEPT !.calls = r.calls, !.stash = r.stash] ELSE fail]

StartStage(t) ==
    LET k     == task[t]
        stage == Stages(k.job.kind)[k.stage]
        next  == [k EXCEPT !.stage = @ + 1]
        fail  == [k EXCEPT !.phase = "failing"]
    IN /\ BetweenStages(t) /\ StagesLeft(t) /\ ~k.cancelled
       /\ \/ /\ Take(t, RunStage(k.job, stage, host, k.stash), next, fail)
             /\ UNCHANGED faults
          \/ /\ Take(t, Unreadable(k.job, stage, k.stash), next, fail)
             /\ Fault
       /\ UNCHANGED <<host, seen, desired, exposed, polls>>

\* What the next call leaves on the host, and whether it reports success; with
\* a fault it fails without having done anything, or after it did it.
Outcomes(c) ==
    {[result |-> Perform(host, c), fault |-> FALSE]}
    \cup (IF faults = 0 THEN {}
          ELSE {[result |-> Refused(host), fault |-> TRUE],
                [result |-> Refused(Perform(host, c).host), fault |-> TRUE]})

Work(t) ==
    LET k == task[t]
        c == Head(k.calls)
    IN /\ k.calls # <<>>
       /\ \E o \in Outcomes(c) :
             /\ host' = o.result.host
             /\ faults' = IF o.fault THEN faults - 1 ELSE faults
             /\ IF o.result.ok \/ c.onError = "next"
                THEN task' = [task EXCEPT ![t].calls = Tail(@)] /\ UNCHANGED desired
                ELSE IF c.onError = "end"
                THEN task' = [task EXCEPT ![t].calls = <<>>] /\ UNCHANGED desired
                ELSE IF k.phase = "running"
                THEN task' = [task EXCEPT ![t].phase = "failing", ![t].calls = <<>>] /\ UNCHANGED desired
                ELSE End(t, "manual")
       /\ UNCHANGED <<seen, exposed, polls>>

\* A rollback that throws, or cannot read what it has to undo, needs an operator.
StartRollback(t) ==
    LET k == task[t]
        r == Rollback(k.job, host, k.stash)
    IN /\ k.phase = "failing"
       /\ \/ /\ UNCHANGED faults
             /\ IF r.pass THEN /\ task' = [task EXCEPT ![t].phase = "rollback", ![t].calls = r.calls]
                                /\ UNCHANGED desired
                          ELSE End(t, "manual")
          \/ /\ Fault
             /\ RollbackReads(k.job, k.stash)
             /\ End(t, "manual")
       /\ UNCHANGED <<host, seen, exposed, polls>>

EndRollback(t) ==
    /\ task[t].phase = "rollback" /\ task[t].calls = <<>>
    /\ End(t, IF task[t].cancelled THEN "cancelled" ELSE "failed")
    /\ UNCHANGED <<host, seen, exposed, faults, polls>>

\* The snapshot after the last stage, the reobservation, which may be lost, and
\* the terminal event; without the snapshot the run ends as it is.
EndRun(t) ==
    /\ BetweenStages(t) /\ ~StagesLeft(t)
    /\ \/ /\ End(t, "success")
          /\ LET now == Look(host)
                 kinds == Reobserved(task[t].job.kind)
             IN seen' = IF kinds = {} THEN seen ELSE ObserveKind(now, CHOOSE kind \in kinds : TRUE)
          /\ UNCHANGED faults
       \/ End(t, "success") /\ Fault /\ UNCHANGED seen
       \/ End(t, "manual") /\ Fault /\ UNCHANGED seen
    /\ UNCHANGED <<host, exposed, polls>>

TaskStep(t) ==
    \/ MakePlan(t) \/ Apply(t)
    \/ RequestCancel(t) \/ CancelRun(t) \/ StartStage(t) \/ Work(t)
    \/ StartRollback(t) \/ EndRollback(t) \/ EndRun(t)

Next ==
    \/ \E t \in Task : TaskStep(t)
    \/ \E kind \in {"XiraidArray", "Pool", "Filesystem", "ExportRule", "nfs_idmap"} : Observe(kind)

Spec == Init /\ [][Next]_vars

-----------------------------------------------------------------------------
(***************************************************************************)
(* Properties.                                                             *)
(***************************************************************************)
\* A filesystem on an array is destroyed by a delete of that array or a forced
\* creation on it, and by no other task, rollback or interleaving of tasks, as long
\* as no task was let on to the array without its lease.  An external log is not
\* covered: see LogKept.
Destroys(j, a) ==
    \/ j.kind = "xiraid.array.delete" /\ j.array = a
    \/ j.kind = "fs.create" /\ j.force /\ j.unit.what = a

MakesLogOn(j, a) == j.kind = "fs.create" /\ j.unit.log = a

Worked(t) == task[t].calls # <<>> /\ task'[t].calls # task[t].calls

DataKept ==
    [][\A a \in Array :
          Shown(host, a) /\ host.data[a] # None /\ host'.data[a] # host.data[a] /\ a \notin exposed
              => \E t \in Task : Worked(t) /\ (Destroys(task[t].job, a) \/ MakesLogOn(task[t].job, a))]_vars

\* The claim that forcing is the only way to overwrite a volume.
LogKept ==
    [][\A a \in Array :
          Shown(host, a) /\ host.data[a] # None /\ host'.data[a] # host.data[a]
              => \E t \in Task : Worked(t) /\ Destroys(task[t].job, a)]_vars

\* No array is destroyed under a mounted filesystem that has its data on it, as long
\* as no task was let on to the array without its lease.
MountedOnArray ==
    \A p \in Path : Mounted(host, p) /\ host.mounts[p].what \notin exposed
                       => Shown(host, host.mounts[p].what)

\* An array that names a spare pool has one, whatever two tasks on arrays and on
\* pools do at the same time where every named pool is active; a rollback of a
\* modification names the pool again before it makes it again, and that of a creation
\* of the pool takes away the one that was there.  An inactive pool is not safe:
\* a modification or its rollback may name it while its deletion, which saw it unnamed,
\* is under way.
SparePoolExists ==
    \A a \in Array :
        \/ ~Shown(host, a) \/ host.arrays[a].spare = None \/ HasPool(host, host.arrays[a].spare)
        \/ \E t \in Task : /\ task[t].job.kind = "xiraid.array.modify" /\ task[t].job.array = a
                          /\ task[t].phase \in Live \cup {"manual"}
        \/ \E t \in Task : task[t].job.kind = "pool.create" /\ task[t].job.pool = host.arrays[a].spare

\* A task reported failed or cancelled has given its part of the host back as
\* its run found it, in the operations whose rollback promises it.
Restoring == {"xiraid.array.modify", "xiraid.array.delete", "share.create", "share.update",
              "share.delete", "fs.unmanage", "nfs-profile.update"}

Gone(t, kinds) ==
    /\ task[t].job.kind \in kinds
    /\ task[t].phase \in Live /\ task'[t].phase \in {"failed", "cancelled"}

\* A pool operation on the spare pool of an array takes no lease on the array.
OnItsPool(t, u) ==
    /\ task[t].job.kind \in {"xiraid.array.create", "xiraid.array.modify", "xiraid.array.delete"}
    /\ task[u].job.kind \in {"pool.create", "pool.modify", "pool.delete"}
    /\ task[u].job.pool = task[t].job.array
\* Nor do two shares of one path share a lease.
OnItsPath(t, u) ==
    LET kinds == {"share.create", "share.update", "share.delete"}
    IN /\ task[t].job.kind \in kinds /\ task[u].job.kind \in kinds
       /\ task[t].job.path = task[u].job.path /\ task[t].job.id # task[u].job.id
\* Nor does the next task wait for the operator a manual recovery needs.
Apart(t) ==
    /\ exposed = {}
    /\ \A u \in Task : /\ ~OnItsPool(t, u) /\ ~OnItsPool(u, t) /\ ~OnItsPath(t, u)
                        /\ task[u].phase # "manual"

RolledBack ==
    [][\A t \in Task : Gone(t, Restoring) /\ Apart(t) => Slice(task[t].job, host') = task[t].base]_vars

\* What a successful task of each kind leaves.
Post(j, h) ==
    CASE j.kind = "xiraid.array.create" ->
            Shown(h, j.array) /\ (j.spares # {} => HasPool(h, j.array) /\ h.pools[j.array].active)
      [] j.kind = "xiraid.array.modify" ->
            Shown(h, j.array) /\ (j.spares \notin {None, {}} =>
                HasPool(h, j.array) /\ h.pools[j.array] = [drives |-> j.spares, active |-> TRUE])
      [] j.kind = "xiraid.array.import" -> Shown(h, j.array)
      [] j.kind = "xiraid.array.delete" -> ~Shown(h, j.array)
      [] j.kind = "pool.delete"         -> ~HasPool(h, j.pool)
      [] j.kind = "fs.create"           -> Mounted(h, j.path) /\ h.mounts[j.path] = j.unit /\ h.data[j.unit.what] = j.path
      [] j.kind = "fs.mount"            -> Mounted(h, j.path) /\ j.path \in h.enabled
      [] j.kind = "fs.unmount"          -> ~Mounted(h, j.path) /\ j.path \notin h.enabled
      [] j.kind = "fs.set_quota_mode"   ->
            h.units[j.path].quota = j.quota /\ (Mounted(h, j.path) => h.mounts[j.path].quota = j.quota)
      [] j.kind = "fs.unmanage"         -> ~HasUnit(h, j.path) /\ ~Mounted(h, j.path)
      [] j.kind \in {"share.create", "share.update"} -> h.exports[j.path] = j.rule
      [] j.kind = "share.delete"        -> ~Exported(h, j.path)
      [] j.kind = "nfs-idmap.set"       -> h.domain = j.domain
      [] j.kind = "nfs-profile.update"  -> h.profile = j.profile
      [] OTHER -> TRUE

SuccessMeansDone ==
    [][\A t \in Task : task[t].phase \in Live /\ task'[t].phase = "success" /\ Apart(t)
                         => Post(task[t].job, host')]_vars

\* When nothing runs and no operator is needed, what is exported is what the
\* desired shares say, unless two shares were for the same path, or a share was
\* deleted and made again on another path: its revisions start again at one, and a
\* plan made before counts as fresh.
OnTwoPaths(t, u) ==
    LET kinds == {"share.create", "share.update", "share.delete"}
    IN /\ task[t].job.kind \in kinds /\ task[u].job.kind \in kinds
       /\ task[t].job.id = task[u].job.id /\ task[t].job.path # task[u].job.path

Quiet == \A t \in Task : /\ task[t].phase \notin Live \cup {"manual"}
                        /\ \A u \in Task : ~OnItsPath(t, u) /\ ~OnTwoPaths(t, u)

SharesExported == Quiet => Agree(desired.shares, host.exports)
=============================================================================
