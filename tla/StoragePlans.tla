----------------------------- MODULE StoragePlans -----------------------------
(***************************************************************************)
(* The plan providers of the storage operations and the api's rules for    *)
(* applying a plan.  A plan is made from the observed state, which lags    *)
(* the host, and from the desired shares:                                  *)
(*   found    the resource it changes is known (otherwise 404)             *)
(*   blocked  it has a blocker other than dangerous_flag_required          *)
(*   leases   the resources a task of the plan holds until it ends         *)
(*   row      the observed row whose revision it is pinned to              *)
(* An observed row stands for its revision: an unchanged value is not      *)
(* written again.  Desired rows carry theirs in rev, 0 for none.           *)
(***************************************************************************)
EXTENDS StorageExecutors, Naturals

ASSUME ProfileApart == "profile" \notin ShareId

ShareRow == [path : Path, rule : Rule]

ASSUME NoneIsNoShare == None \notin ShareId /\ None \notin ShareRow \cup Rule

\* The desired shares and NFS profile.
Wanted == [shares : [ShareId -> ShareRow \cup {None}], profile : Profile,
           rev : [ShareId \cup {"profile"} -> Nat]]

\* What the collectors report of a host.  A filesystem row exists while the
\* unit file does; an array's spares are the drives of the pool it names.
Look(h) ==
    [arrays |-> [a \in Array |->
        IF ~Shown(h, a) THEN None
        ELSE LET n == h.arrays[a].spare
             IN [disks |-> h.arrays[a].disks, spare |-> n,
                 spares |-> IF n # None /\ h.pools[n] # None THEN h.pools[n].drives ELSE {}]],
     pools |-> h.pools,
     fss |-> [p \in Path |->
        IF HasUnit(h, p) THEN [what |-> h.units[p].what, quota |-> h.units[p].quota,
                               mounted |-> Mounted(h, p)]
                         ELSE None],
     exports |-> h.exports, domain |-> h.domain, busy |-> h.busy]

Plan(found, blocked, leases, row) ==
    [found |-> found, blocked |-> blocked, leases |-> leases, row |-> row]

Of(kind, ids) == {<<kind, i>> : i \in ids}

-----------------------------------------------------------------------------
(***************************************************************************)
(* Arrays.                                                                 *)
(***************************************************************************)
Claimed(seen) == UNION {seen.arrays[a].disks \cup seen.arrays[a].spares :
                            a \in {b \in Array : seen.arrays[b] # None}}

ArrayCreatePlan(j, seen, desired) ==
    LET disks == j.disks \cup j.spares
    IN Plan(TRUE,
            seen.arrays[j.array] # None \/ disks \cap Claimed(seen) # {} \/ j.disks \cap j.spares # {},
            Of("XiraidArray", {j.array}) \cup Of("Disk", disks), None)

ArrayModifyPlan(j, seen, desired) ==
    LET row     == seen.arrays[j.array]
        current == IF row = None THEN {} ELSE row.spares
        target  == IF j.spares = None THEN {} ELSE j.spares
        touched == IF j.spares = None THEN {} ELSE target \cup current
    IN Plan(row # None, target \cap (Claimed(seen) \ current) # {},
            Of("XiraidArray", {j.array}) \cup Of("Disk", touched), row)

ArrayImportPlan(j, seen, desired) ==
    Plan(TRUE, seen.arrays[j.array] # None, Of("XiraidArray", {j.array}), None)

\* Dependents are found by their data device alone.
ArrayDeletePlan(j, seen, desired) ==
    LET fs     == {p \in Path : seen.fss[p] # None /\ seen.fss[p].what = j.array}
        shares == {i \in DOMAIN desired.shares :
                      desired.shares[i] # None /\ desired.shares[i].path \in fs}
        active == {i \in shares : desired.shares[i].path \in seen.busy}
    IN Plan(seen.arrays[j.array] # None,
            (\E p \in fs : seen.fss[p].mounted) \/ active # {},
            Of("XiraidArray", {j.array}) \cup Of("Filesystem", fs) \cup Of("Share", shares),
            seen.arrays[j.array])

-----------------------------------------------------------------------------
(***************************************************************************)
(* Pools: only the pool's name is leased; the daemon checks the drives.    *)
(***************************************************************************)
PoolPlan(j, seen, blocked) == Plan(TRUE, blocked, Of("Pool", {j.pool}), seen.pools[j.pool])

PoolCreatePlan(j, seen, desired) == PoolPlan(j, seen, seen.pools[j.pool] # None)
PoolModifyPlan(j, seen, desired) == PoolPlan(j, seen, seen.pools[j.pool] = None)

PoolDeletePlan(j, seen, desired) ==
    LET referenced == \E a \in Array : seen.arrays[a] # None /\ seen.arrays[a].spare = j.pool
    IN PoolPlan(j, seen, seen.pools[j.pool] = None \/ seen.pools[j.pool].active \/ referenced)

-----------------------------------------------------------------------------
(***************************************************************************)
(* Filesystems.  A creation leases its data and its log array; everything  *)
(* after it leases the data array only, and only when it is observed.      *)
(***************************************************************************)
ObservedArrays(seen, names) == {a \in names \ {None} : seen.arrays[a] # None}

FsCreatePlan(j, seen, desired) ==
    LET u == j.unit
    IN Plan(TRUE,
            \/ seen.fss[j.path] # None
            \/ ObservedArrays(seen, Devices(u)) # Devices(u)
            \/ \E p \in Path : seen.fss[p] # None /\ seen.fss[p].what = u.what,
            Of("Filesystem", {j.path}) \cup Of("XiraidArray", ObservedArrays(seen, Devices(u))), None)

FsPlan(j, seen, blocked) ==
    LET row == seen.fss[j.path]
    IN IF row = None THEN Plan(FALSE, FALSE, {}, None)
       ELSE Plan(TRUE, blocked,
                 Of("Filesystem", {j.path}) \cup Of("XiraidArray", ObservedArrays(seen, {row.what})), row)

FsMountPlan(j, seen, desired)        == FsPlan(j, seen, FALSE)
FsUnmountPlan(j, seen, desired)      ==
    FsPlan(j, seen, j.path \in seen.busy \/ seen.exports[j.path] # None)
FsGrowPlan(j, seen, desired)         == FsPlan(j, seen, ~seen.fss[j.path].mounted)
FsSetQuotaModePlan(j, seen, desired) == FsPlan(j, seen, FALSE)
FsUnmanagePlan(j, seen, desired)     == FsPlan(j, seen, seen.fss[j.path].mounted)

-----------------------------------------------------------------------------
(***************************************************************************)
(* NFS: the share is leased by its id; nothing leases its path.            *)
(***************************************************************************)
ShareCreatePlan(j, seen, desired) ==
    Plan(TRUE, seen.exports[j.path] # None, Of("Share", {j.id}), seen.exports[j.path])

ShareChangePlan(j, seen, desired) ==
    Plan(desired.shares[j.id] # None /\ desired.shares[j.id].path = j.path, FALSE,
         Of("Share", {j.id}), seen.exports[j.path])

NfsIdmapSetPlan(j, seen, desired) ==
    Plan(j.domain # "local", FALSE, Of("NfsIdmap", {"snapshot"}), seen.domain)

NfsProfileUpdatePlan(j, seen, desired) ==
    Plan(TRUE, FALSE, Of("NfsProfile", {"default"}), None)

-----------------------------------------------------------------------------
PlanOf(j, seen, desired) ==
    CASE j.kind = "xiraid.array.create" -> ArrayCreatePlan(j, seen, desired)
      [] j.kind = "xiraid.array.modify" -> ArrayModifyPlan(j, seen, desired)
      [] j.kind = "xiraid.array.import" -> ArrayImportPlan(j, seen, desired)
      [] j.kind = "xiraid.array.delete" -> ArrayDeletePlan(j, seen, desired)
      [] j.kind = "pool.create"         -> PoolCreatePlan(j, seen, desired)
      [] j.kind = "pool.modify"         -> PoolModifyPlan(j, seen, desired)
      [] j.kind = "pool.delete"         -> PoolDeletePlan(j, seen, desired)
      [] j.kind = "fs.create"           -> FsCreatePlan(j, seen, desired)
      [] j.kind = "fs.mount"            -> FsMountPlan(j, seen, desired)
      [] j.kind = "fs.unmount"          -> FsUnmountPlan(j, seen, desired)
      [] j.kind = "fs.grow"             -> FsGrowPlan(j, seen, desired)
      [] j.kind = "fs.set_quota_mode"   -> FsSetQuotaModePlan(j, seen, desired)
      [] j.kind = "fs.unmanage"         -> FsUnmanagePlan(j, seen, desired)
      [] j.kind = "share.create"        -> ShareCreatePlan(j, seen, desired)
      [] j.kind \in {"share.update", "share.delete"} -> ShareChangePlan(j, seen, desired)
      [] j.kind = "nfs-idmap.set"       -> NfsIdmapSetPlan(j, seen, desired)
      [] j.kind = "nfs-profile.update"  -> NfsProfileUpdatePlan(j, seen, desired)

\* What the plan adds to the job: the profile to go back to; whether the mkfs
\* inputs are known, from the operator or from the array's observed geometry.
Enriched(j, seen, desired) ==
    CASE j.kind = "nfs-profile.update" -> [j EXCEPT !.prior = desired.profile]
      [] j.kind = "fs.create" -> [j EXCEPT !.resolved = j.sized \/ seen.arrays[j.unit.what] # None]
      [] OTHER -> j

\* The desired row a plan is pinned to and its apply writes, if any.
DesiredRow(j) ==
    CASE j.kind \in {"share.create", "share.update", "share.delete"} -> j.id
      [] j.kind = "nfs-profile.update" -> "profile"
      [] OTHER -> None

\* A row written again gets the next revision; one deleted starts again at one.
Revised(j, desired) ==
    [desired EXCEPT !.rev = [r \in DOMAIN @ |-> IF r = DesiredRow(j) THEN @[r] + 1 ELSE @[r]]]

\* What applying the plan writes to the desired state.
Intended(j, desired) ==
    CASE j.kind \in {"share.create", "share.update"} ->
            [Revised(j, desired) EXCEPT !.shares[j.id] = [path |-> j.path, rule |-> j.rule]]
      [] j.kind = "share.delete" -> [desired EXCEPT !.shares[j.id] = None, !.rev[j.id] = 0]
      [] j.kind = "nfs-profile.update" -> [Revised(j, desired) EXCEPT !.profile = j.profile]
      [] OTHER -> desired

\* Mutant: what was wanted stays wanted.
Reverted_Forgotten(j, was, now) == now

\* Every end but success puts back the row apply replaced, as a new revision.
Reverted(j, was, now) ==
    CASE j.kind \in {"share.create", "share.update", "share.delete"} ->
            IF was.shares[j.id] = None THEN [now EXCEPT !.shares[j.id] = None, !.rev[j.id] = 0]
            ELSE [Revised(j, now) EXCEPT !.shares[j.id] = was.shares[j.id]]
      [] j.kind = "nfs-profile.update" -> [Revised(j, now) EXCEPT !.profile = was.profile]
      [] OTHER -> now

\* A share to create must not exist; one to change, and the profile, must have
\* the revision they had when the plan was made.
DesiredFresh(j, was, now) ==
    CASE DesiredRow(j) = None    -> TRUE
      [] j.kind = "share.create" -> now.rev[j.id] = 0
      [] OTHER -> now.rev[DesiredRow(j)] = was.rev[DesiredRow(j)]

\* The routes of arrays and filesystems make the plan again and refuse it when
\* it is blocked or its row has changed.
ArrayRoutes      == {"xiraid.array.create", "xiraid.array.import"}
ArrayPatchRoute  == {"xiraid.array.modify"}
ArrayDeleteRoute == {"xiraid.array.delete"}
FsRoutes         == {"fs.create"}
FsPatchRoute     == {"fs.mount", "fs.unmount", "fs.grow", "fs.set_quota_mode"}
FsDeleteRoute    == {"fs.unmanage"}
Rechecked == UNION {ArrayRoutes, ArrayPatchRoute, ArrayDeleteRoute,
                    FsRoutes, FsPatchRoute, FsDeleteRoute}

\* The plan of a job made again now, against the one to apply.
StillGood(again, plan) == again.found /\ ~again.blocked /\ again.row = plan.row

\* The routes of pools and NFS never look at the blockers, and a pinned row
\* that is gone counts as fresh.
StillPinned(again, plan) == again.row \in {plan.row, None}

Applicable(j, plan, seen, desired) ==
    LET again == PlanOf(j, seen, desired)
    IN IF j.kind \in Rechecked THEN StillGood(again, plan) ELSE StillPinned(again, plan)
=============================================================================
