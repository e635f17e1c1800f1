--------------------------- MODULE StorageExecutors ---------------------------
(***************************************************************************)
(* What each storage executor does in each of its stages and in its        *)
(* rollback.                                                               *)
(***************************************************************************)
EXTENDS StorageHost

CONSTANT ShareId

\* A job is the operation's spec, with what its plan adds to it: resolved, prior.
Job ==
    [kind : {"xiraid.array.create"}, array : Array, disks : SUBSET Drive, spares : SUBSET Drive]
    \cup [kind : {"xiraid.array.modify"}, array : Array, spares : (SUBSET Drive) \cup {None}]
    \cup [kind : {"xiraid.array.import", "xiraid.array.delete"}, array : Array]
    \cup [kind : {"pool.create"}, pool : PoolName, drives : SUBSET Drive]
    \cup [kind : {"pool.modify"}, pool : PoolName, drives : SUBSET Drive,
          intent : {"add_drives", "remove_drives", "activate", "deactivate"}]
    \cup [kind : {"pool.delete"}, pool : PoolName]
    \cup [kind : {"fs.create"}, path : Path, unit : UnitText, force : BOOLEAN,
          sized : BOOLEAN, resolved : BOOLEAN]
    \cup [kind : {"fs.mount", "fs.unmount", "fs.grow", "fs.unmanage"}, path : Path]
    \cup [kind : {"fs.set_quota_mode"}, path : Path, quota : QuotaMode]
    \cup [kind : {"share.create", "share.update"}, id : ShareId, path : Path, rule : Rule]
    \cup [kind : {"share.delete"}, id : ShareId, path : Path]
    \cup [kind : {"nfs-idmap.set"}, domain : Domain]
    \cup [kind : {"nfs-profile.update"}, profile : Profile, prior : Profile \cup {None}]

Stages(kind) ==
    CASE kind = "xiraid.array.create" -> <<"preflight", "create", "wait_online", "verify">>
      [] kind = "xiraid.array.modify" -> <<"preflight", "apply_spares", "apply_tuning", "verify">>
      [] kind = "xiraid.array.import" -> <<"preflight", "adopt", "verify">>
      [] kind = "xiraid.array.delete" -> <<"preflight", "destroy", "verify">>
      [] kind = "pool.create"         -> <<"create">>
      [] kind = "pool.modify"         -> <<"modify">>
      [] kind = "pool.delete"         -> <<"preflight", "delete">>
      [] kind = "fs.create"           -> <<"preflight", "mkfs", "install_unit", "mount", "verify">>
      [] kind = "fs.mount"            -> <<"preflight", "mount", "verify">>
      [] kind = "fs.unmount"          -> <<"preflight", "unmount", "verify">>
      [] kind = "fs.grow"             -> <<"preflight", "grow", "verify">>
      [] kind = "fs.set_quota_mode"   -> <<"preflight", "apply", "verify">>
      [] kind = "fs.unmanage"         -> <<"preflight", "remove", "verify">>
      [] kind = "share.create"        -> <<"preflight", "apply", "verify">>
      [] kind = "share.update"        -> <<"preflight", "apply", "verify">>
      [] kind = "share.delete"        -> <<"preflight", "apply">>
      [] kind = "nfs-idmap.set"       -> <<"preflight", "apply">>
      [] kind = "nfs-profile.update"  -> <<"preflight", "apply">>

-----------------------------------------------------------------------------
(***************************************************************************)
(* Arrays.                                                                 *)
(***************************************************************************)
\* The spare pool is made and activated first, then the array that names it.
DropPool(h, n) ==
    If(HasPool(h, n), If(h.pools[n].active, <<Call("poolSetActive", n, FALSE)>>)
                      \o <<Call("poolDelete", n, None)>>)

ArrayCreate(j, stage, h, s) ==
    CASE stage = "preflight" -> Check(~Shown(h, j.array) /\ j.disks \cap ArrayDrives(h) = {}, s)
      [] stage = "create" ->
            LET spare == IF j.spares = {} THEN None ELSE j.array
            IN Issue(Marked(s),
                     If(j.spares # {}, <<Call("poolCreate", j.array, j.spares),
                                         Call("poolSetActive", j.array, TRUE)>>)
                     \o <<Call("raidCreate", j.array, [disks |-> j.disks, spare |-> spare])>>)
      [] stage \in {"wait_online", "verify"} -> Check(Shown(h, j.array), s)

\* Mutant: the array of that name goes, whoever created it.
ArrayCreateRollback_Unmarked(j, h, s) ==
    Issue(s, If(Shown(h, j.array), <<Call("raidDestroy", j.array, FALSE)>>)
             \o DropPool(h, j.array))

ArrayCreateRollback(j, h, s) ==
    IF ~s.marker THEN Nothing(s)
    ELSE Issue(s, If(Shown(h, j.array), <<Call("raidDestroy", j.array, FALSE)>>)
                  \o DropPool(h, j.array))

\* spares = None leaves the spare pool alone.
ArrayModify(j, stage, h, s) ==
    LET a == j.array
    IN CASE stage = "preflight" ->
              IF Shown(h, a) /\ (j.spares # None => h.arrays[a].spare \in {None, a})
              THEN Nothing(Saw(s, [spare |-> h.arrays[a].spare, pool |-> h.pools[a]]))
              ELSE Check(FALSE, s)
         [] stage = "apply_spares" ->
              IF j.spares = None THEN Nothing(s)
              ELSE LET pre == s.before
                       had == pre.pool # None
                   IN Issue(s,
                      IF j.spares # {}
                      THEN (IF ~had
                            THEN <<Call("poolCreate", a, j.spares), Call("poolSetActive", a, TRUE)>>
                            ELSE If(~(j.spares \subseteq pre.pool.drives),
                                    <<Call("poolAdd", a, j.spares \ pre.pool.drives)>>)
                                 \o If(~(pre.pool.drives \subseteq j.spares),
                                       <<Call("poolRemove", a, pre.pool.drives \ j.spares)>>)
                                 \o If(~pre.pool.active, <<Call("poolSetActive", a, TRUE)>>))
                           \o If(pre.spare # a, <<Call("raidModify", a, a)>>)
                      ELSE If(pre.spare = a, <<Call("raidModify", a, None)>>)
                           \o If(had, If(pre.pool.active, <<Call("poolSetActive", a, FALSE)>>)
                                      \o <<Call("poolDelete", a, None)>>))
         \* The tuning values are not modelled: the call keeps the spare pool.
         [] stage = "apply_tuning" ->
              Issue(s, If(Shown(h, a), <<Call("raidModify", a, h.arrays[a].spare)>>))
         [] stage = "verify" ->
              Check(/\ Shown(h, a)
                    /\ j.spares # None => h.arrays[a].spare = IF j.spares = {} THEN None ELSE a, s)

\* Back to the captured spare pool, whatever the failed stage left of it.
ArrayModifyRollback(j, h, s) ==
    IF s.before = None THEN Nothing(s)
    ELSE LET a    == j.array
             pre  == s.before
             live == IF Shown(h, a) THEN h.arrays[a].spare ELSE None
             pool == h.pools[a]
         IN Issue(s,
            If(live # pre.spare, <<Call("raidModify", a, pre.spare)>>)
            \o (IF pre.pool = None THEN DropPool(h, a)
                ELSE IF pool # None
                THEN If(~(pre.pool.drives \subseteq pool.drives),
                        <<Call("poolAdd", a, pre.pool.drives \ pool.drives)>>)
                     \o If(~(pool.drives \subseteq pre.pool.drives),
                           <<Call("poolRemove", a, pool.drives \ pre.pool.drives)>>)
                     \o If(pool.active # pre.pool.active,
                           <<Call("poolSetActive", a, pre.pool.active)>>)
                ELSE <<Call("poolCreate", a, pre.pool.drives)>>
                     \o If(pre.pool.active, <<Call("poolSetActive", a, TRUE)>>)))

ArrayImport(j, stage, h, s) ==
    CASE stage = "preflight" -> Check(h.foreign # None /\ ~Shown(h, j.array), s)
      [] stage = "adopt"     -> Issue(s, <<Call("raidImport", j.array, None)>>)
      [] stage = "verify"    -> Check(Shown(h, j.array), s)

ArrayImportRollback(j, h, s) ==
    Issue(s, If(Shown(h, j.array), <<Call("raidDestroy", j.array, TRUE)>>))

\* The last look at the live mounts before the array is destroyed.
ArrayDelete(j, stage, h, s) ==
    LET a == j.array
    IN CASE stage = "preflight" ->
              Check(Shown(h, a) /\ BackingOf(h, a) = {} /\ LogOf(h, a) = {}, s)
         [] stage = "destroy" ->
              Issue(Marked(s), <<Call("raidDestroy", a, FALSE)>> \o Rest(DropPool(h, a)))
         [] stage = "verify" -> Check(~Shown(h, a), s)

\* Mutant: nothing to undo, so nothing to report.
ArrayDeleteRollback_Quiet(j, h, s) == Nothing(s)

\* Nothing is undone: once tried, an array that is gone needs an operator.
ArrayDeleteRollback(j, h, s) == Check(s.marker => Shown(h, j.array), s)

-----------------------------------------------------------------------------
(***************************************************************************)
(* Spare pools of the operator.                                            *)
(***************************************************************************)
PoolCreateStage(j, stage, h, s) == Issue(s, <<Call("poolCreate", j.pool, j.drives)>>)
PoolCreateRollback(j, h, s)     == Issue(s, <<Soft(Call("poolDelete", j.pool, None))>>)

PoolIntent(j) ==
    CASE j.intent = "add_drives"    -> Call("poolAdd", j.pool, j.drives)
      [] j.intent = "remove_drives" -> Call("poolRemove", j.pool, j.drives)
      [] j.intent = "activate"      -> Call("poolSetActive", j.pool, TRUE)
      [] j.intent = "deactivate"    -> Call("poolSetActive", j.pool, FALSE)

PoolModifyStage(j, stage, h, s) ==
    IF HasPool(h, j.pool) THEN Issue(Saw(s, h.pools[j.pool]), <<PoolIntent(j)>>)
                          ELSE Check(FALSE, s)

\* Only what the live pool shows of this task's own change is reversed.
PoolModifyRollback(j, h, s) ==
    IF s.before = None \/ ~HasPool(h, j.pool) THEN Nothing(s)
    ELSE LET was   == s.before
             now   == h.pools[j.pool]
             added == (j.drives \cap now.drives) \ was.drives
             gone  == (j.drives \cap was.drives) \ now.drives
         IN Issue(s,
            CASE j.intent = "add_drives" ->
                    If(added # {}, <<Soft(Call("poolRemove", j.pool, added))>>)
              [] j.intent = "remove_drives" ->
                    If(gone # {}, <<Soft(Call("poolAdd", j.pool, gone))>>)
              [] j.intent = "activate" ->
                    If(now.active /\ ~was.active, <<Soft(Call("poolSetActive", j.pool, FALSE))>>)
              [] j.intent = "deactivate" ->
                    If(~now.active /\ was.active, <<Soft(Call("poolSetActive", j.pool, TRUE))>>))

\* Mutant: the arrays that name the pool are not looked at.
PoolDeleteStage_Unreferenced(j, stage, h, s) ==
    CASE stage = "preflight" -> Check(HasPool(h, j.pool) /\ ~h.pools[j.pool].active, s)
      [] stage = "delete" -> Issue(s, <<Call("poolDelete", j.pool, None)>>)

PoolDeleteStage(j, stage, h, s) ==
    CASE stage = "preflight" ->
            Check(/\ HasPool(h, j.pool)
                  /\ ~h.pools[j.pool].active
                  /\ \A a \in Array : Shown(h, a) => h.arrays[a].spare # j.pool, s)
      [] stage = "delete" -> Issue(s, <<Call("poolDelete", j.pool, None)>>)

-----------------------------------------------------------------------------
(***************************************************************************)
(* Filesystems.                                                            *)
(***************************************************************************)
\* Without the mkfs inputs the plan resolves, every stage and the rollback throw.
FsCreate(j, stage, h, s) ==
    LET p == j.path
        d == j.unit.what
    IN CASE ~j.resolved -> Check(FALSE, s)
         [] j.resolved /\ stage = "preflight" ->
              Check((h.data[d] # None => j.force) /\ ~HasUnit(h, p) /\ ~Mounted(h, p), s)
         [] j.resolved /\ stage = "mkfs"         -> Issue(s, <<Call("mkfs", p, j.unit)>>)
         [] j.resolved /\ stage = "install_unit" -> Issue(s, <<Call("writeUnit", p, j.unit)>>)
         [] j.resolved /\ stage = "mount"        -> Issue(s, <<Call("enableNow", p, None)>>)
         [] j.resolved /\ stage = "verify"       -> Check(Mounted(h, p) /\ h.data[d] # None, s)

FsCreateRollback(j, h, s) ==
    LET p == j.path
    IN IF ~j.resolved THEN Check(FALSE, s)
       ELSE Issue(s, If(Mounted(h, p), <<Call("stop", p, None)>>)
                     \o If(HasUnit(h, p), <<Soft(Call("disable", p, None)), Call("removeUnit", p, None)>>))

FsMount(j, stage, h, s) ==
    CASE stage = "preflight" -> Check(HasUnit(h, j.path), s)
      [] stage = "mount"     -> Issue(s, <<Call("enableNow", j.path, None)>>)
      [] stage = "verify"    -> Check(Mounted(h, j.path), s)

FsMountRollback(j, h, s) == Issue(s, If(Mounted(h, j.path), <<Call("stop", j.path, None)>>))

FsUnmount(j, stage, h, s) ==
    CASE stage = "preflight" -> Check(HasUnit(h, j.path), s)
      [] stage = "unmount"   -> Issue(s, If(Mounted(h, j.path), <<Call("stop", j.path, None)>>)
                                         \o <<Call("disable", j.path, None)>>)
      [] stage = "verify"    -> Check(~Mounted(h, j.path), s)

FsUnmountRollback(j, h, s) ==
    Issue(s, If(Mounted(h, j.path) \/ HasUnit(h, j.path), <<Call("enableNow", j.path, None)>>))

\* The size, and that it never shrinks, is not modelled.
FsGrow(j, stage, h, s) ==
    CASE stage = "preflight" -> Check(Mounted(h, j.path), s)
      [] stage = "grow"      -> Issue(s, <<Call("growfs", j.path, None)>>)
      [] stage = "verify"    -> Nothing(s)

\* Mutant: a mounted filesystem is not remounted.
FsSetQuotaMode_NoRemount(j, stage, h, s) ==
    LET p == j.path
    IN CASE stage = "preflight" ->
              IF HasUnit(h, p)
              THEN Nothing(Saw(s, [unit |-> h.units[p], mounted |-> Mounted(h, p)]))
              ELSE Check(FALSE, s)
         [] stage = "apply" ->
              Issue(s, <<Call("writeUnit", p, [s.before.unit EXCEPT !.quota = j.quota])>>
                       \o If(s.before.mounted, <<Call("enableNow", p, None)>>))
         [] stage = "verify" -> Check(HasUnit(h, p) /\ h.units[p].quota = j.quota, s)

FsSetQuotaMode(j, stage, h, s) ==
    LET p == j.path
    IN CASE stage = "preflight" ->
              IF HasUnit(h, p)
              THEN Nothing(Saw(s, [unit |-> h.units[p], mounted |-> Mounted(h, p)]))
              ELSE Check(FALSE, s)
         [] stage = "apply" ->
              Issue(s, <<Call("writeUnit", p, [s.before.unit EXCEPT !.quota = j.quota])>>
                       \o If(s.before.mounted,
                             <<Call("stop", p, None), Call("enableNow", p, None)>>))
         [] stage = "verify" ->
              Check(/\ HasUnit(h, p)
                    /\ h.units[p].quota = j.quota
                    /\ s.before.mounted => Mounted(h, p), s)

FsSetQuotaModeRollback(j, h, s) ==
    LET p == j.path
    IN IF s.before = None THEN Nothing(s)
       ELSE Issue(s, <<Call("writeUnit", p, s.before.unit)>>
                     \o If(s.before.mounted /\ ~Mounted(h, p), <<Call("enableNow", p, None)>>))

FsUnmanage(j, stage, h, s) ==
    LET p == j.path
    IN CASE stage = "preflight" ->
              IF HasUnit(h, p) /\ ~Mounted(h, p) THEN Nothing(Saw(s, h.units[p]))
                                                 ELSE Check(FALSE, s)
         [] stage = "remove" ->
              Issue(s, <<Soft(Call("disable", p, None)), Call("removeUnit", p, None)>>)
         [] stage = "verify" -> Check(~HasUnit(h, p), s)

FsUnmanageRollback(j, h, s) ==
    Issue(s, If(s.before # None /\ ~HasUnit(h, j.path), <<Call("writeUnit", j.path, s.before)>>))

-----------------------------------------------------------------------------
(***************************************************************************)
(* NFS.  A share's path is taken to be a mountpoint.                       *)
(***************************************************************************)
ShareCreate(j, stage, h, s) ==
    CASE stage = "preflight" -> Check(Mounted(h, j.path) /\ ~Exported(h, j.path), s)
      [] stage = "apply"     -> Issue(Marked(s), <<Call("addExport", j.path, j.rule)>>)
      [] stage = "verify"    -> Check(Exported(h, j.path), s)

\* NOT_FOUND alone is caught: the call is issued when there is an entry.
ShareCreateRollback(j, h, s) ==
    Issue(s, If(s.marker /\ Exported(h, j.path), <<Call("removeExport", j.path, None)>>))

ShareUpdate(j, stage, h, s) ==
    CASE stage = "preflight" -> Nothing(Saw(s, h.exports[j.path]))
      [] stage = "apply"     -> Issue(s, <<Call("updateExport", j.path, j.rule)>>)
      [] stage = "verify"    -> Check(Exported(h, j.path), s)

ShareUpdateRollback(j, h, s) ==
    Issue(s, If(s.before # None, <<Call("updateExport", j.path, s.before)>>))

ShareDelete(j, stage, h, s) ==
    CASE stage = "preflight" -> Nothing(Saw(s, h.exports[j.path]))
      [] stage = "apply"     -> Issue(s, If(Exported(h, j.path), <<Call("removeExport", j.path, None)>>))

ShareDeleteRollback(j, h, s) ==
    Issue(s, If(s.before # None, <<Call("addExport", j.path, s.before)>>))

NfsIdmapSet(j, stage, h, s) ==
    CASE stage = "preflight" -> Nothing(Saw(s, h.domain))
      [] stage = "apply"     -> Issue(s, <<Call("setIdmapDomain", None, j.domain)>>)

\* A prior domain the helper would refuse stays replaced.
NfsIdmapSetRollback(j, h, s) ==
    Issue(s, If(s.before \notin {None, "local"}, <<Call("setIdmapDomain", None, s.before)>>))

NfsProfileUpdate(j, stage, h, s) ==
    CASE stage = "preflight" -> Nothing(s)
      [] stage = "apply"     -> Issue(s, <<Call("renderProfile", None, j.profile)>>)

NfsProfileUpdateRollback(j, h, s) == Issue(s, <<Call("renderProfile", None, j.prior)>>)

-----------------------------------------------------------------------------
\* A stage that cannot read the host throws; only the check after a destroy
\* lets it pass, for the array is gone as far as anyone can tell.
Unreadable(j, stage, s) ==
    Check(j.kind = "xiraid.array.delete" /\ stage = "verify", s)

\* Whether the rollback has to read the host to know what to undo; the one of
\* pool.modify gives up quietly when it cannot.
RollbackReads(j, s) ==
    CASE j.kind \in {"xiraid.array.create", "xiraid.array.delete"} -> s.marker
      [] j.kind \in {"xiraid.array.modify", "fs.set_quota_mode", "fs.unmanage"} -> s.before # None
      [] j.kind \in {"xiraid.array.import", "fs.create", "fs.mount", "fs.unmount"} -> TRUE
      [] OTHER -> FALSE

\* The registry: the executor of a kind.
RunStage(j, stage, h, s) ==
    CASE j.kind = "xiraid.array.create" -> ArrayCreate(j, stage, h, s)
      [] j.kind = "xiraid.array.modify" -> ArrayModify(j, stage, h, s)
      [] j.kind = "xiraid.array.import" -> ArrayImport(j, stage, h, s)
      [] j.kind = "xiraid.array.delete" -> ArrayDelete(j, stage, h, s)
      [] j.kind = "pool.create"         -> PoolCreateStage(j, stage, h, s)
      [] j.kind = "pool.modify"         -> PoolModifyStage(j, stage, h, s)
      [] j.kind = "pool.delete"         -> PoolDeleteStage(j, stage, h, s)
      [] j.kind = "fs.create"           -> FsCreate(j, stage, h, s)
      [] j.kind = "fs.mount"            -> FsMount(j, stage, h, s)
      [] j.kind = "fs.unmount"          -> FsUnmount(j, stage, h, s)
      [] j.kind = "fs.grow"             -> FsGrow(j, stage, h, s)
      [] j.kind = "fs.set_quota_mode"   -> FsSetQuotaMode(j, stage, h, s)
      [] j.kind = "fs.unmanage"         -> FsUnmanage(j, stage, h, s)
      [] j.kind = "share.create"        -> ShareCreate(j, stage, h, s)
      [] j.kind = "share.update"        -> ShareUpdate(j, stage, h, s)
      [] j.kind = "share.delete"        -> ShareDelete(j, stage, h, s)
      [] j.kind = "nfs-idmap.set"       -> NfsIdmapSet(j, stage, h, s)
      [] j.kind = "nfs-profile.update"  -> NfsProfileUpdate(j, stage, h, s)

Rollback(j, h, s) ==
    CASE j.kind = "xiraid.array.create" -> ArrayCreateRollback(j, h, s)
      [] j.kind = "xiraid.array.modify" -> ArrayModifyRollback(j, h, s)
      [] j.kind = "xiraid.array.import" -> ArrayImportRollback(j, h, s)
      [] j.kind = "xiraid.array.delete" -> ArrayDeleteRollback(j, h, s)
      [] j.kind = "pool.create"         -> PoolCreateRollback(j, h, s)
      [] j.kind = "pool.modify"         -> PoolModifyRollback(j, h, s)
      [] j.kind = "fs.create"           -> FsCreateRollback(j, h, s)
      [] j.kind = "fs.mount"            -> FsMountRollback(j, h, s)
      [] j.kind = "fs.unmount"          -> FsUnmountRollback(j, h, s)
      [] j.kind = "fs.set_quota_mode"   -> FsSetQuotaModeRollback(j, h, s)
      [] j.kind = "fs.unmanage"         -> FsUnmanageRollback(j, h, s)
      [] j.kind = "share.create"        -> ShareCreateRollback(j, h, s)
      [] j.kind = "share.update"        -> ShareUpdateRollback(j, h, s)
      [] j.kind = "share.delete"        -> ShareDeleteRollback(j, h, s)
      [] j.kind = "nfs-idmap.set"       -> NfsIdmapSetRollback(j, h, s)
      [] j.kind = "nfs-profile.update"  -> NfsProfileUpdateRollback(j, h, s)
      [] j.kind \in {"pool.delete", "fs.grow"} -> Nothing(s)
=============================================================================
