----------------------------- MODULE StorageHost -----------------------------
(***************************************************************************)
(* The storage host the agent drives: xiRAID arrays and spare pools, mount *)
(* units and live mounts, XFS filesystems and NFS exports, and every verb  *)
(* the executors call on them, as operators on one host record:            *)
(*   arrays  [disks, spare] of each array; its volume is the array itself  *)
(*   pools   [drives, active]; the pool derived from array a is written a  *)
(*   foreign the importable array as [disks, data], or None                *)
(*   data    the path whose filesystem, or external log, a volume carries  *)
(*   units   [what, log, quota] of the mount unit of each path             *)
(*   enabled the paths whose unit is enabled                               *)
(*   mounts  what is mounted at each path, with the options it went in by  *)
(*   exports the rule each path is exported with                           *)
(*   domain, profile   the NFS id-mapping domain and the rendered profile  *)
(*   busy    the paths clients have files open under                       *)
(***************************************************************************)
EXTENDS AgentStages, Sequences, FiniteSets

CONSTANTS Array, Drive, Pool, Path


\* derivedPoolName is injective, so the spare pool of a needs no name of its own.
PoolName == Array \cup Pool

ArrayState == [disks : SUBSET Drive, spare : PoolName \cup {None}]
PoolState  == [drives : SUBSET Drive, active : BOOLEAN]
QuotaMode  == {"none", "pquota"}
UnitText   == [what : Array, log : Array \cup {None}, quota : QuotaMode]
Rule       == {"ro", "rw"}
Domain     == {"local", "one.example", "two.example"}
Profile    == {"threads8", "threads64"}

ASSUME NamesApart == Array \cap Pool = {}
ASSUME NoneApart  == None \notin Array \cup PoolName \cup Path \cup ArrayState \cup PoolState \cup UnitText
                            \cup [spare : PoolName \cup {None}, pool : PoolState \cup {None}]

Host ==
    [arrays  : [Array -> ArrayState \cup {None}],
     pools   : [PoolName -> PoolState \cup {None}],
     foreign : [disks : SUBSET Drive, data : Path \cup {None}] \cup {None},
     data    : [Array -> Path \cup {None}],
     units   : [Path -> UnitText \cup {None}],
     enabled : SUBSET Path,
     mounts  : [Path -> UnitText \cup {None}],
     exports : [Path -> Rule \cup {None}],
     domain  : Domain \cup {None},
     profile : Profile,
     busy    : SUBSET Path]

-----------------------------------------------------------------------------
(***************************************************************************)
(* The xiRAID daemon.  It validates at execution: a drive that is part of  *)
(* an array or a pool is refused.                                          *)
(***************************************************************************)
Shown(h, a)    == h.arrays[a] # None
HasPool(h, n)  == h.pools[n] # None
ArrayDrives(h) == UNION {h.arrays[a].disks : a \in {b \in Array : Shown(h, b)}}
PoolDrives(h)  == UNION {h.pools[n].drives : n \in {m \in PoolName : HasPool(h, m)}}
InUse(h)       == ArrayDrives(h) \cup PoolDrives(h)

RaidCreate(h, a, r) ==
    IF Shown(h, a) \/ r.disks \cap InUse(h) # {} \/ (r.spare # None /\ ~HasPool(h, r.spare))
    THEN Refused(h)
    ELSE Done([h EXCEPT !.arrays[a] = r, !.data[a] = None])

\* Destroying a missing array is no error; config_only leaves the data behind.
RaidDestroy(h, a, configOnly) ==
    Done([h EXCEPT !.arrays[a] = None, !.data[a] = IF configOnly THEN @ ELSE None])

RaidModify(h, a, spare) ==
    IF Shown(h, a) THEN Done([h EXCEPT !.arrays[a].spare = spare]) ELSE Refused(h)

RaidImportApply(h, a) ==
    IF h.foreign = None \/ Shown(h, a) THEN Refused(h)
    ELSE Done([h EXCEPT !.arrays[a] = [disks |-> h.foreign.disks, spare |-> None],
                        !.data[a] = h.foreign.data, !.foreign = None])

PoolCreate(h, n, drives) ==
    IF HasPool(h, n) \/ drives \cap InUse(h) # {} THEN Refused(h)
    ELSE Done([h EXCEPT !.pools[n] = [drives |-> drives, active |-> FALSE]])

PoolDelete(h, n) ==
    IF HasPool(h, n) /\ ~h.pools[n].active THEN Done([h EXCEPT !.pools[n] = None]) ELSE Refused(h)

PoolAdd(h, n, drives) ==
    IF HasPool(h, n) /\ (drives \ h.pools[n].drives) \cap InUse(h) = {}
    THEN Done([h EXCEPT !.pools[n].drives = @ \cup drives]) ELSE Refused(h)

PoolRemove(h, n, drives) ==
    IF HasPool(h, n) THEN Done([h EXCEPT !.pools[n].drives = @ \ drives]) ELSE Refused(h)

PoolSetActive(h, n, active) ==
    IF HasPool(h, n) THEN Done([h EXCEPT !.pools[n].active = active]) ELSE Refused(h)

-----------------------------------------------------------------------------
(***************************************************************************)
(* Filesystems: blkid, mkfs.xfs -f, unit files, systemctl.                 *)
(***************************************************************************)
Mounted(h, p)   == h.mounts[p] # None
HasUnit(h, p)   == h.units[p] # None
BackingOf(h, a) == {p \in Path : Mounted(h, p) /\ h.mounts[p].what = a}
LogOf(h, a)     == {p \in Path : Mounted(h, p) /\ h.mounts[p].log = a}
Devices(u)      == {u.what, u.log} \ {None}

\* mkfs.xfs refuses a mounted device even with -f, and writes the log device
\* as it writes the data device.
Mkfs(h, p, u) ==
    IF \E a \in Devices(u) : ~Shown(h, a) \/ BackingOf(h, a) \cup LogOf(h, a) # {}
    THEN Refused(h)
    ELSE Done([h EXCEPT !.data = [a \in Array |-> IF a \in Devices(u) THEN p ELSE @[a]]])

WriteUnit(h, p, u) == Done([h EXCEPT !.units[p] = u])
RemoveUnit(h, p)   == Done([h EXCEPT !.units[p] = None])

\* A unit mounts when its devices are there and carry its filesystem.
Mountable(h, p) ==
    \A a \in Devices(h.units[p]) : Shown(h, a) /\ h.data[a] = p

\* systemctl enable --now: the enablement stays when the start fails.
EnableNow(h, p) ==
    IF ~HasUnit(h, p) THEN Refused(h)
    ELSE LET on == [h EXCEPT !.enabled = @ \cup {p}]
         IN IF Mounted(h, p) THEN Done(on)
            ELSE IF Mountable(h, p) THEN Done([on EXCEPT !.mounts[p] = h.units[p]])
            ELSE Refused(on)

Stop(h, p)    == IF p \in h.busy THEN Refused(h) ELSE Done([h EXCEPT !.mounts[p] = None])
Disable(h, p) == IF HasUnit(h, p) THEN Done([h EXCEPT !.enabled = @ \ {p}]) ELSE Refused(h)
Growfs(h, p)  == IF Mounted(h, p) THEN Done(h) ELSE Refused(h)

-----------------------------------------------------------------------------
(***************************************************************************)
(* The NFS helper.  Adding replaces; updating and removing need an entry;  *)
(* a domain without a dot is refused.                                      *)
(***************************************************************************)
Exported(h, p) == h.exports[p] # None

AddExport(h, p, rule)    == Done([h EXCEPT !.exports[p] = rule])
UpdateExport(h, p, rule) ==
    IF Exported(h, p) THEN Done([h EXCEPT !.exports[p] = rule]) ELSE Refused(h)
RemoveExport(h, p) ==
    IF Exported(h, p) THEN Done([h EXCEPT !.exports[p] = None]) ELSE Refused(h)
SetIdmapDomain(h, d)   == IF d = "local" THEN Refused(h) ELSE Done([h EXCEPT !.domain = d])
RenderProfile(h, spec) == Done([h EXCEPT !.profile = spec])

-----------------------------------------------------------------------------
(***************************************************************************)
(* The agent's clients.  A call the daemon, a program or the helper refuses *)
(* throws; what it did before it was refused is done.                       *)
(***************************************************************************)
\* XiraidClient over gRPC
PerformRaid(h, c) ==
    CASE c.verb = "raidCreate"     -> RaidCreate(h, c.on, c.arg)
      [] c.verb = "raidDestroy"    -> RaidDestroy(h, c.on, c.arg)
      [] c.verb = "raidModify"     -> RaidModify(h, c.on, c.arg)
      [] c.verb = "raidImport"     -> RaidImportApply(h, c.on)
      [] c.verb = "poolCreate"     -> PoolCreate(h, c.on, c.arg)
      [] c.verb = "poolDelete"     -> PoolDelete(h, c.on)
      [] c.verb = "poolAdd"        -> PoolAdd(h, c.on, c.arg)
      [] c.verb = "poolRemove"     -> PoolRemove(h, c.on, c.arg)
      [] c.verb = "poolSetActive"  -> PoolSetActive(h, c.on, c.arg)

\* the programs of the filesystem host
PerformFs(h, c) ==
    CASE c.verb = "mkfs"           -> Mkfs(h, c.on, c.arg)
      [] c.verb = "writeUnit"      -> WriteUnit(h, c.on, c.arg)
      [] c.verb = "removeUnit"     -> RemoveUnit(h, c.on)
      [] c.verb = "enableNow"      -> EnableNow(h, c.on)
      [] c.verb = "stop"           -> Stop(h, c.on)
      [] c.verb = "disable"        -> Disable(h, c.on)
      [] c.verb = "growfs"         -> Growfs(h, c.on)

\* one round trip to the helper's socket
PerformNfs(h, c) ==
    CASE c.verb = "addExport"      -> AddExport(h, c.on, c.arg)
      [] c.verb = "updateExport"   -> UpdateExport(h, c.on, c.arg)
      [] c.verb = "removeExport"   -> RemoveExport(h, c.on)
      [] c.verb = "setIdmapDomain" -> SetIdmapDomain(h, c.arg)
      [] c.verb = "renderProfile"  -> RenderProfile(h, c.arg)

RaidVerbs == {"raidCreate", "raidDestroy", "raidModify", "raidImport",
              "poolCreate", "poolDelete", "poolAdd", "poolRemove", "poolSetActive"}
NfsVerbs  == {"addExport", "updateExport", "removeExport", "setIdmapDomain", "renderProfile"}

Perform(h, c) ==
    CASE c.verb \in RaidVerbs -> PerformRaid(h, c)
      [] c.verb \in NfsVerbs  -> PerformNfs(h, c)
      [] OTHER                -> PerformFs(h, c)
=============================================================================
