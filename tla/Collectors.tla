----------------------------- MODULE Collectors -----------------------------
(***************************************************************************)
(* What the collectors of the agent observe, as they are wired in          *)
(* buildConvergence: each watch there is a no-op except those of Disk and  *)
(* NetworkInterface.  A host is                                            *)
(*   own  the content of each entity of the collector's kind, None: absent *)
(*   co   the same for the second kind that its sweep emits, if any        *)
(* A collector is a record:                                                *)
(*   own, co  its kinds (co is None for most)                              *)
(*   fixed    its rows are emitted whatever is on the host                 *)
(*   probe    what a look at the host may yield                            *)
(*   events   "none"; "reread": it looks again; "pushed": as announced     *)
(*   once     the second kind is emitted only when it changed              *)
(***************************************************************************)
EXTENDS Naturals, Sequences, FiniteSets, SequencesExt

CONSTANTS None, Id, CoId, Content

ASSUME Contents == Content \subseteq Nat \ {0}

\* The content of a row whose source could not be read.
Unknown == 0

Host == [own : [Id -> Content \cup {None}], co : [CoId -> Content \cup {None}]]
Reading == [own : [Id -> Content \cup {None, Unknown}], co : [CoId -> Content \cup {None, Unknown}]]

Present(f) == {i \in DOMAIN f : f[i] # None}

-----------------------------------------------------------------------------
(***************************************************************************)
(* Probes.  "fails": an error of the tool or the file ends the sweep;      *)
(* "blurs": it is absorbed and the rows come without what it tells;        *)
(* "coLost": it is absorbed and the second kind is left out.               *)
(***************************************************************************)
DiskProbe       == {"fails"}
NetworkProbe    == {"fails", "blurs", "coLost"}
FilesystemProbe == {"fails", "blurs"}
NfsProbe        == {"fails"}
IdmapProbe      == {"fails", "blurs"}
NfsProfileProbe == {"fails"}
SystemctlProbe  == {"blurs"}
UsersProbe      == {"fails"}
InventoryProbe  == {"fails", "blurs"}
TuningProbe     == {"blurs"}
SnapshotList    == {"fails"}

Blurred(f) == [i \in DOMAIN f |-> IF f[i] = None THEN None ELSE Unknown]

\* What a sweep may read: the host, nothing at all, or part of it.
Faulty(c, h) ==
    {r \in {[h EXCEPT !.own = Blurred(h.own)]} : "blurs" \in c.probe}
      \cup {r \in {[h EXCEPT !.co = [i \in CoId |-> None]]} : "coLost" \in c.probe}

-----------------------------------------------------------------------------
(***************************************************************************)
(* Collectors.                                                             *)
(***************************************************************************)
Polled(kind, probe) ==
    [own |-> kind, co |-> None, fixed |-> FALSE, probe |-> probe, events |-> "none",
     once |-> FALSE]

Singleton(kind, probe) == [Polled(kind, probe) EXCEPT !.fixed = TRUE]

DiskCollector     == [Polled("Disk", DiskProbe) EXCEPT !.events = "reread"]
NetworkCollector  ==
    [Polled("NetworkInterface", NetworkProbe)
        EXCEPT !.co = "NetworkConfig", !.once = TRUE, !.events = "pushed"]
FilesystemCollector == Polled("Filesystem", FilesystemProbe)
NfsCollector        == [Polled("NfsSession", NfsProbe) EXCEPT !.co = "ExportRule"]
NfsIdmapCollector   == Singleton("NfsIdmap", IdmapProbe)
NfsProfileCollector == Singleton("NfsProfile", NfsProfileProbe)
SystemdCollector    == Singleton("SystemdUnit", SystemctlProbe)
UsersCollector      == [Polled("User", UsersProbe) EXCEPT !.co = "Group"]
InventoryCollector  == Singleton("inventory", InventoryProbe)
XiraidCollector     == Polled("XiraidArray", {"fails"})
PoolCollector       == Polled("Pool", {"fails"})
TuningCollector     == Singleton("Tuning", TuningProbe)
SnapshotCollector   == Polled("ConfigSnapshot", SnapshotList)
StubCollector       == Singleton("managed_files", {})

Registry ==
    {DiskCollector, NetworkCollector, FilesystemCollector, NfsCollector, NfsIdmapCollector,
     NfsProfileCollector, SystemdCollector, UsersCollector, InventoryCollector, XiraidCollector,
     PoolCollector, TuningCollector, SnapshotCollector, StubCollector}

-----------------------------------------------------------------------------
(***************************************************************************)
(* Deltas.  kind "dev" is the collector's own kind under the name that     *)
(* udev gives a device (/dev/sdb), which is no id of a sweep (sdb); val is *)
(* None for a delete.                                                      *)
(***************************************************************************)
Upsert(kind, i, val, full) == [key |-> <<kind, i>>, val |-> val, full |-> full]
Upserts(kind, f) == SetToSeq({Upsert(kind, i, f[i], TRUE) : i \in Present(f)})

SweepDeltas(r) == Upserts("own", r.own) \o Upserts("co", r.co)

\* Mutant: an empty sweep is complete for nothing.
SweepKinds_Seen(ds) == {d.key[1] : d \in ToSet(ds)}

\* The kinds a sweep flushes as complete: its own and those it has deltas of.
SweepKinds(ds) == {"own"} \cup {d.key[1] : d \in ToSet(ds)}

\* Disk: the device is looked up under udev's name and never found.
DiskEvent(e) ==
    IF e.gone THEN Upsert("dev", e.id, None, FALSE) ELSE Upsert("dev", e.id, Unknown, FALSE)

\* NetworkInterface: what ip announced, without driver and netplan; an interface
\* that went away is announced as it last was.
NetworkDelta(e) == Upsert("own", e.id, e.val, FALSE)

EventDelta(c, e) == IF c.events = "reread" THEN DiskEvent(e) ELSE NetworkDelta(e)
=============================================================================
