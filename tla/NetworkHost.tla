----------------------------- MODULE NetworkHost -----------------------------
(***************************************************************************)
(* The network side of a host and the two executors that drive it.         *)
(*   xinas    99-xinas.yaml: the stanza of each interface, or no file      *)
(*   foreign  the stanzas of the other netplan files                       *)
(*   addrs    the addresses the kernel has on each interface               *)
(*   rules    the source rules of the kernel: <<address, table>>           *)
(*   linked   the interfaces with carrier                                  *)
(* Interfaces are numbers in the order of their names; an address stands   *)
(* for a CIDR and a table for an id of the range the allocator uses, 0 for *)
(* none.  MTU and routes are left out.                                     *)
(***************************************************************************)
EXTENDS AgentStages, Naturals, Sequences, FiniteSets, SequencesExt

CONSTANTS Iface, Addr, Table

ASSUME Ordered == Iface \subseteq Nat /\ Addr \subseteq Nat /\ Table \subseteq Nat \ {0}
ASSUME EnoughTables ==
    IsFiniteSet(Iface) /\ IsFiniteSet(Table) /\ Cardinality(Iface) <= Cardinality(Table)

Tables == Table \cup {0}
Stanza == [addrs : SUBSET Addr, table : Tables \cup {None}]
Desc   == [addrs : SUBSET Addr, enabled : BOOLEAN, table : Tables]

File     == [Iface -> Stanza \cup {None}]
NetFiles == [xinas : File \cup {None}, foreign : File]
NetHost  == [xinas : File \cup {None}, foreign : File, addrs : [Iface -> SUBSET Addr],
             rules : SUBSET (Addr \X Tables), linked : SUBSET Iface]

ASSUME NoneIsNoFile ==
    None \notin Tables /\ None \notin Stanza /\ None \notin Desc /\ None \notin File /\ None \notin NetFiles

Files(h) == [xinas |-> h.xinas, foreign |-> h.foreign]

-----------------------------------------------------------------------------
(***************************************************************************)
(* Netplan files.                                                          *)
(***************************************************************************)
\* One stanza per enabled row; without an address there is no routing policy,
\* and no policy tells no table.
Render(rows) ==
    [i \in Iface |-> IF rows[i] = None \/ ~rows[i].enabled THEN None
                     ELSE [addrs |-> rows[i].addrs,
                           table |-> IF rows[i].addrs = {} THEN None ELSE rows[i].table]]

InXinas(f, i) == f.xinas # None /\ f.xinas[i] # None

\* The stanza that counts as an interface's: ours, or else the foreign one.
StanzaOf(f, i) == IF InXinas(f, i) THEN f.xinas[i] ELSE f.foreign[i]

\* Mutant: a foreign stanza is a duplicate of nothing.
Duplicates_None(f) == {}

\* Only what 99-xinas.yaml owns counts as defined twice.
Duplicates(f) == {i \in Iface : InXinas(f, i) /\ f.foreign[i] # None}

\* netplan merges the stanzas of all files.
Merged(f, i) ==
    {s \in {IF f.xinas = None THEN None ELSE f.xinas[i], f.foreign[i]} : s # None}
Configured(f, i)      == UNION {s.addrs : s \in Merged(f, i)}
ConfiguredRules(f, i) == UNION {s.addrs \X ({s.table} \ {None}) : s \in Merged(f, i)}

-----------------------------------------------------------------------------
(***************************************************************************)
(* The verbs.  Applying only adds, and an interface without carrier takes  *)
(* nothing; what is no longer configured stays until it is flushed.        *)
(***************************************************************************)
WriteNetplan(h, file, text) == Done([h EXCEPT ![file] = text])

Bound(h, dev) ==
    [h EXCEPT !.addrs = [i \in Iface |-> IF i \in dev THEN @[i] \cup Configured(Files(h), i) ELSE @[i]],
              !.rules = @ \cup UNION {ConfiguredRules(Files(h), i) : i \in dev}]

NetplanApply(h) == Done(Bound(h, h.linked))

RulesFlush(h, tables) == Done([h EXCEPT !.rules = {r \in @ : r[2] \notin tables}])
AddrFlush(h, dev)     == Done([h EXCEPT !.addrs[dev] = {}])

NetPerform(h, c) ==
    CASE c.verb = "write"    -> WriteNetplan(h, c.on, c.arg)
      [] c.verb = "generate" -> Done(h)
      [] c.verb = "apply"    -> NetplanApply(h)
      [] c.verb = "rules"    -> RulesFlush(h, c.arg)
      [] c.verb = "flush"    -> AddrFlush(h, c.on)

-----------------------------------------------------------------------------
(***************************************************************************)
(* The executors.  A job carries what its plan resolved: the render, the   *)
(* hash of the files it was made from (None: no hash yet), the stanzas to  *)
(* take out of the foreign files, and the rows of its targets.             *)
(***************************************************************************)
NetStages == <<"preflight", "render_write", "flush", "apply", "verify">>

\* Mutant: the files are not compared with the ones the plan was made from.
NetPreflight_NoHash(job, h, s) ==
    IF ~job.cleanup /\ DOMAIN job.targets \cap Duplicates(Files(h)) # {} THEN Check(FALSE, s)
    ELSE Nothing(Saw(s, Files(h)))

NetPreflight(job, h, s) ==
    IF \/ job.hash \notin {None, Files(h)}
       \/ ~job.cleanup /\ DOMAIN job.targets \cap Duplicates(Files(h)) # {}
    THEN Check(FALSE, s)
    ELSE Nothing(Saw(s, Files(h)))

\* The foreign file is cleaned from its stashed text.
NetRenderWrite(job, h, s) ==
    LET cleaned == [i \in Iface |-> IF i \in job.cleaned THEN None ELSE s.before.foreign[i]]
    IN Issue(s, <<Call("write", "xinas", job.render)>>
                \o If(job.cleaned # {}, <<Call("write", "foreign", cleaned)>>)
                \o <<Call("generate", None, None)>>)

\* In the order the kernel lists the devices in.
FlushAddrs(devs) == [n \in 1 .. Cardinality(devs) |-> Call("flush", SetToSeq(devs)[n], None)]

\* One device and its table, or every table of the range and every device.
FlushSurgical(job) == LET dev == CHOOSE i \in DOMAIN job.targets : TRUE
                      IN <<Call("rules", None, {job.targets[dev].table})>> \o FlushAddrs({dev})
FlushGlobal == <<Call("rules", None, Table)>> \o FlushAddrs(Iface)

NetFlush(job) == IF job.kind = "net.iface.update" THEN FlushSurgical(job) ELSE FlushGlobal

\* Without carrier an address that is not there yet is only deferred.
VerifyDev(h, dev, row) ==
    \/ ~row.enabled
    \/ dev \notin h.linked
    \/ row.addrs \subseteq h.addrs[dev] /\ (row.addrs # {} => \E r \in h.rules : r[2] = row.table)

NetRunStage(job, stage, h, s) ==
    CASE stage = "preflight"    -> NetPreflight(job, h, s)
      [] stage = "render_write" -> NetRenderWrite(job, h, s)
      [] stage = "flush"        -> Issue(s, NetFlush(job))
      [] stage = "apply"        -> Issue(s, <<Call("apply", None, None)>>)
      [] stage = "verify"       -> Check(\A i \in DOMAIN job.targets : VerifyDev(h, i, job.targets[i]), s)

\* Mutant: the files come back, the kernel keeps the failed configuration.
NetRollback_FilesOnly(job, s) ==
    IF s.before = None THEN Nothing(s)
    ELSE Issue(s, If(s.before.xinas # None, <<Call("write", "xinas", s.before.xinas)>>)
                  \o <<Call("write", "foreign", s.before.foreign),
                       Call("generate", None, None), Call("apply", None, None)>>)

\* The stashed files are written back; one that did not exist is not removed.
NetRollback(job, s) ==
    IF s.before = None THEN Nothing(s)
    ELSE Issue(s, If(s.before.xinas # None, <<Call("write", "xinas", s.before.xinas)>>)
                  \o <<Call("write", "foreign", s.before.foreign), Call("generate", None, None)>>
                  \o NetFlush(job) \o <<Call("apply", None, None)>>)
=============================================================================
