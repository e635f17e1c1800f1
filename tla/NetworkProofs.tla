---------------------------- MODULE NetworkProofs ----------------------------
(***************************************************************************)
(* What a network task does to the files and the kernel, for any number of *)
(* tasks, interfaces, addresses and tables: it takes out of foreign files  *)
(* only what its plan named; a task that fails gives the files back as it  *)
(* found them, with the addresses they configure; a task that succeeds     *)
(* leaves what its plan rendered, in the kernel too.  Every plan leases    *)
(* the one netplan file, so that one task runs at a time and nobody edits  *)
(* by hand beside it; what is left of its calls then tells how far the     *)
(* files and the kernel are.                                               *)
(***************************************************************************)
EXTENDS Network, SequenceTheorems, FiniteSetTheorems, TLAPS

TheFile == <<"NetworkConfig", "99-xinas">>

-----------------------------------------------------------------------------
(***************************************************************************)
(* Types.                                                                  *)
(***************************************************************************)
NetCall ==
    [verb : {"write"}, on : {"xinas", "foreign"}, arg : File, onError : {"throw"}]
    \cup [verb : {"generate", "apply"}, on : {None}, arg : {None}, onError : {"throw"}]
    \cup [verb : {"rules"}, on : {None}, arg : SUBSET Tables, onError : {"throw"}]
    \cup [verb : {"flush"}, on : Iface, arg : {None}, onError : {"throw"}]

Stash == [marker : {FALSE}, before : NetFiles \cup {None}]

\* The stanza of a row in the rendered file.
RowStanza(row) ==
    IF ~row.enabled THEN None
    ELSE [addrs |-> row.addrs, table |-> IF row.addrs = {} THEN None ELSE row.table]

RunOK(run) ==
    /\ run.kind \in {"net.iface.update", "net.pool.apply"}
    /\ run.hash \in NetFiles /\ run.render \in File
    /\ run.cleanup \in BOOLEAN
    /\ run.cleaned = IF run.cleanup THEN Duplicates(run.hash) \cap DOMAIN run.targets ELSE {}
    /\ run.render = EmptyFile \/ \A i \in DOMAIN run.targets : run.render[i] = RowStanza(run.targets[i])
    /\ DOMAIN run.targets \subseteq Iface /\ \A i \in DOMAIN run.targets : run.targets[i] \in Desc
    /\ run.kind = "net.iface.update" => \E i \in Iface : DOMAIN run.targets = {i}

PlanOK(plan) ==
    /\ TheFile \in plan.leases
    /\ DOMAIN plan.rows \subseteq Iface /\ \A i \in DOMAIN plan.rows : plan.rows[i] \in Desc
    /\ RunOK(plan.run)

PriorOK(prior) == DOMAIN prior \subseteq Iface /\ \A i \in DOMAIN prior : prior[i] \in Desc \cup {None}

\* A record with the fields of a task.
IsTask(k) ==
    k \in [job : {k.job}, phase : {k.phase}, plan : {k.plan}, prior : {k.prior}, stage : {k.stage},
           calls : {k.calls}, stash : {k.stash}, cancelled : {k.cancelled}, sound : {k.sound}, base : {k.base}]

Runs(k) == k.phase \in Live

TaskTyped(k) ==
    /\ IsTask(k)
    /\ k.job \in NetJob /\ k.phase \in Phase /\ k.stage \in 1 .. 6
    /\ k.calls \in Seq(NetCall) /\ k.stash \in Stash
    /\ k.calls # <<>> => k.phase \in {"running", "rollback"}
    /\ k.phase \in Live \cup {"planned"} => PlanOK(k.plan)
    /\ Runs(k) => PriorOK(k.prior) /\ k.base \in NetFiles
    /\ k.phase \in {"new", "planned"} => k.stage = 1 /\ k.stash = EmptyStash

TasksTyped == DOMAIN task = Task /\ \A t \in Task : TaskTyped(task[t])

Seen == [rows : [Iface -> [mlx : BOOLEAN, netplan : Stanza \cup {None}]], files : NetFiles]

Typed == host \in NetHost /\ DesiredOK(desired) /\ seen \in Seen /\ TasksTyped

-----------------------------------------------------------------------------
(***************************************************************************)
(* The invariant.                                                          *)
(***************************************************************************)
Alone == \A t, u \in Task : t # u => ~(Runs(task[t]) /\ Runs(task[u]))

\* What a run makes of the foreign files.
Cleaned(run, files) == [i \in Iface |-> IF i \in run.cleaned THEN None ELSE files.foreign[i]]

IsWrite(c, file) == c.verb = "write" /\ c.on = file

Unwritten(calls, file)    == \E c \in Range(calls) : IsWrite(c, file)
Unflushed(calls, i)       == \E c \in Range(calls) : c.verb = "flush" /\ c.on = i
Unruled(calls, table)     == \E c \in Range(calls) : c.verb = "rules" /\ table \in c.arg
Writes(calls, file, text) == \A c \in Range(calls) : IsWrite(c, file) => c.arg = text

RulesOf(h, table) == {r \in h.rules : r[2] = table}

\* The targets have neither addresses nor rules, or the call that flushes them is to come.
Cleared(run, calls, h) ==
    \A i \in DOMAIN run.targets :
        LET table == run.targets[i].table
        IN /\ h.addrs[i] = {} \/ Unflushed(calls, i)
           /\ table = 0 \/ RulesOf(h, table) = {} \/ Unruled(calls, table)

\* The targets have the addresses and rules the files configure, and no others.
Put(run, h) ==
    \A i \in DOMAIN run.targets :
        LET table == run.targets[i].table
        IN /\ i \in h.linked => h.addrs[i] = Configured(Files(h), i)
           /\ table = 0 \/ RulesOf(h, table) = {r \in UNION {ConfiguredRules(Files(h), d) : d \in h.linked} : r[2] = table}

ApplyCall == Call("apply", None, None)

\* What a run has done when it comes to a stage: the preflight has found no duplicate the
\* plan does not clean; the files are written, then the targets flushed, then applied.
GoingForward(k, h) ==
    LET run == k.plan.run
    IN /\ run.cleanup \/ DOMAIN run.targets \cap Duplicates(k.base) = {}
       /\ Writes(k.calls, "xinas", run.render)
       /\ k.stage > 2 => /\ Unwritten(k.calls, "xinas") \/ h.xinas = run.render
                         /\ Unwritten(k.calls, "foreign") \/ h.foreign = Cleaned(run, k.base)
       /\ k.stage = 4 => /\ \A c \in Range(k.calls) : c.verb \in {"rules", "flush"}
                         /\ Cleared(run, k.calls, h)
       /\ k.stage = 5 => IF k.calls = <<>> THEN Put(run, h)
                         ELSE k.calls = <<ApplyCall>> /\ Cleared(run, <<>>, h)
       /\ k.stage = 6 => /\ k.calls = <<>> /\ Put(run, h)
                         /\ \A i \in DOMAIN run.targets : VerifyDev(h, i, run.targets[i])

\* What is not on its way back any more is back; the addresses come last, on devices
\* that were flushed.
GoingBack(k, h) ==
    LET f == k.base
    IN /\ Writes(k.calls, "foreign", f.foreign) /\ Writes(k.calls, "xinas", f.xinas)
       /\ Unwritten(k.calls, "foreign") \/ h.foreign = f.foreign
       /\ Unwritten(k.calls, "xinas") \/ f.xinas = None \/ h.xinas = f.xinas
       /\ \A n \in DOMAIN k.calls : k.calls[n].verb = "apply" <=> n = Len(k.calls)
       /\ \A i \in DOMAIN k.plan.run.targets :
             IF k.calls # <<>> THEN h.addrs[i] = {} \/ Unflushed(k.calls, i)
             ELSE f.xinas = None \/ i \notin h.linked \/ h.addrs[i] = Configured(f, i)

\* The files are as they were, or the stash has them and the foreign ones are one of two.
FilesKnown(k, h) ==
    IF k.stash.before = None THEN Files(h) = k.base
    ELSE /\ k.stash.before = k.base /\ k.plan.run.hash = k.base
         /\ h.foreign \in {k.base.foreign, Cleaned(k.plan.run, k.base)}

RunInv(k, h) ==
    /\ FilesKnown(k, h)
    /\ IF k.stash.before = None
       THEN k.calls = <<>> /\ (k.phase = "running" => k.stage = 1)
       ELSE
         /\ k.phase = "running" => k.stage > 1
         /\ k.phase = "running" => Writes(k.calls, "foreign", Cleaned(k.plan.run, k.base)) /\ GoingForward(k, h)
         /\ k.phase = "rollback" => GoingBack(k, h)

Inv == Typed /\ Alone /\ (\A t \in Task : Runs(task[t]) => RunInv(task[t], host))

-----------------------------------------------------------------------------
(***************************************************************************)
(* Plans.                                                                  *)
(***************************************************************************)
Row == Desc \cup {None}

\* A stanza for each interface, or none.
LEMMA RenderTyped == ASSUME NEW rows \in [Iface -> Row] PROVE Render(rows) \in File
<1>1. ASSUME NEW i \in Iface PROVE Render(rows)[i] \in Stanza \cup {None}
  <2>1. CASE rows[i] = None \/ ~rows[i].enabled
    BY <2>1 DEF Render
  <2>2. CASE ~(rows[i] = None \/ ~rows[i].enabled)
    <3>1. rows[i] \in Desc
      BY <2>2 DEF Row
    <3>2. /\ rows[i].addrs \in SUBSET Addr
          /\ (IF rows[i].addrs = {} THEN None ELSE rows[i].table) \in Tables \cup {None}
      BY <3>1 DEF Desc
    <3> QED BY <2>2, <3>2 DEF Render, Stanza
  <2> QED BY <2>1, <2>2
<1>2. Render(rows) = [i \in Iface |-> Render(rows)[i]]
  BY DEF Render
<1> QED BY <1>1, <1>2 DEF File

LEMMA EmptyFileTyped == EmptyFile \in File
BY DEF EmptyFile, File

\* A table of the range, or zero.
LEMMA AllocatedTyped == ASSUME NEW i, NEW needs PROVE Allocated(i, needs) \in Tables
BY DEF Allocated, Tables

LEMMA TableTyped ==
    ASSUME DesiredOK(desired), seen \in Seen, NEW i \in Iface
    PROVE  TableOf(i) \in Tables \cup {None}
<1>1. desired.rows[i] \in Desc \cup {None} /\ seen.rows[i].netplan \in Stanza \cup {None}
  BY DEF DesiredOK, Seen
<1> QED BY <1>1 DEF TableOf, Desc, Stanza

\* A row of every managed interface, and of no other.
LEMMA ResolvedTyped ==
    ASSUME DesiredOK(desired), seen \in Seen, NEW target
    PROVE  /\ Resolved(target) \in [Iface -> Row]
           /\ \A i \in Managed : Resolved(target)[i] \in Desc
<1> DEFINE needs == {i \in Managed : TableOf(i) = None \/ (i = target /\ TableOf(i) = 0)}
           stanza(i) == seen.rows[i].netplan
           base(i) == IF desired.rows[i] # None THEN desired.rows[i]
                      ELSE [addrs |-> IF stanza(i) = None THEN {} ELSE stanza(i).addrs,
                            enabled |-> TRUE, table |-> 0]
           table(i) == IF i \in needs THEN Allocated(i, needs) ELSE TableOf(i)
<1>1. Resolved(target) =
         [i \in Iface |-> IF i \notin Managed THEN None ELSE [base(i) EXCEPT !.table = table(i)]]
  BY DEF Resolved
<1>2. ASSUME NEW i \in Managed PROVE [base(i) EXCEPT !.table = table(i)] \in Desc
  <2>1. i \in Iface
    BY DEF Managed
  <2>2. base(i) \in Desc
    <3>1. desired.rows[i] \in Desc \cup {None} /\ stanza(i) \in Stanza \cup {None}
      BY <2>1 DEF DesiredOK, Seen
    <3> QED BY <3>1 DEF Desc, Stanza, Tables
  <2>3. table(i) \in Tables
    <3>1. i \in needs => Allocated(i, needs) \in Tables
      BY AllocatedTyped
    <3>2. i \notin needs => TableOf(i) \in Tables
      BY <2>1, TableTyped
    <3> QED BY <3>1, <3>2
  <2> HIDE DEF base, table
  <2> QED BY <2>2, <2>3 DEF Desc
<1> HIDE DEF base, table
<1> QED BY <1>1, <1>2 DEF Row, Managed

\* What a plan hands to its run, from typed rows.
LEMMA NetPlanTyped ==
    ASSUME seen \in Seen, NEW kind \in {"net.iface.update", "net.pool.apply"}, NEW cleanup \in BOOLEAN,
           NEW blocked, NEW rows \in [Iface -> Row], NEW written \in SUBSET Iface, NEW pinned,
           NEW targets \in SUBSET written, NEW dups, dups = Dups \cap targets,
           \A i \in written : rows[i] \in Desc,
           kind = "net.iface.update" => \E i \in Iface : targets = {i}
    PROVE  PlanOK(NetPlan(kind, cleanup, blocked, rows, written, pinned, targets, dups))
<1> DEFINE plan == NetPlan(kind, cleanup, blocked, rows, written, pinned, targets, dups)
<1>1. TheFile \in plan.leases
  BY DEF NetPlan, Of, TheFile
<1>2. plan.rows = [i \in written |-> rows[i]]
  BY DEF NetPlan
<1>3. /\ plan.run.kind = kind /\ plan.run.hash = seen.files
      /\ plan.run.render = IF blocked THEN EmptyFile ELSE Render(rows)
      /\ plan.run.targets = [i \in targets |-> rows[i]]
      /\ plan.run.cleanup = cleanup /\ plan.run.cleaned = IF cleanup THEN dups ELSE {}
  BY DEF NetPlan
<1>4. RunOK(plan.run)
  <2> HIDE DEF plan
  <2>3. plan.run.cleaned = IF cleanup THEN Duplicates(plan.run.hash) \cap DOMAIN plan.run.targets ELSE {}
    <3>1. seen.files # None
      BY NoneIsNoFile DEF Seen
    <3> QED BY <1>3, <3>1 DEF Dups
  <2>4. ASSUME ~blocked, NEW i \in targets PROVE plan.run.render[i] = RowStanza(plan.run.targets[i])
    <3>1. rows[i] # None /\ i \in Iface /\ plan.run.targets[i] = rows[i]
      BY <1>3, NoneIsNoFile
    <3>2. plan.run.render = Render(rows)
      BY <1>3, <2>4
    <3> QED BY <3>1, <3>2 DEF Render, RowStanza
  <2>1. plan.run.render \in File
    BY <1>3, RenderTyped, EmptyFileTyped
  <2>2. seen.files \in NetFiles
    BY DEF Seen
  <2>5. plan.run.render = EmptyFile \/ \A i \in DOMAIN plan.run.targets : plan.run.render[i] = RowStanza(plan.run.targets[i])
    BY <1>3, <2>4
  <2> QED BY <1>3, <2>1, <2>2, <2>3, <2>5 DEF RunOK
<1> HIDE DEF plan
<1>5. PlanOK(plan)
  BY <1>1, <1>2, <1>4 DEF PlanOK
<1> QED BY <1>5 DEF plan

\* An update changes the addresses of its interface, or switches it.
LEMMA UpdatePlanTyped ==
    ASSUME DesiredOK(desired), seen \in Seen, NEW j \in NetJob, j.kind = "net.iface.update",
           IfaceUpdatePlan(j).found
    PROVE  PlanOK(IfaceUpdatePlan(j))
<1> DEFINE i    == j.iface
           base == Resolved(i)
           rows == [base EXCEPT ![i].addrs = IF j.addrs = None THEN @ ELSE j.addrs,
                                ![i].enabled = IF j.enabled = None THEN @ ELSE j.enabled]
           dups == Dups \cap {i}
           plan == NetPlan(j.kind, j.cleanup, UpdateBlocked(j, rows), rows, Adopted \cup {i}, {i}, {i}, dups)
<1>1. i \in Managed
  BY DEF IfaceUpdatePlan, NotFound
<1>2. IfaceUpdatePlan(j) = plan
  BY <1>1 DEF IfaceUpdatePlan
<1>3. Managed \subseteq Iface /\ Adopted \subseteq Managed
  BY DEF Managed, Adopted
<1>4. base \in [Iface -> Row] /\ \A k \in Managed : base[k] \in Desc
  BY ResolvedTyped
<1>5. j.addrs \in (SUBSET Addr) \cup {None} /\ j.enabled \in BOOLEAN \cup {None}
  BY DEF NetJob
<1>6. rows[i] \in Desc
  <2> HIDE DEF base
  <2>1. base[i] \in Desc
    BY <1>1, <1>4
  <2>2. rows[i] = [base[i] EXCEPT !.addrs = IF j.addrs = None THEN @ ELSE j.addrs,
                                  !.enabled = IF j.enabled = None THEN @ ELSE j.enabled]
    BY <1>1, <1>3, <1>4
  <2> DEFINE addrs   == IF j.addrs = None THEN base[i].addrs ELSE j.addrs
             enabled == IF j.enabled = None THEN base[i].enabled ELSE j.enabled
  <2>3. rows[i] = [base[i] EXCEPT !.addrs = addrs, !.enabled = enabled]
    BY <2>1, <2>2 DEF Desc
  <2>4. addrs \in SUBSET Addr
    <3>1. CASE j.addrs = None
      BY <2>1, <3>1 DEF Desc
    <3>2. CASE j.addrs # None
      BY <3>2, <1>5
    <3> QED BY <3>1, <3>2
  <2>5. enabled \in BOOLEAN
    <3>1. CASE j.enabled = None
      BY <2>1, <3>1 DEF Desc
    <3>2. CASE j.enabled # None
      BY <3>2, <1>5
    <3> QED BY <3>1, <3>2
  <2> HIDE DEF rows, addrs, enabled
  <2> QED BY <2>1, <2>3, <2>4, <2>5 DEF Desc
<1>7. rows \in [Iface -> Row] /\ \A k \in Managed : rows[k] \in Desc
  <2>1. \A k \in Iface : k # i => rows[k] = base[k]
    BY <1>4
  <2>2. DOMAIN rows = Iface /\ rows = [k \in DOMAIN rows |-> rows[k]]
    BY <1>4
  <2> HIDE DEF base, rows
  <2> QED BY <2>1, <2>2, <1>4, <1>6, <1>3 DEF Row
<1> HIDE DEF rows, base, dups
<1>8. PlanOK(plan)
  <2>1. Adopted \cup {i} \in SUBSET Iface /\ {i} \in SUBSET (Adopted \cup {i})
    BY <1>1, <1>3
  <2>2. \A k \in Adopted \cup {i} : rows[k] \in Desc
    BY <1>1, <1>3, <1>7
  <2>3. j.kind = "net.iface.update" => \E k \in Iface : {i} = {k}
    BY <1>1, <1>3
  <2>4. j.kind \in {"net.iface.update", "net.pool.apply"} /\ j.cleanup \in BOOLEAN
    BY DEF NetJob
  <2>5. dups = Dups \cap {i}
    BY DEF dups
  <2> QED BY <2>1, <2>2, <2>3, <2>4, <2>5, <1>7, NetPlanTyped
<1> QED BY <1>2, <1>8

\* A pool gives its addresses to every managed interface and switches it on.
LEMMA PoolPlanTyped ==
    ASSUME DesiredOK(desired), seen \in Seen, NEW j \in NetJob, j.kind = "net.pool.apply"
    PROVE  PlanOK(PoolApplyPlan(j)) /\ PoolApplyPlan(j).found
<1> DEFINE base == Resolved(None)
           overflow == \E i \in Managed : PoolAddr(j.start, i) \notin Addr
           row(i) == [base[i] EXCEPT !.addrs = IF overflow THEN @ ELSE {PoolAddr(j.start, i)},
                                     !.enabled = TRUE]
           rows == [i \in Iface |-> IF i \notin Managed THEN None ELSE row(i)]
           blocked == overflow \/ PoolBlocked(j, base)
           plan == NetPlan(j.kind, j.cleanup, blocked, rows, Managed, Managed, Managed, Dups \cap Managed)
<1>1. PoolApplyPlan(j) = plan
  BY DEF PoolApplyPlan
<1>2. Managed \subseteq Iface
  BY DEF Managed
<1>3. \A i \in Managed : base[i] \in Desc
  BY ResolvedTyped
<1>4. ASSUME NEW i \in Managed PROVE row(i) \in Desc
  <2>1. base[i] \in Desc
    BY <1>3
  <2>2. ~overflow => {PoolAddr(j.start, i)} \in SUBSET Addr
    OBVIOUS
  <2> HIDE DEF overflow, base
  <2> QED BY <2>1, <2>2 DEF Desc
<1> HIDE DEF row, base, overflow, blocked
<1>5. rows \in [Iface -> Row] /\ \A i \in Managed : rows[i] \in Desc
  BY <1>2, <1>4 DEF Row
<1> HIDE DEF rows
<1>6. PlanOK(plan)
  <2>1. Managed \in SUBSET Iface /\ Managed \in SUBSET Managed
    BY <1>2
  <2>2. j.kind = "net.iface.update" => \E k \in Iface : Managed = {k}
    OBVIOUS
  <2>3. j.kind \in {"net.iface.update", "net.pool.apply"} /\ j.cleanup \in BOOLEAN
    BY DEF NetJob
  <2> QED BY <2>1, <2>2, <2>3, <1>5, NetPlanTyped
<1>7. plan.found
  BY DEF NetPlan
<1> QED BY <1>1, <1>6, <1>7

LEMMA PlanTyped ==
    ASSUME DesiredOK(desired), seen \in Seen, NEW j \in NetJob, PlanOf(j).found
    PROVE  PlanOK(PlanOf(j))
<1>1. j.kind \in {"net.iface.update", "net.pool.apply"}
  BY DEF NetJob
<1> QED BY <1>1, UpdatePlanTyped, PoolPlanTyped DEF PlanOf

-----------------------------------------------------------------------------
(***************************************************************************)
(* The verbs.                                                              *)
(***************************************************************************)
LEMMA FilesTyped == ASSUME NEW h \in NetHost PROVE Files(h) \in NetFiles
BY DEF NetHost, NetFiles, Files

LEMMA MergedTyped ==
    ASSUME NEW f \in NetFiles, NEW i \in Iface PROVE Merged(f, i) \subseteq Stanza
<1>1. f.foreign[i] \in Stanza \cup {None}
  BY DEF NetFiles, File
<1>2. f.xinas # None => f.xinas[i] \in Stanza \cup {None}
  BY DEF NetFiles, File
<1> QED BY <1>1, <1>2 DEF Merged

LEMMA ConfiguredTyped ==
    ASSUME NEW f \in NetFiles, NEW i \in Iface
    PROVE  Configured(f, i) \subseteq Addr /\ ConfiguredRules(f, i) \subseteq Addr \X Tables
<1>1. \A s \in Merged(f, i) : s.addrs \subseteq Addr /\ {s.table} \ {None} \subseteq Tables
  BY MergedTyped DEF Stanza
<1>2. Configured(f, i) \subseteq Addr
  BY <1>1 DEF Configured
<1>3. ConfiguredRules(f, i) \subseteq Addr \X Tables
  BY <1>1 DEF ConfiguredRules
<1> QED BY <1>2, <1>3

LEMMA WriteTyped ==
    ASSUME NEW h \in NetHost, NEW file \in {"xinas", "foreign"}, NEW text \in File
    PROVE  LET g == WriteNetplan(h, file, text).host
           IN /\ g \in NetHost
              /\ g.addrs = h.addrs /\ g.linked = h.linked
              /\ g.xinas = IF file = "xinas" THEN text ELSE h.xinas
              /\ g.foreign = IF file = "foreign" THEN text ELSE h.foreign
<1>1. CASE file = "xinas"
  BY <1>1 DEF WriteNetplan, Done, NetHost
<1>2. CASE file = "foreign"
  BY <1>2 DEF WriteNetplan, Done, NetHost
<1> QED BY <1>1, <1>2

\* Applying adds to the interfaces with carrier what the files configure.
LEMMA ApplyTyped ==
    ASSUME NEW h \in NetHost
    PROVE  LET g == NetplanApply(h).host
           IN /\ g \in NetHost /\ Files(g) = Files(h) /\ g.linked = h.linked
              /\ g.addrs = [i \in Iface |-> IF i \in h.linked THEN h.addrs[i] \cup Configured(Files(h), i)
                                            ELSE h.addrs[i]]
<1> DEFINE addrs == [i \in Iface |-> IF i \in h.linked THEN h.addrs[i] \cup Configured(Files(h), i)
                                     ELSE h.addrs[i]]
           rules == h.rules \cup UNION {ConfiguredRules(Files(h), i) : i \in h.linked}
           g == NetplanApply(h).host
<1>1. g = [h EXCEPT !.addrs = addrs, !.rules = rules]
  BY DEF NetplanApply, Bound, Done, NetHost
<1>2. Files(h) \in NetFiles /\ h.linked \subseteq Iface
  BY FilesTyped DEF NetHost
<1>3. addrs \in [Iface -> SUBSET Addr]
  <2>1. \A i \in Iface : h.addrs[i] \subseteq Addr
    BY DEF NetHost
  <2> QED BY <1>2, <2>1, ConfiguredTyped
<1>4. rules \in SUBSET (Addr \X Tables)
  <2>1. h.rules \subseteq Addr \X Tables
    BY DEF NetHost
  <2> QED BY <1>2, <2>1, ConfiguredTyped
<1> HIDE DEF rules, addrs
<1>5. g \in NetHost
  BY <1>1, <1>3, <1>4 DEF NetHost
<1>6. Files(g) = Files(h) /\ g.linked = h.linked /\ g.addrs = addrs
  BY <1>1 DEF NetHost, Files
<1> HIDE DEF g
<1>7. g \in NetHost /\ Files(g) = Files(h) /\ g.linked = h.linked /\ g.addrs = addrs
  BY <1>5, <1>6
<1> QED BY <1>7 DEF g, addrs

LEMMA RulesFlushTyped ==
    ASSUME NEW h \in NetHost, NEW tables
    PROVE  LET g == RulesFlush(h, tables).host
           IN g \in NetHost /\ Files(g) = Files(h) /\ g.linked = h.linked /\ g.addrs = h.addrs
<1> DEFINE rules == {r \in h.rules : r[2] \notin tables}
           g == RulesFlush(h, tables).host
<1>1. g = [h EXCEPT !.rules = rules]
  BY DEF RulesFlush, Done, NetHost
<1>2. rules \in SUBSET (Addr \X Tables)
  BY DEF NetHost
<1> HIDE DEF rules
<1>3. g \in NetHost /\ Files(g) = Files(h) /\ g.linked = h.linked /\ g.addrs = h.addrs
  BY <1>1, <1>2 DEF NetHost, Files
<1> QED BY <1>3

LEMMA AddrFlushTyped ==
    ASSUME NEW h \in NetHost, NEW dev \in Iface
    PROVE  LET g == AddrFlush(h, dev).host
           IN /\ g \in NetHost /\ Files(g) = Files(h) /\ g.linked = h.linked
              /\ g.addrs = [h.addrs EXCEPT ![dev] = {}]
<1> DEFINE addrs == [h.addrs EXCEPT ![dev] = {}]
           g == AddrFlush(h, dev).host
<1>1. g = [h EXCEPT !.addrs = addrs]
  BY DEF AddrFlush, Done, NetHost
<1>2. addrs \in [Iface -> SUBSET Addr]
  BY DEF NetHost
<1> HIDE DEF addrs
<1>3. g \in NetHost /\ Files(g) = Files(h) /\ g.linked = h.linked /\ g.addrs = addrs
  BY <1>1, <1>2 DEF NetHost, Files
<1> QED BY <1>3 DEF addrs

\* What a call does: a write replaces its file, a flush empties its interface, an apply
\* adds what the files configure.
LEMMA PerformTyped ==
    ASSUME NEW h \in NetHost, NEW c \in NetCall
    PROVE  LET g == NetPerform(h, c).host
           IN /\ g \in NetHost /\ g.linked = h.linked
              /\ g.xinas = IF IsWrite(c, "xinas") THEN c.arg ELSE h.xinas
              /\ g.foreign = IF IsWrite(c, "foreign") THEN c.arg ELSE h.foreign
              /\ \A i \in Iface : g.addrs[i] =
                    IF c.verb = "flush" /\ c.on = i THEN {}
                    ELSE IF c.verb = "apply" /\ i \in h.linked
                         THEN h.addrs[i] \cup Configured(Files(h), i)
                    ELSE h.addrs[i]
<1> DEFINE g == NetPerform(h, c).host
           Goal == /\ g \in NetHost /\ g.linked = h.linked
                   /\ g.xinas = IF IsWrite(c, "xinas") THEN c.arg ELSE h.xinas
                   /\ g.foreign = IF IsWrite(c, "foreign") THEN c.arg ELSE h.foreign
                   /\ \A i \in Iface : g.addrs[i] =
                         IF c.verb = "flush" /\ c.on = i THEN {}
                         ELSE IF c.verb = "apply" /\ i \in h.linked
                              THEN h.addrs[i] \cup Configured(Files(h), i)
                         ELSE h.addrs[i]
<1>1. h.addrs \in [Iface -> SUBSET Addr]
  BY DEF NetHost
<1>2. ASSUME c.verb = "write" PROVE Goal
  <2>1. c.on \in {"xinas", "foreign"} /\ c.arg \in File
    BY <1>2 DEF NetCall
  <2>2. g = WriteNetplan(h, c.on, c.arg).host
    BY <1>2 DEF NetPerform
  <2> HIDE DEF g
  <2> QED BY <1>2, <2>1, <2>2, WriteTyped DEF IsWrite
<1>3. ASSUME c.verb = "generate" PROVE Goal
  <2>1. g = h
    BY <1>3 DEF NetPerform, Done
  <2> HIDE DEF g
  <2> QED BY <1>3, <2>1 DEF IsWrite
<1>4. ASSUME c.verb = "apply" PROVE Goal
  <2>1. g = NetplanApply(h).host
    BY <1>4 DEF NetPerform
  <2> HIDE DEF g
  <2>2. /\ g \in NetHost /\ Files(g) = Files(h) /\ g.linked = h.linked
        /\ g.addrs = [i \in Iface |-> IF i \in h.linked THEN h.addrs[i] \cup Configured(Files(h), i)
                                      ELSE h.addrs[i]]
    BY <2>1, ApplyTyped
  <2>3. g.xinas = h.xinas /\ g.foreign = h.foreign
    BY <2>2 DEF Files
  <2>4. \A i \in Iface : g.addrs[i] =
           IF i \in h.linked THEN h.addrs[i] \cup Configured(Files(h), i) ELSE h.addrs[i]
    BY <2>2
  <2> QED BY <1>4, <2>2, <2>3, <2>4 DEF IsWrite
<1>5. ASSUME c.verb = "rules" PROVE Goal
  <2>1. g = RulesFlush(h, c.arg).host
    BY <1>5 DEF NetPerform
  <2> HIDE DEF g
  <2>2. g \in NetHost /\ Files(g) = Files(h) /\ g.linked = h.linked /\ g.addrs = h.addrs
    BY <2>1, RulesFlushTyped
  <2> QED BY <1>5, <2>2 DEF IsWrite, Files
<1>6. ASSUME c.verb = "flush" PROVE Goal
  <2>1. g = AddrFlush(h, c.on).host /\ c.on \in Iface
    BY <1>6 DEF NetPerform, NetCall
  <2> HIDE DEF g
  <2>2. g \in NetHost /\ Files(g) = Files(h) /\ g.linked = h.linked /\ g.addrs = [h.addrs EXCEPT ![c.on] = {}]
    BY <2>1, AddrFlushTyped
  <2>3. \A i \in Iface : g.addrs[i] = IF c.on = i THEN {} ELSE h.addrs[i]
    BY <2>2, <1>1
  <2> QED BY <1>6, <2>2, <2>3 DEF IsWrite, Files
<1>7. c.verb \in {"write", "generate", "apply", "rules", "flush"}
  BY DEF NetCall
<1>8. Goal
  BY <1>2, <1>3, <1>4, <1>5, <1>6, <1>7
<1> QED BY <1>8

\* Rules go with their table and come with an apply.
LEMMA PerformRules ==
    ASSUME NEW h \in NetHost, NEW c \in NetCall
    PROVE  LET g == NetPerform(h, c).host
           IN g.rules = IF c.verb = "rules" THEN {r \in h.rules : r[2] \notin c.arg}
                        ELSE IF c.verb = "apply"
                             THEN h.rules \cup UNION {ConfiguredRules(Files(h), d) : d \in h.linked}
                        ELSE h.rules
<1> DEFINE g == NetPerform(h, c).host
           added == UNION {ConfiguredRules(Files(h), d) : d \in h.linked}
           Goal == g.rules = IF c.verb = "rules" THEN {r \in h.rules : r[2] \notin c.arg}
                             ELSE IF c.verb = "apply" THEN h.rules \cup added
                             ELSE h.rules
<1>1. ASSUME c.verb = "write" PROVE Goal
  <2>1. g = [h EXCEPT ![c.on] = c.arg] /\ c.on \in {"xinas", "foreign"}
    BY <1>1 DEF NetPerform, WriteNetplan, Done, NetCall
  <2> QED BY <1>1, <2>1 DEF NetHost
<1>2. ASSUME c.verb = "generate" PROVE Goal
  BY <1>2 DEF NetPerform, Done
<1>3. ASSUME c.verb = "apply" PROVE Goal
  <2>1. g = Bound(h, h.linked)
    BY <1>3 DEF NetPerform, NetplanApply, Done
  <2>2. Bound(h, h.linked).rules = h.rules \cup added
    BY DEF Bound, NetHost
  <2> QED BY <1>3, <2>1, <2>2
<1>4. ASSUME c.verb = "rules" PROVE Goal
  BY <1>4 DEF NetPerform, RulesFlush, Done, NetHost
<1>5. ASSUME c.verb = "flush" PROVE Goal
  BY <1>5 DEF NetPerform, AddrFlush, Done, NetHost
<1>6. c.verb \in {"write", "generate", "apply", "rules", "flush"}
  BY DEF NetCall
<1>7. Goal
  BY <1>1, <1>2, <1>3, <1>4, <1>5, <1>6
<1> QED BY <1>7

-----------------------------------------------------------------------------
(***************************************************************************)
(* The calls of a stage and of a rollback.                                 *)
(***************************************************************************)
\* The flush calls name each device once, in whatever order.
LEMMA FlushAddrsCovers ==
    ASSUME NEW devs \in SUBSET Iface
    PROVE  /\ FlushAddrs(devs) \in Seq(NetCall)
           /\ \A n \in DOMAIN FlushAddrs(devs) : FlushAddrs(devs)[n].verb = "flush"
           /\ \A i \in devs : \E n \in DOMAIN FlushAddrs(devs) : FlushAddrs(devs)[n].on = i
<1> DEFINE N == Cardinality(devs)
           order == SetToSeq(devs)
           calls == FlushAddrs(devs)
<1>1. IsFiniteSet(devs) /\ N \in Nat /\ ExistsBijection(1 .. N, devs)
  BY EnoughTables, FS_Subset, FS_CardinalityType
<1>2. order \in [1 .. N -> devs] /\ IsInjective(order)
  <2>1. PICK f \in Bijection(1 .. N, devs) : TRUE
    BY <1>1 DEF ExistsBijection
  <2>2. f \in [1 .. N -> devs] /\ IsInjective(f)
    BY <2>1 DEF Bijection, Injection, IsInjective
  <2> QED BY <2>2 DEF SetToSeq
<1> HIDE DEF order
<1>3. \A i \in devs : \E n \in 1 .. N : order[n] = i
  <2>1. order \in Injection(1 .. N, devs)
    BY <1>2 DEF Injection, IsInjective
  <2>2. Cardinality(1 .. N) = N
    BY <1>1, FS_Interval
  <2>3. order \in Surjection(1 .. N, devs)
    BY <1>1, <2>1, <2>2, FS_Injection
  <2> QED BY <2>3 DEF Surjection
<1>4. calls = [n \in 1 .. N |-> Call("flush", order[n], None)]
  BY DEF FlushAddrs, order
<1>5. \A n \in 1 .. N : calls[n] \in NetCall /\ calls[n].verb = "flush" /\ calls[n].on = order[n]
  BY <1>4, <1>2 DEF Call, NetCall
<1> HIDE DEF calls
<1>6. DOMAIN calls = 1 .. N /\ calls \in Seq(NetCall)
  <2>1. DOMAIN calls = 1 .. N /\ calls \in [1 .. N -> NetCall]
    BY <1>4, <1>5
  <2> QED BY <1>1, <2>1, SeqDef
<1>7. /\ calls \in Seq(NetCall) /\ \A n \in DOMAIN calls : calls[n].verb = "flush"
      /\ \A i \in devs : \E n \in DOMAIN calls : calls[n].on = i
  BY <1>3, <1>5, <1>6
<1> QED BY <1>7 DEF calls

\* One device and its table, or every one.
LEMMA NetFlushCovers ==
    ASSUME NEW run, RunOK(run)
    PROVE  /\ NetFlush(run) \in Seq(NetCall)
           /\ \A c \in Range(NetFlush(run)) : c.verb \in {"rules", "flush"}
           /\ \A i \in DOMAIN run.targets :
                 /\ Unflushed(NetFlush(run), i)
                 /\ run.targets[i].table # 0 => Unruled(NetFlush(run), run.targets[i].table)
<1> DEFINE Covers(calls, devs, tables) ==
              /\ calls \in Seq(NetCall)
              /\ \A c \in Range(calls) : c.verb \in {"rules", "flush"}
              /\ \A i \in devs : Unflushed(calls, i)
              /\ \A table \in tables : Unruled(calls, table)
<1>1. ASSUME NEW tables \in SUBSET Tables, NEW devs \in SUBSET Iface
      PROVE  Covers(<<Call("rules", None, tables)>> \o FlushAddrs(devs), devs, tables)
  <2> DEFINE first == <<Call("rules", None, tables)>>
             rest  == FlushAddrs(devs)
             calls == first \o rest
  <2>1. first \in Seq(NetCall) /\ Range(first) = {Call("rules", None, tables)}
    <3>1. Call("rules", None, tables) \in NetCall
      BY DEF Call, NetCall
    <3> QED BY <3>1 DEF Range
  <2>2. /\ rest \in Seq(NetCall) /\ \A c \in Range(rest) : c.verb = "flush"
        /\ \A i \in devs : \E c \in Range(rest) : c.verb = "flush" /\ c.on = i
    <3>1. /\ rest \in Seq(NetCall) /\ \A n \in DOMAIN rest : rest[n].verb = "flush"
          /\ \A i \in devs : \E n \in DOMAIN rest : rest[n].on = i
      BY FlushAddrsCovers
    <3> HIDE DEF rest
    <3> QED BY <3>1 DEF Range
  <2> HIDE DEF first, rest
  <2>3. calls \in Seq(NetCall)
    BY <2>1, <2>2
  <2>4. Range(calls) = Range(first) \cup Range(rest)
    BY <2>1, <2>2, RangeConcatenation
  <2> HIDE DEF calls
  <2>5. Call("rules", None, tables).verb = "rules" /\ Call("rules", None, tables).arg = tables
    BY DEF Call
  <2>6. /\ calls \in Seq(NetCall)
        /\ \A c \in Range(calls) : c.verb \in {"rules", "flush"}
        /\ \A i \in devs : Unflushed(calls, i)
        /\ \A table \in tables : Unruled(calls, table)
    BY <2>1, <2>2, <2>3, <2>4, <2>5 DEF Unflushed, Unruled
  <2> QED BY <2>6 DEF calls, first, rest
<1>2. CASE run.kind = "net.iface.update"
  <2> DEFINE dev == CHOOSE i \in DOMAIN run.targets : TRUE
             table == run.targets[dev].table
  <2>1. DOMAIN run.targets = {dev} /\ dev \in Iface
    BY <1>2 DEF RunOK
  <2>2. table \in Tables
    BY <2>1 DEF RunOK, Desc
  <2>3. NetFlush(run) = <<Call("rules", None, {table})>> \o FlushAddrs({dev})
    BY <1>2 DEF NetFlush, FlushSurgical
  <2> HIDE DEF dev, table
  <2>4. {table} \in SUBSET Tables /\ {dev} \in SUBSET Iface
    BY <2>1, <2>2
  <2> HIDE DEF Covers
  <2>5. Covers(NetFlush(run), DOMAIN run.targets, {table})
    BY <1>1, <2>1, <2>3, <2>4
  <2>6. \A i \in DOMAIN run.targets : run.targets[i].table = table
    BY <2>1 DEF table
  <2> QED BY <2>5, <2>6 DEF Covers
<1>3. CASE run.kind # "net.iface.update"
  <2>1. NetFlush(run) = <<Call("rules", None, Table)>> \o FlushAddrs(Iface)
    BY <1>3 DEF NetFlush, FlushGlobal
  <2>2. Table \in SUBSET Tables /\ Iface \in SUBSET Iface /\ DOMAIN run.targets \subseteq Iface
    BY DEF Tables, RunOK
  <2> HIDE DEF Covers
  <2>3. Covers(NetFlush(run), Iface, Table)
    BY <1>1, <2>1, <2>2
  <2>4. \A i \in DOMAIN run.targets : run.targets[i].table # 0 => run.targets[i].table \in Table
    BY DEF RunOK, Desc, Tables
  <2> QED BY <2>2, <2>3, <2>4 DEF Covers
<1> QED BY <1>2, <1>3

LEMMA HeadAndRest ==
    ASSUME NEW calls \in Seq(NetCall), calls # <<>>
    PROVE  /\ Head(calls) \in NetCall /\ Tail(calls) \in Seq(NetCall)
           /\ Range(calls) = {Head(calls)} \cup Range(Tail(calls))
<1>1. /\ Head(calls) \in NetCall /\ Tail(calls) \in Seq(NetCall)
      /\ Len(Tail(calls)) = Len(calls) - 1
      /\ \A n \in 1 .. Len(Tail(calls)) : Tail(calls)[n] = calls[n + 1]
  BY HeadTailProperties
<1> DEFINE rest == Tail(calls)
<1>2. Head(calls) = calls[1] /\ Len(calls) \in Nat \ {0} /\ DOMAIN calls = 1 .. Len(calls)
  BY EmptySeq, LenProperties
<1>3. DOMAIN rest = 1 .. Len(rest)
  BY <1>1, LenProperties
<1> HIDE DEF rest
<1>4. \A n \in DOMAIN calls : calls[n] = Head(calls) \/ calls[n] \in Range(rest)
  <2> SUFFICES ASSUME NEW n \in DOMAIN calls, n # 1 PROVE calls[n] \in Range(rest)
    BY <1>2
  <2>1. n - 1 \in 1 .. Len(rest) /\ n = (n - 1) + 1
    BY <1>1, <1>2 DEF rest
  <2>2. rest[n - 1] = calls[n]
    BY <1>1, <2>1 DEF rest
  <2> QED BY <1>3, <2>1, <2>2 DEF Range
<1>5. \A n \in DOMAIN rest : rest[n] \in Range(calls)
  <2> SUFFICES ASSUME NEW n \in DOMAIN rest PROVE rest[n] \in Range(calls)
    OBVIOUS
  <2>1. n + 1 \in 1 .. Len(calls) /\ rest[n] = calls[n + 1]
    BY <1>1, <1>2, <1>3 DEF rest
  <2> QED BY <1>2, <2>1 DEF Range
<1>6. Range(calls) = {Head(calls)} \cup Range(rest)
  BY <1>2, <1>4, <1>5 DEF Range
<1> QED BY <1>1, <1>6 DEF rest

LEMMA OneCall ==
    ASSUME NEW c \in NetCall
    PROVE  <<c>> \in Seq(NetCall) /\ Len(<<c>>) = 1 /\ <<c>>[1] = c /\ Range(<<c>>) = {c}
<1>1. <<c>> \in Seq(NetCall) /\ Len(<<c>>) = 1 /\ <<c>>[1] = c /\ DOMAIN <<c>> = {1}
  OBVIOUS
<1> DEFINE one == <<c>>
<1>2. one[1] = c /\ DOMAIN one = {1}
  BY <1>1
<1> HIDE DEF one
<1>3. Range(one) = {c}
  BY <1>2 DEF Range
<1> QED BY <1>1, <1>3 DEF one

LEMMA NoCall == <<>> \in Seq(NetCall) /\ Range(<<>>) = {}
BY DEF Range

LEMMA JoinedCalls ==
    ASSUME NEW s1 \in Seq(NetCall), NEW s2 \in Seq(NetCall)
    PROVE  s1 \o s2 \in Seq(NetCall) /\ Range(s1 \o s2) = Range(s1) \cup Range(s2)
<1>1. s1 \o s2 \in Seq(NetCall)
  BY ConcatProperties
<1> QED BY <1>1, RangeConcatenation

\* The stage that writes: our file, then the cleaned foreign one.
LEMMA RenderWriteCalls ==
    ASSUME NEW run, RunOK(run), NEW h, NEW s \in Stash, s.before # None
    PROVE  LET calls == NetRenderWrite(run, h, s).calls
           IN /\ calls \in Seq(NetCall)
              /\ Writes(calls, "xinas", run.render) /\ Unwritten(calls, "xinas")
              /\ Writes(calls, "foreign", Cleaned(run, s.before))
              /\ run.cleaned # {} => Unwritten(calls, "foreign")
<1> DEFINE cleaned == Cleaned(run, s.before)
           ours == Call("write", "xinas", run.render)
           others == Call("write", "foreign", cleaned)
           generate == Call("generate", None, None)
           second == If(run.cleaned # {}, <<others>>)
           all == NetRenderWrite(run, h, s).calls
<1>1. s.before \in NetFiles
  BY DEF Stash
<1>2. cleaned \in File /\ run.render \in File
  BY <1>1 DEF Cleaned, NetFiles, File, RunOK
<1>3. /\ ours \in NetCall /\ IsWrite(ours, "xinas") /\ ~IsWrite(ours, "foreign") /\ ours.arg = run.render
      /\ others \in NetCall /\ IsWrite(others, "foreign") /\ ~IsWrite(others, "xinas") /\ others.arg = cleaned
      /\ generate \in NetCall /\ ~IsWrite(generate, "xinas") /\ ~IsWrite(generate, "foreign")
  BY <1>2 DEF Call, NetCall, IsWrite
<1>4. all = <<ours>> \o second \o <<generate>>
  BY DEF NetRenderWrite, Issue, Cleaned
<1> HIDE DEF ours, others, generate, cleaned
<1>5. /\ second \in Seq(NetCall) /\ Range(second) \subseteq {others}
      /\ run.cleaned # {} => others \in Range(second)
  <2>1. CASE run.cleaned # {}
    BY <1>3, <2>1, OneCall DEF If
  <2>2. CASE run.cleaned = {}
    BY <2>2, NoCall DEF If
  <2> QED BY <2>1, <2>2
<1> DEFINE first == <<ours>>
           last  == <<generate>>
           front == first \o second
<1>6. /\ first \in Seq(NetCall) /\ Range(first) = {ours}
      /\ last \in Seq(NetCall) /\ Range(last) = {generate}
  BY <1>3, OneCall
<1>7. all = front \o last
  BY <1>4
<1> HIDE DEF first, second, last, all
<1>8. front \in Seq(NetCall) /\ Range(front) = Range(first) \cup Range(second)
  BY <1>5, <1>6, JoinedCalls
<1> HIDE DEF front
<1>9. all \in Seq(NetCall) /\ Range(all) = Range(front) \cup Range(last)
  BY <1>6, <1>7, <1>8, JoinedCalls
<1>10. \A c \in Range(all) : /\ IsWrite(c, "foreign") => c.arg = cleaned
                             /\ IsWrite(c, "xinas") => c.arg = run.render
  BY <1>3, <1>5, <1>6, <1>8, <1>9
<1>11. Unwritten(all, "xinas") /\ (run.cleaned # {} => Unwritten(all, "foreign"))
  BY <1>3, <1>5, <1>6, <1>8, <1>9 DEF Unwritten
<1>12. /\ all \in Seq(NetCall)
       /\ Writes(all, "xinas", run.render) /\ Unwritten(all, "xinas")
       /\ Writes(all, "foreign", cleaned)
       /\ run.cleaned # {} => Unwritten(all, "foreign")
  <2>1. Writes(all, "xinas", run.render)
    BY <1>10 DEF Writes
  <2>2. Writes(all, "foreign", cleaned)
    BY <1>10 DEF Writes
  <2> QED BY <1>9, <1>11, <2>1, <2>2
<1> QED BY <1>12 DEF all, cleaned

StageNumbers == 1 .. 5

\* What a stage that passes its checks leaves to do.
LEMMA StageTyped ==
    ASSUME NEW run, RunOK(run), NEW h \in NetHost, NEW s \in Stash, NEW n \in StageNumbers,
           n > 1 => s.before # None, NetRunStage(run, NetStages[n], h, s).pass
    PROVE  LET r == NetRunStage(run, NetStages[n], h, s)
           IN /\ r.calls \in Seq(NetCall) /\ r.stash \in Stash
              /\ IF n = 1 THEN r.calls = <<>> /\ r.stash.before = Files(h) /\ run.hash = Files(h)
                 ELSE r.stash = s
              /\ n > 1 => Writes(r.calls, "foreign", Cleaned(run, s.before))
<1> DEFINE r == NetRunStage(run, NetStages[n], h, s)
           Goal == /\ r.calls \in Seq(NetCall) /\ r.stash \in Stash
                   /\ IF n = 1 THEN r.calls = <<>> /\ r.stash.before = Files(h) /\ run.hash = Files(h)
                      ELSE r.stash = s
                   /\ n > 1 => Writes(r.calls, "foreign", Cleaned(run, s.before))
     <1>1. /\ NetStages[1] = "preflight" /\ NetStages[2] = "render_write" /\ NetStages[3] = "flush"
      /\ NetStages[4] = "apply" /\ NetStages[5] = "verify"
  BY DEF NetStages
<1>2. <<>> \in Seq(NetCall) /\ Range(<<>>) = {}
  BY NoCall
<1>3. ASSUME n = 1 PROVE Goal
  <2>1. r = NetPreflight(run, h, s)
    BY <1>1, <1>3 DEF NetRunStage
  <2>2. r = Nothing(Saw(s, Files(h))) /\ run.hash \in {None, Files(h)}
    BY <2>1 DEF NetPreflight, Check
  <2>3. run.hash = Files(h)
    BY <2>2, NoneIsNoFile DEF RunOK
  <2>4. Files(h) \in NetFiles
    BY FilesTyped
  <2>5. Saw(s, Files(h)) \in Stash /\ Saw(s, Files(h)).before = Files(h)
    BY <2>4 DEF Stash, Saw
  <2> HIDE DEF r
  <2>6. r.calls = <<>> /\ r.stash = Saw(s, Files(h))
    BY <2>2 DEF Nothing, Issue
  <2> QED BY <1>2, <1>3, <2>3, <2>5, <2>6
<1>4. ASSUME n = 2 PROVE Goal
  <2>1. r = NetRenderWrite(run, h, s)
    BY <1>1, <1>4 DEF NetRunStage
  <2> HIDE DEF r
  <2>2. r.stash = s
    BY <2>1 DEF NetRenderWrite, Issue
  <2>3. s.before # None
    BY <1>4
  <2>4. r.calls \in Seq(NetCall) /\ Writes(r.calls, "foreign", Cleaned(run, s.before))
    BY <2>1, <2>3, RenderWriteCalls
  <2> QED BY <1>4, <2>2, <2>4
<1>5. ASSUME n = 3 PROVE Goal
  <2>1. r = Issue(s, NetFlush(run))
    BY <1>1, <1>5 DEF NetRunStage
  <2>2. r.stash = s /\ r.calls = NetFlush(run)
    BY <2>1 DEF Issue
  <2> HIDE DEF r
  <2>3. r.calls \in Seq(NetCall) /\ \A c \in Range(r.calls) : c.verb \in {"rules", "flush"}
    BY <2>2, NetFlushCovers
  <2> QED BY <1>5, <2>2, <2>3 DEF Writes, Unwritten, IsWrite
<1>6. ASSUME n = 4 PROVE Goal
  <2>1. r = Issue(s, <<Call("apply", None, None)>>)
    BY <1>1, <1>6 DEF NetRunStage
  <2>2. r.stash = s /\ r.calls = <<Call("apply", None, None)>>
    BY <2>1 DEF Issue
  <2> HIDE DEF r
  <2>3. Call("apply", None, None) \in NetCall /\ Call("apply", None, None).verb = "apply"
    BY DEF Call, NetCall
  <2>4. r.calls \in Seq(NetCall) /\ \A c \in Range(r.calls) : c.verb = "apply"
    BY <2>2, <2>3, OneCall
  <2> QED BY <1>6, <2>2, <2>4 DEF Writes, Unwritten, IsWrite
<1>7. ASSUME n = 5 PROVE Goal
  <2>1. r = Check(\A i \in DOMAIN run.targets : VerifyDev(h, i, run.targets[i]), s)
    BY <1>1, <1>7 DEF NetRunStage
  <2>2. r.stash = s /\ r.calls = <<>>
    BY <2>1 DEF Check
  <2> HIDE DEF r
  <2> QED BY <1>2, <1>7, <2>2 DEF Writes, Unwritten
<1>8. n \in {1, 2, 3, 4, 5}
  BY DEF StageNumbers
<1>9. Goal
  BY <1>3, <1>4, <1>5, <1>6, <1>7, <1>8
<1> QED BY <1>9

\* A stage that passes takes the run one stage on: what it leaves to do makes the rest so.
LEMMA StageForward ==
    ASSUME NEW k, NEW h \in NetHost, RunOK(k.plan.run), k.stash \in Stash, k.base \in NetFiles,
           k.stage \in StageNumbers, k.calls = <<>>, FilesKnown(k, h),
           k.stage = 1 <=> k.stash.before = None, k.stage > 1 => GoingForward(k, h),
           NetRunStage(k.plan.run, NetStages[k.stage], h, k.stash).pass,
           NEW p, p.plan = k.plan, p.base = k.base, p.stage = k.stage + 1,
           p.calls = NetRunStage(k.plan.run, NetStages[k.stage], h, k.stash).calls
    PROVE  GoingForward(p, h)
<1> DEFINE run == k.plan.run
           n == k.stage
           r == NetRunStage(run, NetStages[n], h, k.stash)
<1>1. /\ NetStages[1] = "preflight" /\ NetStages[2] = "render_write" /\ NetStages[3] = "flush"
      /\ NetStages[4] = "apply" /\ NetStages[5] = "verify"
  BY DEF NetStages
<1>2. p.plan.run = run /\ Range(k.calls) = {} /\ Range(<<>>) = {}
  BY NoCall
<1>3. CASE n = 1
  <2>1. r = NetPreflight(run, h, k.stash)
    BY <1>1, <1>3 DEF NetRunStage
  <2>2. /\ r = Nothing(Saw(k.stash, Files(h)))
        /\ run.cleanup \/ DOMAIN run.targets \cap Duplicates(Files(h)) = {}
    BY <2>1 DEF NetPreflight, Check
  <2>3. r.calls = <<>>
    BY <2>2 DEF Nothing, Issue
  <2>4. Files(h) = k.base
    BY <1>3 DEF FilesKnown
  <2> HIDE DEF r, run, n
  <2>5. p.calls = <<>> /\ p.stage = 2
    BY <1>3, <2>3 DEF r, run, n
  <2> QED BY <1>2, <2>2, <2>4, <2>5 DEF GoingForward, Writes
<1>4. ASSUME n > 1
      PROVE  /\ run.cleanup \/ DOMAIN run.targets \cap Duplicates(k.base) = {}
             /\ n > 2 => h.xinas = run.render /\ h.foreign = Cleaned(run, k.base)
             /\ n = 4 => Cleared(run, <<>>, h)
             /\ n = 5 => Put(run, h)
  BY <1>2, <1>4 DEF GoingForward, Unwritten
<1>5. CASE n = 2
  <2>1. r = NetRenderWrite(run, h, k.stash)
    BY <1>1, <1>5 DEF NetRunStage
  <2>2. k.stash.before = k.base /\ k.stash.before # None /\ h.foreign \in {k.base.foreign, Cleaned(run, k.base)}
    BY <1>5 DEF FilesKnown
  <2>3. /\ Writes(r.calls, "xinas", run.render) /\ Unwritten(r.calls, "xinas")
        /\ run.cleaned # {} => Unwritten(r.calls, "foreign")
    BY <2>1, <2>2, RenderWriteCalls
  <2>4. run.cleaned = {} => h.foreign = Cleaned(run, k.base)
    <3>1. k.base.foreign = [i \in Iface |-> k.base.foreign[i]]
      BY DEF NetFiles, File
    <3> QED BY <2>2, <3>1 DEF Cleaned
  <2> HIDE DEF r, run, n
  <2>5. p.calls = r.calls /\ p.stage = 3
    BY <1>5 DEF r, run, n
  <2> QED BY <1>2, <1>4, <1>5, <2>3, <2>4, <2>5 DEF GoingForward
<1>6. CASE n = 3
  <2>1. r = Issue(k.stash, NetFlush(run))
    BY <1>1, <1>6 DEF NetRunStage
  <2>2. r.calls = NetFlush(run)
    BY <2>1 DEF Issue
  <2> HIDE DEF r, run, n
  <2>3. p.calls = NetFlush(run) /\ p.stage = 4
    BY <1>6, <2>2 DEF r, run, n
  <2>4. /\ \A c \in Range(p.calls) : c.verb \in {"rules", "flush"}
        /\ \A i \in DOMAIN run.targets :
              /\ Unflushed(p.calls, i)
              /\ run.targets[i].table # 0 => Unruled(p.calls, run.targets[i].table)
    BY <2>3, NetFlushCovers DEF run
  <2>5. Cleared(run, p.calls, h)
    BY <2>4 DEF Cleared
  <2>6. Writes(p.calls, "xinas", run.render)
    BY <2>4 DEF Writes, IsWrite
  <2> QED BY <1>2, <1>4, <1>6, <2>3, <2>4, <2>5, <2>6 DEF GoingForward
<1>7. CASE n = 4
  <2>1. r = Issue(k.stash, <<ApplyCall>>)
    BY <1>1, <1>7 DEF NetRunStage, ApplyCall
  <2>2. r.calls = <<ApplyCall>>
    BY <2>1 DEF Issue
  <2> HIDE DEF r, run, n
  <2>3. p.calls = <<ApplyCall>> /\ p.stage = 5
    BY <1>7, <2>2 DEF r, run, n
  <2>4. ApplyCall \in NetCall /\ ApplyCall.verb = "apply"
    BY DEF ApplyCall, Call, NetCall
  <2>5. Range(p.calls) = {ApplyCall} /\ p.calls # <<>>
    BY <2>3, <2>4, OneCall
  <2>6. Writes(p.calls, "xinas", run.render)
    BY <2>4, <2>5 DEF Writes, IsWrite
  <2> QED BY <1>2, <1>4, <1>7, <2>3, <2>5, <2>6 DEF GoingForward
<1>8. CASE n = 5
  <2>1. r = Check(\A i \in DOMAIN run.targets : VerifyDev(h, i, run.targets[i]), k.stash)
    BY <1>1, <1>8 DEF NetRunStage
  <2>2. r.calls = <<>> /\ \A i \in DOMAIN run.targets : VerifyDev(h, i, run.targets[i])
    BY <2>1 DEF Check
  <2> HIDE DEF r, run, n
  <2>3. p.calls = <<>> /\ p.stage = 6
    BY <1>8, <2>2 DEF r, run, n
  <2> QED BY <1>2, <1>4, <1>8, <2>2, <2>3 DEF GoingForward, Writes
<1> QED BY <1>3, <1>5, <1>6, <1>7, <1>8 DEF StageNumbers

\* A rollback writes the files it stashed, flushes its devices and applies at last.
LEMMA RollbackCalls ==
    ASSUME NEW run, RunOK(run), NEW s \in Stash, s.before # None
    PROVE  LET calls == NetRollback(run, s).calls
               f     == s.before
           IN /\ calls \in Seq(NetCall) /\ calls # <<>>
              /\ Writes(calls, "foreign", f.foreign) /\ Writes(calls, "xinas", f.xinas)
              /\ Unwritten(calls, "foreign") /\ (f.xinas # None => Unwritten(calls, "xinas"))
              /\ \A n \in DOMAIN calls : calls[n].verb = "apply" <=> n = Len(calls)
              /\ \A i \in DOMAIN run.targets : Unflushed(calls, i)
<1> DEFINE f == s.before
           ours == Call("write", "xinas", f.xinas)
           others == Call("write", "foreign", f.foreign)
           generate == Call("generate", None, None)
           apply == Call("apply", None, None)
           first == If(f.xinas # None, <<ours>>)
           second == <<others, generate>>
           third == NetFlush(run)
           calls == NetRollback(run, s).calls
<1>1. f \in NetFiles
  BY DEF Stash
<1>2. f.foreign \in File /\ f.xinas \in File \cup {None}
  BY <1>1 DEF NetFiles
<1>3. /\ others \in NetCall /\ IsWrite(others, "foreign") /\ ~IsWrite(others, "xinas") /\ others.arg = f.foreign
      /\ generate \in NetCall /\ ~IsWrite(generate, "foreign") /\ ~IsWrite(generate, "xinas")
      /\ apply \in NetCall /\ apply.verb = "apply" /\ others.verb # "apply" /\ generate.verb # "apply"
      /\ ~IsWrite(apply, "foreign") /\ ~IsWrite(apply, "xinas")
  BY <1>2 DEF Call, NetCall, IsWrite
<1>4. f.xinas # None =>
         /\ ours \in NetCall /\ IsWrite(ours, "xinas") /\ ~IsWrite(ours, "foreign")
         /\ ours.arg = f.xinas /\ ours.verb # "apply"
  BY <1>2 DEF Call, NetCall, IsWrite
<1>5. calls = first \o second \o third \o <<apply>>
  BY DEF NetRollback, Issue
<1> HIDE DEF ours, others, generate, apply
<1>6. first \in Seq(NetCall) /\ Range(first) = IF f.xinas # None THEN {ours} ELSE {}
  <2>1. CASE f.xinas # None
    BY <1>4, <2>1, OneCall DEF If
  <2>2. CASE f.xinas = None
    BY <2>2, NoCall DEF If
  <2> QED BY <2>1, <2>2
<1>7. second \in Seq(NetCall) /\ Range(second) = {others, generate}
  <2>1. second \in Seq(NetCall)
    BY <1>3
  <2>2. DOMAIN second = {1, 2} /\ second[1] = others /\ second[2] = generate
    OBVIOUS
  <2> HIDE DEF second
  <2> QED BY <2>1, <2>2 DEF Range
<1>8. /\ third \in Seq(NetCall) /\ \A c \in Range(third) : c.verb \in {"rules", "flush"}
      /\ \A i \in DOMAIN run.targets : Unflushed(third, i)
  BY NetFlushCovers
<1> HIDE DEF first, second, third, calls
<1> DEFINE front == first \o second
           body  == front \o third
<1>9. front \in Seq(NetCall) /\ Range(front) = Range(first) \cup Range(second)
  BY <1>6, <1>7, JoinedCalls
<1> HIDE DEF front
<1>10. body \in Seq(NetCall) /\ Range(body) = Range(front) \cup Range(third)
  BY <1>8, <1>9, JoinedCalls
<1> HIDE DEF body
<1> DEFINE last == <<apply>>
<1>11. last \in Seq(NetCall) /\ Range(last) = {apply} /\ Len(last) = 1 /\ last[1] = apply
  BY <1>3, OneCall
<1>12. calls = body \o last
  BY <1>5 DEF front, body
<1> HIDE DEF last
<1>13. /\ calls \in Seq(NetCall) /\ Range(calls) = Range(body) \cup {apply}
       /\ Len(calls) = Len(body) + 1
       /\ \A n \in 1 .. Len(body) + 1 : calls[n] = IF n <= Len(body) THEN body[n] ELSE last[n - Len(body)]
  <2>1. calls \in Seq(NetCall) /\ Range(calls) = Range(body) \cup {apply}
    BY <1>10, <1>11, <1>12, JoinedCalls
  <2>2. /\ Len(body \o last) = Len(body) + Len(last)
        /\ \A n \in 1 .. Len(body) + Len(last) :
              (body \o last)[n] = IF n <= Len(body) THEN body[n] ELSE last[n - Len(body)]
    BY <1>10, <1>11, ConcatProperties
  <2> QED BY <1>11, <1>12, <2>1, <2>2
<1>14. \A c \in Range(body) : c.verb # "apply"
  BY <1>3, <1>4, <1>6, <1>7, <1>8, <1>9, <1>10
<1>15. \A n \in DOMAIN calls : calls[n].verb = "apply" <=> n = Len(calls)
  <2>1. DOMAIN calls = 1 .. Len(calls) /\ DOMAIN body = 1 .. Len(body) /\ Len(body) \in Nat
    BY <1>10, <1>13, LenProperties
  <2>2. ASSUME NEW n \in DOMAIN calls, n # Len(calls) PROVE calls[n].verb # "apply"
    <3>1. n \in 1 .. Len(body) /\ calls[n] = body[n]
      BY <1>13, <2>1, <2>2
    <3>2. body[n] \in Range(body)
      BY <2>1, <3>1 DEF Range
    <3> QED BY <1>14, <3>1, <3>2
  <2>3. calls[Len(calls)] = apply
    <3> DEFINE m == Len(body)
    <3>1. calls[m + 1] = IF m + 1 <= m THEN body[m + 1] ELSE last[m + 1 - m]
      BY <1>13, <2>1
    <3>2. m \in Nat
      BY <2>1
    <3> HIDE DEF m
    <3>3. calls[m + 1] = last[1]
      BY <3>1, <3>2
    <3> QED BY <1>11, <1>13, <3>3 DEF m
  <2> QED BY <1>3, <2>2, <2>3
<1>16. calls # <<>>
  <2>1. apply \in Range(calls)
    BY <1>13
  <2>2. Range(<<>>) = {}
    BY DEF Range
  <2> QED BY <2>1, <2>2
<1>17. Writes(calls, "foreign", f.foreign) /\ Writes(calls, "xinas", f.xinas)
  BY <1>3, <1>4, <1>6, <1>7, <1>8, <1>9, <1>10, <1>13 DEF Writes, IsWrite
<1>18. Unwritten(calls, "foreign") /\ (f.xinas # None => Unwritten(calls, "xinas"))
  BY <1>3, <1>4, <1>6, <1>7, <1>9, <1>10, <1>13 DEF Unwritten
<1>19. \A i \in DOMAIN run.targets : Unflushed(calls, i)
  BY <1>8, <1>10, <1>13 DEF Unflushed
<1> QED BY <1>13, <1>15, <1>16, <1>17, <1>18, <1>19 DEF calls, f

-----------------------------------------------------------------------------
(***************************************************************************)
(* Desired rows.                                                           *)
(***************************************************************************)
LEMMA WrittenOK ==
    ASSUME NEW d, DesiredOK(d), NEW rows, \A i \in DOMAIN rows : rows[i] \in Desc
    PROVE  DesiredOK(Written(rows, d))
<1> DEFINE w == Written(rows, d)
<1>1. \A i \in Iface : /\ w.rows[i] = IF i \in DOMAIN rows THEN rows[i] ELSE d.rows[i]
                       /\ w.rev[i] = IF i \in DOMAIN rows THEN d.rev[i] + 1 ELSE d.rev[i]
  BY DEF Written, Replaced
<1> HIDE DEF w
<1>2. ASSUME NEW i \in Iface
      PROVE  w.rows[i] \in Desc \cup {None} /\ w.rev[i] \in Nat /\ (w.rows[i] = None <=> w.rev[i] = 0)
  <2>1. d.rows[i] \in Desc \cup {None} /\ d.rev[i] \in Nat /\ (d.rows[i] = None <=> d.rev[i] = 0)
    BY DEF DesiredOK
  <2> QED BY <1>1, <2>1, NoneIsNoFile
<1>3. DesiredOK(w)
  BY <1>2 DEF DesiredOK
<1> QED BY <1>3 DEF w

LEMMA RevertedOK ==
    ASSUME NEW d, DesiredOK(d), NEW prior, PriorOK(prior)
    PROVE  DesiredOK(Reverted(prior, d))
<1> DEFINE w == Reverted(prior, d)
<1>1. \A i \in Iface : /\ w.rows[i] = IF i \in DOMAIN prior THEN prior[i] ELSE d.rows[i]
                       /\ w.rev[i] = IF i \notin DOMAIN prior THEN d.rev[i]
                                     ELSE IF prior[i] = None THEN 0 ELSE d.rev[i] + 1
  BY DEF Reverted, Replaced
<1> HIDE DEF w
<1>2. ASSUME NEW i \in Iface
      PROVE  w.rows[i] \in Desc \cup {None} /\ w.rev[i] \in Nat /\ (w.rows[i] = None <=> w.rev[i] = 0)
  <2>1. d.rows[i] \in Desc \cup {None} /\ d.rev[i] \in Nat /\ (d.rows[i] = None <=> d.rev[i] = 0)
    BY DEF DesiredOK
  <2>2. i \in DOMAIN prior => prior[i] \in Desc \cup {None}
    BY DEF PriorOK
  <2> QED BY <1>1, <2>1, <2>2, NoneIsNoFile
<1>3. DesiredOK(w)
  BY <1>2 DEF DesiredOK
<1> QED BY <1>3 DEF w

-----------------------------------------------------------------------------
(***************************************************************************)
(* Steps.                                                                  *)
(***************************************************************************)
\* One task moves: it was the one that runs if the host or it takes part in a run.
LEMMA OneMoves ==
    ASSUME Inv, NEW t \in Task, NEW k, task' = [task EXCEPT ![t] = k], TaskTyped(k),
           host' \in NetHost, DesiredOK(desired'), seen' = seen,
           host' = host \/ Runs(task[t]),
           Runs(k) => RunInv(k, host') /\ (Runs(task[t]) \/ \A u \in Task \ {t} : ~Runs(task[u]))
    PROVE  Inv'
<1>1. DOMAIN task = Task /\ \A u \in Task : TaskTyped(task[u])
  BY DEF Inv, Typed, TasksTyped
<1>2. DOMAIN task' = Task /\ task'[t] = k /\ \A u \in Task \ {t} : task'[u] = task[u]
  BY <1>1
<1>3. Typed'
  BY <1>1, <1>2 DEF Inv, Typed, TasksTyped
<1>4. \A u \in Task \ {t} : Runs(task[u]) => ~Runs(k) /\ host' = host
  BY DEF Inv, Alone
<1>5. Alone'
  BY <1>2, <1>4 DEF Inv, Alone
<1>6. ASSUME NEW u \in Task, Runs(task'[u]) PROVE RunInv(task'[u], host')
  BY <1>2, <1>4, <1>6 DEF Inv
<1> QED BY <1>3, <1>5, <1>6 DEF Inv

\* What is left of a task that ends.
LEMMA EndedTyped ==
    ASSUME NEW t, TaskTyped(task[t]), NEW final \in {"refused", "success", "failed", "cancelled", "manual"}
    PROVE  TaskTyped(Ended(t, final)) /\ ~Runs(Ended(t, final))
<1> DEFINE k == task[t]
           e == Ended(t, final)
<1>1. e = [k EXCEPT !.phase = final, !.plan = None, !.prior = None, !.calls = <<>>, !.stash = EmptyStash]
  BY DEF Ended
<1> HIDE DEF k, e
<1>2. IsTask(k)
  BY DEF TaskTyped, k
<1>3. /\ IsTask(e) /\ e.job = k.job /\ e.phase = final /\ e.stage = k.stage /\ e.calls = <<>>
      /\ e.stash = EmptyStash
  BY <1>1, <1>2 DEF IsTask
<1>4. EmptyStash \in Stash
  BY DEF EmptyStash, Stash
<1>5. k.job \in NetJob /\ k.stage \in 1 .. 6
  BY DEF TaskTyped, k
<1>6. TaskTyped(e) /\ ~Runs(e)
  BY <1>3, <1>4, <1>5, NoCall DEF TaskTyped, Runs, Live, Phase
<1> QED BY <1>6 DEF e

LEMMA EndKeeps ==
    ASSUME Inv, NEW t \in Task, Runs(task[t]), NEW final \in {"success", "failed", "cancelled", "manual"},
           End(t, final), host' \in NetHost, seen' = seen
    PROVE  Inv'
<1>1. TaskTyped(task[t]) /\ DesiredOK(desired)
  BY DEF Inv, Typed, TasksTyped
<1>2. TaskTyped(Ended(t, final)) /\ ~Runs(Ended(t, final))
  BY <1>1, EndedTyped
<1>3. DesiredOK(desired')
  <2>1. PriorOK(task[t].prior)
    BY <1>1 DEF TaskTyped
  <2> QED BY <1>1, <2>1, RevertedOK DEF End
<1>4. task' = [task EXCEPT ![t] = Ended(t, final)]
  BY DEF End
<1> QED BY <1>2, <1>3, <1>4, OneMoves

LEMMA MakePlanKeeps == ASSUME Inv, NEW t \in Task, MakePlan(t) PROVE Inv'
<1> DEFINE k    == task[t]
           plan == PlanOf(k.job)
           sound == /\ Whole /\ ~plan.blocked
                    /\ \A u \in Task : task[u].phase \notin Live
           p == [k EXCEPT !.phase = "planned", !.plan = plan, !.sound = sound]
           r == IF ~plan.found THEN Ended(t, "refused") ELSE p
<1>1. TaskTyped(k) /\ k.phase = "new" /\ DesiredOK(desired) /\ seen \in Seen /\ DOMAIN task = Task
  BY DEF Inv, Typed, TasksTyped, MakePlan
<1>2. task' = [task EXCEPT ![t] = r] /\ host' = host /\ desired' = desired /\ seen' = seen
  BY <1>1 DEF MakePlan
<1>3. TaskTyped(r) /\ ~Runs(r)
  <2>1. CASE ~plan.found
    BY <1>1, <2>1, EndedTyped
  <2>2. CASE plan.found
    <3>1. PlanOK(plan)
      BY <1>1, <2>2, PlanTyped DEF TaskTyped
    <3> HIDE DEF plan, sound
    <3>2. IsTask(k)
      BY <1>1 DEF TaskTyped
    <3>3. /\ IsTask(p) /\ p.job = k.job /\ p.phase = "planned" /\ p.plan = plan /\ p.stage = k.stage
          /\ p.calls = k.calls /\ p.stash = k.stash
      BY <3>2 DEF IsTask
    <3> HIDE DEF p
    <3>4. TaskTyped(p) /\ ~Runs(p)
      BY <1>1, <3>1, <3>3 DEF TaskTyped, Runs, Live, Phase
    <3> QED BY <2>2, <3>4
  <2> QED BY <2>1, <2>2
<1> HIDE DEF r
<1>4. host \in NetHost
  BY DEF Inv, Typed
<1> QED BY <1>1, <1>2, <1>3, <1>4, OneMoves

\* Whoever runs holds the file, so that nobody else does.
LEMMA ApplyKeeps == ASSUME Inv, NEW t \in Task, Apply(t) PROVE Inv'
<1> DEFINE k    == task[t]
           rows == k.plan.rows
           prior == [i \in DOMAIN rows |-> desired.rows[i]]
           sound == k.sound /\ Whole
           r == [k EXCEPT !.phase = "running", !.base = Files(host), !.sound = sound, !.prior = prior]
<1>1. /\ TaskTyped(k) /\ k.phase = "planned" /\ DesiredOK(desired) /\ host \in NetHost
      /\ DOMAIN task = Task /\ \A u \in Task : TaskTyped(task[u])
  BY DEF Inv, Typed, TasksTyped, Apply
<1>2. PlanOK(k.plan) /\ k.stage = 1 /\ k.stash = EmptyStash
  BY <1>1 DEF TaskTyped
<1>3. host' = host /\ seen' = seen
  BY DEF Apply
<1>4. CASE Applicable(t)
  <2>1. task' = [task EXCEPT ![t] = r] /\ desired' = Written(rows, desired)
    BY <1>1, <1>4 DEF Apply
  <2>2. DesiredOK(desired')
    BY <1>1, <1>2, <2>1, WrittenOK DEF PlanOK
  <2>3. PriorOK(prior)
    BY <1>1, <1>2 DEF PriorOK, PlanOK, DesiredOK
  <2>4. IsTask(k)
    BY <1>1 DEF TaskTyped
  <2> HIDE DEF prior, sound
  <2>5. /\ IsTask(r) /\ r.job = k.job /\ r.phase = "running" /\ r.plan = k.plan /\ r.prior = prior
        /\ r.stage = k.stage /\ r.calls = k.calls /\ r.stash = k.stash /\ r.base = Files(host)
    BY <2>4 DEF IsTask
  <2> HIDE DEF r
  <2>6. k.calls = <<>>
    BY <1>1 DEF TaskTyped
  <2>7. Files(host) \in NetFiles
    BY <1>1, FilesTyped
  <2>8. TaskTyped(r)
    BY <1>1, <1>2, <2>3, <2>5, <2>6, <2>7 DEF TaskTyped, Runs, Live, Phase
  <2>9. RunInv(r, host)
    BY <1>2, <2>5, <2>6 DEF RunInv, FilesKnown, EmptyStash
  <2>10. \A u \in Task \ {t} : ~Runs(task[u])
    <3> SUFFICES ASSUME NEW u \in Task \ {t}, Runs(task[u]) PROVE FALSE
      OBVIOUS
    <3>1. TheFile \in task[u].plan.leases
      BY <1>1 DEF TaskTyped, Runs, PlanOK
    <3>2. Leases(u) = task[u].plan.leases
      BY DEF Leases, Runs
    <3>3. TheFile \in k.plan.leases
      BY <1>2 DEF PlanOK
    <3> QED BY <3>1, <3>2, <3>3 DEF Apply, LeasesFree
  <2> QED BY <1>1, <1>3, <2>1, <2>2, <2>8, <2>9, <2>10, OneMoves
<1>5. CASE ~Applicable(t)
  <2>1. task' = [task EXCEPT ![t] = Ended(t, "refused")] /\ desired' = desired
    BY <1>5 DEF Apply
  <2>2. TaskTyped(Ended(t, "refused")) /\ ~Runs(Ended(t, "refused"))
    BY <1>1, EndedTyped
  <2> QED BY <1>1, <1>3, <2>1, <2>2, OneMoves
<1> QED BY <1>4, <1>5

LEMMA RequestCancelKeeps == ASSUME Inv, NEW t \in Task, RequestCancel(t) PROVE Inv'
<1> DEFINE k == task[t]
           r == [k EXCEPT !.cancelled = TRUE]
<1>1. /\ TaskTyped(k) /\ k.phase = "running" /\ DesiredOK(desired) /\ host \in NetHost /\ DOMAIN task = Task
      /\ RunInv(k, host)
  BY DEF Inv, Typed, TasksTyped, RequestCancel, Runs, Live
<1>2. task' = [task EXCEPT ![t] = r] /\ host' = host /\ seen' = seen /\ desired' = desired
  BY <1>1 DEF RequestCancel
<1>3. IsTask(k)
  BY <1>1 DEF TaskTyped
<1> HIDE DEF k
<1>4. /\ IsTask(r) /\ r.job = k.job /\ r.phase = k.phase /\ r.plan = k.plan /\ r.prior = k.prior
      /\ r.stage = k.stage /\ r.calls = k.calls /\ r.stash = k.stash /\ r.base = k.base
  BY <1>3 DEF IsTask
<1> HIDE DEF r
<1>5. TaskTyped(r)
  BY <1>1, <1>4 DEF TaskTyped, Runs
<1>6. RunInv(r, host)
  BY <1>1, <1>4 DEF RunInv, FilesKnown, GoingBack, GoingForward
<1> USE DEF k
<1>7. Runs(task[t])
  BY <1>1 DEF Runs, Live
<1> QED BY <1>1, <1>2, <1>5, <1>6, <1>7, OneMoves

\* A run that gives up between two calls leaves nothing under way.
LEMMA GivesUp ==
    ASSUME NEW k, TaskTyped(k), k.phase = "running", NEW h, FilesKnown(k, h), NEW r,
           r = [k EXCEPT !.phase = "failing", !.calls = <<>>]
    PROVE  TaskTyped(r) /\ RunInv(r, h)
<1>1. IsTask(k)
  BY DEF TaskTyped
<1>2. /\ IsTask(r) /\ r.job = k.job /\ r.phase = "failing" /\ r.plan = k.plan /\ r.prior = k.prior
      /\ r.stage = k.stage /\ r.calls = <<>> /\ r.stash = k.stash /\ r.base = k.base
  BY <1>1 DEF IsTask
<1>3. TaskTyped(r)
  BY <1>2, NoCall DEF TaskTyped, Runs, Live, Phase
<1>4. RunInv(r, h)
  BY <1>2 DEF RunInv, FilesKnown
<1> QED BY <1>3, <1>4

LEMMA CancelRunKeeps == ASSUME Inv, NEW t \in Task, CancelRun(t) PROVE Inv'
<1> DEFINE k == task[t]
           r == [k EXCEPT !.phase = "failing", !.calls = <<>>]
<1>1. /\ TaskTyped(k) /\ k.phase = "running" /\ k.calls = <<>> /\ DesiredOK(desired) /\ host \in NetHost
      /\ DOMAIN task = Task /\ Runs(k) /\ RunInv(k, host)
  BY DEF Inv, Typed, TasksTyped, CancelRun, BetweenStages, Runs, Live
<1>2. IsTask(k)
  BY <1>1 DEF TaskTyped
<1>3. [k EXCEPT !.phase = "failing"] = r
  BY <1>1, <1>2 DEF IsTask
<1>4. task' = [task EXCEPT ![t] = r] /\ host' = host /\ seen' = seen /\ desired' = desired
  BY <1>1, <1>3 DEF CancelRun
<1>5. TaskTyped(r) /\ RunInv(r, host)
  <2>1. FilesKnown(k, host)
    BY <1>1 DEF RunInv, FilesKnown
  <2> HIDE DEF k
  <2> QED BY <1>1, <2>1, GivesUp
<1> HIDE DEF r
<1> QED BY <1>1, <1>4, <1>5, OneMoves

\* The files are as the run found them until it has written.
LEMMA StartStageKeeps == ASSUME Inv, NEW t \in Task, StartStage(t) PROVE Inv'
<1> DEFINE k == task[t]
           n == k.stage
           run == k.plan.run
           o == NetRunStage(run, NetStages[n], host, k.stash)
           p == [k EXCEPT !.stage = n + 1, !.calls = o.calls, !.stash = o.stash]
           q == [k EXCEPT !.phase = "failing", !.calls = <<>>]
<1>1. /\ TaskTyped(k) /\ k.phase = "running" /\ k.calls = <<>> /\ DesiredOK(desired) /\ host \in NetHost
      /\ DOMAIN task = Task /\ Runs(k) /\ RunInv(k, host) /\ n <= Len(NetStages)
  BY DEF Inv, Typed, TasksTyped, StartStage, BetweenStages, StagesLeft, Runs, Live
<1>2. host' = host /\ seen' = seen /\ desired' = desired
  BY DEF StartStage
<1>3. IsTask(k) /\ RunOK(run) /\ k.stash \in Stash /\ k.base \in NetFiles
  BY <1>1 DEF TaskTyped, PlanOK, Live
<1>4. n \in StageNumbers
  BY <1>1 DEF TaskTyped, NetStages, StageNumbers
<1>5. task' = [task EXCEPT ![t] = IF o.pass THEN p ELSE [k EXCEPT !.phase = "failing"]]
  BY DEF StartStage
<1> HIDE DEF o
<1>6. CASE ~o.pass
  <2>1. [k EXCEPT !.phase = "failing"] = q
    BY <1>1, <1>3 DEF IsTask
  <2>2. task' = [task EXCEPT ![t] = q]
    BY <1>6, <1>5, <2>1
  <2>3. FilesKnown(k, host)
    BY <1>1 DEF RunInv, FilesKnown
  <2> HIDE DEF k
  <2>4. TaskTyped(q) /\ RunInv(q, host)
    BY <1>1, <2>3, GivesUp
  <2> USE DEF k
  <2> HIDE DEF q
  <2> QED BY <1>1, <1>2, <2>2, <2>4, OneMoves
<1>7. CASE o.pass
  <2>1. task' = [task EXCEPT ![t] = p]
    BY <1>7, <1>5
  <2>2. n > 1 => k.stash.before # None
    BY <1>1 DEF RunInv, FilesKnown
  <2>3. /\ o.calls \in Seq(NetCall) /\ o.stash \in Stash
        /\ IF n = 1 THEN o.calls = <<>> /\ o.stash.before = Files(host) /\ run.hash = Files(host)
           ELSE o.stash = k.stash
        /\ n > 1 => Writes(o.calls, "foreign", Cleaned(run, k.stash.before))
    <3> HIDE DEF run, k, n
    <3> USE DEF o
    <3> QED BY <1>1, <1>3, <1>4, <1>7, <2>2, StageTyped
  <2>4. /\ IsTask(p) /\ p.job = k.job /\ p.phase = "running" /\ p.plan = k.plan /\ p.prior = k.prior
        /\ p.stage = n + 1 /\ p.calls = o.calls /\ p.stash = o.stash /\ p.base = k.base
    BY <1>1, <1>3 DEF IsTask
  <2> HIDE DEF p
  <2>5. n + 1 \in 1 .. 6 /\ n + 1 > 1 /\ n \in Nat
    BY <1>4 DEF StageNumbers
  <2>6. TaskTyped(p)
    BY <1>1, <2>3, <2>4, <2>5 DEF TaskTyped, Runs, Live
  <2>8. GoingForward(p, host)
    <3>1. FilesKnown(k, host) /\ (n = 1 <=> k.stash.before = None) /\ (n > 1 => GoingForward(k, host))
      BY <1>1, <1>4 DEF RunInv, StageNumbers
    <3> HIDE DEF k
    <3> USE DEF o
    <3> QED BY <1>1, <1>3, <1>4, <1>7, <2>4, <3>1, StageForward
  <2>7. RunInv(p, host)
    <3>1. CASE n = 1
      <4>1. k.stash.before = None /\ Files(host) = k.base
        BY <1>1, <3>1 DEF RunInv, FilesKnown
      <4>2. o.stash.before = k.base /\ run.hash = k.base /\ k.base # None
        BY <1>3, <2>3, <3>1, <4>1, NoneIsNoFile
      <4>3. host.foreign = k.base.foreign
        BY <4>1 DEF Files
      <4>4. Writes(o.calls, "foreign", Cleaned(run, k.base))
        BY <2>3, <3>1, NoCall DEF Writes
      <4> QED BY <2>4, <2>5, <2>8, <4>2, <4>3, <4>4 DEF RunInv, FilesKnown
    <3>2. CASE n # 1
      <4>1. n > 1 /\ k.stash.before # None
        BY <2>2, <2>5, <3>2
      <4>2. /\ k.stash.before = k.base /\ run.hash = k.base
            /\ host.foreign \in {k.base.foreign, Cleaned(run, k.base)}
        BY <1>1, <4>1 DEF RunInv, FilesKnown
      <4>3. o.stash = k.stash /\ Writes(o.calls, "foreign", Cleaned(run, k.base))
        BY <2>3, <3>2, <4>1, <4>2
      <4> QED BY <2>4, <2>5, <2>8, <4>1, <4>2, <4>3 DEF RunInv, FilesKnown
    <3> QED BY <3>1, <3>2
  <2> QED BY <1>1, <1>2, <2>1, <2>6, <2>7, OneMoves
<1> QED BY <1>6, <1>7

\* What a call of a run finds and leaves: the foreign files are the ones the run found or
\* the cleaned ones, and change from the one to the other only where the plan says so.
LEMMA CallOnFiles ==
    ASSUME NEW k, TaskTyped(k), Runs(k), NEW h \in NetHost, RunInv(k, h), k.calls # <<>>
    PROVE  LET c == Head(k.calls)
               g == NetPerform(h, c).host
           IN /\ c \in NetCall /\ g \in NetHost /\ k.stash.before # None
              /\ FilesKnown(k, h) /\ FilesKnown(k, g)
              /\ \A i \in Iface : h.foreign[i] # g.foreign[i] =>
                    /\ i \in k.plan.run.cleaned
                    /\ k.plan.run.hash.foreign[i] \in {h.foreign[i], g.foreign[i]}
<1> DEFINE c == Head(k.calls)
           g == NetPerform(h, c).host
           base == k.base.foreign
           clean == Cleaned(k.plan.run, k.base)
<1>1. k.calls \in Seq(NetCall) /\ k.phase \in {"running", "rollback"}
  BY DEF TaskTyped
<1>2. c \in NetCall /\ c \in Range(k.calls)
  BY <1>1, HeadAndRest
<1>3. /\ g \in NetHost /\ g.foreign = IF IsWrite(c, "foreign") THEN c.arg ELSE h.foreign
  BY <1>2, PerformTyped
<1>4. /\ k.stash.before # None /\ k.stash.before = k.base /\ k.plan.run.hash = k.base
      /\ h.foreign \in {base, clean}
      /\ k.phase = "running" => Writes(k.calls, "foreign", clean)
      /\ k.phase = "rollback" => Writes(k.calls, "foreign", base)
  BY DEF GoingBack, RunInv, FilesKnown
<1>5. IsWrite(c, "foreign") => c.arg = IF k.phase = "running" THEN clean ELSE base
  BY <1>1, <1>2, <1>4 DEF Writes
<1> HIDE DEF c, g
<1>6. FilesKnown(k, h) /\ FilesKnown(k, g)
  BY <1>1, <1>3, <1>4, <1>5 DEF FilesKnown
<1>7. ASSUME NEW i \in Iface, h.foreign[i] # g.foreign[i]
      PROVE  i \in k.plan.run.cleaned /\ k.plan.run.hash.foreign[i] \in {h.foreign[i], g.foreign[i]}
  <2>1. IsWrite(c, "foreign") /\ {h.foreign, g.foreign} = {base, clean} /\ base[i] # clean[i]
    BY <1>1, <1>3, <1>4, <1>5, <1>7
  <2>2. i \in k.plan.run.cleaned
    BY <2>1 DEF Cleaned
  <2> QED BY <1>4, <2>1, <2>2
<1> QED BY <1>2, <1>3, <1>4, <1>6, <1>7 DEF c, g

\* The head of a rollback's calls done, the tail says what is left.
LEMMA BackOn ==
    ASSUME NEW k, TaskTyped(k), Runs(k), NEW h \in NetHost, GoingBack(k, h), k.calls # <<>>, k.base \in NetFiles,
           NEW r, r.calls = Tail(k.calls), r.base = k.base, r.plan = k.plan
    PROVE  GoingBack(r, NetPerform(h, Head(k.calls)).host)
<1> DEFINE c == Head(k.calls)
           g == NetPerform(h, c).host
           rest == Tail(k.calls)
           f == k.base
           last == Len(k.calls)
<1>1. k.calls \in Seq(NetCall) /\ DOMAIN k.plan.run.targets \subseteq Iface
  BY DEF TaskTyped, Runs, PlanOK, RunOK
<1>2. c \in NetCall /\ rest \in Seq(NetCall) /\ Range(k.calls) = {c} \cup Range(rest)
  BY <1>1, HeadAndRest
<1>3. /\ g.linked = h.linked
      /\ g.xinas = IF IsWrite(c, "xinas") THEN c.arg ELSE h.xinas
      /\ g.foreign = IF IsWrite(c, "foreign") THEN c.arg ELSE h.foreign
      /\ \A i \in Iface : g.addrs[i] =
            IF c.verb = "flush" /\ c.on = i THEN {}
            ELSE IF c.verb = "apply" /\ i \in h.linked THEN h.addrs[i] \cup Configured(Files(h), i)
            ELSE h.addrs[i]
  BY <1>2, PerformTyped
<1>4. /\ last \in Nat \ {0} /\ DOMAIN k.calls = 1 .. last /\ c = k.calls[1] /\ Len(rest) = last - 1
      /\ DOMAIN rest = 1 .. Len(rest) /\ \A n \in 1 .. Len(rest) : rest[n] = k.calls[n + 1]
  BY <1>1, <1>2, EmptySeq, LenProperties, HeadTailProperties
<1>5. /\ Writes(k.calls, "foreign", f.foreign) /\ Writes(k.calls, "xinas", f.xinas)
      /\ Unwritten(k.calls, "foreign") \/ h.foreign = f.foreign
      /\ Unwritten(k.calls, "xinas") \/ f.xinas = None \/ h.xinas = f.xinas
      /\ \A n \in DOMAIN k.calls : k.calls[n].verb = "apply" <=> n = last
      /\ \A i \in DOMAIN k.plan.run.targets : h.addrs[i] = {} \/ Unflushed(k.calls, i)
  BY DEF GoingBack
<1>6. c.verb = "apply" <=> rest = <<>>
  <2>1. c.verb = "apply" <=> last = 1
    <3>1. 1 \in DOMAIN k.calls
      BY <1>4
    <3>2. k.calls[1].verb = "apply" <=> 1 = last
      BY <1>5, <3>1
    <3> QED BY <1>4, <3>2
  <2>2. last = 1 <=> Len(rest) = 0
    BY <1>4
  <2>3. Len(rest) = 0 <=> rest = <<>>
    BY <1>2, EmptySeq
  <2> QED BY <2>1, <2>2, <2>3
<1>7. \A n \in DOMAIN rest : rest[n].verb = "apply" <=> n = Len(rest)
  <2> SUFFICES ASSUME NEW n \in DOMAIN rest PROVE rest[n].verb = "apply" <=> n = Len(rest)
    OBVIOUS
  <2>1. n + 1 \in DOMAIN k.calls /\ rest[n] = k.calls[n + 1]
    BY <1>4
  <2>2. n + 1 = last <=> n = Len(rest)
    BY <1>4
  <2> QED BY <1>5, <2>1, <2>2
<1> HIDE DEF c, g, rest, last
<1>8. Writes(rest, "foreign", f.foreign) /\ Writes(rest, "xinas", f.xinas)
  BY <1>2, <1>5 DEF Writes
<1>9. Unwritten(rest, "foreign") \/ g.foreign = f.foreign
  BY <1>2, <1>3, <1>5 DEF Writes, Unwritten
<1>10. Unwritten(rest, "xinas") \/ f.xinas = None \/ g.xinas = f.xinas
  BY <1>2, <1>3, <1>5 DEF Writes, Unwritten
<1>11. ASSUME NEW i \in DOMAIN k.plan.run.targets
       PROVE  IF rest # <<>> THEN g.addrs[i] = {} \/ Unflushed(rest, i)
              ELSE f.xinas = None \/ i \notin g.linked \/ g.addrs[i] = Configured(f, i)
  <2>1. CASE rest # <<>>
    <3>1. c.verb # "apply" /\ i \in Iface
      BY <1>1, <1>6, <2>1
    <3>2. g.addrs[i] = IF c.verb = "flush" /\ c.on = i THEN {} ELSE h.addrs[i]
      BY <1>3, <3>1
    <3>3. h.addrs[i] = {} \/ Unflushed(k.calls, i)
      BY <1>5
    <3>4. Unflushed(k.calls, i) => (c.verb = "flush" /\ c.on = i) \/ Unflushed(rest, i)
      BY <1>2 DEF Unflushed
    <3> QED BY <2>1, <3>2, <3>3, <3>4
  <2>2. CASE rest = <<>>
    <3>1. c.verb = "apply" /\ Range(k.calls) = {c}
      BY <1>2, <1>6, <2>2, NoCall
    <3>2. ~Unwritten(k.calls, "foreign") /\ ~Unwritten(k.calls, "xinas") /\ ~Unflushed(k.calls, i)
      BY <3>1 DEF Unwritten, Unflushed, IsWrite
    <3>3. SUFFICES ASSUME f.xinas # None, i \in g.linked PROVE g.addrs[i] = Configured(f, i)
      BY <2>2
    <3>4. Files(h) = f
      <4>1. h.foreign = f.foreign /\ h.xinas = f.xinas
        BY <1>5, <3>2, <3>3
      <4> QED BY <4>1 DEF Files, NetFiles
    <3>5. g.addrs[i] = {} \cup Configured(f, i)
      BY <1>1, <1>3, <1>5, <3>1, <3>2, <3>3, <3>4
    <3> QED BY <3>5
  <2> QED BY <2>1, <2>2
<1>12. GoingBack(r, g)
  BY <1>7, <1>8, <1>9, <1>10, <1>11 DEF GoingBack, rest
<1> QED BY <1>12 DEF g, c

\* Flushing clears, and applying puts what the files configure in the place of nothing.
LEMMA ForwardOn ==
    ASSUME NEW k, TaskTyped(k), k.phase = "running", k.stage > 1, NEW h \in NetHost, GoingForward(k, h),
           k.calls # <<>>, Writes(k.calls, "foreign", Cleaned(k.plan.run, k.base)),
           NEW r, r.calls = Tail(k.calls), r.base = k.base, r.plan = k.plan, r.stage = k.stage
    PROVE  GoingForward(r, NetPerform(h, Head(k.calls)).host)
<1> DEFINE job == k.plan.run
           c == Head(k.calls)
           g == NetPerform(h, c).host
           rest == Tail(k.calls)
<1>1. k.calls \in Seq(NetCall) /\ DOMAIN job.targets \subseteq Iface /\ k.stage \in 1 .. 6
  BY DEF TaskTyped, Runs, Live, PlanOK, RunOK
<1>2. c \in NetCall /\ rest \in Seq(NetCall) /\ Range(k.calls) = {c} \cup Range(rest)
  BY <1>1, HeadAndRest
<1>3. /\ g.linked = h.linked
      /\ g.xinas = IF IsWrite(c, "xinas") THEN c.arg ELSE h.xinas
      /\ g.foreign = IF IsWrite(c, "foreign") THEN c.arg ELSE h.foreign
      /\ \A i \in Iface : g.addrs[i] =
            IF c.verb = "flush" /\ c.on = i THEN {}
            ELSE IF c.verb = "apply" /\ i \in h.linked THEN h.addrs[i] \cup Configured(Files(h), i)
            ELSE h.addrs[i]
  BY <1>2, PerformTyped
<1>4. g.rules = IF c.verb = "rules" THEN {x \in h.rules : x[2] \notin c.arg}
                ELSE IF c.verb = "apply" THEN h.rules \cup UNION {ConfiguredRules(Files(h), d) : d \in h.linked}
                ELSE h.rules
  BY <1>2, PerformRules
<1>5. /\ job.cleanup \/ DOMAIN job.targets \cap Duplicates(k.base) = {}
      /\ Writes(k.calls, "xinas", job.render)
      /\ k.stage > 2 => /\ Unwritten(k.calls, "xinas") \/ h.xinas = job.render
                        /\ Unwritten(k.calls, "foreign") \/ h.foreign = Cleaned(job, k.base)
      /\ k.stage = 4 => /\ \A x \in Range(k.calls) : x.verb \in {"rules", "flush"}
                        /\ Cleared(job, k.calls, h)
      /\ k.stage = 5 => k.calls = <<ApplyCall>> /\ Cleared(job, <<>>, h)
      /\ k.stage # 6
  BY DEF GoingForward
<1>6. k.stage = 5 => c = ApplyCall /\ rest = <<>>
  <2>1. Head(<<ApplyCall>>) = ApplyCall /\ Tail(<<ApplyCall>>) = <<>>
    OBVIOUS
  <2> QED BY <1>5, <2>1
<1> HIDE DEF c, g, rest, job
<1>7. Writes(rest, "xinas", job.render)
  BY <1>2, <1>5 DEF Writes
<1>8. k.stage > 2 => /\ Unwritten(rest, "xinas") \/ g.xinas = job.render
                     /\ Unwritten(rest, "foreign") \/ g.foreign = Cleaned(job, k.base)
  BY <1>2, <1>3, <1>5 DEF Writes, Unwritten, job
<1>9. ASSUME k.stage = 4
      PROVE  (\A x \in Range(rest) : x.verb \in {"rules", "flush"}) /\ Cleared(job, rest, g)
  <2>1. c.verb \in {"rules", "flush"} /\ \A x \in Range(rest) : x.verb \in {"rules", "flush"}
    BY <1>2, <1>5, <1>9
  <2>2. ASSUME NEW i \in DOMAIN job.targets PROVE g.addrs[i] = {} \/ Unflushed(rest, i)
    <3>1. h.addrs[i] = {} \/ Unflushed(k.calls, i)
      BY <1>5, <1>9 DEF Cleared
    <3>2. Unflushed(k.calls, i) => (c.verb = "flush" /\ c.on = i) \/ Unflushed(rest, i)
      BY <1>2 DEF Unflushed
    <3> QED BY <1>1, <1>3, <2>1, <3>1, <3>2
  <2>3. ASSUME NEW table, RulesOf(h, table) = {} \/ Unruled(k.calls, table)
        PROVE  RulesOf(g, table) = {} \/ Unruled(rest, table)
    <3>1. Unruled(k.calls, table) => (c.verb = "rules" /\ table \in c.arg) \/ Unruled(rest, table)
      BY <1>2 DEF Unruled
    <3>2. RulesOf(h, table) = {} => RulesOf(g, table) = {}
      BY <1>4, <2>1 DEF RulesOf
    <3>3. c.verb = "rules" /\ table \in c.arg => RulesOf(g, table) = {}
      BY <1>4 DEF RulesOf
    <3> QED BY <2>3, <3>1, <3>2, <3>3
  <2>4. Cleared(job, rest, g)
    BY <1>5, <1>9, <2>2, <2>3 DEF Cleared
  <2> QED BY <2>1, <2>4
<1>10. ASSUME k.stage = 5 PROVE rest = <<>> /\ Put(job, g)
  <2>1. c.verb = "apply" /\ rest = <<>>
    BY <1>6, <1>10 DEF ApplyCall, Call
  <2>2. Files(g) = Files(h) /\ g.linked = h.linked
    BY <1>3, <2>1 DEF IsWrite, Files
  <2>3. ASSUME NEW i \in DOMAIN job.targets, i \in g.linked PROVE g.addrs[i] = Configured(Files(g), i)
    <3>1. h.addrs[i] = {}
      BY <1>5, <1>10, NoCall DEF Cleared, Unflushed
    <3> QED BY <1>1, <1>3, <2>1, <2>2, <2>3, <3>1
  <2>4. ASSUME NEW i \in DOMAIN job.targets, job.targets[i].table # 0
        PROVE  RulesOf(g, job.targets[i].table)
                  = {x \in UNION {ConfiguredRules(Files(g), d) : d \in g.linked} : x[2] = job.targets[i].table}
    <3>1. RulesOf(h, job.targets[i].table) = {}
      BY <1>5, <1>10, <2>4, NoCall DEF Cleared, Unruled
    <3> DEFINE new == UNION {ConfiguredRules(Files(g), d) : d \in g.linked}
    <3>2. g.rules = h.rules \cup new
      BY <1>4, <2>1, <2>2
    <3> HIDE DEF new
    <3>3. RulesOf(g, job.targets[i].table) = {x \in new : x[2] = job.targets[i].table}
      BY <3>1, <3>2 DEF RulesOf
    <3> QED BY <3>3 DEF new
  <2>5. Put(job, g)
    BY <2>3, <2>4 DEF Put
  <2> QED BY <2>1, <2>5
<1>11. r.plan.run = job /\ r.calls = rest
  BY DEF job, rest
<1>12. GoingForward(r, g)
  <2>1. r.stage = k.stage /\ r.base = k.base /\ k.stage # 6
    BY <1>5
  <2>2. CASE k.stage = 4
    BY <1>5, <1>7, <1>8, <1>9, <1>11, <2>1, <2>2 DEF GoingForward
  <2>3. CASE k.stage = 5
    BY <1>5, <1>7, <1>8, <1>10, <1>11, <2>1, <2>3 DEF GoingForward
  <2>4. CASE k.stage \notin {4, 5}
    BY <1>5, <1>7, <1>8, <1>11, <2>1, <2>4 DEF GoingForward
  <2> QED BY <2>2, <2>3, <2>4
<1> QED BY <1>12 DEF g, c

LEMMA WorkKeeps == ASSUME Inv, NEW t \in Task, Work(t) PROVE Inv'
<1> DEFINE k == task[t]
           c == Head(k.calls)
           g == NetPerform(host, c).host
           rest == Tail(k.calls)
           r == [k EXCEPT !.calls = rest]
           q == [k EXCEPT !.phase = "failing", !.calls = <<>>]
<1>1. /\ TaskTyped(k) /\ k.calls # <<>> /\ DesiredOK(desired) /\ host \in NetHost /\ DOMAIN task = Task
      /\ seen' = seen
  BY DEF Inv, Typed, TasksTyped, Work
<1>2. k.phase \in {"running", "rollback"} /\ Runs(k) /\ IsTask(k) /\ k.calls \in Seq(NetCall) /\ k.base \in NetFiles
  BY <1>1 DEF TaskTyped, Runs, Live
<1>3. RunInv(k, host)
  BY <1>2 DEF Inv
<1>4. /\ c \in NetCall /\ g \in NetHost /\ k.stash.before # None
      /\ FilesKnown(k, host) /\ FilesKnown(k, g)
  <2> HIDE DEF k
  <2> QED BY <1>1, <1>2, <1>3, CallOnFiles
<1>5. rest \in Seq(NetCall) /\ Range(k.calls) = {c} \cup Range(rest)
  BY <1>1, <1>2, HeadAndRest
<1> HIDE DEF g
<1>6. \/ host' = g /\ task' = [task EXCEPT ![t] = r] /\ desired' = desired
      \/ /\ host' \in {host, g}
         /\ IF k.phase = "running" THEN task' = [task EXCEPT ![t] = q] /\ desired' = desired
            ELSE End(t, "manual")
  <2> USE DEF g
  <2> QED BY <1>1 DEF Work
<1>7. CASE host' = g /\ task' = [task EXCEPT ![t] = r] /\ desired' = desired
  <2> HIDE DEF rest
  <2>1. /\ IsTask(r) /\ r.job = k.job /\ r.phase = k.phase /\ r.plan = k.plan /\ r.prior = k.prior
        /\ r.stage = k.stage /\ r.calls = rest /\ r.stash = k.stash /\ r.base = k.base
    BY <1>2 DEF IsTask
  <2> HIDE DEF r
  <2>2. TaskTyped(r)
    BY <1>1, <1>2, <1>5, <2>1 DEF TaskTyped, Runs, Live
  <2>3. FilesKnown(r, g)
    BY <1>4, <2>1 DEF FilesKnown
  <2>4. k.phase = "running" => k.stage > 1 /\ Writes(rest, "foreign", Cleaned(k.plan.run, k.base))
    BY <1>3, <1>4, <1>5 DEF RunInv, Writes
  <2>5. k.phase = "rollback" => GoingBack(r, g)
    <3>1. SUFFICES ASSUME k.phase = "rollback" PROVE GoingBack(r, g)
      OBVIOUS
    <3>2. GoingBack(k, host)
      BY <1>3, <1>4, <3>1 DEF RunInv
    <3>3. r.calls = Tail(k.calls)
      BY <2>1 DEF rest
    <3> HIDE DEF k
    <3>4. GoingBack(r, NetPerform(host, Head(k.calls)).host)
      BY <1>1, <1>2, <2>1, <3>2, <3>3, BackOn
    <3> QED BY <3>4 DEF g
  <2>6. k.phase = "running" => GoingForward(r, g)
    <3>1. SUFFICES ASSUME k.phase = "running" PROVE GoingForward(r, g)
      OBVIOUS
    <3>2. GoingForward(k, host) /\ k.stage > 1 /\ Writes(k.calls, "foreign", Cleaned(k.plan.run, k.base))
      BY <1>3, <1>4, <3>1 DEF RunInv
    <3>3. r.calls = Tail(k.calls)
      BY <2>1 DEF rest
    <3> HIDE DEF k
    <3>4. GoingForward(r, NetPerform(host, Head(k.calls)).host)
      BY <1>1, <2>1, <3>1, <3>2, <3>3, ForwardOn
    <3> QED BY <3>4 DEF g
  <2>7. RunInv(r, g)
    BY <1>4, <2>1, <2>3, <2>4, <2>5, <2>6 DEF RunInv
  <2> QED BY <1>1, <1>2, <1>4, <1>7, <2>2, <2>7, OneMoves
<1>8. CASE /\ host' \in {host, g}
           /\ IF k.phase = "running" THEN task' = [task EXCEPT ![t] = q] /\ desired' = desired
              ELSE End(t, "manual")
  <2>1. host' \in NetHost /\ FilesKnown(k, host')
    BY <1>1, <1>4, <1>8
  <2>2. CASE k.phase = "running"
    <3>1. task' = [task EXCEPT ![t] = q] /\ desired' = desired
      BY <1>8, <2>2
    <3> HIDE DEF k
    <3>2. TaskTyped(q) /\ RunInv(q, host')
      BY <1>1, <2>1, <2>2, GivesUp
    <3> USE DEF k
    <3> HIDE DEF q
    <3> QED BY <1>1, <1>2, <2>1, <3>1, <3>2, OneMoves
  <2>3. CASE k.phase # "running"
    BY <1>1, <1>2, <1>8, <2>1, <2>3, EndKeeps
  <2> QED BY <2>2, <2>3
<1> QED BY <1>6, <1>7, <1>8

LEMMA StartRollbackKeeps == ASSUME Inv, NEW t \in Task, StartRollback(t) PROVE Inv'
<1> DEFINE k == task[t]
           run == k.plan.run
           calls == NetRollback(run, k.stash).calls
           r == [k EXCEPT !.phase = "rollback", !.calls = calls]
<1>1. /\ TaskTyped(k) /\ k.phase = "failing" /\ DesiredOK(desired) /\ host \in NetHost /\ DOMAIN task = Task
      /\ Runs(k) /\ RunInv(k, host)
  BY DEF Inv, Typed, TasksTyped, StartRollback, Runs, Live
<1>2. task' = [task EXCEPT ![t] = r] /\ host' = host /\ seen' = seen /\ desired' = desired
  BY <1>1 DEF StartRollback
<1>3. IsTask(k) /\ RunOK(run) /\ k.stash \in Stash /\ k.base \in NetFiles
  BY <1>1 DEF TaskTyped, PlanOK, Live
<1>4. k.stash.before = None => calls = <<>>
  BY DEF NetRollback, Nothing, Issue
<1>5. k.stash.before # None =>
         /\ calls \in Seq(NetCall) /\ calls # <<>>
         /\ Writes(calls, "foreign", k.stash.before.foreign) /\ Writes(calls, "xinas", k.stash.before.xinas)
         /\ Unwritten(calls, "foreign") /\ (k.stash.before.xinas # None => Unwritten(calls, "xinas"))
         /\ \A n \in DOMAIN calls : calls[n].verb = "apply" <=> n = Len(calls)
         /\ \A i \in DOMAIN run.targets : Unflushed(calls, i)
  <2> HIDE DEF run, k
  <2> QED BY <1>3, RollbackCalls
<1> HIDE DEF calls
<1>6. /\ IsTask(r) /\ r.job = k.job /\ r.phase = "rollback" /\ r.plan = k.plan /\ r.prior = k.prior
      /\ r.stage = k.stage /\ r.calls = calls /\ r.stash = k.stash /\ r.base = k.base
  BY <1>3 DEF IsTask
<1> HIDE DEF r
<1>7. calls \in Seq(NetCall)
  BY <1>4, <1>5, NoCall
<1>8. TaskTyped(r)
  BY <1>1, <1>6, <1>7 DEF TaskTyped, Runs, Live, Phase
<1>9. RunInv(r, host)
  <2>1. CASE k.stash.before = None
    BY <1>1, <1>4, <1>6, <2>1 DEF RunInv, FilesKnown
  <2>2. CASE k.stash.before # None
    <3>1. k.stash.before = k.base /\ FilesKnown(r, host)
      BY <1>1, <1>6, <2>2 DEF RunInv, FilesKnown
    <3>2. GoingBack(r, host)
      BY <1>5, <1>6, <2>2, <3>1 DEF GoingBack
    <3> QED BY <1>6, <2>2, <3>1, <3>2 DEF RunInv
  <2> QED BY <2>1, <2>2
<1> QED BY <1>1, <1>2, <1>8, <1>9, OneMoves

LEMMA EndRollbackKeeps == ASSUME Inv, NEW t \in Task, EndRollback(t) PROVE Inv'
<1>1. Runs(task[t]) /\ host' = host /\ host \in NetHost /\ seen' = seen
  BY DEF EndRollback, Inv, Typed, Runs, Live
<1>2. PICK final \in {"cancelled", "failed"} : End(t, final)
  BY DEF EndRollback
<1> QED BY <1>1, <1>2, EndKeeps

LEMMA EndRunKeeps == ASSUME Inv, NEW t \in Task, EndRun(t) PROVE Inv'
<1>1. Runs(task[t]) /\ host' = host /\ host \in NetHost /\ seen' = seen
  BY DEF EndRun, BetweenStages, Inv, Typed, Runs, Live
<1>2. PICK final \in {"success", "manual"} : End(t, final)
  BY DEF EndRun
<1> QED BY <1>1, <1>2, EndKeeps

\* What was seen is on nobody's mind any more who runs.
LEMMA SeenMoves ==
    ASSUME Inv, seen' \in Seen, host' = host, desired' = desired, task' = task PROVE Inv'
BY DEF Inv, Typed, TasksTyped, Alone

LEMMA RowsTyped ==
    ASSUME NEW h \in NetHost
    PROVE  [rows |-> Rows(h), files |-> Files(h)] \in Seen
<1>1. Files(h) \in NetFiles
  BY FilesTyped
<1>2. \A i \in Iface : StanzaOf(Files(h), i) \in Stanza \cup {None}
  BY <1>1 DEF StanzaOf, InXinas, NetFiles, File
<1> QED BY <1>1, <1>2 DEF Rows, Seen

LEMMA ObservationKeeps == ASSUME Inv, Sweep \/ SweepBlind \/ NetlinkEvent PROVE Inv'
<1>1. host \in NetHost /\ seen \in Seen
  BY DEF Inv, Typed
<1>2. CASE Sweep
  BY <1>1, <1>2, RowsTyped, SeenMoves DEF Sweep
<1>3. CASE SweepBlind
  <2> DEFINE rows == [i \in Iface |-> [mlx |-> TRUE, netplan |-> None]]
  <2>1. seen' = [seen EXCEPT !.rows = rows]
    BY <1>3 DEF SweepBlind
  <2>2. rows \in [Iface -> [mlx : BOOLEAN, netplan : Stanza \cup {None}]]
    OBVIOUS
  <2> HIDE DEF rows
  <2>3. seen' \in Seen
    BY <1>1, <2>1, <2>2 DEF Seen
  <2> QED BY <1>3, <2>3, SeenMoves DEF SweepBlind
<1>4. CASE NetlinkEvent
  <2>1. PICK i \in Iface : seen' = [seen EXCEPT !.rows[i] = [mlx |-> FALSE, netplan |-> None]]
    BY <1>4 DEF NetlinkEvent
  <2> DEFINE row == [mlx |-> FALSE, netplan |-> None]
  <2>2. row \in [mlx : BOOLEAN, netplan : Stanza \cup {None}]
    OBVIOUS
  <2>3. seen' = [seen EXCEPT !.rows[i] = row]
    BY <2>1
  <2> HIDE DEF row
  <2>4. seen' \in Seen
    BY <1>1, <2>2, <2>3 DEF Seen
  <2> QED BY <1>4, <2>4, SeenMoves DEF NetlinkEvent
<1> QED BY <1>2, <1>3, <1>4

LEMMA OperatorEditKeeps == ASSUME Inv, OperatorEdit PROVE Inv'
<1>1. PICK i \in Iface, s \in Edits \cup {None} : host' = [host EXCEPT !.foreign[i] = s]
  BY DEF OperatorEdit
<1>2. s \in Stanza \cup {None}
  BY EditsAssumption
<1>3. host \in NetHost
  BY DEF Inv, Typed
<1>4. host' \in NetHost
  BY <1>1, <1>2, <1>3 DEF NetHost, File
<1>5. \A t \in Task : ~Runs(task[t])
  BY DEF OperatorEdit, Runs
<1> QED BY <1>4, <1>5 DEF OperatorEdit, Inv, Typed, TasksTyped, Alone

LEMMA InitInv == Init => Inv
<1> SUFFICES ASSUME Init PROVE Inv
  OBVIOUS
<1>1. PICK c \in Cases : /\ host = c.host /\ desired = c.desired
                         /\ seen = [rows |-> Rows(c.host), files |-> Files(c.host)]
                         /\ task = [t \in Task |-> NewTask(c.job[t])]
  BY DEF Init
<1>2. c.host \in NetHost /\ DesiredOK(c.desired) /\ c.job \in [Task -> NetJob]
  BY CasesAssumption
<1>3. seen \in Seen
  BY <1>1, <1>2, RowsTyped
<1>4. ASSUME NEW t \in Task PROVE TaskTyped(task[t]) /\ ~Runs(task[t])
  <2> DEFINE j == c.job[t]
             k == NewTask(j)
  <2>1. j \in NetJob /\ task[t] = k
    BY <1>1, <1>2
  <2> HIDE DEF j
  <2>2. /\ IsTask(k) /\ k.job = j /\ k.phase = "new" /\ k.stage = 1 /\ k.calls = <<>>
        /\ k.stash = EmptyStash
    BY DEF NewTask, IsTask
  <2> HIDE DEF k
  <2>3. EmptyStash \in Stash
    BY DEF EmptyStash, Stash
  <2> QED BY <2>1, <2>2, <2>3, NoCall DEF TaskTyped, Runs, Live, Phase
<1>5. DOMAIN task = Task
  BY <1>1
<1> QED BY <1>1, <1>2, <1>3, <1>4, <1>5 DEF Inv, Typed, TasksTyped, Alone

LEMMA StepInv == Inv /\ [Next]_vars => Inv'
<1> SUFFICES ASSUME Inv, [Next]_vars PROVE Inv'
  OBVIOUS
<1>1. CASE \E t \in Task : TaskStep(t)
  <2>1. PICK t \in Task : TaskStep(t)
    BY <1>1
  <2> QED BY <2>1, MakePlanKeeps, ApplyKeeps, RequestCancelKeeps, CancelRunKeeps, StartStageKeeps, WorkKeeps,
             StartRollbackKeeps, EndRollbackKeeps, EndRunKeeps DEF TaskStep
<1>2. CASE Sweep \/ SweepBlind \/ NetlinkEvent
  BY <1>2, ObservationKeeps
<1>3. CASE OperatorEdit
  BY <1>3, OperatorEditKeeps
<1>4. CASE UNCHANGED vars
  BY <1>4 DEF vars, Inv, Typed, TasksTyped, Alone
<1> QED BY <1>1, <1>2, <1>3, <1>4 DEF Next

\* A task that ends as it should does so after its last stage or after its rollback.
LEMMA EndMoves ==
    ASSUME Inv, [Next]_vars, NEW t \in Task, Becomes(t, {"success", "failed", "cancelled"})
    PROVE  \/ EndRun(t) /\ task'[t].phase = "success"
           \/ EndRollback(t) /\ task'[t].phase \in {"failed", "cancelled"}
<1> DEFINE k == task[t]
<1>1. /\ DOMAIN task = Task /\ TaskTyped(k) /\ k.phase \in Live
      /\ task'[t].phase \in {"success", "failed", "cancelled"}
  BY DEF Inv, Typed, TasksTyped, Becomes
<1>2. EndRun(t) \/ EndRollback(t)
  <2>1. task'[t].phase # k.phase
    BY <1>1 DEF Live
  <2>2. PICK u \in Task : TaskStep(u)
    BY <2>1 DEF Next, vars, Sweep, SweepBlind, NetlinkEvent, OperatorEdit
  <2>3. IsTask(k)
    BY <1>1 DEF TaskTyped
  <2>4. \A final : Ended(t, final).phase = final
    BY <2>3 DEF Ended, IsTask
  <2>5. \E r : task' = [task EXCEPT ![u] = r]
    BY <2>2 DEF TaskStep, MakePlan, Apply, RequestCancel, CancelRun, StartStage, Work, StartRollback,
                EndRollback, EndRun, End
  <2>6. u = t
    BY <1>1, <2>1, <2>5
  <2>7. ~MakePlan(t) /\ ~Apply(t)
    BY <1>1 DEF MakePlan, Apply, Live
  <2>8. ~RequestCancel(t) /\ ~CancelRun(t) /\ ~StartRollback(t)
    BY <1>1, <2>3 DEF RequestCancel, CancelRun, StartRollback, BetweenStages, IsTask
  <2>9. ~StartStage(t)
    <3> SUFFICES ASSUME StartStage(t) PROVE FALSE
      OBVIOUS
    <3> DEFINE o == NetRunStage(k.plan.run, NetStages[k.stage], host, k.stash)
               p == [k EXCEPT !.stage = @ + 1, !.calls = o.calls, !.stash = o.stash]
               q == [k EXCEPT !.phase = "failing"]
    <3>1. task' = [task EXCEPT ![t] = IF o.pass THEN p ELSE q] /\ k.phase = "running"
      BY DEF StartStage, BetweenStages
    <3> HIDE DEF o
    <3>2. p.phase = k.phase /\ q.phase = "failing"
      BY <2>3 DEF IsTask
    <3> HIDE DEF p, q
    <3> QED BY <1>1, <3>1, <3>2
  <2>10. ~Work(t)
    <3> SUFFICES ASSUME Work(t) PROVE FALSE
      OBVIOUS
    <3> DEFINE rest == Tail(k.calls)
               p == [k EXCEPT !.calls = rest]
               q == [k EXCEPT !.phase = "failing", !.calls = <<>>]
    <3>1. \/ task' = [task EXCEPT ![t] = p] \/ task' = [task EXCEPT ![t] = q]
          \/ task' = [task EXCEPT ![t] = Ended(t, "manual")]
      BY <1>1 DEF Work, End
    <3> HIDE DEF rest
    <3>2. p.phase = k.phase /\ q.phase = "failing"
      BY <2>3 DEF IsTask
    <3> HIDE DEF p, q
    <3> QED BY <1>1, <2>4, <3>1, <3>2 DEF Live
  <2> QED BY <2>2, <2>6, <2>7, <2>8, <2>9, <2>10 DEF TaskStep
<1>3. \A final : Ended(t, final).phase = final
  <2>1. IsTask(k)
    BY <1>1 DEF TaskTyped
  <2> QED BY <2>1 DEF Ended, IsTask
<1>4. EndRun(t) => task'[t].phase \in {"success", "manual"}
  BY <1>1, <1>3 DEF EndRun, End
<1>5. EndRollback(t) => task'[t].phase \in {"failed", "cancelled"}
  BY <1>1, <1>3 DEF EndRollback, End
<1> QED BY <1>1, <1>2, <1>4, <1>5

\* Success comes when the last stage has passed and nothing is left to do.
LEMMA SuccessEnds ==
    ASSUME Inv, [Next]_vars, NEW t \in Task, Becomes(t, {"success"})
    PROVE  /\ TaskTyped(task[t]) /\ host \in NetHost /\ Runs(task[t]) /\ RunInv(task[t], host) /\ host' = host
           /\ task[t].phase = "running" /\ task[t].calls = <<>> /\ task[t].stage = 6
<1> DEFINE k == task[t]
<1>1. TaskTyped(k) /\ host \in NetHost /\ Runs(k) /\ RunInv(k, host)
  BY DEF Inv, Typed, TasksTyped, Becomes, Runs
<1>2. EndRun(t)
  <2>1. Becomes(t, {"success", "failed", "cancelled"}) /\ task'[t].phase = "success"
    BY DEF Becomes
  <2> QED BY <2>1, EndMoves
<1>3. k.stage \in 1 .. 6 /\ Len(NetStages) = 5
  BY <1>1 DEF TaskTyped, NetStages
<1>4. host' = host /\ k.phase = "running" /\ k.calls = <<>> /\ k.stage = 6
  BY <1>2, <1>3 DEF EndRun, BetweenStages, StagesLeft
<1> QED BY <1>1, <1>4

\* A table no other interface has gets its rules from one interface only.
LEMMA RulesOfOne ==
    ASSUME NEW h, NEW i \in h.linked, NEW table, OwnTable(h, i, table), h.linked \subseteq Iface
    PROVE  {r \in UNION {ConfiguredRules(Files(h), d) : d \in h.linked} : r[2] = table}
              = {r \in ConfiguredRules(Files(h), i) : r[2] = table}
<1>1. ASSUME NEW d \in h.linked, d # i, NEW r \in ConfiguredRules(Files(h), d) PROVE r[2] # table
  <2>1. PICK s \in Merged(Files(h), d) : r \in s.addrs \X ({s.table} \ {None})
    BY DEF ConfiguredRules
  <2>2. s.table # table
    BY <1>1 DEF OwnTable
  <2> QED BY <2>1, <2>2
<1> QED BY <1>1

\* What the kernel has of a target whose run is through: what its row says, if no foreign
\* file alone defined it.
LEMMA KernelAtEnd ==
    ASSUME NEW k, TaskTyped(k), Runs(k), k.phase = "running", k.stage = 6, k.calls = <<>>,
           NEW h \in NetHost, RunInv(k, h), NEW i \in DOMAIN k.plan.run.targets,
           k.base.foreign[i] = None \/ InXinas(k.base, i)
    PROVE  LET row == k.plan.run.targets[i]
           IN Exactly(h, i, IF row.enabled THEN row.addrs ELSE {}, row.table)
<1> DEFINE run == k.plan.run
           row == run.targets[i]
           ours == run.render[i]
           f == Files(h)
<1>1. RunOK(run) /\ i \in Iface /\ row \in Desc
  BY DEF TaskTyped, Runs, Live, PlanOK, RunOK
<1>2. /\ k.stash.before # None /\ run.hash = k.base /\ GoingForward(k, h)
  BY DEF RunInv, FilesKnown
<1>3. /\ run.cleanup \/ DOMAIN run.targets \cap Duplicates(k.base) = {}
      /\ h.xinas = run.render /\ h.foreign = Cleaned(run, k.base)
      /\ Put(run, h) /\ VerifyDev(h, i, row)
  BY <1>2, NoCall DEF GoingForward, Unwritten
<1>4. h.foreign[i] = None
  <2>1. CASE k.base.foreign[i] = None
    BY <1>1, <1>3, <2>1 DEF Cleaned
  <2>2. CASE k.base.foreign[i] # None
    <3>1. i \in Duplicates(k.base)
      BY <1>1, <2>2 DEF Duplicates
    <3>2. i \in run.cleaned
      BY <1>1, <1>2, <1>3, <3>1 DEF RunOK
    <3> QED BY <1>1, <1>3, <3>2 DEF Cleaned
  <2> QED BY <2>1, <2>2
<1>5. Merged(f, i) = {ours} \ {None}
  <2>1. f.xinas = run.render /\ f.foreign[i] = None /\ run.render # None
    BY <1>1, <1>3, <1>4, NoneIsNoFile DEF Files, RunOK
  <2> QED BY <2>1 DEF Merged
<1>6. ours = None \/ ours = RowStanza(row)
  BY <1>1 DEF RunOK, EmptyFile
<1> SUFFICES ASSUME i \in h.linked
             PROVE  LET addrs == IF row.enabled THEN row.addrs ELSE {}
                    IN /\ h.addrs[i] = addrs
                       /\ OwnTable(h, i, row.table) => RulesOf(h, row.table) = addrs \X {row.table}
  BY DEF Exactly, RulesOf
<1>7. h.linked \subseteq Iface
  BY DEF NetHost
<1>8. /\ h.addrs[i] = Configured(f, i)
      /\ OwnTable(h, i, row.table) => RulesOf(h, row.table) = {r \in ConfiguredRules(f, i) : r[2] = row.table}
  <2>1. /\ h.addrs[i] = Configured(f, i)
        /\ row.table # 0 =>
              RulesOf(h, row.table) = {r \in UNION {ConfiguredRules(f, d) : d \in h.linked} : r[2] = row.table}
    BY <1>3 DEF Put
  <2>2. OwnTable(h, i, row.table) => row.table # 0
    BY DEF OwnTable
  <2> QED BY <1>7, <2>1, <2>2, RulesOfOne
<1>9. ~row.enabled \/ row.addrs \subseteq h.addrs[i]
  BY <1>3 DEF VerifyDev
<1> HIDE DEF run, row, ours, f
<1>10. CASE ours = None
  <2>1. Configured(f, i) = {} /\ ConfiguredRules(f, i) = {}
    BY <1>5, <1>10 DEF Configured, ConfiguredRules
  <2>2. (IF row.enabled THEN row.addrs ELSE {}) = {}
    BY <1>8, <1>9, <2>1
  <2> QED BY <1>8, <2>1, <2>2
<1>11. CASE ours # None
  <2>1. /\ row.enabled /\ ours.addrs = row.addrs
        /\ ours.table = IF row.addrs = {} THEN None ELSE row.table
    BY <1>6, <1>11 DEF RowStanza
  <2>2. Merged(f, i) = {ours}
    BY <1>5, <1>11
  <2>3. /\ Configured(f, i) = row.addrs
        /\ ConfiguredRules(f, i) = row.addrs \X ({ours.table} \ {None})
    BY <2>1, <2>2 DEF Configured, ConfiguredRules
  <2>4. row.table # None
    BY <1>1, NoneIsNoFile DEF Desc
  <2>5. {r \in ConfiguredRules(f, i) : r[2] = row.table} = row.addrs \X {row.table}
    <3>1. CASE row.addrs = {}
      BY <2>3, <3>1
    <3>2. CASE row.addrs # {}
      <4>1. ConfiguredRules(f, i) = row.addrs \X {row.table}
        BY <2>1, <2>3, <2>4, <3>2
      <4> QED BY <4>1
    <3> QED BY <3>1, <3>2
  <2> QED BY <1>8, <2>1, <2>3, <2>5
<1> QED BY <1>10, <1>11

-----------------------------------------------------------------------------
(***************************************************************************)
(* The theorems.                                                           *)
(***************************************************************************)
\* The inductive invariant: a task runs alone, knows the files it found, and in a rollback
\* has done what its remaining calls do not do.
THEOREM Inductive == Spec => []Inv
BY InitInv, StepInv, PTL DEF Spec

\* The state is of its type, whatever the observation missed and however often plans,
\* runs and operators come between one another.
THEOREM TypeCorrect == Spec => []TypeOK
<1>1. Inv => TypeOK
  <2> SUFFICES ASSUME Inv PROVE TypeOK
    OBVIOUS
  <2>1. \A i \in Iface : seen.rows[i].mlx \in BOOLEAN /\ seen.rows[i].netplan \in Stanza \cup {None}
    BY DEF Inv, Typed, Seen
  <2>2. seen.files \in NetFiles
    BY DEF Inv, Typed, Seen
  <2>3. Len(NetStages) + 1 = 6
    BY DEF NetStages
  <2> QED BY <2>1, <2>2, <2>3 DEF Inv, Typed, TasksTyped, TaskTyped, TypeOK
<1> QED BY <1>1, Inductive, PTL

\* A task takes out of foreign files only stanzas its plan named, as the author of the
\* plan saw them, or puts them back.
THEOREM ForeignStays == Spec => ForeignKept
<1> DEFINE Kept == \A t \in Task, i \in Iface :
              host.foreign[i] # host'.foreign[i] /\ task[t].calls # <<>> /\ task'[t].calls # task[t].calls
              => /\ i \in task[t].plan.run.cleaned
                 /\ task[t].plan.run.hash.foreign[i] \in {host.foreign[i], host'.foreign[i]}
<1>1. Inv /\ [Next]_vars => [Kept]_vars
  <2> SUFFICES ASSUME Inv, [Next]_vars, NEW t \in Task, NEW i \in Iface,
                      host.foreign[i] # host'.foreign[i], task[t].calls # <<>>, task'[t].calls # task[t].calls
               PROVE  /\ i \in task[t].plan.run.cleaned
                      /\ task[t].plan.run.hash.foreign[i] \in {host.foreign[i], host'.foreign[i]}
    OBVIOUS
  <2> DEFINE k == task[t]
             g == NetPerform(host, Head(k.calls)).host
  <2>1. PICK u \in Task : Work(u)
    BY DEF Next, vars, TaskStep, MakePlan, Apply, RequestCancel, CancelRun, StartStage, StartRollback,
           EndRollback, EndRun, Sweep, SweepBlind, NetlinkEvent, OperatorEdit
  <2>2. DOMAIN task = Task /\ TaskTyped(k) /\ host \in NetHost
    BY DEF Inv, Typed, TasksTyped
  <2>3. u = t
    BY <2>1, <2>2 DEF Work, End
  <2>4. host' \in {host, g}
    BY <2>1, <2>3 DEF Work
  <2>5. Runs(k) /\ RunInv(k, host)
    BY <2>2 DEF TaskTyped, Runs, Live, Inv
  <2>6. host.foreign[i] # g.foreign[i] =>
           i \in k.plan.run.cleaned /\ k.plan.run.hash.foreign[i] \in {host.foreign[i], g.foreign[i]}
    <3> HIDE DEF k
    <3> QED BY <2>2, <2>5, CallOnFiles DEF k
  <2> QED BY <2>4, <2>6
<1> QED BY <1>1, Inductive, PTL DEF Spec, ForeignKept

\* A task that failed or was cancelled has given the files back as it found them, and its
\* interfaces the addresses those configure.
THEOREM FilesGivenBack == Spec => FilesRestored
<1> DEFINE Restored == \A t \in Task : Becomes(t, {"failed", "cancelled"}) /\ task[t].base.xinas # None
              => /\ Files(host') = task[t].base
                 /\ task[t].stash.before # None => \A i \in DOMAIN Targets(t) :
                       i \in host.linked => host'.addrs[i] = Configured(task[t].base, i)
<1>1. Inv /\ [Next]_vars => [Restored]_vars
  <2> SUFFICES ASSUME Inv, [Next]_vars, NEW t \in Task, Becomes(t, {"failed", "cancelled"}),
                      task[t].base.xinas # None
               PROVE  /\ Files(host') = task[t].base
                      /\ task[t].stash.before # None => \A i \in DOMAIN Targets(t) :
                            i \in host.linked => host'.addrs[i] = Configured(task[t].base, i)
    OBVIOUS
  <2> DEFINE k == task[t]
  <2>1. /\ DOMAIN task = Task /\ TaskTyped(k) /\ host \in NetHost /\ k.phase \in Live
        /\ task'[t].phase \in {"failed", "cancelled"}
    BY DEF Inv, Typed, TasksTyped, Becomes
  <2>2. EndRollback(t)
    <3>1. Becomes(t, {"success", "failed", "cancelled"})
      BY <2>1 DEF Becomes
    <3> QED BY <2>1, <3>1, EndMoves
  <2>3. host' = host /\ k.calls = <<>> /\ k.phase = "rollback"
    BY <2>2 DEF EndRollback
  <2>4. RunInv(k, host) /\ k.base \in NetFiles
    BY <2>1, <2>3 DEF Inv, Runs, Live, TaskTyped
  <2>5. CASE k.stash.before = None
    BY <2>3, <2>4, <2>5 DEF RunInv, FilesKnown
  <2>6. CASE k.stash.before # None
    <3>1. GoingBack(k, host)
      BY <2>3, <2>4, <2>6 DEF RunInv
    <3>2. ~Unwritten(k.calls, "foreign") /\ ~Unwritten(k.calls, "xinas")
      BY <2>3, NoCall DEF Unwritten
    <3>3. host.foreign = k.base.foreign /\ host.xinas = k.base.xinas
      BY <3>1, <3>2 DEF GoingBack
    <3>4. Files(host) = k.base
      BY <2>4, <3>3 DEF Files, NetFiles
    <3>5. \A i \in DOMAIN Targets(t) : i \in host.linked => host.addrs[i] = Configured(k.base, i)
      BY <2>3, <3>1 DEF GoingBack, Targets
    <3> QED BY <2>3, <3>4, <3>5
  <2> QED BY <2>5, <2>6
<1> QED BY <1>1, Inductive, PTL DEF Spec, FilesRestored

\* A task that succeeds leaves the kernel with the addresses of its rows on its interfaces
\* and no others, and with their source rules where the table is the interface's own:
\* blocked or not when it was planned, whoever else planned, failed or edited before.
THEOREM KernelAsPlanned == Spec => KernelIsIntent
<1> DEFINE Meant == \A t \in Task : Becomes(t, {"success"}) => \A i \in DOMAIN Targets(t) :
              task[t].base.foreign[i] = None \/ InXinas(task[t].base, i)
              => LET row == Targets(t)[i]
                 IN Exactly(host', i, IF row.enabled THEN row.addrs ELSE {}, row.table)
<1>1. Inv /\ [Next]_vars => [Meant]_vars
  <2> SUFFICES ASSUME Inv, [Next]_vars, NEW t \in Task, Becomes(t, {"success"}), NEW i \in DOMAIN Targets(t),
                      task[t].base.foreign[i] = None \/ InXinas(task[t].base, i)
               PROVE  LET row == Targets(t)[i]
                      IN Exactly(host', i, IF row.enabled THEN row.addrs ELSE {}, row.table)
    OBVIOUS
  <2> DEFINE k == task[t]
  <2>1. /\ TaskTyped(k) /\ host \in NetHost /\ Runs(k) /\ RunInv(k, host) /\ host' = host
        /\ k.phase = "running" /\ k.calls = <<>> /\ k.stage = 6
    BY SuccessEnds
  <2>4. Targets(t) = k.plan.run.targets
    BY DEF Targets
  <2> HIDE DEF k
  <2>5. LET row == k.plan.run.targets[i]
        IN Exactly(host, i, IF row.enabled THEN row.addrs ELSE {}, row.table)
    BY <2>1, <2>4, KernelAtEnd DEF k
  <2> QED BY <2>1, <2>4, <2>5
<1> QED BY <1>1, Inductive, PTL DEF Spec, KernelIsIntent

\* A task that succeeds leaves our file the render of its plan and the foreign ones as it
\* found them but for the duplicates the plan names, and no target is defined in both.
FilesAsPlanned ==
    [][\A t \in Task : Becomes(t, {"success"})
          => LET run == task[t].plan.run
             IN /\ host'.xinas = run.render /\ host'.foreign = Cleaned(run, task[t].base)
                /\ DOMAIN run.targets \cap Duplicates(task[t].base) \subseteq run.cleaned]_vars

\* Whatever comes between plan and apply: the files of a success are the ones its plan stands for.
THEOREM FilesAsRendered == Spec => FilesAsPlanned
<1> DEFINE Planned == \A t \in Task : Becomes(t, {"success"})
              => LET run == task[t].plan.run
                 IN /\ host'.xinas = run.render /\ host'.foreign = Cleaned(run, task[t].base)
                    /\ DOMAIN run.targets \cap Duplicates(task[t].base) \subseteq run.cleaned
<1>1. Inv /\ [Next]_vars => [Planned]_vars
  <2> SUFFICES ASSUME Inv, [Next]_vars, NEW t \in Task, Becomes(t, {"success"})
               PROVE  LET run == task[t].plan.run
                      IN /\ host'.xinas = run.render /\ host'.foreign = Cleaned(run, task[t].base)
                         /\ DOMAIN run.targets \cap Duplicates(task[t].base) \subseteq run.cleaned
    OBVIOUS
  <2> DEFINE k == task[t]
  <2>1. /\ TaskTyped(k) /\ Runs(k) /\ RunInv(k, host) /\ host' = host
        /\ k.phase = "running" /\ k.calls = <<>> /\ k.stage = 6
    BY SuccessEnds
  <2>2. RunOK(k.plan.run)
    BY <2>1 DEF TaskTyped, Runs, PlanOK
  <2>3. GoingForward(k, host) /\ k.plan.run.hash = k.base
    BY <2>1 DEF RunInv, FilesKnown
  <2> HIDE DEF k
  <2>4. /\ host.xinas = k.plan.run.render /\ host.foreign = Cleaned(k.plan.run, k.base)
        /\ k.plan.run.cleanup \/ DOMAIN k.plan.run.targets \cap Duplicates(k.base) = {}
    BY <2>1, <2>3, NoCall DEF GoingForward, Unwritten
  <2>5. DOMAIN k.plan.run.targets \cap Duplicates(k.base) \subseteq k.plan.run.cleaned
    BY <2>2, <2>3, <2>4 DEF RunOK
  <2> QED BY <2>1, <2>4, <2>5 DEF k
<1> QED BY <1>1, Inductive, PTL DEF Spec, FilesAsPlanned
=============================================================================
