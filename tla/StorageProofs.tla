---------------------------- MODULE StorageProofs ----------------------------
(***************************************************************************)
(* What storage tasks may do to a host, for any number of them: that no    *)
(* array is destroyed under a mount, and that data goes only on request.   *)
(* A task's calls are about its own array or path, for which it holds the  *)
(* lease; two live tasks hold different leases; what a task found in its   *)
(* preflight therefore stays until its calls have been made.  And what     *)
(* they leave: what is exported is what is desired, and a task that        *)
(* succeeds has done what it was for.                                      *)
(***************************************************************************)
EXTENDS StorageControl, SequenceTheorems, TLAPS

ArrayKinds == {"xiraid.array.create", "xiraid.array.modify", "xiraid.array.import", "xiraid.array.delete"}
PoolKinds  == {"pool.create", "pool.modify", "pool.delete"}
FsKinds    == {"fs.create", "fs.mount", "fs.unmount", "fs.grow", "fs.set_quota_mode", "fs.unmanage"}
ShareKinds == {"share.create", "share.update", "share.delete"}

\* The kinds that may mount a filesystem that was there before, and all that may mount.
Remounting == {"fs.mount", "fs.unmount", "fs.set_quota_mode"}
Mounting   == Remounting \cup {"fs.create"}

\* What a run remembers of the state before its change.
PreState(kind) ==
    CASE kind = "xiraid.array.modify" -> [spare : PoolName \cup {None}, pool : PoolState \cup {None}]
      [] kind = "pool.modify"         -> PoolState
      [] kind = "fs.set_quota_mode"   -> [unit : UnitText, mounted : BOOLEAN]
      [] kind = "fs.unmanage"         -> UnitText
      [] kind \in {"share.update", "share.delete"} -> Rule
      [] kind = "nfs-idmap.set"       -> Domain
      [] OTHER -> {}

Stash(kind) == [marker : BOOLEAN, before : PreState(kind) \cup {None}]

-----------------------------------------------------------------------------
(***************************************************************************)
(* What a task may do: call c suits job j with stash s, in the stages or,  *)
(* if back, in the rollback.                                               *)
(***************************************************************************)
RaidSuits(c, j, s, back) ==
    /\ c.verb = "raidCreate" =>
          j.kind = "xiraid.array.create" /\ ~back /\ c.on = j.array /\ c.arg \in ArrayState
    /\ c.verb = "raidDestroy" =>
          /\ \/ j.kind \in {"xiraid.array.create", "xiraid.array.import"} /\ back
             \/ j.kind = "xiraid.array.delete" /\ ~back
          /\ c.on = j.array
          /\ j.kind = "xiraid.array.import" => c.arg = TRUE
          /\ j.kind = "xiraid.array.create" => s.marker
    /\ c.verb = "raidModify" =>
          j.kind = "xiraid.array.modify" /\ c.on = j.array /\ c.arg \in PoolName \cup {None}
    /\ c.verb = "raidImport" => j.kind = "xiraid.array.import" /\ ~back /\ c.on = j.array

\* The pool the calls of a job are about: its own, or the spare pool of its array.
PoolOf(j) == IF j.kind \in PoolKinds THEN j.pool ELSE j.array
Pooling   == PoolKinds \cup {"xiraid.array.create", "xiraid.array.modify", "xiraid.array.delete"}
OnPools   == {"poolCreate", "poolDelete", "poolAdd", "poolRemove", "poolSetActive"}

PoolSuits(c, j) ==
    /\ c.verb \in OnPools => j.kind \in Pooling /\ c.on = PoolOf(j) /\ c.on \in PoolName
    /\ c.verb \in {"poolCreate", "poolAdd", "poolRemove"} => c.arg \in SUBSET Drive
    /\ c.verb = "poolSetActive" => c.arg \in BOOLEAN

FsSuits(c, j, s, back) ==
    /\ c.verb = "mkfs" => j.kind = "fs.create" /\ ~back /\ c.on = j.path /\ c.arg = j.unit
    /\ c.verb = "writeUnit" =>
          /\ j.kind \in FsKinds /\ c.on = j.path /\ c.arg \in UnitText
          /\ j.kind = "fs.create" => c.arg = j.unit
          /\ j.kind = "fs.set_quota_mode" =>
                /\ s.before \in PreState(j.kind) /\ c.arg.what = s.before.unit.what
                /\ back => s.before # None
          /\ j.kind \notin {"fs.mount", "fs.unmount"}
          /\ j.kind = "fs.unmanage" => back
    /\ c.verb = "removeUnit" => j.kind \in FsKinds /\ c.on = j.path
    /\ c.verb = "enableNow" => j.kind \in Mounting /\ c.on = j.path /\ (j.kind = "fs.create" => ~back)
    /\ c.verb \in {"stop", "disable", "growfs"} => j.kind \in FsKinds /\ c.on = j.path /\ c.on \in Path

NfsSuits(c, j, back) ==
    /\ c.verb \in {"addExport", "updateExport", "removeExport"} =>
          j.kind \in ShareKinds /\ c.on = j.path /\ c.on \in Path
    /\ c.verb \in {"addExport", "updateExport"} => c.arg \in Rule
    /\ c.verb = "addExport" => (back <=> j.kind = "share.delete")
    /\ c.verb = "setIdmapDomain" => j.kind = "nfs-idmap.set" /\ c.arg \in Domain
    /\ c.verb = "renderProfile" => j.kind = "nfs-profile.update" /\ c.arg \in Profile

\* An error that is not thrown: of the pool a deleted array leaves behind, of disabling
\* a unit on its way out, and of what the rollbacks of pools do.
ErrorSuits(c, j, back) ==
    c.onError # "throw" =>
        \/ j.kind = "xiraid.array.delete" /\ ~back /\ c.verb \in OnPools
        \/ /\ c.onError = "next"
           /\ \/ j.kind = "fs.unmanage" /\ ~back /\ c.verb = "disable"
              \/ j.kind \in PoolKinds \cup {"fs.create"} /\ back

FsVerbs == {"mkfs", "writeUnit", "removeUnit", "enableNow", "stop", "disable", "growfs"}

Suits(c, j, s, back) ==
    /\ c.verb \in RaidVerbs \cup FsVerbs \cup NfsVerbs
    /\ RaidSuits(c, j, s, back) /\ PoolSuits(c, j) /\ FsSuits(c, j, s, back) /\ NfsSuits(c, j, back)
    /\ ErrorSuits(c, j, back)

AllSuit(calls, j, s, back) ==
    /\ calls \in Seq({calls[i] : i \in DOMAIN calls})
    /\ \A i \in DOMAIN calls : Suits(calls[i], j, s, back)

-----------------------------------------------------------------------------
(***************************************************************************)
(* The invariant.                                                          *)
(***************************************************************************)
\* A record with the fields of a task.
IsTask(k) ==
    k \in [job : {k.job}, phase : {k.phase}, plan : {k.plan}, was : {k.was}, base : {k.base},
           stage : {k.stage}, calls : {k.calls}, stash : {k.stash}, cancelled : {k.cancelled}]

Begun(k) == k.phase \in Live
Past(k)  == k.stage > 1       \* its preflight has passed

Own(j) ==
    IF j.kind \in ArrayKinds THEN {<<"XiraidArray", j.array>>}
    ELSE IF j.kind \in FsKinds THEN {<<"Filesystem", j.path>>}
    ELSE IF j.kind \in PoolKinds THEN {<<"Pool", j.pool>>}
    ELSE IF j.kind \in ShareKinds THEN {<<"Share", j.id>>}
    ELSE IF j.kind = "nfs-idmap.set" THEN {<<"NfsIdmap", "snapshot">>}
    ELSE {<<"NfsProfile", "default">>}

TaskTyped(k) ==
    /\ IsTask(k)
    /\ k.job \in Job /\ k.phase \in Phase /\ k.cancelled \in BOOLEAN
    /\ k.stage \in 1 .. Len(Stages(k.job.kind)) + 1
    /\ k.stash \in Stash(k.job.kind)
    /\ k.phase \in Live \cup {"planned"} =>
          /\ k.was \in Wanted
          /\ k.job.kind = "nfs-profile.update" => k.job.prior \in Profile
          /\ Own(k.job) \subseteq k.plan.leases
    /\ k.phase \in {"new", "planned"} => k.stage = 1 /\ k.stash = EmptyStash
    /\ Past(k) /\ k.job.kind \in {"xiraid.array.modify", "fs.set_quota_mode"} =>
          k.stash.before \in PreState(k.job.kind)
    /\ k.stash.marker /\ k.job.kind = "xiraid.array.create" => Past(k)
    /\ k.calls # <<>> => k.phase \in {"running", "rollback"} /\ (k.phase = "running" => Past(k))
    /\ AllSuit(k.calls, k.job, k.stash, k.phase = "rollback")

TasksTyped == DOMAIN task = Task /\ \A t \in Task : TaskTyped(task[t])

Typed ==
    /\ host \in Host /\ desired \in Wanted /\ exposed \subseteq Array
    /\ TasksTyped
    /\ faults \in 0 .. MaxFaults /\ polls \in 0 .. MaxPolls

Disjoint == \A t, u \in Task : t # u => Leased(t) \cap Leased(u) = {}

\* The arrays a live task holds, or is let on to all the same.
Reach(t) == {a \in Array : <<"XiraidArray", a>> \in Leased(t)} \cup exposed

\* Whatever a task mounts or formats is in its reach.
Reaching(t) ==
    LET k == task[t]
    IN Begun(k) =>
          /\ k.job.kind = "fs.create" => Devices(k.job.unit) \subseteq Reach(t)
          /\ k.job.kind = "fs.create" /\ Past(k) /\ k.phase = "running" =>
                host.units[k.job.path] \in {None, k.job.unit}
          /\ k.job.kind \in Remounting /\ host.units[k.job.path] # None =>
                host.units[k.job.path].what \in Reach(t)
          /\ k.job.kind = "fs.set_quota_mode" /\ (Past(k) \/ k.stash.before # None) =>
                k.stash.before.unit.what \in Reach(t)

\* No filesystem is mounted on an array that a task may destroy.
Clear(a) == a \in exposed \/ BackingOf(host, a) = {}

Cleared(t) ==
    LET k == task[t]
    IN Begun(k) =>
          /\ k.job.kind \in {"xiraid.array.create", "xiraid.array.delete"} /\ Past(k) => Clear(k.job.array)
          /\ k.job.kind = "xiraid.array.import" => Clear(k.job.array)

MountInv ==
    Typed /\ Disjoint /\ (\A t \in Task : Reaching(t) /\ Cleared(t)) /\ MountedOnArray

\* An array that a task created has no data yet; what a creation found free stays so.
Unused(t) ==
    LET k == task[t]
    IN Begun(k) /\ Past(k) =>
          /\ k.job.kind = "xiraid.array.create" =>
                ~Shown(host, k.job.array) \/ host.data[k.job.array] = None \/ k.job.array \in exposed
          /\ k.job.kind = "fs.create" /\ ~k.job.force /\ k.phase = "running" =>
                host.data[k.job.unit.what] \in {None, k.job.path} \/ k.job.unit.what \in exposed

DataInv == MountInv /\ \A t \in Task : Unused(t)

-----------------------------------------------------------------------------
(***************************************************************************)
(* Sequences of calls.                                                     *)
(***************************************************************************)
LEMMA SuitSeq ==
    ASSUME NEW X, NEW calls \in Seq(X), NEW j, NEW s, NEW back,
           \A c \in X : Suits(c, j, s, back)
    PROVE  AllSuit(calls, j, s, back)
  <1>1. \A i \in DOMAIN calls : calls[i] \in X
    BY ElementOfSeq
  <1>2. calls \in Seq({calls[i] : i \in DOMAIN calls})
    OBVIOUS
  <1>3. QED BY <1>1, <1>2 DEF AllSuit

LEMMA SuitHead ==
    ASSUME NEW calls, NEW j, NEW s, NEW back, AllSuit(calls, j, s, back), calls # <<>>
    PROVE  /\ Suits(Head(calls), j, s, back)
           /\ AllSuit(Tail(calls), j, s, back)
           /\ Tail(calls) # calls
  <1> DEFINE X == {calls[i] : i \in DOMAIN calls}
  <1>1. calls \in Seq(X) /\ \A c \in X : Suits(c, j, s, back)
    BY DEF AllSuit
  <1> HIDE DEF X
  <1>2. Head(calls) \in X /\ Tail(calls) \in Seq(X) /\ Len(Tail(calls)) = Len(calls) - 1 /\ Len(calls) \in Nat
    BY <1>1, HeadTailProperties
  <1>3. AllSuit(Tail(calls), j, s, back)
    BY <1>1, <1>2, SuitSeq
  <1>4. Suits(Head(calls), j, s, back)
    BY <1>1, <1>2
  <1>5. Tail(calls) # calls
    <2> DEFINE rest == Tail(calls)
    <2>1. Len(rest) = Len(calls) - 1 /\ Len(calls) \in Nat
      BY <1>2
    <2> HIDE DEF rest
    <2>2. rest # calls
      BY <2>1
    <2>3. QED BY <2>2 DEF rest
  <1>6. QED BY <1>3, <1>4, <1>5

LEMMA NoCalls ==
    ASSUME NEW j, NEW s, NEW back
    PROVE  AllSuit(<<>>, j, s, back)
  <1>1. <<>> \in Seq({<<>>[i] : i \in DOMAIN <<>>}) /\ DOMAIN <<>> = {}
    OBVIOUS
  <1>2. QED BY <1>1 DEF AllSuit

LEMMA SuitOne ==
    ASSUME NEW c, NEW j, NEW s, NEW back, Suits(c, j, s, back)
    PROVE  AllSuit(<<c>>, j, s, back)
  <1>1. <<c>> \in Seq({c})
    OBVIOUS
  <1> DEFINE X == {c}
  <1>2. \A d \in X : Suits(d, j, s, back)
    OBVIOUS
  <1>3. <<c>> \in Seq(X)
    BY <1>1
  <1> HIDE DEF X
  <1>4. QED BY <1>2, <1>3, SuitSeq

LEMMA SuitTwo ==
    ASSUME NEW c, NEW d, NEW j, NEW s, NEW back, Suits(c, j, s, back), Suits(d, j, s, back)
    PROVE  AllSuit(<<c, d>>, j, s, back)
  <1> DEFINE X == {c, d}
  <1>1. <<c, d>> \in Seq(X)
    OBVIOUS
  <1>2. \A e \in X : Suits(e, j, s, back)
    OBVIOUS
  <1> HIDE DEF X
  <1>3. QED BY <1>1, <1>2, SuitSeq

LEMMA SuitConcat ==
    ASSUME NEW one, NEW two, NEW j, NEW s, NEW back, AllSuit(one, j, s, back), AllSuit(two, j, s, back)
    PROVE  AllSuit(one \o two, j, s, back)
  <1> DEFINE Y == {one[i] : i \in DOMAIN one}
             Z == {two[i] : i \in DOMAIN two}
             X == Y \cup Z
  <1>1. one \in Seq(Y) /\ two \in Seq(Z) /\ \A e \in X : Suits(e, j, s, back)
    BY DEF AllSuit
  <1>2. Y \subseteq X /\ Z \subseteq X
    OBVIOUS
  <1> HIDE DEF X, Y, Z
  <1>3. one \in Seq(X) /\ two \in Seq(X)
    BY <1>1, <1>2, SeqMonotonic
  <1>4. one \o two \in Seq(X)
    BY <1>3, ConcatProperties
  <1>5. QED BY <1>1, <1>4, SuitSeq

LEMMA SuitIf ==
    ASSUME NEW cond, NEW calls, NEW j, NEW s, NEW back, cond => AllSuit(calls, j, s, back)
    PROVE  AllSuit(If(cond, calls), j, s, back)
  <1>1. CASE cond
    BY <1>1 DEF If
  <1>2. CASE ~cond
    BY <1>2, NoCalls DEF If
  <1>3. QED BY <1>1, <1>2

\* A job has the fields of its kind.
LEMMA JobShape ==
    ASSUME NEW j \in Job
    PROVE  /\ j.kind \in ArrayKinds => j.array \in Array
           /\ j.kind = "xiraid.array.create" => j.disks \in SUBSET Drive /\ j.spares \in SUBSET Drive
           /\ j.kind = "xiraid.array.modify" => j.spares \in (SUBSET Drive) \cup {None}
           /\ j.kind \in PoolKinds => j.pool \in PoolName
           /\ j.kind \in {"pool.create", "pool.modify"} => j.drives \in SUBSET Drive
           /\ j.kind = "pool.modify" => j.intent \in {"add_drives", "remove_drives", "activate", "deactivate"}
           /\ j.kind \in FsKinds \cup ShareKinds => j.path \in Path
           /\ j.kind = "fs.create" => j.unit \in UnitText
           /\ j.kind = "fs.create" => j.force \in BOOLEAN /\ j.sized \in BOOLEAN /\ j.resolved \in BOOLEAN
           /\ j.kind = "fs.set_quota_mode" => j.quota \in QuotaMode
           /\ j.kind \in ShareKinds => j.id \in ShareId
           /\ j.kind \in {"share.create", "share.update"} => j.rule \in Rule
           /\ j.kind = "nfs-idmap.set" => j.domain \in Domain
           /\ j.kind = "nfs-profile.update" => j.profile \in Profile /\ j.prior \in Profile \cup {None}
  BY DEF Job, ArrayKinds, PoolKinds, FsKinds, ShareKinds

LEMMA JobKind ==
    ASSUME NEW j \in Job
    PROVE  j.kind \in ArrayKinds \cup PoolKinds \cup FsKinds \cup ShareKinds
                      \cup {"nfs-idmap.set", "nfs-profile.update"}
  BY DEF Job, ArrayKinds, PoolKinds, FsKinds, ShareKinds

-----------------------------------------------------------------------------
(***************************************************************************)
(* Every stage and every rollback makes calls that suit its job, and keeps *)
(* its stash.                                                              *)
(***************************************************************************)
Safe(r, j, back) == r.stash \in Stash(j.kind) /\ AllSuit(r.calls, j, r.stash, back)

LEMMA SafeIssue ==
    ASSUME NEW j, NEW s \in Stash(j.kind), NEW back, NEW calls, AllSuit(calls, j, s, back)
    PROVE  Safe(Issue(s, calls), j, back)
  BY DEF Safe, Issue

LEMMA SafeCheck ==
    ASSUME NEW j, NEW s \in Stash(j.kind), NEW back, NEW ok
    PROVE  Safe(Check(ok, s), j, back) /\ Safe(Nothing(s), j, back)
  <1>1. AllSuit(<<>>, j, s, back)
    BY NoCalls
  <1>2. QED BY <1>1 DEF Safe, Check, Nothing, Issue

\* Calls on pools, and those that change the spare pool of an array.
LEMMA PoolCallsSuit ==
    ASSUME NEW j \in Job, j.kind \in Pooling, NEW s, NEW back, NEW n, n = PoolOf(j), NEW drives \in SUBSET Drive
    PROVE  /\ Suits(Call("poolCreate", n, drives), j, s, back)
           /\ Suits(Call("poolAdd", n, drives), j, s, back)
           /\ Suits(Call("poolRemove", n, drives), j, s, back)
           /\ Suits(Call("poolDelete", n, None), j, s, back)
           /\ \A on \in BOOLEAN : Suits(Call("poolSetActive", n, on), j, s, back)
  <1>1. n \in PoolName
    BY JobShape DEF PoolOf, Pooling, PoolName, ArrayKinds
  <1>2. QED BY <1>1 DEF Suits, RaidSuits, PoolSuits, OnPools, FsSuits, NfsSuits, ErrorSuits, Call, RaidVerbs

LEMMA RaidModifySuits ==
    ASSUME NEW j, j.kind = "xiraid.array.modify", NEW s, NEW back, NEW n \in PoolName \cup {None}
    PROVE  Suits(Call("raidModify", j.array, n), j, s, back)
  BY DEF Suits, RaidSuits, PoolSuits, OnPools, FsSuits, NfsSuits, ErrorSuits, Call, RaidVerbs

\* Calls on the path of a filesystem or a share.
LEMMA FsCallsSuit ==
    ASSUME NEW j \in Job, j.kind \in FsKinds, NEW s, NEW back
    PROVE  /\ Suits(Call("stop", j.path, None), j, s, back)
           /\ Suits(Call("disable", j.path, None), j, s, back)
           /\ Suits(Call("growfs", j.path, None), j, s, back)
           /\ Suits(Call("removeUnit", j.path, None), j, s, back)
           /\ j.kind \in Mounting /\ (j.kind = "fs.create" => ~back) =>
                 Suits(Call("enableNow", j.path, None), j, s, back)
  <1>1. j.path \in Path
    BY JobShape
  <1>2. QED BY <1>1 DEF Suits, RaidSuits, PoolSuits, OnPools, FsSuits, NfsSuits, ErrorSuits, Call, FsVerbs

LEMMA NfsCallsSuit ==
    ASSUME NEW j, j.kind \in ShareKinds, j.path \in Path, NEW s, NEW back, NEW rule \in Rule
    PROVE  /\ (back <=> j.kind = "share.delete") => Suits(Call("addExport", j.path, rule), j, s, back)
           /\ Suits(Call("updateExport", j.path, rule), j, s, back)
           /\ Suits(Call("removeExport", j.path, None), j, s, back)
  BY DEF Suits, RaidSuits, PoolSuits, OnPools, FsSuits, NfsSuits, ErrorSuits, Call, NfsVerbs

\* What an error of a call does makes no difference to what the call is about.
LEMMA SoftSuits ==
    ASSUME NEW j, NEW s, NEW back, NEW v, NEW on, NEW arg, Suits(Call(v, on, arg), j, s, back),
           \/ j.kind = "fs.unmanage" /\ ~back /\ v = "disable"
           \/ j.kind \in PoolKinds \cup {"fs.create"} /\ back
    PROVE  Suits(Soft(Call(v, on, arg)), j, s, back)
  BY DEF Suits, RaidSuits, PoolSuits, OnPools, FsSuits, NfsSuits, ErrorSuits, Call, Soft

LEMMA DropPoolSuits ==
    ASSUME NEW h \in Host, NEW j \in Job, j.kind \in Pooling, NEW n, n = PoolOf(j), NEW s, NEW back
    PROVE  AllSuit(DropPool(h, n), j, s, back)
  <1> DEFINE off == Call("poolSetActive", n, FALSE)
             del == Call("poolDelete", n, None)
  <1>1. AllSuit(<<off>>, j, s, back) /\ AllSuit(<<del>>, j, s, back)
    <2>1. Suits(off, j, s, back) /\ Suits(del, j, s, back)
      BY PoolCallsSuit
    <2> HIDE DEF off, del
    <2>2. QED BY <2>1, SuitOne
  <1> HIDE DEF off, del
  <1>2. AllSuit(If(h.pools[n].active, <<off>>) \o <<del>>, j, s, back)
    BY <1>1, SuitIf, SuitConcat
  <1>3. AllSuit(If(HasPool(h, n), If(h.pools[n].active, <<off>>) \o <<del>>), j, s, back)
    BY <1>2, SuitIf
  <1>4. QED BY <1>3 DEF DropPool, off, del

LEMMA DropPoolRest ==
    ASSUME NEW h \in Host, NEW j \in Job, j.kind = "xiraid.array.delete", NEW n, n = j.array, NEW s
    PROVE  AllSuit(Rest(DropPool(h, n)), j, s, FALSE)
  <1> DEFINE off    == Call("poolSetActive", n, FALSE)
             del    == Call("poolDelete", n, None)
             AtEnd(c) == [c EXCEPT !.onError = "end"]
             offR   == AtEnd(off)
             delR   == AtEnd(del)
  <1>1. Suits(offR, j, s, FALSE) /\ Suits(delR, j, s, FALSE)
    <2>1. n = PoolOf(j) /\ n \in PoolName /\ j.kind \in Pooling /\ j.kind \notin PoolKinds
      BY JobShape DEF PoolOf, Pooling, PoolKinds, PoolName, ArrayKinds
    <2>2. QED BY <2>1 DEF Suits, RaidSuits, PoolSuits, OnPools, FsSuits, NfsSuits, ErrorSuits, Call, RaidVerbs
  <1> HIDE DEF off, del
  <1>2. /\ Rest(<<>>) = <<>>
        /\ Rest(<<del>>) = <<delR>>
        /\ Rest(<<off, del>>) = <<offR, delR>>
    <2>1. \A calls : Rest(calls) = [i \in DOMAIN calls |-> AtEnd(calls[i])]
      BY DEF Rest
    <2> HIDE DEF AtEnd
    <2>2. QED BY <2>1
  <1>3. DropPool(h, n) \in {<<>>, <<del>>, <<off, del>>}
    <2> DEFINE X == {off, del}
    <2>1. del \in X /\ <<off>> \in Seq(X) /\ <<del>> \in Seq(X)
      OBVIOUS
    <2> HIDE DEF X
    <2>2. <<>> \o <<del>> = <<del>>
      BY <2>1, ConcatEmptySeq
    <2>3. <<off>> \o <<del>> = <<off, del>>
      <3>1. <<off, del>> \in Seq(X) /\ Len(<<off, del>>) = 2 /\ Len(<<off>>) = 1 /\ Len(<<del>>) = 1
        BY <2>1 DEF X
      <3>2. /\ <<off>> \o <<del>> \in Seq(X)
            /\ Len(<<off>> \o <<del>>) = 2
            /\ (<<off>> \o <<del>>)[1] = off
            /\ (<<off>> \o <<del>>)[2] = del
        BY <2>1, <3>1, ConcatProperties
      <3>3. \A i \in 1 .. 2 : (<<off>> \o <<del>>)[i] = <<off, del>>[i]
        BY <3>2
      <3>4. QED BY <3>1, <3>2, <3>3, SeqEqual
    <2>4. QED BY <2>2, <2>3 DEF DropPool, If, off, del
  <1> HIDE DEF offR, delR
  <1>4. CASE DropPool(h, n) = <<>>
    BY <1>2, <1>4, NoCalls
  <1>5. CASE DropPool(h, n) = <<del>>
    BY <1>1, <1>2, <1>5, SuitOne
  <1>6. CASE DropPool(h, n) = <<off, del>>
    BY <1>1, <1>2, <1>6, SuitTwo
  <1>7. QED BY <1>3, <1>4, <1>5, <1>6

LEMMA ArrayCreateSafe ==
    ASSUME NEW j \in Job, j.kind = "xiraid.array.create", NEW h \in Host, NEW s \in Stash(j.kind),
           NEW stage \in {"preflight", "create", "wait_online", "verify"}
    PROVE  Safe(ArrayCreate(j, stage, h, s), j, FALSE)
  <1>1. CASE stage = "create"
    <2> DEFINE m     == Marked(s)
               spare == IF j.spares = {} THEN None ELSE j.array
               r     == [disks |-> j.disks, spare |-> spare]
               add   == Call("poolCreate", j.array, j.spares)
               on    == Call("poolSetActive", j.array, TRUE)
               raid  == Call("raidCreate", j.array, r)
    <2>1. j.array \in Array /\ j.disks \in SUBSET Drive /\ j.spares \in SUBSET Drive
      BY JobShape DEF ArrayKinds
    <2>2. r \in ArrayState
      BY <2>1 DEF ArrayState, PoolName
    <2>3. Suits(add, j, m, FALSE) /\ Suits(on, j, m, FALSE)
      BY <2>1, PoolCallsSuit DEF Pooling, PoolOf, PoolKinds
    <2>4. Suits(raid, j, m, FALSE)
      <3> HIDE DEF r
      <3>1. QED BY <2>2 DEF Suits, RaidSuits, PoolSuits, OnPools, FsSuits, NfsSuits, ErrorSuits, Call, RaidVerbs
    <2>5. m \in Stash(j.kind)
      BY DEF Marked, Stash
    <2> HIDE DEF add, on, raid, m
    <2>6. AllSuit(If(j.spares # {}, <<add, on>>) \o <<raid>>, j, m, FALSE)
      BY <2>3, <2>4, SuitOne, SuitTwo, SuitIf, SuitConcat
    <2>7. Safe(Issue(m, If(j.spares # {}, <<add, on>>) \o <<raid>>), j, FALSE)
      BY <2>5, <2>6, SafeIssue
    <2>8. QED BY <1>1, <2>7 DEF ArrayCreate, add, on, raid, m
  <1>2. CASE stage # "create"
    BY <1>2, SafeCheck DEF ArrayCreate
  <1>3. QED BY <1>1, <1>2

LEMMA ArrayCreateRollbackSafe ==
    ASSUME NEW j \in Job, j.kind = "xiraid.array.create", NEW h \in Host, NEW s \in Stash(j.kind)
    PROVE  Safe(ArrayCreateRollback(j, h, s), j, TRUE)
  <1> DEFINE raid  == Call("raidDestroy", j.array, FALSE)
             calls == If(Shown(h, j.array), <<raid>>) \o DropPool(h, j.array)
  <1>1. CASE s.marker
    <2>1. AllSuit(DropPool(h, j.array), j, s, TRUE)
      BY DropPoolSuits DEF Pooling, PoolOf, PoolKinds
    <2>2. Suits(raid, j, s, TRUE)
      BY <1>1 DEF Suits, RaidSuits, PoolSuits, OnPools, FsSuits, NfsSuits, ErrorSuits, Call, RaidVerbs
    <2> HIDE DEF raid
    <2>3. AllSuit(calls, j, s, TRUE)
      BY <2>1, <2>2, SuitOne, SuitIf, SuitConcat
    <2> HIDE DEF calls
    <2>4. Safe(Issue(s, calls), j, TRUE)
      BY <2>3, SafeIssue
    <2>5. QED BY <1>1, <2>4 DEF ArrayCreateRollback, calls, raid
  <1>2. CASE ~s.marker
    BY <1>2, SafeCheck DEF ArrayCreateRollback
  <1>3. QED BY <1>1, <1>2

LEMMA ArrayImportSafe ==
    ASSUME NEW j \in Job, j.kind = "xiraid.array.import", NEW h \in Host, NEW s \in Stash(j.kind),
           NEW stage \in {"preflight", "adopt", "verify"}
    PROVE  /\ Safe(ArrayImport(j, stage, h, s), j, FALSE)
           /\ Safe(ArrayImportRollback(j, h, s), j, TRUE)
  <1> DEFINE adopt == Call("raidImport", j.array, None)
             raid  == Call("raidDestroy", j.array, TRUE)
  <1>1. Suits(adopt, j, s, FALSE) /\ Suits(raid, j, s, TRUE)
    BY DEF Suits, RaidSuits, PoolSuits, OnPools, FsSuits, NfsSuits, ErrorSuits, Call, RaidVerbs
  <1> HIDE DEF adopt, raid
  <1>2. Safe(Issue(s, <<adopt>>), j, FALSE) /\ Safe(Issue(s, If(Shown(h, j.array), <<raid>>)), j, TRUE)
    BY <1>1, SuitOne, SuitIf, SafeIssue
  <1>3. Safe(ArrayImport(j, stage, h, s), j, FALSE)
    BY <1>2, SafeCheck DEF ArrayImport, adopt
  <1>4. Safe(ArrayImportRollback(j, h, s), j, TRUE)
    BY <1>2 DEF ArrayImportRollback, raid
  <1>5. QED BY <1>3, <1>4

LEMMA ArrayDeleteSafe ==
    ASSUME NEW j \in Job, j.kind = "xiraid.array.delete", NEW h \in Host, NEW s \in Stash(j.kind),
           NEW stage \in {"preflight", "destroy", "verify"}
    PROVE  /\ Safe(ArrayDelete(j, stage, h, s), j, FALSE)
           /\ Safe(ArrayDeleteRollback(j, h, s), j, TRUE)
  <1> DEFINE m    == Marked(s)
             raid == Call("raidDestroy", j.array, FALSE)
             drop == Rest(DropPool(h, j.array))
  <1>1. Suits(raid, j, m, FALSE)
    BY DEF Suits, RaidSuits, PoolSuits, OnPools, FsSuits, NfsSuits, ErrorSuits, Call, RaidVerbs
  <1>2. AllSuit(drop, j, m, FALSE)
    BY DropPoolRest
  <1>3. m \in Stash(j.kind)
    BY DEF Marked, Stash
  <1> HIDE DEF m, raid, drop
  <1>4. Safe(Issue(m, <<raid>> \o drop), j, FALSE)
    BY <1>1, <1>2, <1>3, SuitOne, SuitConcat, SafeIssue
  <1>5. Safe(ArrayDelete(j, stage, h, s), j, FALSE)
    <2>1. CASE stage = "destroy"
      BY <1>4, <2>1 DEF ArrayDelete, m, raid, drop
    <2>2. CASE stage # "destroy"
      BY <2>2, SafeCheck DEF ArrayDelete
    <2>3. QED BY <2>1, <2>2
  <1>6. Safe(ArrayDeleteRollback(j, h, s), j, TRUE)
    BY SafeCheck DEF ArrayDeleteRollback
  <1>7. QED BY <1>5, <1>6

LEMMA ModifyPreState ==
    ASSUME NEW s, s.before \in PreState("xiraid.array.modify")
    PROVE  /\ s.before.spare \in PoolName \cup {None}
           /\ s.before.pool \in PoolState \cup {None}
           /\ s.before.pool # None => s.before.pool.drives \in SUBSET Drive /\ s.before.pool.active \in BOOLEAN
  BY DEF PreState, PoolState

LEMMA ArrayModifySafe ==
    ASSUME NEW j \in Job, j.kind = "xiraid.array.modify", NEW h \in Host, NEW s \in Stash(j.kind),
           NEW stage \in {"preflight", "apply_spares", "apply_tuning", "verify"},
           stage # "preflight" => s.before \in PreState(j.kind)
    PROVE  Safe(ArrayModify(j, stage, h, s), j, FALSE)
  <1> DEFINE a == j.array
  <1>1. a \in Array /\ a \in PoolName /\ j.spares \in (SUBSET Drive) \cup {None}
    BY JobShape DEF ArrayKinds, PoolName
  <1>a. a = PoolOf(j) /\ j.kind \in Pooling
    BY DEF PoolOf, Pooling, PoolKinds
  <1>2. CASE stage = "preflight"
    <2> DEFINE pre == [spare |-> h.arrays[a].spare, pool |-> h.pools[a]]
    <2>1. Shown(h, a) => Saw(s, pre) \in Stash(j.kind)
      <3>1. Shown(h, a) => h.arrays[a].spare \in PoolName \cup {None}
        BY <1>1 DEF Host, ArrayState, Shown
      <3>2. h.pools[a] \in PoolState \cup {None}
        BY <1>1 DEF Host
      <3>3. Shown(h, a) => pre \in PreState(j.kind)
        BY <3>1, <3>2 DEF PreState
      <3> HIDE DEF pre
      <3>4. QED BY <3>3 DEF Saw, Stash
    <2>2. QED BY <1>2, <2>1, SafeCheck DEF ArrayModify
  <1>3. CASE stage = "apply_spares"
    <2>1. CASE j.spares = None
      BY <1>3, <2>1, SafeCheck DEF ArrayModify
    <2>2. ASSUME j.spares # None PROVE Safe(ArrayModify(j, stage, h, s), j, FALSE)
      <3> DEFINE pre    == s.before
                 had    == pre.pool # None
                 make   == Call("poolCreate", a, j.spares)
                 on     == Call("poolSetActive", a, TRUE)
                 off    == Call("poolSetActive", a, FALSE)
                 add    == Call("poolAdd", a, j.spares \ pre.pool.drives)
                 drop   == Call("poolRemove", a, pre.pool.drives \ j.spares)
                 named  == Call("raidModify", a, a)
                 bare   == Call("raidModify", a, None)
                 del    == Call("poolDelete", a, None)
                 pool   == IF ~had THEN <<make, on>>
                           ELSE If(~(j.spares \subseteq pre.pool.drives), <<add>>)
                                \o If(~(pre.pool.drives \subseteq j.spares), <<drop>>)
                                \o If(~pre.pool.active, <<on>>)
                 with   == pool \o If(pre.spare # a, <<named>>)
                 out    == If(pre.spare = a, <<bare>>)
                           \o If(had, If(pre.pool.active, <<off>>) \o <<del>>)
      <3>1. had => pre.pool.drives \in SUBSET Drive
        BY <1>3, ModifyPreState
      <3>a. j.spares \in SUBSET Drive
        BY <1>1, <2>2
      <3>2. Suits(make, j, s, FALSE) /\ Suits(on, j, s, FALSE) /\ Suits(off, j, s, FALSE) /\ Suits(del, j, s, FALSE)
        <4> HIDE DEF a
        <4>1. QED BY <1>a, <3>a, PoolCallsSuit
      <3>3. had => Suits(add, j, s, FALSE) /\ Suits(drop, j, s, FALSE)
        <4>1. had => j.spares \ pre.pool.drives \in SUBSET Drive /\ pre.pool.drives \ j.spares \in SUBSET Drive
          BY <3>a, <3>1
        <4>2. QED BY <1>a, <4>1, PoolCallsSuit
      <3>4. Suits(named, j, s, FALSE) /\ Suits(bare, j, s, FALSE)
        BY <1>1, <2>2, RaidModifySuits
      <3> HIDE DEF make, on, off, add, drop, named, bare, del, pre
      <3>5. AllSuit(pool, j, s, FALSE)
        <4>1. CASE ~had
          BY <3>2, <4>1, SuitTwo
        <4>2. CASE had
          <5>1. AllSuit(<<add>>, j, s, FALSE) /\ AllSuit(<<drop>>, j, s, FALSE) /\ AllSuit(<<on>>, j, s, FALSE)
            BY <3>2, <3>3, <4>2, SuitOne
          <5>2. QED BY <4>2, <5>1, SuitIf, SuitConcat
        <4>3. QED BY <4>1, <4>2
      <3> HIDE DEF pool
      <3>6. AllSuit(with, j, s, FALSE) /\ AllSuit(out, j, s, FALSE)
        <4>1. /\ AllSuit(<<named>>, j, s, FALSE) /\ AllSuit(<<bare>>, j, s, FALSE)
              /\ AllSuit(<<off>>, j, s, FALSE) /\ AllSuit(<<del>>, j, s, FALSE)
          BY <3>2, <3>4, SuitOne
        <4>2. QED BY <3>5, <4>1, SuitIf, SuitConcat
      <3>7. ArrayModify(j, stage, h, s) = Issue(s, IF j.spares # {} THEN with ELSE out)
        BY <1>3, <2>2 DEF ArrayModify, with, out, pool, pre, had, make, on, off, add, drop, named, bare, del
      <3> HIDE DEF with, out
      <3>8. QED BY <3>6, <3>7, SafeIssue
    <2>3. QED BY <2>1, <2>2
  <1>4. CASE stage = "apply_tuning"
    <2> DEFINE keep == Call("raidModify", a, h.arrays[a].spare)
    <2>1. Shown(h, a) => Suits(keep, j, s, FALSE)
      <3>1. Shown(h, a) => h.arrays[a].spare \in PoolName \cup {None}
        BY <1>1 DEF Host, ArrayState, Shown
      <3>2. QED BY <1>1, <3>1, RaidModifySuits
    <2> HIDE DEF keep
    <2>2. AllSuit(If(Shown(h, a), <<keep>>), j, s, FALSE)
      BY <2>1, SuitOne, SuitIf
    <2>3. Safe(Issue(s, If(Shown(h, a), <<keep>>)), j, FALSE)
      BY <2>2, SafeIssue
    <2>4. QED BY <1>4, <2>3 DEF ArrayModify, keep
  <1>5. CASE stage = "verify"
    BY <1>5, SafeCheck DEF ArrayModify
  <1>6. QED BY <1>2, <1>3, <1>4, <1>5

LEMMA ArrayModifyRollbackSafe ==
    ASSUME NEW j \in Job, j.kind = "xiraid.array.modify", NEW h \in Host, NEW s \in Stash(j.kind)
    PROVE  Safe(ArrayModifyRollback(j, h, s), j, TRUE)
  <1>1. CASE s.before = None
    BY <1>1, SafeCheck DEF ArrayModifyRollback
  <1>2. ASSUME s.before # None PROVE Safe(ArrayModifyRollback(j, h, s), j, TRUE)
    <2> DEFINE a     == j.array
               pre   == s.before
               live  == IF Shown(h, a) THEN h.arrays[a].spare ELSE None
               pool  == h.pools[a]
               named == Call("raidModify", a, pre.spare)
               add   == Call("poolAdd", a, pre.pool.drives \ pool.drives)
               drop  == Call("poolRemove", a, pool.drives \ pre.pool.drives)
               set   == Call("poolSetActive", a, pre.pool.active)
               make  == Call("poolCreate", a, pre.pool.drives)
               on    == Call("poolSetActive", a, TRUE)
               back  == If(~(pre.pool.drives \subseteq pool.drives), <<add>>)
                        \o If(~(pool.drives \subseteq pre.pool.drives), <<drop>>)
                        \o If(pool.active # pre.pool.active, <<set>>)
               again == <<make>> \o If(pre.pool.active, <<on>>)
               mend  == IF pre.pool = None THEN DropPool(h, a)
                        ELSE IF pool # None THEN back ELSE again
               calls == If(live # pre.spare, <<named>>) \o mend
    <2>1. a \in Array /\ a \in PoolName /\ a = PoolOf(j) /\ j.kind \in Pooling
      BY JobShape DEF ArrayKinds, PoolName, PoolOf, Pooling, PoolKinds
    <2>2. pre \in PreState("xiraid.array.modify")
      BY <1>2 DEF Stash
    <2>3. /\ pre.spare \in PoolName \cup {None}
          /\ pre.pool # None => pre.pool.drives \in SUBSET Drive /\ pre.pool.active \in BOOLEAN
      BY <2>2, ModifyPreState
    <2>4. pool # None => pool.drives \in SUBSET Drive
      BY <2>1 DEF Host, PoolState
    <2>5. Suits(named, j, s, TRUE)
      BY <2>1, <2>3, RaidModifySuits
    <2>6. pre.pool # None => Suits(set, j, s, TRUE) /\ Suits(make, j, s, TRUE) /\ Suits(on, j, s, TRUE)
      BY <2>1, <2>3, PoolCallsSuit
    <2>7. pre.pool # None /\ pool # None => Suits(add, j, s, TRUE) /\ Suits(drop, j, s, TRUE)
      <3>1. pre.pool # None /\ pool # None =>
               pre.pool.drives \ pool.drives \in SUBSET Drive /\ pool.drives \ pre.pool.drives \in SUBSET Drive
        BY <2>3, <2>4
      <3>2. QED BY <2>1, <3>1, PoolCallsSuit
    <2>8. AllSuit(DropPool(h, a), j, s, TRUE)
      BY <2>1, DropPoolSuits
    <2> HIDE DEF pre, live, pool, named, add, drop, set, make, on
    <2>9. pre.pool # None => AllSuit(again, j, s, TRUE)
      BY <2>6, SuitOne, SuitIf, SuitConcat
    <2>10. pre.pool # None /\ pool # None => AllSuit(back, j, s, TRUE)
      <3>1. SUFFICES ASSUME pre.pool # None, pool # None PROVE AllSuit(back, j, s, TRUE)
        OBVIOUS
      <3>2. AllSuit(<<add>>, j, s, TRUE) /\ AllSuit(<<drop>>, j, s, TRUE) /\ AllSuit(<<set>>, j, s, TRUE)
        BY <2>6, <2>7, <3>1, SuitOne
      <3>3. QED BY <3>2, SuitIf, SuitConcat
    <2> HIDE DEF back, again
    <2>11. AllSuit(mend, j, s, TRUE)
      BY <2>8, <2>9, <2>10
    <2> HIDE DEF mend
    <2>12. AllSuit(calls, j, s, TRUE)
      BY <2>5, <2>11, SuitOne, SuitIf, SuitConcat
    <2>13. ArrayModifyRollback(j, h, s) = Issue(s, calls)
      BY <1>2 DEF ArrayModifyRollback, calls, mend, back, again, pre, live, pool, named, add, drop, set, make, on
    <2> HIDE DEF calls
    <2>14. QED BY <2>12, <2>13, SafeIssue
  <1>3. QED BY <1>1, <1>2

LEMMA PoolSafe ==
    ASSUME NEW j \in Job, NEW h \in Host, NEW s \in Stash(j.kind), NEW stage
    PROVE  /\ j.kind = "pool.create" =>
                 Safe(PoolCreateStage(j, stage, h, s), j, FALSE) /\ Safe(PoolCreateRollback(j, h, s), j, TRUE)
           /\ j.kind = "pool.delete" /\ stage \in {"preflight", "delete"} =>
                 Safe(PoolDeleteStage(j, stage, h, s), j, FALSE)
  <1> DEFINE make == Call("poolCreate", j.pool, j.drives)
             del  == Call("poolDelete", j.pool, None)
  <1>a. j.kind \in PoolKinds => j.pool = PoolOf(j) /\ j.kind \in Pooling
    BY DEF PoolOf, Pooling
  <1>1. CASE j.kind = "pool.create"
    <2>1. j.pool \in PoolName /\ j.drives \in SUBSET Drive
      BY <1>1, JobShape DEF PoolKinds
    <2>2. Suits(make, j, s, FALSE) /\ Suits(del, j, s, TRUE)
      BY <1>1, <1>a, <2>1, PoolCallsSuit DEF PoolKinds
    <2>3. Suits(Soft(del), j, s, TRUE)
      BY <1>1, <2>2, SoftSuits DEF PoolKinds
    <2> HIDE DEF make, del
    <2>4. AllSuit(<<make>>, j, s, FALSE) /\ AllSuit(<<Soft(del)>>, j, s, TRUE)
      BY <2>2, <2>3, SuitOne
    <2>5. Safe(Issue(s, <<make>>), j, FALSE) /\ Safe(Issue(s, <<Soft(del)>>), j, TRUE)
      BY <2>4, SafeIssue
    <2>6. QED BY <1>1, <2>5 DEF PoolCreateStage, PoolCreateRollback, make, del
  <1>2. CASE j.kind = "pool.delete"
    <2>2. Suits(del, j, s, FALSE)
      BY <1>2, <1>a, PoolCallsSuit DEF PoolKinds
    <2> HIDE DEF del
    <2>3. Safe(Issue(s, <<del>>), j, FALSE)
      BY <2>2, SuitOne, SafeIssue
    <2>4. QED BY <1>2, <2>3, SafeCheck DEF PoolDeleteStage, del
  <1>3. QED BY <1>1, <1>2

LEMMA PoolModifySafe ==
    ASSUME NEW j \in Job, j.kind = "pool.modify", NEW h \in Host, NEW s \in Stash(j.kind), NEW stage
    PROVE  Safe(PoolModifyStage(j, stage, h, s), j, FALSE) /\ Safe(PoolModifyRollback(j, h, s), j, TRUE)
  <1>1. /\ j.pool \in PoolName /\ j.drives \in SUBSET Drive
        /\ j.intent \in {"add_drives", "remove_drives", "activate", "deactivate"}
    BY JobShape DEF PoolKinds
  <1>a. j.pool = PoolOf(j) /\ j.kind \in Pooling /\ j.kind \in PoolKinds
    BY DEF PoolOf, Pooling, PoolKinds
  <1>2. Safe(PoolModifyStage(j, stage, h, s), j, FALSE)
    <2>1. CASE HasPool(h, j.pool)
      <3> DEFINE m == Saw(s, h.pools[j.pool])
      <3>1. m \in Stash(j.kind)
        <4>1. h.pools[j.pool] \in PreState(j.kind)
          BY <1>1, <2>1 DEF HasPool, Host, PreState
        <4>2. QED BY <4>1 DEF Saw, Stash
      <3> HIDE DEF m
      <3>2. Suits(PoolIntent(j), j, m, FALSE)
        BY <1>1, <1>a, PoolCallsSuit DEF PoolIntent
      <3>3. Safe(Issue(m, <<PoolIntent(j)>>), j, FALSE)
        BY <3>1, <3>2, SuitOne, SafeIssue
      <3>4. QED BY <2>1, <3>3 DEF PoolModifyStage, m
    <2>2. CASE ~HasPool(h, j.pool)
      BY <2>2, SafeCheck DEF PoolModifyStage
    <2>3. QED BY <2>1, <2>2
  <1>3. Safe(PoolModifyRollback(j, h, s), j, TRUE)
    <2> DEFINE was   == s.before
               now   == h.pools[j.pool]
               added == (j.drives \cap now.drives) \ was.drives
               gone  == (j.drives \cap was.drives) \ now.drives
               del   == Call("poolRemove", j.pool, added)
               add   == Call("poolAdd", j.pool, gone)
               off   == Call("poolSetActive", j.pool, FALSE)
               on    == Call("poolSetActive", j.pool, TRUE)
    <2>1. added \in SUBSET Drive /\ gone \in SUBSET Drive
      BY <1>1
    <2>2. Suits(del, j, s, TRUE) /\ Suits(add, j, s, TRUE) /\ Suits(off, j, s, TRUE) /\ Suits(on, j, s, TRUE)
      <3> HIDE DEF added, gone
      <3>1. QED BY <1>1, <1>a, <2>1, PoolCallsSuit
    <2>3. /\ Suits(Soft(del), j, s, TRUE) /\ Suits(Soft(add), j, s, TRUE)
          /\ Suits(Soft(off), j, s, TRUE) /\ Suits(Soft(on), j, s, TRUE)
      <3> HIDE DEF added, gone
      <3>1. QED BY <1>a, <2>2, SoftSuits
    <2> HIDE DEF del, add, off, on, added, gone, now, was
    <2>4. \A cond :
            /\ AllSuit(If(cond, <<Soft(del)>>), j, s, TRUE) /\ AllSuit(If(cond, <<Soft(add)>>), j, s, TRUE)
            /\ AllSuit(If(cond, <<Soft(off)>>), j, s, TRUE) /\ AllSuit(If(cond, <<Soft(on)>>), j, s, TRUE)
      BY <2>3, SuitOne, SuitIf
    <2> DEFINE calls == CASE j.intent = "add_drives"    -> If(added # {}, <<Soft(del)>>)
                          [] j.intent = "remove_drives" -> If(gone # {}, <<Soft(add)>>)
                          [] j.intent = "activate"      -> If(now.active /\ ~was.active, <<Soft(off)>>)
                          [] j.intent = "deactivate"    -> If(~now.active /\ was.active, <<Soft(on)>>)
    <2>5. AllSuit(calls, j, s, TRUE)
      BY <1>1, <2>4
    <2>6. \/ PoolModifyRollback(j, h, s) = Nothing(s)
          \/ PoolModifyRollback(j, h, s) = Issue(s, calls)
      BY DEF PoolModifyRollback, calls, del, add, off, on, added, gone, now, was
    <2> HIDE DEF calls
    <2>7. QED BY <2>5, <2>6, SafeIssue, SafeCheck
  <1>4. QED BY <1>2, <1>3

LEMMA WriteUnitSuits ==
    ASSUME NEW j \in Job, j.kind \in FsKinds, j.kind \notin {"fs.mount", "fs.unmount"},
           NEW s, NEW back, NEW u \in UnitText, j.kind = "fs.unmanage" => back,
           j.kind = "fs.create" => u = j.unit,
           j.kind = "fs.set_quota_mode" =>
              s.before \in PreState(j.kind) /\ u.what = s.before.unit.what /\ (back => s.before # None)
    PROVE  Suits(Call("writeUnit", j.path, u), j, s, back)
  <1>1. j.path \in Path
    BY JobShape
  <1>2. QED BY <1>1 DEF Suits, RaidSuits, PoolSuits, OnPools, FsSuits, NfsSuits, ErrorSuits, Call, FsVerbs

LEMMA FsCreateSafe ==
    ASSUME NEW j \in Job, j.kind = "fs.create", NEW h \in Host, NEW s \in Stash(j.kind),
           NEW stage \in {"preflight", "mkfs", "install_unit", "mount", "verify"}
    PROVE  Safe(FsCreate(j, stage, h, s), j, FALSE) /\ Safe(FsCreateRollback(j, h, s), j, TRUE)
  <1> DEFINE p       == j.path
             mkfs    == Call("mkfs", p, j.unit)
             write   == Call("writeUnit", p, j.unit)
             enable  == Call("enableNow", p, None)
             stop    == Call("stop", p, None)
             disable == Call("disable", p, None)
             remove  == Call("removeUnit", p, None)
             undo    == If(Mounted(h, p), <<stop>>) \o If(HasUnit(h, p), <<Soft(disable), remove>>)
  <1>1. j.path \in Path /\ j.unit \in UnitText /\ j.kind \in FsKinds \cap Mounting /\ j.resolved \in BOOLEAN
    BY JobShape DEF FsKinds, Mounting
  <1>2. Suits(mkfs, j, s, FALSE)
    BY <1>1 DEF Suits, RaidSuits, PoolSuits, OnPools, FsSuits, NfsSuits, ErrorSuits, Call, FsVerbs
  <1>3. Suits(write, j, s, FALSE) /\ Suits(enable, j, s, FALSE)
    BY <1>1, WriteUnitSuits, FsCallsSuit
  <1>4. Suits(stop, j, s, TRUE) /\ Suits(disable, j, s, TRUE) /\ Suits(remove, j, s, TRUE)
    BY <1>1, FsCallsSuit
  <1>5. Suits(Soft(disable), j, s, TRUE)
    BY <1>4, SoftSuits
  <1> HIDE DEF mkfs, write, enable, stop, disable, remove
  <1>6. /\ Safe(Issue(s, <<mkfs>>), j, FALSE) /\ Safe(Issue(s, <<write>>), j, FALSE)
        /\ Safe(Issue(s, <<enable>>), j, FALSE)
    BY <1>2, <1>3, SuitOne, SafeIssue
  <1>7. AllSuit(undo, j, s, TRUE)
    BY <1>4, <1>5, SuitOne, SuitTwo, SuitIf, SuitConcat
  <1>8. Safe(FsCreate(j, stage, h, s), j, FALSE)
    <2>1. CASE ~j.resolved
      BY <2>1, SafeCheck DEF FsCreate
    <2>2. CASE j.resolved /\ stage \in {"preflight", "verify"}
      BY <2>2, SafeCheck DEF FsCreate
    <2>3. CASE j.resolved /\ stage \in {"mkfs", "install_unit", "mount"}
      BY <1>6, <2>3 DEF FsCreate, mkfs, write, enable
    <2>4. QED BY <1>1, <2>1, <2>2, <2>3
  <1>9. Safe(FsCreateRollback(j, h, s), j, TRUE)
    <2>1. \/ FsCreateRollback(j, h, s) = Check(FALSE, s)
          \/ FsCreateRollback(j, h, s) = Issue(s, undo)
      BY DEF FsCreateRollback, undo, stop, disable, remove
    <2> HIDE DEF undo
    <2>2. QED BY <1>7, <2>1, SafeCheck, SafeIssue
  <1>10. QED BY <1>8, <1>9

LEMMA FsMountSafe ==
    ASSUME NEW j \in Job, j.kind = "fs.mount", NEW h \in Host, NEW s \in Stash(j.kind),
           NEW stage \in {"preflight", "mount", "verify"}
    PROVE  Safe(FsMount(j, stage, h, s), j, FALSE) /\ Safe(FsMountRollback(j, h, s), j, TRUE)
  <1> DEFINE enable == Call("enableNow", j.path, None)
             stop   == Call("stop", j.path, None)
  <1>1. Suits(enable, j, s, FALSE) /\ Suits(stop, j, s, TRUE)
    BY FsCallsSuit DEF FsKinds, Mounting, Remounting
  <1> HIDE DEF enable, stop
  <1>2. Safe(Issue(s, <<enable>>), j, FALSE) /\ Safe(Issue(s, If(Mounted(h, j.path), <<stop>>)), j, TRUE)
    BY <1>1, SuitOne, SuitIf, SafeIssue
  <1>3. Safe(FsMount(j, stage, h, s), j, FALSE)
    BY <1>2, SafeCheck DEF FsMount, enable
  <1>4. QED BY <1>2, <1>3 DEF FsMountRollback, stop

LEMMA FsUnmountSafe ==
    ASSUME NEW j \in Job, j.kind = "fs.unmount", NEW h \in Host, NEW s \in Stash(j.kind),
           NEW stage \in {"preflight", "unmount", "verify"}
    PROVE  Safe(FsUnmount(j, stage, h, s), j, FALSE) /\ Safe(FsUnmountRollback(j, h, s), j, TRUE)
  <1> DEFINE enable  == Call("enableNow", j.path, None)
             stop    == Call("stop", j.path, None)
             disable == Call("disable", j.path, None)
             calls   == If(Mounted(h, j.path), <<stop>>) \o <<disable>>
             undo    == If(Mounted(h, j.path) \/ HasUnit(h, j.path), <<enable>>)
  <1>1. Suits(enable, j, s, TRUE) /\ Suits(stop, j, s, FALSE) /\ Suits(disable, j, s, FALSE)
    BY FsCallsSuit DEF FsKinds, Mounting, Remounting
  <1> HIDE DEF enable, stop, disable
  <1>2. AllSuit(calls, j, s, FALSE) /\ AllSuit(undo, j, s, TRUE)
    BY <1>1, SuitOne, SuitIf, SuitConcat
  <1>3. Safe(Issue(s, calls), j, FALSE) /\ Safe(Issue(s, undo), j, TRUE)
    <2> HIDE DEF calls, undo
    <2>1. QED BY <1>2, SafeIssue
  <1>4. Safe(FsUnmount(j, stage, h, s), j, FALSE)
    BY <1>3, SafeCheck DEF FsUnmount, calls, stop, disable
  <1>5. QED BY <1>3, <1>4 DEF FsUnmountRollback, undo, enable

LEMMA FsGrowSafe ==
    ASSUME NEW j \in Job, j.kind = "fs.grow", NEW h \in Host, NEW s \in Stash(j.kind),
           NEW stage \in {"preflight", "grow", "verify"}
    PROVE  Safe(FsGrow(j, stage, h, s), j, FALSE)
  <1> DEFINE grow == Call("growfs", j.path, None)
  <1>1. Suits(grow, j, s, FALSE)
    BY FsCallsSuit DEF FsKinds
  <1> HIDE DEF grow
  <1>2. Safe(Issue(s, <<grow>>), j, FALSE)
    BY <1>1, SuitOne, SafeIssue
  <1>3. QED BY <1>2, SafeCheck DEF FsGrow, grow

LEMMA FsSetQuotaModeSafe ==
    ASSUME NEW j \in Job, j.kind = "fs.set_quota_mode", NEW h \in Host, NEW s \in Stash(j.kind),
           NEW stage \in {"preflight", "apply", "verify"},
           stage # "preflight" => s.before \in PreState(j.kind)
    PROVE  Safe(FsSetQuotaMode(j, stage, h, s), j, FALSE)
  <1> DEFINE p == j.path
  <1>1. p \in Path /\ j.quota \in QuotaMode
    BY JobShape DEF FsKinds
  <1>2. CASE stage = "preflight"
    <2> DEFINE pre == [unit |-> h.units[p], mounted |-> Mounted(h, p)]
    <2>1. HasUnit(h, p) => Saw(s, pre) \in Stash(j.kind)
      <3>1. HasUnit(h, p) => pre \in PreState(j.kind)
        BY <1>1 DEF HasUnit, Host, PreState, Mounted
      <3> HIDE DEF pre
      <3>2. QED BY <3>1 DEF Saw, Stash
    <2> HIDE DEF pre
    <2>2. HasUnit(h, p) => Safe(Nothing(Saw(s, pre)), j, FALSE)
      BY <2>1, SafeCheck
    <2>3. QED BY <1>2, <2>2, SafeCheck DEF FsSetQuotaMode, pre
  <1>3. CASE stage = "apply"
    <2> DEFINE u      == [s.before.unit EXCEPT !.quota = j.quota]
               write  == Call("writeUnit", p, u)
               stop   == Call("stop", p, None)
               enable == Call("enableNow", p, None)
               calls  == <<write>> \o If(s.before.mounted, <<stop, enable>>)
    <2>1. s.before \in PreState(j.kind) /\ s.before.unit \in UnitText
      BY <1>3 DEF PreState
    <2>2. u \in UnitText /\ u.what = s.before.unit.what
      BY <1>1, <2>1 DEF UnitText
    <2>3. Suits(write, j, s, FALSE) /\ Suits(stop, j, s, FALSE) /\ Suits(enable, j, s, FALSE)
      <3> HIDE DEF u
      <3>1. Suits(write, j, s, FALSE)
        BY <2>1, <2>2, WriteUnitSuits DEF FsKinds
      <3>2. QED BY <3>1, FsCallsSuit DEF FsKinds, Mounting, Remounting
    <2> HIDE DEF write, stop, enable, u
    <2>4. AllSuit(calls, j, s, FALSE)
      BY <2>3, SuitOne, SuitTwo, SuitIf, SuitConcat
    <2>5. FsSetQuotaMode(j, stage, h, s) = Issue(s, calls)
      BY <1>3 DEF FsSetQuotaMode, calls, write, stop, enable, u
    <2> HIDE DEF calls
    <2>6. QED BY <2>4, <2>5, SafeIssue
  <1>4. CASE stage = "verify"
    BY <1>4, SafeCheck DEF FsSetQuotaMode
  <1>5. QED BY <1>2, <1>3, <1>4

LEMMA FsSetQuotaModeRollbackSafe ==
    ASSUME NEW j \in Job, j.kind = "fs.set_quota_mode", NEW h \in Host, NEW s \in Stash(j.kind)
    PROVE  Safe(FsSetQuotaModeRollback(j, h, s), j, TRUE)
  <1>1. CASE s.before = None
    BY <1>1, SafeCheck DEF FsSetQuotaModeRollback
  <1>2. ASSUME s.before # None PROVE Safe(FsSetQuotaModeRollback(j, h, s), j, TRUE)
    <2> DEFINE write  == Call("writeUnit", j.path, s.before.unit)
               enable == Call("enableNow", j.path, None)
               calls  == <<write>> \o If(s.before.mounted /\ ~Mounted(h, j.path), <<enable>>)
    <2>1. s.before \in PreState(j.kind) /\ s.before.unit \in UnitText
      <3>1. s.before \in PreState(j.kind)
        BY <1>2 DEF Stash
      <3>2. QED BY <3>1 DEF PreState
    <2>2. Suits(write, j, s, TRUE) /\ Suits(enable, j, s, TRUE)
      BY <1>2, <2>1, WriteUnitSuits, FsCallsSuit DEF FsKinds, Mounting, Remounting
    <2> HIDE DEF write, enable
    <2>3. AllSuit(calls, j, s, TRUE)
      BY <2>2, SuitOne, SuitIf, SuitConcat
    <2>4. FsSetQuotaModeRollback(j, h, s) = Issue(s, calls)
      BY <1>2 DEF FsSetQuotaModeRollback, calls, write, enable
    <2> HIDE DEF calls
    <2>5. QED BY <2>3, <2>4, SafeIssue
  <1>3. QED BY <1>1, <1>2

LEMMA FsUnmanageSafe ==
    ASSUME NEW j \in Job, j.kind = "fs.unmanage", NEW h \in Host, NEW s \in Stash(j.kind),
           NEW stage \in {"preflight", "remove", "verify"}
    PROVE  Safe(FsUnmanage(j, stage, h, s), j, FALSE) /\ Safe(FsUnmanageRollback(j, h, s), j, TRUE)
  <1> DEFINE p       == j.path
             disable == Call("disable", p, None)
             remove  == Call("removeUnit", p, None)
             write   == Call("writeUnit", p, s.before)
  <1>1. p \in Path
    BY JobShape DEF FsKinds
  <1>2. HasUnit(h, p) => Saw(s, h.units[p]) \in Stash(j.kind)
    <2>1. HasUnit(h, p) => h.units[p] \in PreState(j.kind)
      BY <1>1 DEF HasUnit, Host, PreState
    <2>2. QED BY <2>1 DEF Saw, Stash
  <1>3. Suits(disable, j, s, FALSE) /\ Suits(remove, j, s, FALSE)
    BY FsCallsSuit DEF FsKinds
  <1>4. Suits(Soft(disable), j, s, FALSE)
    BY <1>3, SoftSuits
  <1>5. s.before # None => Suits(write, j, s, TRUE)
    <2>1. s.before # None => s.before \in UnitText
      BY DEF Stash, PreState
    <2>2. QED BY <2>1, WriteUnitSuits DEF FsKinds
  <1>6. Safe(FsUnmanage(j, stage, h, s), j, FALSE)
    <2>1. CASE stage = "preflight"
      BY <1>2, <2>1, SafeCheck DEF FsUnmanage
    <2>2. CASE stage = "remove"
      <3> HIDE DEF disable, remove
      <3>1. Safe(Issue(s, <<Soft(disable), remove>>), j, FALSE)
        BY <1>3, <1>4, SuitTwo, SafeIssue
      <3>2. QED BY <2>2, <3>1 DEF FsUnmanage, disable, remove
    <2>3. CASE stage = "verify"
      BY <2>3, SafeCheck DEF FsUnmanage
    <2>4. QED BY <2>1, <2>2, <2>3
  <1>7. Safe(FsUnmanageRollback(j, h, s), j, TRUE)
    <2> HIDE DEF write
    <2>1. AllSuit(If(s.before # None /\ ~HasUnit(h, j.path), <<write>>), j, s, TRUE)
      BY <1>5, SuitOne, SuitIf
    <2>2. Safe(Issue(s, If(s.before # None /\ ~HasUnit(h, j.path), <<write>>)), j, TRUE)
      BY <2>1, SafeIssue
    <2>3. QED BY <2>2 DEF FsUnmanageRollback, write
  <1>8. QED BY <1>6, <1>7

LEMMA ShareSafe ==
    ASSUME NEW j \in Job, j.kind \in ShareKinds, NEW h \in Host, NEW s \in Stash(j.kind),
           NEW stage \in {"preflight", "apply", "verify"}, j.kind = "share.delete" => stage # "verify"
    PROVE  /\ j.kind = "share.create" =>
                 Safe(ShareCreate(j, stage, h, s), j, FALSE) /\ Safe(ShareCreateRollback(j, h, s), j, TRUE)
           /\ j.kind = "share.update" =>
                 Safe(ShareUpdate(j, stage, h, s), j, FALSE) /\ Safe(ShareUpdateRollback(j, h, s), j, TRUE)
           /\ j.kind = "share.delete" =>
                 Safe(ShareDelete(j, stage, h, s), j, FALSE) /\ Safe(ShareDeleteRollback(j, h, s), j, TRUE)
  <1> DEFINE p      == j.path
             remove == Call("removeExport", p, None)
  <1>1. p \in Path
    BY JobShape
  <1>2. \A back : Suits(remove, j, s, back)
    BY <1>1 DEF Suits, RaidSuits, PoolSuits, OnPools, FsSuits, NfsSuits, ErrorSuits, Call, NfsVerbs
  <1>3. CASE j.kind = "share.create"
    <2> DEFINE m   == Marked(s)
               add == Call("addExport", p, j.rule)
    <2>1. m \in Stash(j.kind) /\ j.rule \in Rule
      BY <1>3, JobShape DEF Marked, Stash
    <2>2. Suits(add, j, m, FALSE)
      BY <1>1, <1>3, <2>1, NfsCallsSuit
    <2> HIDE DEF m, add, remove
    <2>3. Safe(Issue(m, <<add>>), j, FALSE)
      BY <2>1, <2>2, SuitOne, SafeIssue
    <2>4. AllSuit(If(s.marker /\ Exported(h, p), <<remove>>), j, s, TRUE)
      BY <1>2, SuitOne, SuitIf
    <2>5. Safe(Issue(s, If(s.marker /\ Exported(h, p), <<remove>>)), j, TRUE)
      BY <2>4, SafeIssue
    <2>6. Safe(ShareCreate(j, stage, h, s), j, FALSE)
      BY <2>3, SafeCheck DEF ShareCreate, m, add
    <2>7. QED BY <1>3, <2>5, <2>6 DEF ShareCreateRollback, remove
  <1>4. ASSUME j.kind \in {"share.update", "share.delete"} PROVE
               /\ Saw(s, h.exports[p]) \in Stash(j.kind)
               /\ s.before # None => s.before \in Rule
    <2>1. h.exports[p] \in PreState(j.kind) \cup {None}
      BY <1>1, <1>4 DEF Host, PreState
    <2>2. QED BY <1>4, <2>1 DEF Saw, Stash, PreState
  <1>5. CASE j.kind = "share.update"
    <2> DEFINE set  == Call("updateExport", p, j.rule)
               back == Call("updateExport", p, s.before)
    <2>1. Suits(set, j, s, FALSE) /\ (s.before # None => Suits(back, j, s, TRUE))
      BY <1>1, <1>4, <1>5, JobShape, NfsCallsSuit
    <2> HIDE DEF set, back
    <2>2. Safe(Issue(s, <<set>>), j, FALSE)
      BY <2>1, SuitOne, SafeIssue
    <2>3. AllSuit(If(s.before # None, <<back>>), j, s, TRUE)
      BY <2>1, SuitOne, SuitIf
    <2>4. Safe(Issue(s, If(s.before # None, <<back>>)), j, TRUE)
      BY <2>3, SafeIssue
    <2>5. Safe(ShareUpdate(j, stage, h, s), j, FALSE)
      BY <1>4, <1>5, <2>2, SafeCheck DEF ShareUpdate, set
    <2>6. QED BY <1>5, <2>4, <2>5 DEF ShareUpdateRollback, back
  <1>6. CASE j.kind = "share.delete"
    <2> DEFINE back == Call("addExport", p, s.before)
    <2>1. s.before # None => Suits(back, j, s, TRUE)
      BY <1>1, <1>4, <1>6, NfsCallsSuit
    <2> HIDE DEF back, remove
    <2>2. AllSuit(If(Exported(h, p), <<remove>>), j, s, FALSE)
      BY <1>2, SuitOne, SuitIf
    <2>3. Safe(Issue(s, If(Exported(h, p), <<remove>>)), j, FALSE)
      BY <2>2, SafeIssue
    <2>4. AllSuit(If(s.before # None, <<back>>), j, s, TRUE)
      BY <2>1, SuitOne, SuitIf
    <2>5. Safe(Issue(s, If(s.before # None, <<back>>)), j, TRUE)
      BY <2>4, SafeIssue
    <2>6. Safe(ShareDelete(j, stage, h, s), j, FALSE)
      BY <1>4, <1>6, <2>3, SafeCheck DEF ShareDelete, remove
    <2>7. QED BY <1>6, <2>5, <2>6 DEF ShareDeleteRollback, back
  <1>7. QED BY <1>3, <1>5, <1>6

LEMMA NfsSafe ==
    ASSUME NEW j \in Job, NEW h \in Host, NEW s \in Stash(j.kind), NEW stage \in {"preflight", "apply"}
    PROVE  /\ j.kind = "nfs-idmap.set" =>
                 Safe(NfsIdmapSet(j, stage, h, s), j, FALSE) /\ Safe(NfsIdmapSetRollback(j, h, s), j, TRUE)
           /\ j.kind = "nfs-profile.update" =>
                 /\ Safe(NfsProfileUpdate(j, stage, h, s), j, FALSE)
                 /\ j.prior \in Profile => Safe(NfsProfileUpdateRollback(j, h, s), j, TRUE)
  <1>1. CASE j.kind = "nfs-idmap.set"
    <2> DEFINE set  == Call("setIdmapDomain", None, j.domain)
               back == Call("setIdmapDomain", None, s.before)
    <2>1. Saw(s, h.domain) \in Stash(j.kind)
      <3>1. h.domain \in PreState(j.kind) \cup {None}
        BY <1>1 DEF Host, PreState
      <3>2. QED BY <3>1 DEF Saw, Stash
    <2>2. Suits(set, j, s, FALSE)
      <3>1. j.domain \in Domain
        BY <1>1, JobShape
      <3>2. QED BY <1>1, <3>1 DEF Suits, RaidSuits, PoolSuits, OnPools, FsSuits, NfsSuits, ErrorSuits, Call, NfsVerbs
    <2>3. s.before # None => Suits(back, j, s, TRUE)
      <3>1. s.before # None => s.before \in Domain
        BY <1>1 DEF Stash, PreState
      <3>2. QED BY <1>1, <3>1 DEF Suits, RaidSuits, PoolSuits, OnPools, FsSuits, NfsSuits, ErrorSuits, Call, NfsVerbs
    <2> HIDE DEF set, back
    <2>4. Safe(Issue(s, <<set>>), j, FALSE)
      BY <2>2, SuitOne, SafeIssue
    <2>5. AllSuit(If(s.before \notin {None, "local"}, <<back>>), j, s, TRUE)
      BY <2>3, SuitOne, SuitIf
    <2>6. Safe(Issue(s, If(s.before \notin {None, "local"}, <<back>>)), j, TRUE)
      BY <2>5, SafeIssue
    <2>7. Safe(NfsIdmapSet(j, stage, h, s), j, FALSE)
      BY <2>1, <2>4, SafeCheck DEF NfsIdmapSet, set
    <2>8. QED BY <1>1, <2>6, <2>7 DEF NfsIdmapSetRollback, back
  <1>2. CASE j.kind = "nfs-profile.update"
    <2> DEFINE set  == Call("renderProfile", None, j.profile)
               back == Call("renderProfile", None, j.prior)
    <2>1. Suits(set, j, s, FALSE)
      <3>1. j.profile \in Profile
        BY <1>2, JobShape
      <3>2. QED BY <1>2, <3>1 DEF Suits, RaidSuits, PoolSuits, OnPools, FsSuits, NfsSuits, ErrorSuits, Call, NfsVerbs
    <2>2. j.prior \in Profile => Suits(back, j, s, TRUE)
      BY <1>2 DEF Suits, RaidSuits, PoolSuits, OnPools, FsSuits, NfsSuits, ErrorSuits, Call, NfsVerbs
    <2> HIDE DEF set, back
    <2>3. Safe(Issue(s, <<set>>), j, FALSE)
      BY <2>1, SuitOne, SafeIssue
    <2>4. j.prior \in Profile => Safe(Issue(s, <<back>>), j, TRUE)
      BY <2>2, SuitOne, SafeIssue
    <2>5. Safe(NfsProfileUpdate(j, stage, h, s), j, FALSE)
      BY <2>3, SafeCheck DEF NfsProfileUpdate, set
    <2>6. QED BY <1>2, <2>4, <2>5 DEF NfsProfileUpdateRollback, back
  <1>3. QED BY <1>1, <1>2

\* The stage of a number.
LEMMA StageOf ==
    ASSUME NEW j \in Job, NEW n \in 1 .. Len(Stages(j.kind))
    PROVE  LET stage == Stages(j.kind)[n]
           IN /\ n + 1 \in 1 .. Len(Stages(j.kind)) + 1
              /\ stage # "preflight" <=> n > 1 \/ j.kind \in {"pool.create", "pool.modify"}
              /\ stage = "verify" => n > 1
              /\ j.kind = "xiraid.array.create" => stage \in {"preflight", "create", "wait_online", "verify"}
              /\ j.kind = "xiraid.array.modify" => stage \in {"preflight", "apply_spares", "apply_tuning", "verify"}
              /\ j.kind = "xiraid.array.import" => stage \in {"preflight", "adopt", "verify"}
              /\ j.kind = "xiraid.array.delete" => stage \in {"preflight", "destroy", "verify"}
              /\ j.kind = "pool.delete" => stage \in {"preflight", "delete"}
              /\ j.kind = "fs.create" => stage \in {"preflight", "mkfs", "install_unit", "mount", "verify"}
              /\ j.kind = "fs.mount" => stage \in {"preflight", "mount", "verify"}
              /\ j.kind = "fs.unmount" => stage \in {"preflight", "unmount", "verify"}
              /\ j.kind = "fs.grow" => stage \in {"preflight", "grow", "verify"}
              /\ j.kind = "fs.set_quota_mode" => stage \in {"preflight", "apply", "verify"}
              /\ j.kind = "fs.unmanage" => stage \in {"preflight", "remove", "verify"}
              /\ j.kind \in {"share.create", "share.update"} => stage \in {"preflight", "apply", "verify"}
              /\ j.kind \in {"share.delete", "nfs-idmap.set", "nfs-profile.update"} => stage \in {"preflight", "apply"}
  BY JobKind DEF Stages, ArrayKinds, PoolKinds, FsKinds, ShareKinds

LEMMA RunStageSafe ==
    ASSUME NEW j \in Job, NEW h \in Host, NEW s \in Stash(j.kind), NEW n \in 1 .. Len(Stages(j.kind)),
           n > 1 /\ j.kind \in {"xiraid.array.modify", "fs.set_quota_mode"} => s.before \in PreState(j.kind)
    PROVE  Safe(RunStage(j, Stages(j.kind)[n], h, s), j, FALSE)
  <1> DEFINE stage == Stages(j.kind)[n]
  <1> SUFFICES Safe(RunStage(j, stage, h, s), j, FALSE)
    OBVIOUS
  <1>1. /\ stage # "preflight" /\ j.kind \in {"xiraid.array.modify", "fs.set_quota_mode"} =>
              s.before \in PreState(j.kind)
        /\ j.kind = "xiraid.array.create" => stage \in {"preflight", "create", "wait_online", "verify"}
        /\ j.kind = "xiraid.array.modify" => stage \in {"preflight", "apply_spares", "apply_tuning", "verify"}
        /\ j.kind = "xiraid.array.import" => stage \in {"preflight", "adopt", "verify"}
        /\ j.kind = "xiraid.array.delete" => stage \in {"preflight", "destroy", "verify"}
        /\ j.kind = "pool.delete" => stage \in {"preflight", "delete"}
        /\ j.kind = "fs.create" => stage \in {"preflight", "mkfs", "install_unit", "mount", "verify"}
        /\ j.kind = "fs.mount" => stage \in {"preflight", "mount", "verify"}
        /\ j.kind = "fs.unmount" => stage \in {"preflight", "unmount", "verify"}
        /\ j.kind = "fs.grow" => stage \in {"preflight", "grow", "verify"}
        /\ j.kind = "fs.set_quota_mode" => stage \in {"preflight", "apply", "verify"}
        /\ j.kind = "fs.unmanage" => stage \in {"preflight", "remove", "verify"}
        /\ j.kind \in {"share.create", "share.update"} => stage \in {"preflight", "apply", "verify"}
        /\ j.kind \in {"share.delete", "nfs-idmap.set", "nfs-profile.update"} => stage \in {"preflight", "apply"}
    BY StageOf
  <1> HIDE DEF stage
  <1>2. CASE j.kind \in ArrayKinds
    <2>1. CASE j.kind = "xiraid.array.create"
      BY <1>1, <2>1, ArrayCreateSafe DEF RunStage
    <2>2. CASE j.kind = "xiraid.array.modify"
      BY <1>1, <2>2, ArrayModifySafe DEF RunStage
    <2>3. CASE j.kind = "xiraid.array.import"
      BY <1>1, <2>3, ArrayImportSafe DEF RunStage
    <2>4. CASE j.kind = "xiraid.array.delete"
      BY <1>1, <2>4, ArrayDeleteSafe DEF RunStage
    <2>5. QED BY <1>2, <2>1, <2>2, <2>3, <2>4 DEF ArrayKinds
  <1>3. CASE j.kind \in PoolKinds
    <2>1. CASE j.kind = "pool.create"
      BY <1>1, <2>1, PoolSafe DEF RunStage
    <2>2. CASE j.kind = "pool.modify"
      BY <1>1, <2>2, PoolModifySafe DEF RunStage
    <2>3. CASE j.kind = "pool.delete"
      BY <1>1, <2>3, PoolSafe DEF RunStage
    <2>4. QED BY <1>3, <2>1, <2>2, <2>3 DEF PoolKinds
  <1>4. CASE j.kind \in FsKinds
    <2>1. CASE j.kind = "fs.create"
      BY <1>1, <2>1, FsCreateSafe DEF RunStage
    <2>2. CASE j.kind = "fs.mount"
      BY <1>1, <2>2, FsMountSafe DEF RunStage
    <2>3. CASE j.kind = "fs.unmount"
      BY <1>1, <2>3, FsUnmountSafe DEF RunStage
    <2>4. CASE j.kind = "fs.grow"
      BY <1>1, <2>4, FsGrowSafe DEF RunStage
    <2>5. CASE j.kind = "fs.set_quota_mode"
      BY <1>1, <2>5, FsSetQuotaModeSafe DEF RunStage
    <2>6. CASE j.kind = "fs.unmanage"
      BY <1>1, <2>6, FsUnmanageSafe DEF RunStage
    <2>7. QED BY <1>4, <2>1, <2>2, <2>3, <2>4, <2>5, <2>6 DEF FsKinds
  <1>5. CASE j.kind \in ShareKinds
    <2>1. /\ stage \in {"preflight", "apply", "verify"}
          /\ j.kind = "share.delete" => stage # "verify"
      BY <1>1, <1>5 DEF ShareKinds
    <2>2. CASE j.kind = "share.create"
      BY <1>5, <2>1, <2>2, ShareSafe DEF RunStage
    <2>3. CASE j.kind = "share.update"
      BY <1>5, <2>1, <2>3, ShareSafe DEF RunStage
    <2>4. CASE j.kind = "share.delete"
      BY <1>5, <2>1, <2>4, ShareSafe DEF RunStage
    <2>5. QED BY <1>5, <2>2, <2>3, <2>4 DEF ShareKinds
  <1>6. CASE j.kind = "nfs-idmap.set"
    BY <1>1, <1>6, NfsSafe DEF RunStage
  <1>7. CASE j.kind = "nfs-profile.update"
    BY <1>1, <1>7, NfsSafe DEF RunStage
  <1>8. QED BY <1>2, <1>3, <1>4, <1>5, <1>6, <1>7, JobKind

LEMMA RollbackSafe ==
    ASSUME NEW j \in Job, NEW h \in Host, NEW s \in Stash(j.kind),
           j.kind = "nfs-profile.update" => j.prior \in Profile
    PROVE  AllSuit(Rollback(j, h, s).calls, j, s, TRUE)
  <1> DEFINE r == Rollback(j, h, s)
  <1>1. CASE j.kind \in ArrayKinds
    <2>1. CASE j.kind = "xiraid.array.create"
      BY <2>1, ArrayCreateRollbackSafe DEF Rollback, ArrayCreateRollback, Safe, Issue, Nothing
    <2>2. CASE j.kind = "xiraid.array.modify"
      BY <2>2, ArrayModifyRollbackSafe DEF Rollback, ArrayModifyRollback, Safe, Issue, Nothing
    <2>3. CASE j.kind = "xiraid.array.import"
      BY <2>3, ArrayImportSafe DEF Rollback, ArrayImportRollback, Safe, Issue
    <2>4. CASE j.kind = "xiraid.array.delete"
      BY <2>4, ArrayDeleteSafe DEF Rollback, ArrayDeleteRollback, Safe, Check
    <2>5. QED BY <1>1, <2>1, <2>2, <2>3, <2>4 DEF ArrayKinds
  <1>2. CASE j.kind \in PoolKinds
    <2>1. CASE j.kind = "pool.create"
      BY <2>1, PoolSafe DEF Rollback, PoolCreateRollback, Safe, Issue
    <2>2. CASE j.kind = "pool.modify"
      BY <2>2, PoolModifySafe DEF Rollback, PoolModifyRollback, Safe, Issue, Nothing
    <2>3. CASE j.kind = "pool.delete"
      BY <2>3, NoCalls DEF Rollback, Nothing, Issue
    <2>4. QED BY <1>2, <2>1, <2>2, <2>3 DEF PoolKinds
  <1>3. CASE j.kind \in FsKinds
    <2>1. CASE j.kind = "fs.create"
      BY <2>1, FsCreateSafe DEF Rollback, FsCreateRollback, Safe, Issue, Check
    <2>2. CASE j.kind = "fs.mount"
      BY <2>2, FsMountSafe DEF Rollback, FsMountRollback, Safe, Issue
    <2>3. CASE j.kind = "fs.unmount"
      BY <2>3, FsUnmountSafe DEF Rollback, FsUnmountRollback, Safe, Issue
    <2>4. CASE j.kind = "fs.grow"
      BY <2>4, NoCalls DEF Rollback, Nothing, Issue
    <2>5. CASE j.kind = "fs.set_quota_mode"
      BY <2>5, FsSetQuotaModeRollbackSafe DEF Rollback, FsSetQuotaModeRollback, Safe, Issue, Nothing
    <2>6. CASE j.kind = "fs.unmanage"
      BY <2>6, FsUnmanageSafe DEF Rollback, FsUnmanageRollback, Safe, Issue
    <2>7. QED BY <1>3, <2>1, <2>2, <2>3, <2>4, <2>5, <2>6 DEF FsKinds
  <1>4. CASE j.kind \in ShareKinds
    <2>1. CASE j.kind = "share.create"
      BY <1>4, <2>1, ShareSafe DEF Rollback, ShareCreateRollback, Safe, Issue
    <2>2. CASE j.kind = "share.update"
      BY <1>4, <2>2, ShareSafe DEF Rollback, ShareUpdateRollback, Safe, Issue
    <2>3. CASE j.kind = "share.delete"
      BY <1>4, <2>3, ShareSafe DEF Rollback, ShareDeleteRollback, Safe, Issue
    <2>4. QED BY <1>4, <2>1, <2>2, <2>3 DEF ShareKinds
  <1>5. CASE j.kind = "nfs-idmap.set"
    BY <1>5, NfsSafe DEF Rollback, NfsIdmapSetRollback, Safe, Issue
  <1>6. CASE j.kind = "nfs-profile.update"
    BY <1>6, NfsSafe DEF Rollback, NfsProfileUpdateRollback, Safe, Issue
  <1>7. QED BY <1>1, <1>2, <1>3, <1>4, <1>5, <1>6, JobKind

\* What a run knows once its preflight has passed, and that the later stages of a run
\* that remembers the pre-state keep it.
LEMMA PreflightPassed ==
    ASSUME NEW j \in Job, NEW h \in Host, NEW s \in Stash(j.kind), RunStage(j, "preflight", h, s).pass
    PROVE  LET pre == RunStage(j, "preflight", h, s).stash.before
           IN /\ j.kind = "xiraid.array.create" => ~Shown(h, j.array)
              /\ j.kind = "xiraid.array.modify" => pre \in PreState(j.kind)
              /\ j.kind = "xiraid.array.delete" => BackingOf(h, j.array) = {}
              /\ j.kind = "fs.create" => ~HasUnit(h, j.path) /\ (~j.force => h.data[j.unit.what] = None)
              /\ j.kind = "fs.set_quota_mode" =>
                    HasUnit(h, j.path) /\ pre \in PreState(j.kind) /\ pre.unit = h.units[j.path]
  <1>1. CASE j.kind = "xiraid.array.create"
    BY <1>1 DEF RunStage, ArrayCreate, Check
  <1>2. CASE j.kind = "xiraid.array.modify"
    <2>1. /\ Shown(h, j.array)
          /\ RunStage(j, "preflight", h, s).stash.before = [spare |-> h.arrays[j.array].spare, pool |-> h.pools[j.array]]
      BY <1>2 DEF RunStage, ArrayModify, Check, Nothing, Issue, Saw, Stash
    <2>2. j.array \in Array /\ j.array \in PoolName
      BY <1>2, JobShape DEF ArrayKinds, PoolName
    <2>3. h.arrays[j.array].spare \in PoolName \cup {None} /\ h.pools[j.array] \in PoolState \cup {None}
      BY <2>1, <2>2 DEF Host, ArrayState, Shown
    <2>4. QED BY <1>2, <2>1, <2>3 DEF PreState
  <1>3. CASE j.kind = "xiraid.array.delete"
    BY <1>3 DEF RunStage, ArrayDelete, Check
  <1>4. CASE j.kind = "fs.create"
    <2>1. j.resolved \in BOOLEAN /\ j.force \in BOOLEAN
      BY <1>4, JobShape
    <2>2. QED BY <1>4, <2>1 DEF RunStage, FsCreate, Check
  <1>5. CASE j.kind = "fs.set_quota_mode"
    <2>1. /\ HasUnit(h, j.path)
          /\ RunStage(j, "preflight", h, s).stash.before = [unit |-> h.units[j.path], mounted |-> Mounted(h, j.path)]
      BY <1>5 DEF RunStage, FsSetQuotaMode, Check, Nothing, Issue, Saw, Stash
    <2>2. j.path \in Path
      BY <1>5, JobShape DEF FsKinds
    <2>3. h.units[j.path] \in UnitText /\ Mounted(h, j.path) \in BOOLEAN
      BY <2>1, <2>2 DEF Host, HasUnit, Mounted
    <2>4. [unit |-> h.units[j.path], mounted |-> Mounted(h, j.path)] \in PreState(j.kind)
      BY <1>5, <2>3 DEF PreState
    <2>5. QED BY <1>5, <2>1, <2>4
  <1>6. QED BY <1>1, <1>2, <1>3, <1>4, <1>5

LEMMA LaterStages ==
    ASSUME NEW j \in Job, j.kind \in {"xiraid.array.modify", "fs.set_quota_mode"},
           NEW h \in Host, NEW s \in Stash(j.kind), NEW n \in 1 .. Len(Stages(j.kind)), n > 1
    PROVE  RunStage(j, Stages(j.kind)[n], h, s).stash = s
  <1> DEFINE stage == Stages(j.kind)[n]
  <1>1. /\ j.kind = "xiraid.array.modify" => stage \in {"apply_spares", "apply_tuning", "verify"}
        /\ j.kind = "fs.set_quota_mode" => stage \in {"apply", "verify"}
    BY StageOf
  <1> HIDE DEF stage
  <1>2. CASE j.kind = "xiraid.array.modify"
    BY <1>1, <1>2 DEF RunStage, ArrayModify, Issue, Check, Nothing, stage
  <1>3. CASE j.kind = "fs.set_quota_mode"
    BY <1>1, <1>3 DEF RunStage, FsSetQuotaMode, Issue, Check, Nothing, stage
  <1>4. QED BY <1>2, <1>3

-----------------------------------------------------------------------------
(***************************************************************************)
(* What a call does to the host.                                           *)
(***************************************************************************)
Arrays  == [Array -> ArrayState \cup {None}]
Pools   == [PoolName -> PoolState \cup {None}]
Foreign == [disks : SUBSET Drive, data : Path \cup {None}] \cup {None}
Datas   == [Array -> Path \cup {None}]
Units   == [Path -> UnitText \cup {None}]
Exports == [Path -> Rule \cup {None}]
Domains == Domain \cup {None}
Paths   == SUBSET Path

LEMMA HostParts ==
    Host = [arrays : Arrays, pools : Pools, foreign : Foreign, data : Datas, units : Units, enabled : Paths,
            mounts : Units, exports : Exports, domain : Domains, profile : Profile, busy : Paths]
  BY DEF Host, Arrays, Pools, Foreign, Datas, Units, Exports, Domains, Paths

LEMMA ArrayVerbs ==
    ASSUME NEW h \in Host, NEW a \in Array
    PROVE  /\ \A r \in ArrayState : RaidCreate(h, a, r).host \in Host
           /\ \A flag : RaidDestroy(h, a, flag).host \in Host
           /\ \A n \in PoolName \cup {None} : RaidModify(h, a, n).host \in Host
           /\ RaidImportApply(h, a).host \in Host
  <1>1. h.arrays \in Arrays /\ h.data \in Datas /\ h.foreign \in Foreign
    BY HostParts
  <1>2. [h.arrays EXCEPT ![a] = None] \in Arrays
    BY <1>1 DEF Arrays
  <1>3. [h.data EXCEPT ![a] = None] \in Datas
    BY <1>1 DEF Datas
  <1>4. ASSUME NEW r \in ArrayState PROVE RaidCreate(h, a, r).host \in Host
    <2>1. [h.arrays EXCEPT ![a] = r] \in Arrays
      BY <1>1 DEF Arrays
    <2>2. QED BY <1>3, <2>1, HostParts DEF RaidCreate, Done, Refused
  <1>5. ASSUME NEW flag PROVE RaidDestroy(h, a, flag).host \in Host
    <2>1. [h.data EXCEPT ![a] = IF flag THEN @ ELSE None] \in Datas
      BY <1>1 DEF Datas
    <2>2. QED BY <1>2, <2>1, HostParts DEF RaidDestroy, Done
  <1>6. ASSUME NEW n \in PoolName \cup {None} PROVE RaidModify(h, a, n).host \in Host
    <2>1. Shown(h, a) => [h.arrays EXCEPT ![a].spare = n] \in Arrays
      <3>1. Shown(h, a) => h.arrays[a] \in ArrayState
        BY <1>1 DEF Arrays, Shown
      <3>2. Shown(h, a) => [h.arrays[a] EXCEPT !.spare = n] \in ArrayState
        BY <3>1 DEF ArrayState
      <3>3. QED BY <1>1, <3>2 DEF Arrays
    <2>2. QED BY <2>1, HostParts DEF RaidModify, Done, Refused
  <1>7. RaidImportApply(h, a).host \in Host
    <2>1. CASE h.foreign = None \/ Shown(h, a)
      BY <2>1 DEF RaidImportApply, Refused
    <2>2. CASE ~(h.foreign = None \/ Shown(h, a))
      <3> DEFINE new == [disks |-> h.foreign.disks, spare |-> None]
      <3>1. h.foreign.disks \in SUBSET Drive /\ h.foreign.data \in Path \cup {None}
        BY <1>1, <2>2 DEF Foreign
      <3>2. new \in ArrayState
        BY <3>1 DEF ArrayState
      <3> HIDE DEF new
      <3>3. [h.arrays EXCEPT ![a] = new] \in Arrays /\ [h.data EXCEPT ![a] = h.foreign.data] \in Datas
        BY <1>1, <3>1, <3>2 DEF Arrays, Datas
      <3>4. None \in Foreign
        BY DEF Foreign
      <3>5. RaidImportApply(h, a).host =
               [h EXCEPT !.arrays[a] = new, !.data[a] = h.foreign.data, !.foreign = None]
        BY <2>2 DEF RaidImportApply, Done, new
      <3>6. QED BY <3>3, <3>4, <3>5, HostParts
    <2>3. QED BY <2>1, <2>2
  <1>8. QED BY <1>4, <1>5, <1>6, <1>7

LEMMA PoolVerbs ==
    ASSUME NEW h \in Host, NEW n \in PoolName
    PROVE  /\ PoolDelete(h, n).host \in Host
           /\ \A drives \in SUBSET Drive : /\ PoolCreate(h, n, drives).host \in Host
                                          /\ PoolAdd(h, n, drives).host \in Host
                                          /\ PoolRemove(h, n, drives).host \in Host
           /\ \A on \in BOOLEAN : PoolSetActive(h, n, on).host \in Host
  <1>1. h.pools \in Pools
    BY HostParts
  <1>2. HasPool(h, n) => h.pools[n] \in PoolState
    BY <1>1 DEF Pools, HasPool
  <1>3. ASSUME NEW drives \in SUBSET Drive PROVE PoolCreate(h, n, drives).host \in Host
    <2> DEFINE new == [drives |-> drives, active |-> FALSE]
    <2>1. new \in PoolState
      BY DEF PoolState
    <2> HIDE DEF new
    <2>2. [h.pools EXCEPT ![n] = new] \in Pools
      BY <1>1, <2>1 DEF Pools
    <2>3. PoolCreate(h, n, drives).host \in {h, [h EXCEPT !.pools[n] = new]}
      BY DEF PoolCreate, Done, Refused, new
    <2>4. QED BY <2>2, <2>3, HostParts
  <1>4. PoolDelete(h, n).host \in Host
    <2>1. [h.pools EXCEPT ![n] = None] \in Pools
      BY <1>1 DEF Pools
    <2>2. QED BY <2>1, HostParts DEF PoolDelete, Done, Refused
  <1>5. ASSUME NEW drives \in SUBSET Drive PROVE PoolAdd(h, n, drives).host \in Host
    <2>1. HasPool(h, n) => [h.pools[n] EXCEPT !.drives = @ \cup drives] \in PoolState
      BY <1>2 DEF PoolState
    <2>2. HasPool(h, n) => [h.pools EXCEPT ![n].drives = @ \cup drives] \in Pools
      BY <1>1, <2>1 DEF Pools
    <2>3. QED BY <2>2, HostParts DEF PoolAdd, Done, Refused
  <1>6. ASSUME NEW drives \in SUBSET Drive PROVE PoolRemove(h, n, drives).host \in Host
    <2>1. HasPool(h, n) => [h.pools[n] EXCEPT !.drives = @ \ drives] \in PoolState
      BY <1>2 DEF PoolState
    <2>2. HasPool(h, n) => [h.pools EXCEPT ![n].drives = @ \ drives] \in Pools
      BY <1>1, <2>1 DEF Pools
    <2>3. QED BY <2>2, HostParts DEF PoolRemove, Done, Refused
  <1>7. ASSUME NEW on \in BOOLEAN PROVE PoolSetActive(h, n, on).host \in Host
    <2>1. HasPool(h, n) => [h.pools[n] EXCEPT !.active = on] \in PoolState
      BY <1>2 DEF PoolState
    <2>2. HasPool(h, n) => [h.pools EXCEPT ![n].active = on] \in Pools
      BY <1>1, <2>1 DEF Pools
    <2>3. QED BY <2>2, HostParts DEF PoolSetActive, Done, Refused
  <1>8. QED BY <1>3, <1>4, <1>5, <1>6, <1>7

LEMMA FilesystemVerbs ==
    ASSUME NEW h \in Host, NEW p \in Path
    PROVE  /\ \A u : Mkfs(h, p, u).host \in Host
           /\ \A u \in UnitText : WriteUnit(h, p, u).host \in Host
           /\ RemoveUnit(h, p).host \in Host
           /\ EnableNow(h, p).host \in Host
           /\ Stop(h, p).host \in Host
           /\ Disable(h, p).host \in Host
           /\ Growfs(h, p).host \in Host
  <1>1. h.units \in Units /\ h.mounts \in Units /\ h.data \in Datas /\ h.enabled \in Paths
    BY HostParts
  <1>2. [h.units EXCEPT ![p] = None] \in Units
    BY <1>1 DEF Units
  <1>3. [h.mounts EXCEPT ![p] = None] \in Units /\ [h.mounts EXCEPT ![p] = h.units[p]] \in Units
    BY <1>1 DEF Units
  <1>4. h.enabled \cup {p} \in Paths /\ h.enabled \ {p} \in Paths
    BY <1>1 DEF Paths
  <1>5. ASSUME NEW u PROVE Mkfs(h, p, u).host \in Host
    <2> DEFINE new == [a \in Array |-> IF a \in Devices(u) THEN p ELSE h.data[a]]
    <2>1. new \in Datas
      BY <1>1 DEF Datas
    <2>2. Mkfs(h, p, u).host \in {h, [h EXCEPT !.data = new]}
      BY DEF Mkfs, Done, Refused
    <2> HIDE DEF new
    <2>3. QED BY <2>1, <2>2, HostParts
  <1>6. ASSUME NEW u \in UnitText PROVE WriteUnit(h, p, u).host \in Host
    <2>1. [h.units EXCEPT ![p] = u] \in Units
      BY <1>1 DEF Units
    <2>2. QED BY <2>1, HostParts DEF WriteUnit, Done
  <1>12. RemoveUnit(h, p).host \in Host
    BY <1>2, HostParts DEF RemoveUnit, Done
  <1>7. EnableNow(h, p).host \in Host
    <2> DEFINE on == [h EXCEPT !.enabled = @ \cup {p}]
    <2>1. on \in Host /\ on.mounts = h.mounts
      BY <1>4, HostParts
    <2>2. EnableNow(h, p).host \in {h, on, [on EXCEPT !.mounts[p] = h.units[p]]}
      BY DEF EnableNow, Done, Refused
    <2> HIDE DEF on
    <2>3. [on EXCEPT !.mounts[p] = h.units[p]] \in Host
      BY <1>3, <2>1, HostParts
    <2>4. QED BY <2>1, <2>2, <2>3
  <1>8. Stop(h, p).host \in Host
    BY <1>3, HostParts DEF Stop, Done, Refused
  <1>9. Disable(h, p).host \in Host
    BY <1>4, HostParts DEF Disable, Done, Refused
  <1>10. Growfs(h, p).host \in Host
    BY DEF Growfs, Done, Refused
  <1>11. QED BY <1>5, <1>6, <1>7, <1>8, <1>9, <1>10, <1>12

LEMMA ExportVerbs ==
    ASSUME NEW h \in Host
    PROVE  /\ \A p \in Path, rule \in Rule : AddExport(h, p, rule).host \in Host /\ UpdateExport(h, p, rule).host \in Host
           /\ \A p \in Path : RemoveExport(h, p).host \in Host
           /\ \A d \in Domain : SetIdmapDomain(h, d).host \in Host
           /\ \A spec \in Profile : RenderProfile(h, spec).host \in Host
  <1>1. h.exports \in Exports
    BY HostParts
  <1>2. ASSUME NEW p \in Path, NEW rule \in Rule PROVE AddExport(h, p, rule).host \in Host /\ UpdateExport(h, p, rule).host \in Host
    <2>1. [h.exports EXCEPT ![p] = rule] \in Exports
      BY <1>1 DEF Exports
    <2>2. QED BY <2>1, HostParts DEF AddExport, UpdateExport, Done, Refused
  <1>3. ASSUME NEW p \in Path PROVE RemoveExport(h, p).host \in Host
    <2>1. [h.exports EXCEPT ![p] = None] \in Exports
      BY <1>1 DEF Exports
    <2>2. QED BY <2>1, HostParts DEF RemoveExport, Done, Refused
  <1>4. ASSUME NEW d \in Domain PROVE SetIdmapDomain(h, d).host \in Host
    <2>1. d \in Domains
      BY DEF Domains
    <2>2. QED BY <2>1, HostParts DEF SetIdmapDomain, Done, Refused
  <1>5. ASSUME NEW spec \in Profile PROVE RenderProfile(h, spec).host \in Host
    BY HostParts DEF RenderProfile, Done
  <1>6. QED BY <1>2, <1>3, <1>4, <1>5

\* A call is the verb it names.
LEMMA PerformIs ==
    ASSUME NEW h, NEW c
    PROVE  /\ c.verb = "raidCreate" => Perform(h, c) = RaidCreate(h, c.on, c.arg)
           /\ c.verb = "raidDestroy" => Perform(h, c) = RaidDestroy(h, c.on, c.arg)
           /\ c.verb = "raidModify" => Perform(h, c) = RaidModify(h, c.on, c.arg)
           /\ c.verb = "raidImport" => Perform(h, c) = RaidImportApply(h, c.on)
           /\ c.verb = "poolCreate" => Perform(h, c) = PoolCreate(h, c.on, c.arg)
           /\ c.verb = "poolDelete" => Perform(h, c) = PoolDelete(h, c.on)
           /\ c.verb = "poolAdd" => Perform(h, c) = PoolAdd(h, c.on, c.arg)
           /\ c.verb = "poolRemove" => Perform(h, c) = PoolRemove(h, c.on, c.arg)
           /\ c.verb = "poolSetActive" => Perform(h, c) = PoolSetActive(h, c.on, c.arg)
           /\ c.verb = "mkfs" => Perform(h, c) = Mkfs(h, c.on, c.arg)
           /\ c.verb = "writeUnit" => Perform(h, c) = WriteUnit(h, c.on, c.arg)
           /\ c.verb = "removeUnit" => Perform(h, c) = RemoveUnit(h, c.on)
           /\ c.verb = "enableNow" => Perform(h, c) = EnableNow(h, c.on)
           /\ c.verb = "stop" => Perform(h, c) = Stop(h, c.on)
           /\ c.verb = "disable" => Perform(h, c) = Disable(h, c.on)
           /\ c.verb = "growfs" => Perform(h, c) = Growfs(h, c.on)
           /\ c.verb = "addExport" => Perform(h, c) = AddExport(h, c.on, c.arg)
           /\ c.verb = "updateExport" => Perform(h, c) = UpdateExport(h, c.on, c.arg)
           /\ c.verb = "removeExport" => Perform(h, c) = RemoveExport(h, c.on)
           /\ c.verb = "setIdmapDomain" => Perform(h, c) = SetIdmapDomain(h, c.arg)
           /\ c.verb = "renderProfile" => Perform(h, c) = RenderProfile(h, c.arg)
  <1>1. CASE c.verb \in RaidVerbs
    BY <1>1 DEF Perform, PerformRaid, RaidVerbs, NfsVerbs
  <1>2. CASE c.verb \in NfsVerbs
    BY <1>2 DEF Perform, PerformNfs, RaidVerbs, NfsVerbs
  <1>3. CASE c.verb \notin RaidVerbs \cup NfsVerbs
    BY <1>3 DEF Perform, PerformFs, RaidVerbs, NfsVerbs
  <1>4. QED BY <1>1, <1>2, <1>3

LEMMA PerformTyped ==
    ASSUME NEW h \in Host, NEW j \in Job, NEW s, NEW back, NEW c, Suits(c, j, s, back)
    PROVE  Perform(h, c).host \in Host
  <1>1. /\ c.verb \in RaidVerbs \cup FsVerbs \cup NfsVerbs
        /\ RaidSuits(c, j, s, back) /\ PoolSuits(c, j) /\ FsSuits(c, j, s, back) /\ NfsSuits(c, j, back)
    BY DEF Suits
  <1>2. /\ c.verb \in {"raidCreate", "raidDestroy", "raidModify", "raidImport"} => c.on \in Array
        /\ c.verb \in FsVerbs => c.on \in Path
    BY <1>1, JobShape DEF RaidSuits, FsSuits, FsVerbs, ArrayKinds, FsKinds, Mounting, Remounting
  <1>3. CASE c.verb \in {"raidCreate", "raidDestroy", "raidModify", "raidImport"}
    <2>1. c.verb = "raidCreate" => c.arg \in ArrayState
      BY <1>1 DEF RaidSuits
    <2>2. c.verb = "raidModify" => c.arg \in PoolName \cup {None}
      BY <1>1 DEF RaidSuits
    <2>3. QED BY <1>2, <1>3, <2>1, <2>2, ArrayVerbs, PerformIs
  <1>4. CASE c.verb \in {"poolCreate", "poolDelete", "poolAdd", "poolRemove", "poolSetActive"}
    <2>1. /\ c.on \in PoolName
          /\ c.verb \in {"poolCreate", "poolAdd", "poolRemove"} => c.arg \in SUBSET Drive
          /\ c.verb = "poolSetActive" => c.arg \in BOOLEAN
      BY <1>1, <1>4 DEF PoolSuits, OnPools
    <2>2. QED BY <1>4, <2>1, PoolVerbs, PerformIs
  <1>5. CASE c.verb \in FsVerbs
    <2>1. c.verb = "writeUnit" => c.arg \in UnitText
      BY <1>1 DEF FsSuits
    <2>2. QED BY <1>2, <1>5, <2>1, FilesystemVerbs, PerformIs DEF FsVerbs
  <1>6. CASE c.verb \in NfsVerbs
    BY <1>1, <1>6, ExportVerbs, PerformIs DEF NfsVerbs, NfsSuits
  <1>7. QED BY <1>1, <1>3, <1>4, <1>5, <1>6 DEF RaidVerbs

\* The parts of the host that a verb leaves alone.
Same(h, g, arrays, data, units, mounts, exports) ==
    /\ arrays => g.arrays = h.arrays
    /\ data   => g.data = h.data
    /\ units  => g.units = h.units
    /\ mounts => g.mounts = h.mounts
    /\ exports => g.exports = h.exports

LEMMA LeftAlone ==
    ASSUME NEW h \in Host, NEW c, c.verb \in RaidVerbs \cup FsVerbs \cup NfsVerbs
    PROVE  Same(h, Perform(h, c).host,
                c.verb \notin {"raidCreate", "raidDestroy", "raidModify", "raidImport"},
                c.verb \notin {"raidCreate", "raidDestroy", "raidImport", "mkfs"},
                c.verb \notin {"writeUnit", "removeUnit"},
                c.verb \notin {"enableNow", "stop"},
                c.verb \notin {"addExport", "updateExport", "removeExport"})
  <1>1. h \in [arrays : Arrays, pools : Pools, foreign : Foreign, data : Datas, units : Units, enabled : Paths,
               mounts : Units, exports : Exports, domain : Domains, profile : Profile, busy : Paths]
    BY HostParts
  <1> DEFINE g == Perform(h, c).host
  <1>2. CASE c.verb = "raidCreate"
    <2>1. Same(h, RaidCreate(h, c.on, c.arg).host, FALSE, FALSE, TRUE, TRUE, TRUE)
      BY <1>1 DEF Same, RaidCreate, Done, Refused
    <2>2. QED BY <1>2, <2>1, PerformIs DEF Same
  <1>3. CASE c.verb = "raidDestroy"
    <2>1. Same(h, RaidDestroy(h, c.on, c.arg).host, FALSE, FALSE, TRUE, TRUE, TRUE)
      BY <1>1 DEF Same, RaidDestroy, Done, Refused
    <2>2. QED BY <1>3, <2>1, PerformIs DEF Same
  <1>4. CASE c.verb = "raidModify"
    <2>1. Same(h, RaidModify(h, c.on, c.arg).host, FALSE, TRUE, TRUE, TRUE, TRUE)
      BY <1>1 DEF Same, RaidModify, Done, Refused
    <2>2. QED BY <1>4, <2>1, PerformIs DEF Same
  <1>5. CASE c.verb = "raidImport"
    <2>1. Same(h, RaidImportApply(h, c.on).host, FALSE, FALSE, TRUE, TRUE, TRUE)
      BY <1>1 DEF Same, RaidImportApply, Done, Refused
    <2>2. QED BY <1>5, <2>1, PerformIs DEF Same
  <1>6. CASE c.verb = "poolCreate"
    <2>1. Same(h, PoolCreate(h, c.on, c.arg).host, TRUE, TRUE, TRUE, TRUE, TRUE)
      BY <1>1 DEF Same, PoolCreate, Done, Refused
    <2>2. QED BY <1>6, <2>1, PerformIs DEF Same
  <1>7. CASE c.verb = "poolDelete"
    <2>1. Same(h, PoolDelete(h, c.on).host, TRUE, TRUE, TRUE, TRUE, TRUE)
      BY <1>1 DEF Same, PoolDelete, Done, Refused
    <2>2. QED BY <1>7, <2>1, PerformIs DEF Same
  <1>8. CASE c.verb = "poolAdd"
    <2>1. Same(h, PoolAdd(h, c.on, c.arg).host, TRUE, TRUE, TRUE, TRUE, TRUE)
      BY <1>1 DEF Same, PoolAdd, Done, Refused
    <2>2. QED BY <1>8, <2>1, PerformIs DEF Same
  <1>9. CASE c.verb = "poolRemove"
    <2>1. Same(h, PoolRemove(h, c.on, c.arg).host, TRUE, TRUE, TRUE, TRUE, TRUE)
      BY <1>1 DEF Same, PoolRemove, Done, Refused
    <2>2. QED BY <1>9, <2>1, PerformIs DEF Same
  <1>10. CASE c.verb = "poolSetActive"
    <2>1. Same(h, PoolSetActive(h, c.on, c.arg).host, TRUE, TRUE, TRUE, TRUE, TRUE)
      BY <1>1 DEF Same, PoolSetActive, Done, Refused
    <2>2. QED BY <1>10, <2>1, PerformIs DEF Same
  <1>11. CASE c.verb = "mkfs"
    <2>1. Same(h, Mkfs(h, c.on, c.arg).host, TRUE, FALSE, TRUE, TRUE, TRUE)
      BY <1>1 DEF Same, Mkfs, Done, Refused
    <2>2. QED BY <1>11, <2>1, PerformIs DEF Same
  <1>12. CASE c.verb = "writeUnit"
    <2>1. Same(h, WriteUnit(h, c.on, c.arg).host, TRUE, TRUE, FALSE, TRUE, TRUE)
      BY <1>1 DEF Same, WriteUnit, Done, Refused
    <2>2. QED BY <1>12, <2>1, PerformIs DEF Same
  <1>13. CASE c.verb = "removeUnit"
    <2>1. Same(h, RemoveUnit(h, c.on).host, TRUE, TRUE, FALSE, TRUE, TRUE)
      BY <1>1 DEF Same, RemoveUnit, Done, Refused
    <2>2. QED BY <1>13, <2>1, PerformIs DEF Same
  <1>14. CASE c.verb = "enableNow"
    <2>1. Same(h, EnableNow(h, c.on).host, TRUE, TRUE, TRUE, FALSE, TRUE)
      BY <1>1 DEF Same, EnableNow, Done, Refused
    <2>2. QED BY <1>14, <2>1, PerformIs DEF Same
  <1>15. CASE c.verb = "stop"
    <2>1. Same(h, Stop(h, c.on).host, TRUE, TRUE, TRUE, FALSE, TRUE)
      BY <1>1 DEF Same, Stop, Done, Refused
    <2>2. QED BY <1>15, <2>1, PerformIs DEF Same
  <1>16. CASE c.verb = "disable"
    <2>1. Same(h, Disable(h, c.on).host, TRUE, TRUE, TRUE, TRUE, TRUE)
      BY <1>1 DEF Same, Disable, Done, Refused
    <2>2. QED BY <1>16, <2>1, PerformIs DEF Same
  <1>17. CASE c.verb = "growfs"
    <2>1. Same(h, Growfs(h, c.on).host, TRUE, TRUE, TRUE, TRUE, TRUE)
      BY <1>1 DEF Same, Growfs, Done, Refused
    <2>2. QED BY <1>17, <2>1, PerformIs DEF Same
  <1>18. CASE c.verb = "addExport"
    <2>1. Same(h, AddExport(h, c.on, c.arg).host, TRUE, TRUE, TRUE, TRUE, FALSE)
      BY <1>1 DEF Same, AddExport, Done, Refused
    <2>2. QED BY <1>18, <2>1, PerformIs DEF Same
  <1>19. CASE c.verb = "updateExport"
    <2>1. Same(h, UpdateExport(h, c.on, c.arg).host, TRUE, TRUE, TRUE, TRUE, FALSE)
      BY <1>1 DEF Same, UpdateExport, Done, Refused
    <2>2. QED BY <1>19, <2>1, PerformIs DEF Same
  <1>20. CASE c.verb = "removeExport"
    <2>1. Same(h, RemoveExport(h, c.on).host, TRUE, TRUE, TRUE, TRUE, FALSE)
      BY <1>1 DEF Same, RemoveExport, Done, Refused
    <2>2. QED BY <1>20, <2>1, PerformIs DEF Same
  <1>21. CASE c.verb = "setIdmapDomain"
    <2>1. Same(h, SetIdmapDomain(h, c.arg).host, TRUE, TRUE, TRUE, TRUE, TRUE)
      BY <1>1 DEF Same, SetIdmapDomain, Done, Refused
    <2>2. QED BY <1>21, <2>1, PerformIs DEF Same
  <1>22. CASE c.verb = "renderProfile"
    <2>1. Same(h, RenderProfile(h, c.arg).host, TRUE, TRUE, TRUE, TRUE, TRUE)
      BY <1>1 DEF Same, RenderProfile, Done, Refused
    <2>2. QED BY <1>22, <2>1, PerformIs DEF Same
  <1>23. QED BY <1>2, <1>3, <1>4, <1>5, <1>6, <1>7, <1>8, <1>9, <1>10, <1>11, <1>12, <1>13, <1>14,
        <1>15, <1>16, <1>17, <1>18, <1>19, <1>20, <1>21, <1>22
        DEF RaidVerbs, FsVerbs, NfsVerbs

\* What a command may do to an array: only a destroy takes a shown one away, only a create
\* (empty) or an import shows one, and only these and mkfs change what it holds.
OnArray(h, g, c, a) ==
    /\ Shown(h, a) /\ ~Shown(g, a) => c.verb = "raidDestroy" /\ c.on = a
    /\ ~Shown(h, a) /\ Shown(g, a) =>
          c.on = a /\ ((c.verb = "raidCreate" /\ g.data[a] = None) \/ c.verb = "raidImport")
    /\ g.data[a] # h.data[a] =>
          \/ c.verb = "raidCreate" /\ c.on = a /\ ~Shown(h, a) /\ g.data[a] = None
          \/ c.verb = "raidDestroy" /\ c.on = a /\ c.arg # TRUE /\ ~Shown(g, a) /\ g.data[a] = None
          \/ c.verb = "raidImport" /\ c.on = a /\ ~Shown(h, a)
          \/ c.verb = "mkfs" /\ a \in Devices(c.arg) /\ g.data[a] = c.on

LEMMA ArrayEffects ==
    ASSUME NEW h \in Host, NEW c, c.verb \in RaidVerbs \cup FsVerbs \cup NfsVerbs, NEW a \in Array,
           c.verb \in {"raidCreate", "raidDestroy", "raidModify", "raidImport"} => c.on \in Array,
           c.verb = "raidCreate" => c.arg \in ArrayState,
           c.verb = "raidModify" => c.arg \in PoolName \cup {None}
    PROVE  OnArray(h, Perform(h, c).host, c, a)
  <1> DEFINE g == Perform(h, c).host
  <1> SUFFICES /\ Shown(h, a) /\ ~Shown(g, a) => c.verb = "raidDestroy" /\ c.on = a
               /\ ~Shown(h, a) /\ Shown(g, a) =>
                     c.on = a /\ ((c.verb = "raidCreate" /\ g.data[a] = None) \/ c.verb = "raidImport")
               /\ g.data[a] # h.data[a] =>
                     \/ c.verb = "raidCreate" /\ c.on = a /\ ~Shown(h, a) /\ g.data[a] = None
                     \/ c.verb = "raidDestroy" /\ c.on = a /\ c.arg # TRUE /\ ~Shown(g, a) /\ g.data[a] = None
                     \/ c.verb = "raidImport" /\ c.on = a /\ ~Shown(h, a)
                     \/ c.verb = "mkfs" /\ a \in Devices(c.arg) /\ g.data[a] = c.on
    BY DEF OnArray
  <1>1. h.arrays \in Arrays /\ h.data \in Datas
    BY HostParts
  <1>a. h \in [arrays : Arrays, pools : Pools, foreign : Foreign, data : Datas, units : Units, enabled : Paths,
               mounts : Units, exports : Exports, domain : Domains, profile : Profile, busy : Paths]
    BY HostParts
  <1>2. CASE c.verb = "raidCreate"
    <2> DEFINE q == RaidCreate(h, c.on, c.arg).host
    <2>1. \/ q = h
          \/ /\ ~Shown(h, c.on)
             /\ q.arrays = [h.arrays EXCEPT ![c.on] = c.arg] /\ q.data = [h.data EXCEPT ![c.on] = None]
      BY <1>a DEF RaidCreate, Done, Refused
    <2>2. c.on \in Array /\ c.arg # None
      BY <1>2, NoneApart
    <2>3. g = q
      BY <1>2, PerformIs
    <2> HIDE DEF q, g
    <2>4. g = h \/ (~Shown(h, c.on) /\ \A b \in Array : g.arrays[b] = IF b = c.on THEN c.arg ELSE h.arrays[b])
      BY <1>1, <2>1, <2>2, <2>3 DEF Arrays
    <2>5. g = h \/ \A b \in Array : g.data[b] = IF b = c.on THEN None ELSE h.data[b]
      BY <1>1, <2>1, <2>2, <2>3 DEF Datas
    <2>6. QED BY <1>2, <2>2, <2>4, <2>5 DEF Shown, g
  <1>3. CASE c.verb = "raidDestroy"
    <2> DEFINE q == RaidDestroy(h, c.on, c.arg).host
    <2>1. /\ q.arrays = [h.arrays EXCEPT ![c.on] = None]
          /\ q.data = [h.data EXCEPT ![c.on] = IF c.arg THEN @ ELSE None]
      BY <1>a DEF RaidDestroy, Done
    <2>2. c.on \in Array
      BY <1>3
    <2>3. g = q
      BY <1>3, PerformIs
    <2> HIDE DEF q, g
    <2>4. \A b \in Array : g.arrays[b] = IF b = c.on THEN None ELSE h.arrays[b]
      BY <1>1, <2>1, <2>2, <2>3 DEF Arrays
    <2>5. \A b \in Array : g.data[b] = IF b = c.on THEN (IF c.arg THEN h.data[b] ELSE None) ELSE h.data[b]
      BY <1>1, <2>1, <2>2, <2>3 DEF Datas
    <2>6. QED BY <1>3, <2>2, <2>4, <2>5 DEF Shown, g
  <1>4. CASE c.verb = "raidModify"
    <2> DEFINE q == RaidModify(h, c.on, c.arg).host
    <2>1. q = h \/ (Shown(h, c.on) /\ q.arrays = [h.arrays EXCEPT ![c.on].spare = c.arg])
      BY <1>a DEF RaidModify, Done, Refused
    <2>2. c.on \in Array /\ c.arg \in PoolName \cup {None}
      BY <1>4
    <2>3. Shown(h, c.on) => [h.arrays[c.on] EXCEPT !.spare = c.arg] \in ArrayState
      <3>1. Shown(h, c.on) => h.arrays[c.on] \in ArrayState
        BY <1>1, <2>2 DEF Arrays, Shown
      <3>2. QED BY <2>2, <3>1 DEF ArrayState
    <2>4. g = q /\ g.data = h.data
      BY <1>4, PerformIs, LeftAlone DEF Same
    <2>5. None \notin ArrayState
      BY NoneApart
    <2> HIDE DEF q, g
    <2>6. g = h \/ \A b \in Array : g.arrays[b] = IF b = c.on THEN [h.arrays[b] EXCEPT !.spare = c.arg] ELSE h.arrays[b]
      BY <1>1, <2>1, <2>2, <2>4 DEF Arrays
    <2>7. Shown(g, a) <=> Shown(h, a)
      BY <2>1, <2>3, <2>4, <2>5, <2>6 DEF Shown
    <2>8. QED BY <2>4, <2>7 DEF g
  <1>5. CASE c.verb = "raidImport"
    <2> DEFINE q   == RaidImportApply(h, c.on).host
               new == [disks |-> h.foreign.disks, spare |-> None]
    <2>1. \/ q = h
          \/ /\ ~Shown(h, c.on)
             /\ q.arrays = [h.arrays EXCEPT ![c.on] = new] /\ q.data = [h.data EXCEPT ![c.on] = h.foreign.data]
      BY <1>a DEF RaidImportApply, Done, Refused
    <2>2. c.on \in Array
      BY <1>5
    <2>3. g = q
      BY <1>5, PerformIs
    <2> HIDE DEF q, g, new
    <2>4. g = h \/ (~Shown(h, c.on) /\ \A b \in Array : b # c.on => g.arrays[b] = h.arrays[b])
      BY <1>1, <2>1, <2>2, <2>3 DEF Arrays
    <2>5. g = h \/ \A b \in Array : b # c.on => g.data[b] = h.data[b]
      BY <1>1, <2>1, <2>2, <2>3 DEF Datas
    <2>6. QED BY <1>5, <2>2, <2>4, <2>5 DEF Shown, g
  <1>6. CASE c.verb = "mkfs"
    <2> DEFINE q == Mkfs(h, c.on, c.arg).host
    <2>1. q = h \/ q.data = [b \in Array |-> IF b \in Devices(c.arg) THEN c.on ELSE h.data[b]]
      BY <1>a DEF Mkfs, Done, Refused
    <2>2. g = q /\ g.arrays = h.arrays
      BY <1>6, PerformIs, LeftAlone DEF Same
    <2> HIDE DEF q, g
    <2>3. g.data[a] # h.data[a] => a \in Devices(c.arg) /\ g.data[a] = c.on
      BY <2>1, <2>2
    <2>4. QED BY <1>6, <2>2, <2>3 DEF Shown, g
  <1>7. CASE c.verb \notin {"raidCreate", "raidDestroy", "raidModify", "raidImport", "mkfs"}
    <2>1. g.arrays = h.arrays /\ g.data = h.data
      BY <1>7, LeftAlone DEF Same
    <2>2. QED BY <2>1 DEF Shown
  <1>8. QED BY <1>2, <1>3, <1>4, <1>5, <1>6, <1>7

LEMMA MountEffects ==
    ASSUME NEW h \in Host, NEW c, c.verb \in RaidVerbs \cup FsVerbs \cup NfsVerbs, NEW p \in Path
    PROVE  LET g == Perform(h, c).host
           IN /\ g.mounts[p] # h.mounts[p] =>
                    \/ g.mounts[p] = None
                    \/ /\ c.verb = "enableNow" /\ c.on = p /\ HasUnit(h, p) /\ Mountable(h, p)
                       /\ g.mounts[p] = h.units[p]
              /\ g.units[p] # h.units[p] =>
                    /\ c.on = p
                    /\ \/ c.verb = "writeUnit" /\ g.units[p] = c.arg
                       \/ c.verb = "removeUnit" /\ g.units[p] = None
  <1> DEFINE g == Perform(h, c).host
  <1>1. h.units \in Units /\ h.mounts \in Units
    BY HostParts
  <1>a. h \in [arrays : Arrays, pools : Pools, foreign : Foreign, data : Datas, units : Units, enabled : Paths,
               mounts : Units, exports : Exports, domain : Domains, profile : Profile, busy : Paths]
    BY HostParts
  <1>2. CASE c.verb = "enableNow"
    <2> DEFINE q == EnableNow(h, c.on).host
    <2>1. \/ q.mounts = h.mounts
          \/ /\ HasUnit(h, c.on) /\ Mountable(h, c.on)
             /\ q.mounts = [h.mounts EXCEPT ![c.on] = h.units[c.on]]
      BY <1>a DEF EnableNow, Done, Refused
    <2>2. g = q /\ g.units = h.units
      BY <1>2, PerformIs, LeftAlone DEF Same
    <2> HIDE DEF q, g
    <2>3. QED BY <1>1, <1>2, <2>1, <2>2 DEF Units, g
  <1>3. CASE c.verb = "stop"
    <2> DEFINE q == Stop(h, c.on).host
    <2>1. q.mounts = h.mounts \/ q.mounts = [h.mounts EXCEPT ![c.on] = None]
      BY <1>a DEF Stop, Done, Refused
    <2>2. g = q /\ g.units = h.units
      BY <1>3, PerformIs, LeftAlone DEF Same
    <2> HIDE DEF q, g
    <2>3. QED BY <1>1, <2>1, <2>2 DEF Units, g
  <1>4. CASE c.verb = "writeUnit"
    <2> DEFINE q == WriteUnit(h, c.on, c.arg).host
    <2>1. q.units = [h.units EXCEPT ![c.on] = c.arg]
      BY <1>a DEF WriteUnit, Done
    <2>2. g = q /\ g.mounts = h.mounts
      BY <1>4, PerformIs, LeftAlone DEF Same
    <2> HIDE DEF q, g
    <2>3. QED BY <1>1, <1>4, <2>1, <2>2 DEF Units, g
  <1>5. CASE c.verb = "removeUnit"
    <2> DEFINE q == RemoveUnit(h, c.on).host
    <2>1. q.units = [h.units EXCEPT ![c.on] = None]
      BY <1>a DEF RemoveUnit, Done
    <2>2. g = q /\ g.mounts = h.mounts
      BY <1>5, PerformIs, LeftAlone DEF Same
    <2> HIDE DEF q, g
    <2>3. QED BY <1>1, <1>5, <2>1, <2>2 DEF Units, g
  <1>6. CASE c.verb \notin {"enableNow", "stop", "writeUnit", "removeUnit"}
    <2>1. g.mounts = h.mounts /\ g.units = h.units
      BY <1>6, LeftAlone DEF Same
    <2>2. QED BY <2>1
  <1>7. QED BY <1>2, <1>3, <1>4, <1>5, <1>6

-----------------------------------------------------------------------------
(***************************************************************************)
(* The types of the desired state, the plans and the tasks.                *)
(***************************************************************************)
LEMMA WantedParts ==
    ASSUME NEW d \in Wanted
    PROVE  /\ d.shares \in [ShareId -> ShareRow \cup {None}]
           /\ d.profile \in Profile
           /\ d.rev \in [ShareId \cup {"profile"} -> Nat]
  BY DEF Wanted

LEMMA RevisedWanted ==
    ASSUME NEW j, NEW d \in Wanted
    PROVE  Revised(j, d) \in Wanted
  <1> DEFINE rev == [r \in ShareId \cup {"profile"} |-> IF r = DesiredRow(j) THEN d.rev[r] + 1 ELSE d.rev[r]]
  <1>1. rev \in [ShareId \cup {"profile"} -> Nat]
    BY WantedParts
  <1>2. Revised(j, d) = [d EXCEPT !.rev = rev]
    BY WantedParts DEF Revised
  <1> HIDE DEF rev
  <1>3. QED BY <1>1, <1>2 DEF Wanted

\* A row of the desired shares replaced.
LEMMA SharesWanted ==
    ASSUME NEW d \in Wanted, NEW i \in ShareId, NEW row \in ShareRow \cup {None}
    PROVE  [d EXCEPT !.shares[i] = row] \in Wanted /\ [d EXCEPT !.shares[i] = row, !.rev[i] = 0] \in Wanted
  <1> DEFINE S == [ShareId -> ShareRow \cup {None}]
             R == [ShareId \cup {"profile"} -> Nat]
  <1>1. [d.shares EXCEPT ![i] = row] \in S /\ [d.rev EXCEPT ![i] = 0] \in R
    BY WantedParts
  <1>2. Wanted = [shares : S, profile : Profile, rev : R]
    BY DEF Wanted
  <1> HIDE DEF S, R
  <1>3. QED BY <1>1, <1>2

LEMMA ProfileWanted ==
    ASSUME NEW d \in Wanted, NEW x \in Profile
    PROVE  [d EXCEPT !.profile = x] \in Wanted
  BY DEF Wanted

LEMMA IntendedWanted ==
    ASSUME NEW j \in Job, NEW d \in Wanted
    PROVE  Intended(j, d) \in Wanted
  <1>1. CASE j.kind \in {"share.create", "share.update"}
    <2>1. j.id \in ShareId /\ [path |-> j.path, rule |-> j.rule] \in ShareRow \cup {None}
      BY <1>1, JobShape DEF ShareKinds, ShareRow
    <2>2. QED BY <1>1, <2>1, RevisedWanted, SharesWanted DEF Intended
  <1>2. CASE j.kind = "share.delete"
    <2>1. j.id \in ShareId
      BY <1>2, JobShape DEF ShareKinds
    <2>2. QED BY <1>2, <2>1, SharesWanted DEF Intended
  <1>3. CASE j.kind = "nfs-profile.update"
    <2>1. j.profile \in Profile
      BY <1>3, JobShape
    <2>2. [Revised(j, d) EXCEPT !.profile = j.profile] \in Wanted
      BY <2>1, RevisedWanted, ProfileWanted
    <2>3. QED BY <1>3, <2>2 DEF Intended
  <1>4. CASE j.kind \notin {"share.create", "share.update", "share.delete", "nfs-profile.update"}
    BY <1>4 DEF Intended
  <1>5. QED BY <1>1, <1>2, <1>3, <1>4

LEMMA RevertedWanted ==
    ASSUME NEW j \in Job, NEW was \in Wanted, NEW now \in Wanted
    PROVE  Reverted(j, was, now) \in Wanted
  <1>1. CASE j.kind \in ShareKinds
    <2>1. j.id \in ShareId
      BY <1>1, JobShape
    <2>2. was.shares[j.id] \in ShareRow \cup {None}
      BY <2>1, WantedParts
    <2>3. Revised(j, now) \in Wanted
      BY RevisedWanted
    <2>4. /\ [now EXCEPT !.shares[j.id] = None, !.rev[j.id] = 0] \in Wanted
          /\ [Revised(j, now) EXCEPT !.shares[j.id] = was.shares[j.id]] \in Wanted
      <3>1. None \in ShareRow \cup {None}
        OBVIOUS
      <3>2. QED BY <2>1, <2>2, <2>3, <3>1, SharesWanted
    <2>5. QED BY <1>1, <2>4 DEF Reverted, ShareKinds
  <1>2. CASE j.kind = "nfs-profile.update"
    <2>1. [Revised(j, now) EXCEPT !.profile = was.profile] \in Wanted
      BY WantedParts, RevisedWanted, ProfileWanted
    <2>2. QED BY <1>2, <2>1 DEF Reverted
  <1>3. CASE j.kind \notin ShareKinds \cup {"nfs-profile.update"}
    BY <1>3 DEF Reverted, ShareKinds
  <1>4. QED BY <1>1, <1>2, <1>3

\* What a plan adds to a job leaves it a job of the same kind, about the same thing.
LEMMA EnrichedJob ==
    ASSUME NEW j \in Job, NEW view, NEW d \in Wanted
    PROVE  /\ Enriched(j, view, d) \in Job
           /\ Enriched(j, view, d).kind = j.kind
           /\ j.kind = "nfs-profile.update" => Enriched(j, view, d).prior \in Profile
  <1>1. CASE j.kind = "nfs-profile.update"
    <2> DEFINE J == [kind : {"nfs-profile.update"}, profile : Profile, prior : Profile \cup {None}]
    <2>1. j \in J
      BY <1>1 DEF Job
    <2>2. d.profile \in Profile
      BY WantedParts
    <2>3. [j EXCEPT !.prior = d.profile] \in J
      BY <2>1, <2>2
    <2>4. Enriched(j, view, d) = [j EXCEPT !.prior = d.profile]
      BY <1>1 DEF Enriched
    <2>5. [j EXCEPT !.prior = d.profile].prior = d.profile /\ [j EXCEPT !.prior = d.profile].kind = j.kind
      BY <2>1
    <2>6. J \subseteq Job
      BY DEF Job
    <2>7. QED BY <2>2, <2>3, <2>4, <2>5, <2>6
  <1>2. CASE j.kind = "fs.create"
    <2> DEFINE J == [kind : {"fs.create"}, path : Path, unit : UnitText, force : BOOLEAN,
                     sized : BOOLEAN, resolved : BOOLEAN]
               x == j.sized \/ view.arrays[j.unit.what] # None
    <2>1. j \in J
      BY <1>2 DEF Job
    <2>2. x \in BOOLEAN
      BY <2>1
    <2>3. Enriched(j, view, d) = [j EXCEPT !.resolved = x]
      BY <1>2 DEF Enriched
    <2> HIDE DEF x
    <2>4. [j EXCEPT !.resolved = x] \in J /\ [j EXCEPT !.resolved = x].kind = j.kind
      BY <2>1, <2>2
    <2>5. J \subseteq Job
      BY DEF Job
    <2>6. QED BY <1>2, <2>3, <2>4, <2>5
  <1>3. CASE j.kind \notin {"nfs-profile.update", "fs.create"}
    BY <1>3 DEF Enriched
  <1>4. QED BY <1>1, <1>2, <1>3

\* A plan that finds what it is for leases it.
LEMMA PlanLeases ==
    ASSUME NEW j \in Job, NEW view, NEW d, PlanOf(j, view, d).found
    PROVE  Own(j) \subseteq PlanOf(j, view, d).leases
  <1>1. CASE j.kind \in ArrayKinds
    <2>1. Own(j) = {<<"XiraidArray", j.array>>}
      BY <1>1 DEF Own
    <2>2. <<"XiraidArray", j.array>> \in Of("XiraidArray", {j.array})
      BY DEF Of
    <2>3. Of("XiraidArray", {j.array}) \subseteq PlanOf(j, view, d).leases
      BY <1>1 DEF PlanOf, ArrayKinds, ArrayCreatePlan, ArrayModifyPlan, ArrayImportPlan, ArrayDeletePlan, Plan
    <2>4. QED BY <2>1, <2>2, <2>3
  <1>2. CASE j.kind \in FsKinds
    <2>1. Own(j) = {<<"Filesystem", j.path>>}
      BY <1>2 DEF Own, FsKinds, ArrayKinds
    <2>2. <<"Filesystem", j.path>> \in Of("Filesystem", {j.path})
      BY DEF Of
    <2>3. \A blocked : FsPlan(j, view, blocked).found =>
             Of("Filesystem", {j.path}) \subseteq FsPlan(j, view, blocked).leases
      BY DEF FsPlan, Plan
    <2>4. CASE j.kind = "fs.create"
      <3>1. Of("Filesystem", {j.path}) \subseteq FsCreatePlan(j, view, d).leases
        BY DEF FsCreatePlan, Plan
      <3>2. QED BY <2>1, <2>2, <2>4, <3>1 DEF PlanOf
    <2>5. CASE j.kind # "fs.create"
      <3>1. \E blocked : PlanOf(j, view, d) = FsPlan(j, view, blocked)
        BY <1>2, <2>5
           DEF PlanOf, FsKinds, FsMountPlan, FsUnmountPlan, FsGrowPlan, FsSetQuotaModePlan, FsUnmanagePlan
      <3>2. QED BY <2>1, <2>2, <2>3, <3>1
    <2>6. QED BY <2>4, <2>5
  <1>3. CASE j.kind \in PoolKinds
    <2>1. Own(j) = Of("Pool", {j.pool})
      BY <1>3 DEF Own, Of, PoolKinds, FsKinds, ArrayKinds
    <2>2. \A blocked : PoolPlan(j, view, blocked).leases = Of("Pool", {j.pool})
      BY DEF PoolPlan, Plan
    <2>3. \E blocked : PlanOf(j, view, d) = PoolPlan(j, view, blocked)
      BY <1>3 DEF PlanOf, PoolKinds, PoolCreatePlan, PoolModifyPlan, PoolDeletePlan
    <2>4. QED BY <2>1, <2>2, <2>3
  <1>4. CASE j.kind \in ShareKinds
    <2>1. Own(j) = Of("Share", {j.id})
      BY <1>4 DEF Own, Of, ShareKinds, PoolKinds, FsKinds, ArrayKinds
    <2>2. PlanOf(j, view, d).leases = Of("Share", {j.id})
      BY <1>4 DEF PlanOf, ShareKinds, ShareCreatePlan, ShareChangePlan, Plan
    <2>3. QED BY <2>1, <2>2
  <1>5. CASE j.kind = "nfs-idmap.set"
    <2>1. Own(j) = Of("NfsIdmap", {"snapshot"})
      BY <1>5 DEF Own, Of, ShareKinds, PoolKinds, FsKinds, ArrayKinds
    <2>2. QED BY <1>5, <2>1 DEF PlanOf, NfsIdmapSetPlan, Plan
  <1>6. CASE j.kind = "nfs-profile.update"
    <2>1. Own(j) = Of("NfsProfile", {"default"})
      BY <1>6 DEF Own, Of, ShareKinds, PoolKinds, FsKinds, ArrayKinds
    <2>2. QED BY <1>6, <2>1 DEF PlanOf, NfsProfileUpdatePlan, Plan
  <1>7. QED BY <1>1, <1>2, <1>3, <1>4, <1>5, <1>6, JobKind

-----------------------------------------------------------------------------
(***************************************************************************)
(* Tasks of the right type.                                                *)
(***************************************************************************)
LEMMA StagesLen ==
    ASSUME NEW j \in Job
    PROVE  Len(Stages(j.kind)) \in Nat \ {0} /\ 1 \in 1 .. Len(Stages(j.kind)) + 1
  <1> DEFINE n == Len(Stages(j.kind))
  <1>1. j.kind \in {"xiraid.array.create", "xiraid.array.modify"} => n = 4
    BY DEF Stages
  <1>2. j.kind \in {"xiraid.array.import", "xiraid.array.delete", "fs.mount", "fs.unmount", "fs.grow",
                    "fs.set_quota_mode", "fs.unmanage", "share.create", "share.update"} => n = 3
    BY DEF Stages
  <1>3. j.kind \in {"pool.create", "pool.modify"} => n = 1
    BY DEF Stages
  <1>4. j.kind \in {"pool.delete", "share.delete", "nfs-idmap.set", "nfs-profile.update"} => n = 2
    BY DEF Stages
  <1>5. j.kind = "fs.create" => n = 5
    BY DEF Stages
  <1> HIDE DEF n
  <1>6. n \in {1, 2, 3, 4, 5}
    BY <1>1, <1>2, <1>3, <1>4, <1>5, JobKind DEF ArrayKinds, PoolKinds, FsKinds, ShareKinds
  <1>7. n \in Nat \ {0} /\ 1 \in 1 .. n + 1
    BY <1>6
  <1>8. QED BY <1>7 DEF n

LEMMA EmptyStashTyped ==
    ASSUME NEW kind
    PROVE  EmptyStash \in Stash(kind)
  BY DEF EmptyStash, Stash

LEMMA FreshTyped ==
    ASSUME NEW j \in Job, NEW phase \in Ended \cup {"new"}
    PROVE  LET q == [NewTask(j) EXCEPT !.phase = phase]
           IN TaskTyped(q) /\ ~Begun(q) /\ q.job = j /\ q.calls = <<>>
  <1> DEFINE q == [NewTask(j) EXCEPT !.phase = phase]
  <1>0. NewTask(j) \in [job : {j}, phase : {"new"}, plan : {None}, was : {None}, base : {None},
                        stage : {1}, calls : {<<>>}, stash : {EmptyStash}, cancelled : {FALSE}]
    BY DEF NewTask
  <1>1. q \in [job : {j}, phase : {phase}, plan : {None}, was : {None}, base : {None},
               stage : {1}, calls : {<<>>}, stash : {EmptyStash}, cancelled : {FALSE}]
    BY <1>0
  <1>2. /\ IsTask(q)
        /\ q.job = j /\ q.phase = phase /\ q.stage = 1 /\ q.calls = <<>> /\ q.stash = EmptyStash /\ q.cancelled = FALSE
    BY <1>1 DEF IsTask
  <1> HIDE DEF q
  <1>3. EmptyStash.marker = FALSE /\ ~(1 > 1)
    BY DEF EmptyStash
  <1>4. phase \in Phase /\ phase \notin Live \cup {"planned"}
    BY DEF Phase, Ended, Live
  <1>5. AllSuit(q.calls, q.job, q.stash, q.phase = "rollback")
    BY <1>2, NoCalls
  <1>6. TaskTyped(q)
    BY <1>2, <1>3, <1>4, <1>5, StagesLen, EmptyStashTyped DEF TaskTyped, Past
  <1>7. QED BY <1>2, <1>4, <1>6 DEF Begun, q

LEMMA NewTyped ==
    ASSUME NEW j \in Job
    PROVE  TaskTyped(NewTask(j)) /\ ~Begun(NewTask(j))
  <1> DEFINE q == NewTask(j)
  <1>1. q \in [job : {j}, phase : {"new"}, plan : {None}, was : {None}, base : {None},
               stage : {1}, calls : {<<>>}, stash : {EmptyStash}, cancelled : {FALSE}]
    BY DEF NewTask
  <1> HIDE DEF q
  <1>2. [q EXCEPT !.phase = "new"] = q
    BY <1>1
  <1>3. QED BY <1>2, FreshTyped DEF q

LEMMA EndedTyped ==
    ASSUME NEW j \in Job, NEW final \in Ended
    PROVE  /\ TaskTyped(EndedTask(j, final)) /\ ~Begun(EndedTask(j, final))
           /\ EndedTask(j, final).calls = <<>>
  BY FreshTyped DEF EndedTask

LEMMA OneTask ==
    ASSUME TasksTyped, NEW t \in Task, NEW q, TaskTyped(q), task' = [task EXCEPT ![t] = q]
    PROVE  /\ TasksTyped'
           /\ task'[t] = q
           /\ \A u \in Task \ {t} : task'[u] = task[u]
  BY DEF TasksTyped

LEMMA FaultTyped ==
    ASSUME faults \in 0 .. MaxFaults, Fault
    PROVE  faults' \in 0 .. MaxFaults
  BY BoundsAssumption DEF Fault

-----------------------------------------------------------------------------
(***************************************************************************)
(* The steps, as far as the host and the live tasks see them.              *)
(***************************************************************************)
Fields(q, job, phase, plan, was, stage, calls, stash, cancelled) ==
    /\ IsTask(q) /\ q.job = job /\ q.phase = phase /\ q.plan = plan /\ q.was = was
    /\ q.stage = stage /\ q.calls = calls /\ q.stash = stash /\ q.cancelled = cancelled

\* A task goes on with what it does, or does not run.
Carries(k, q) ==
    Begun(q) => /\ Begun(k) /\ q.job = k.job /\ q.plan = k.plan /\ q.stage = k.stage /\ q.stash = k.stash
                /\ q.phase = "running" => k.phase = "running"

AllCarry == \A u \in Task : Carries(task[u], task'[u])

Still == host' = host /\ exposed' = exposed /\ AllCarry

Applied(t) ==
    /\ host' = host /\ exposed' = exposed \cup Exposes(task[t].job, task[t].plan.leases, host)
    /\ LeasesFree(t) /\ Own(task[t].job) \subseteq task[t].plan.leases
    /\ task'[t].job = task[t].job /\ task'[t].plan = task[t].plan
    /\ task'[t].stage = 1 /\ task'[t].stash = EmptyStash /\ task'[t].phase = "running"
    /\ \A u \in Task \ {t} : task'[u] = task[u]

\* What passing stage n of job j with stash s shows, when stash after results.
PassedStage(j, n, s, after) ==
    /\ after \in Stash(j.kind)
    /\ n = 1 /\ j.kind \notin PoolKinds =>
          after = RunStage(j, "preflight", host, s).stash /\ RunStage(j, "preflight", host, s).pass
    /\ n > 1 /\ j.kind \in {"xiraid.array.modify", "fs.set_quota_mode"} => after = s

Passed(t) ==
    /\ host' = host /\ exposed' = exposed
    /\ task[t].phase = "running" /\ task'[t].phase = "running"
    /\ task'[t].job = task[t].job /\ task'[t].plan = task[t].plan /\ task'[t].stage = task[t].stage + 1
    /\ PassedStage(task[t].job, task[t].stage, task[t].stash, task'[t].stash)
    /\ \A u \in Task \ {t} : task'[u] = task[u]

Works(t) ==
    /\ Begun(task[t]) /\ task[t].calls # <<>> /\ (task[t].phase = "running" => Past(task[t]))
    /\ Suits(Head(task[t].calls), task[t].job, task[t].stash, task[t].phase = "rollback")
    /\ host' = Perform(host, Head(task[t].calls)).host /\ exposed' = exposed
    /\ AllCarry /\ Worked(t)

Step == Still \/ \E t \in Task : Applied(t) \/ Passed(t) \/ Works(t)

LEMMA CarryAll ==
    ASSUME TasksTyped, NEW t \in Task, NEW q, task' = [task EXCEPT ![t] = q], Carries(task[t], q)
    PROVE  AllCarry
  BY DEF TasksTyped, AllCarry, Carries

LEMMA EndStep ==
    ASSUME TasksTyped, desired \in Wanted, NEW t \in Task, Begun(task[t]),
           NEW final \in {"success", "failed", "cancelled", "manual"}, End(t, final)
    PROVE  TasksTyped' /\ desired' \in Wanted /\ AllCarry /\ task'[t].calls = <<>>
  <1> DEFINE q == EndedTask(task[t].job, final)
  <1>1. task[t].job \in Job /\ task[t].was \in Wanted
    BY DEF TasksTyped, TaskTyped, Begun
  <1>2. TaskTyped(q) /\ ~Begun(q) /\ q.calls = <<>>
    BY <1>1, EndedTyped DEF Ended
  <1>3. task' = [task EXCEPT ![t] = q]
    BY DEF End
  <1> HIDE DEF q
  <1>4. TasksTyped' /\ task'[t] = q
    BY <1>2, <1>3, OneTask
  <1>5. Carries(task[t], q)
    BY <1>2 DEF Carries
  <1>6. desired' \in Wanted
    BY <1>1, RevertedWanted DEF End
  <1>7. QED BY <1>2, <1>3, <1>4, <1>5, <1>6, CarryAll

LEMMA MakePlanStep ==
    ASSUME Typed, NEW t \in Task, MakePlan(t)
    PROVE  Typed' /\ Still
  <1> DEFINE k    == task[t]
             j    == Enriched(k.job, seen, desired)
             plan == PlanOf(j, seen, desired)
             p    == [k EXCEPT !.job = j, !.phase = "planned", !.plan = plan, !.was = desired]
             r    == EndedTask(j, "refused")
             q    == IF plan.found THEN p ELSE r
  <1>1. TaskTyped(k) /\ IsTask(k) /\ k.phase = "new" /\ k.stage = 1 /\ k.stash = EmptyStash /\ k.calls = <<>>
        /\ k.job \in Job /\ k.cancelled \in BOOLEAN /\ desired \in Wanted
    BY DEF Typed, TasksTyped, TaskTyped, MakePlan
  <1>2. j \in Job /\ j.kind = k.job.kind /\ (j.kind = "nfs-profile.update" => j.prior \in Profile)
    BY <1>1, EnrichedJob
  <1>3. plan.found => Own(j) \subseteq plan.leases
    BY <1>2, PlanLeases
  <1>4. task' = [task EXCEPT ![t] = q]
    BY DEF MakePlan
  <1> HIDE DEF j, plan, k
  <1>5. Fields(p, j, "planned", plan, desired, 1, <<>>, EmptyStash, k.cancelled)
    BY <1>1 DEF IsTask, Fields
  <1>6. plan.found => TaskTyped(p) /\ ~Begun(p)
    <2> HIDE DEF p
    <2>1. AllSuit(<<>>, j, EmptyStash, "planned" = "rollback") /\ EmptyStash \in Stash(j.kind)
      BY NoCalls, EmptyStashTyped
    <2>2. 1 \in 1 .. Len(Stages(j.kind)) + 1 /\ EmptyStash.marker = FALSE /\ ~(1 > 1)
      BY <1>2, StagesLen DEF EmptyStash
    <2>3. QED BY <1>1, <1>2, <1>3, <1>5, <2>1, <2>2 DEF TaskTyped, Fields, Phase, Live, Past, Begun
  <1>7. TaskTyped(r) /\ ~Begun(r)
    BY <1>2, EndedTyped DEF Ended
  <1>8. TaskTyped(q) /\ Carries(k, q)
    <2> HIDE DEF p, r
    <2>1. QED BY <1>6, <1>7 DEF Carries
  <1> HIDE DEF q
  <1>9. TasksTyped' /\ AllCarry
    BY <1>4, <1>8, OneTask, CarryAll DEF Typed, k
  <1>10. UNCHANGED <<host, desired, exposed, faults, polls>>
    BY DEF MakePlan
  <1>11. QED BY <1>9, <1>10 DEF Typed, Still

LEMMA ApplyStep ==
    ASSUME Typed, NEW t \in Task, Apply(t)
    PROVE  Typed' /\ Step
  <1> DEFINE k == task[t]
             p == [k EXCEPT !.phase = "running", !.was = desired, !.base = Slice(k.job, host)]
             r == EndedTask(k.job, "refused")
  <1>1. /\ TaskTyped(k) /\ IsTask(k) /\ k.phase = "planned" /\ k.stage = 1 /\ k.stash = EmptyStash /\ k.calls = <<>>
        /\ k.job \in Job /\ k.cancelled \in BOOLEAN /\ desired \in Wanted /\ Own(k.job) \subseteq k.plan.leases
        /\ k.job.kind = "nfs-profile.update" => k.job.prior \in Profile
    BY DEF Typed, TasksTyped, TaskTyped, Apply
  <1>2. UNCHANGED <<host, seen, faults, polls>> /\ LeasesFree(t)
    BY DEF Apply
  <1>3. CASE /\ task' = [task EXCEPT ![t] = r] /\ UNCHANGED <<desired, exposed>>
    <2>1. TaskTyped(r) /\ ~Begun(r)
      BY <1>1, EndedTyped DEF Ended
    <2> HIDE DEF r
    <2>2. TasksTyped' /\ AllCarry
      <3>1. Carries(k, r)
        BY <2>1 DEF Carries
      <3>2. QED BY <1>3, <2>1, <3>1, OneTask, CarryAll DEF Typed
    <2>3. QED BY <1>2, <1>3, <2>2 DEF Typed, Step, Still
  <1>4. CASE /\ desired' = Intended(k.job, desired)
             /\ task' = [task EXCEPT ![t].phase = "running", ![t].was = desired, ![t].base = Slice(k.job, host)]
             /\ exposed' = exposed \cup Exposes(k.job, k.plan.leases, host)
    <2>1. task' = [task EXCEPT ![t] = p]
      BY <1>4 DEF Typed, TasksTyped
    <2>2. Fields(p, k.job, "running", k.plan, desired, 1, <<>>, EmptyStash, k.cancelled)
      BY <1>1 DEF IsTask, Fields
    <2> HIDE DEF p, k
    <2>3. TaskTyped(p)
      <3>1. AllSuit(<<>>, k.job, EmptyStash, "running" = "rollback") /\ EmptyStash \in Stash(k.job.kind)
        BY NoCalls, EmptyStashTyped
      <3>2. 1 \in 1 .. Len(Stages(k.job.kind)) + 1 /\ EmptyStash.marker = FALSE /\ ~(1 > 1)
        BY <1>1, StagesLen DEF EmptyStash
      <3>3. QED BY <1>1, <2>2, <3>1, <3>2 DEF TaskTyped, Fields, Phase, Live, Past, Begun
    <2>4. TasksTyped' /\ task'[t] = p /\ \A u \in Task \ {t} : task'[u] = task[u]
      BY <2>1, <2>3, OneTask DEF Typed
    <2>5. exposed' \subseteq Array /\ desired' \in Wanted
      <3>1. Reached(k.job, host) \subseteq Array
        BY <1>1, JobShape
           DEF Reached, Devices, UnitText, Typed, Host, HasUnit, FsKinds
      <3>2. exposed \subseteq Array /\ desired' \in Wanted
        BY <1>1, <1>4, IntendedWanted DEF Typed
      <3>3. QED BY <1>4, <3>1, <3>2 DEF Exposes
    <2>6. Applied(t)
      BY <1>1, <1>2, <1>4, <2>2, <2>4 DEF Applied, Fields, k
    <2>7. QED BY <1>2, <2>4, <2>5, <2>6 DEF Typed, Step
  <1>5. QED BY <1>3, <1>4 DEF Apply

\* A live task that goes on, in what it does or to its rollback.
LEMMA MovedTyped ==
    ASSUME TasksTyped, NEW t \in Task, NEW q, NEW phase \in Live, NEW calls, NEW cancelled \in BOOLEAN,
           Begun(task[t]), task' = [task EXCEPT ![t] = q],
           Fields(q, task[t].job, phase, task[t].plan, task[t].was, task[t].stage, calls, task[t].stash, cancelled),
           phase = "running" => task[t].phase = "running",
           calls # <<>> => phase \in {"running", "rollback"} /\ (phase = "running" => Past(task[t])),
           AllSuit(calls, task[t].job, task[t].stash, phase = "rollback")
    PROVE  TasksTyped' /\ AllCarry /\ task'[t] = q
  <1> DEFINE k == task[t]
  <1>1. TaskTyped(k) /\ k.phase \in Live
    BY DEF TasksTyped, Begun
  <1>2. phase \in Phase /\ phase \notin {"new", "planned"}
    BY DEF Live, Phase
  <1> HIDE DEF k
  <1>3. Fields(q, k.job, phase, k.plan, k.was, k.stage, calls, k.stash, cancelled)
    BY DEF k
  <1>4. AllSuit(calls, k.job, k.stash, phase = "rollback")
    BY DEF k
  <1>5. (phase = "running" => k.phase = "running") /\ (calls # <<>> => phase \in {"running", "rollback"} /\ (phase = "running" => Past(k)))
    BY DEF k
  <1>6. TaskTyped(q)
    BY <1>1, <1>2, <1>3, <1>4, <1>5 DEF TaskTyped, Fields, Past
  <1>7. Carries(k, q)
    BY <1>1, <1>3, <1>5 DEF Carries, Fields, Begun
  <1>8. QED BY <1>6, <1>7, OneTask, CarryAll DEF k

LEMMA RequestCancelStep ==
    ASSUME Typed, NEW t \in Task, RequestCancel(t)
    PROVE  Typed' /\ Step
  <1> DEFINE k == task[t]
             q == [k EXCEPT !.cancelled = TRUE]
  <1>1. TaskTyped(k) /\ IsTask(k) /\ k.phase = "running"
    BY DEF Typed, TasksTyped, TaskTyped, RequestCancel
  <1>2. task' = [task EXCEPT ![t] = q] /\ UNCHANGED <<host, desired, exposed, polls>> /\ Fault
    BY DEF RequestCancel, Typed, TasksTyped
  <1> HIDE DEF k
  <1>3. Fields(q, k.job, "running", k.plan, k.was, k.stage, k.calls, k.stash, TRUE)
    BY <1>1 DEF IsTask, Fields
  <1> HIDE DEF q
  <1>4. /\ k.calls # <<>> => Past(k)
        /\ AllSuit(k.calls, k.job, k.stash, "running" = "rollback")
    BY <1>1 DEF TaskTyped
  <1>5. TasksTyped' /\ AllCarry
    <2>1. "running" \in Live /\ Begun(k)
      BY <1>1 DEF Live, Begun
    <2>2. QED BY <1>1, <1>2, <1>3, <1>4, <2>1, MovedTyped DEF Typed, k
  <1>6. QED BY <1>2, <1>5, FaultTyped DEF Typed, Step, Still

LEMMA CancelRunStep ==
    ASSUME Typed, NEW t \in Task, CancelRun(t)
    PROVE  Typed' /\ Step
  <1> DEFINE k == task[t]
             q == [k EXCEPT !.phase = "failing"]
  <1>1. TaskTyped(k) /\ IsTask(k) /\ k.phase = "running" /\ k.calls = <<>> /\ k.cancelled \in BOOLEAN
    BY DEF Typed, TasksTyped, TaskTyped, CancelRun, BetweenStages
  <1>2. task' = [task EXCEPT ![t] = q] /\ UNCHANGED <<host, desired, exposed, faults, polls>>
    BY DEF CancelRun, Typed, TasksTyped
  <1> HIDE DEF k
  <1>3. Fields(q, k.job, "failing", k.plan, k.was, k.stage, <<>>, k.stash, k.cancelled)
    BY <1>1 DEF IsTask, Fields
  <1> HIDE DEF q
  <1>4. TasksTyped' /\ AllCarry
    <2>1. "failing" \in Live /\ Begun(k) /\ AllSuit(<<>>, k.job, k.stash, "failing" = "rollback")
      BY <1>1, NoCalls DEF Live, Begun
    <2>2. QED BY <1>1, <1>2, <1>3, <2>1, MovedTyped DEF Typed, k
  <1>5. QED BY <1>2, <1>4 DEF Typed, Step, Still

LEMMA EndRollbackStep ==
    ASSUME Typed, NEW t \in Task, EndRollback(t)
    PROVE  Typed' /\ Step
  <1>1. PICK final \in {"failed", "cancelled"} : End(t, final)
    BY DEF EndRollback
  <1>2. Begun(task[t]) /\ UNCHANGED <<host, exposed, faults, polls>>
    BY DEF EndRollback, Begun, Live
  <1>3. TasksTyped' /\ desired' \in Wanted /\ AllCarry
    BY <1>1, <1>2, EndStep DEF Typed
  <1>4. QED BY <1>2, <1>3 DEF Typed, Step, Still

LEMMA EndRunStep ==
    ASSUME Typed, NEW t \in Task, EndRun(t)
    PROVE  Typed' /\ Step
  <1>1. PICK final \in {"success", "manual"} : End(t, final)
    BY DEF EndRun
  <1>2. Begun(task[t]) /\ UNCHANGED <<host, exposed, polls>>
    BY DEF EndRun, BetweenStages, Begun, Live
  <1>3. faults' \in 0 .. MaxFaults
    BY FaultTyped DEF EndRun, Typed
  <1>4. TasksTyped' /\ desired' \in Wanted /\ AllCarry
    BY <1>1, <1>2, EndStep DEF Typed
  <1>5. QED BY <1>2, <1>3, <1>4 DEF Typed, Step, Still

LEMMA StartRollbackStep ==
    ASSUME Typed, NEW t \in Task, StartRollback(t)
    PROVE  Typed' /\ Step
  <1> DEFINE k == task[t]
             r == Rollback(k.job, host, k.stash)
             q == [k EXCEPT !.phase = "rollback", !.calls = r.calls]
  <1>1. /\ TaskTyped(k) /\ IsTask(k) /\ k.phase = "failing" /\ Begun(k) /\ k.cancelled \in BOOLEAN
        /\ k.job \in Job /\ k.stash \in Stash(k.job.kind)
        /\ k.job.kind = "nfs-profile.update" => k.job.prior \in Profile
    BY DEF Typed, TasksTyped, TaskTyped, StartRollback, Begun, Live
  <1>2. UNCHANGED <<host, exposed, polls>> /\ faults' \in 0 .. MaxFaults
    BY FaultTyped DEF StartRollback, Typed
  <1>3. \/ task' = [task EXCEPT ![t].phase = "rollback", ![t].calls = r.calls] /\ UNCHANGED desired
        \/ End(t, "manual")
    BY DEF StartRollback
  <1>4. CASE End(t, "manual")
    <2>1. TasksTyped' /\ desired' \in Wanted /\ AllCarry
      BY <1>1, <1>4, EndStep DEF Typed
    <2>2. QED BY <1>2, <2>1 DEF Typed, Step, Still
  <1>5. CASE task' = [task EXCEPT ![t].phase = "rollback", ![t].calls = r.calls] /\ UNCHANGED desired
    <2>1. task' = [task EXCEPT ![t] = q]
      BY <1>5 DEF Typed, TasksTyped
    <2>2. AllSuit(r.calls, k.job, k.stash, TRUE)
      BY <1>1, RollbackSafe DEF Typed
    <2> HIDE DEF k, r
    <2>3. Fields(q, k.job, "rollback", k.plan, k.was, k.stage, r.calls, k.stash, k.cancelled)
      BY <1>1 DEF IsTask, Fields
    <2> HIDE DEF q
    <2>4. "rollback" \in Live /\ AllSuit(r.calls, k.job, k.stash, "rollback" = "rollback")
      BY <2>2 DEF Live
    <2>5. TasksTyped' /\ AllCarry
      <3>1. TasksTyped /\ Begun(task[t])
        BY <1>1 DEF Typed, k
      <3>2. "rollback" = "running" => task[t].phase = "running"
        OBVIOUS
      <3>3. r.calls # <<>> =>
               "rollback" \in {"running", "rollback"} /\ ("rollback" = "running" => Past(task[t]))
        OBVIOUS
      <3>4. Fields(q, task[t].job, "rollback", task[t].plan, task[t].was, task[t].stage, r.calls,
                   task[t].stash, task[t].cancelled)
        BY <2>3 DEF k
      <3>5. AllSuit(r.calls, task[t].job, task[t].stash, "rollback" = "rollback")
        BY <2>4 DEF k
      <3>6. task[t].cancelled \in BOOLEAN
        BY <3>1 DEF TasksTyped, TaskTyped
      <3>7. QED BY <2>1, <2>4, <3>1, <3>2, <3>3, <3>4, <3>5, <3>6, MovedTyped, Zenon
    <2>6. QED BY <1>2, <1>5, <2>5 DEF Typed, Step, Still
  <1>6. QED BY <1>3, <1>4, <1>5

\* A stage that lets the run pass.
LEMMA StagePassed ==
    ASSUME Typed, NEW t \in Task, task[t].phase = "running", StagesLeft(t), NEW r,
           \/ r = RunStage(task[t].job, Stages(task[t].job.kind)[task[t].stage], host, task[t].stash)
           \/ r = Unreadable(task[t].job, Stages(task[t].job.kind)[task[t].stage], task[t].stash),
           r.pass
    PROVE  /\ Safe(r, task[t].job, FALSE)
           /\ PassedStage(task[t].job, task[t].stage, task[t].stash, r.stash)
           /\ task[t].job.kind \in {"xiraid.array.modify", "fs.set_quota_mode"} =>
                 r.stash.before \in PreState(task[t].job.kind)
  <1> DEFINE k == task[t]
             j == k.job
             n == k.stage
             s == k.stash
             stage == Stages(j.kind)[n]
  <1>1. /\ j \in Job /\ s \in Stash(j.kind) /\ host \in Host
        /\ n > 1 /\ j.kind \in {"xiraid.array.modify", "fs.set_quota_mode"} => s.before \in PreState(j.kind)
    BY DEF Typed, TasksTyped, TaskTyped, Past
  <1>2. n \in 1 .. Len(Stages(j.kind))
    <2>1. n \in 1 .. Len(Stages(j.kind)) + 1 /\ n <= Len(Stages(j.kind)) /\ Len(Stages(j.kind)) \in Nat
      BY <1>1, StagesLen DEF Typed, TasksTyped, TaskTyped, StagesLeft
    <2>2. QED BY <2>1
  <1>a. r = RunStage(j, stage, host, s) \/ r = Unreadable(j, stage, s)
    OBVIOUS
  <1>b. stage = Stages(j.kind)[n]
    OBVIOUS
  <1> SUFFICES /\ Safe(r, j, FALSE) /\ PassedStage(j, n, s, r.stash)
               /\ j.kind \in {"xiraid.array.modify", "fs.set_quota_mode"} => r.stash.before \in PreState(j.kind)
    OBVIOUS
  <1> HIDE DEF stage, n, s, j, k
  <1>c. /\ stage # "preflight" <=> (n > 1 \/ j.kind \in {"pool.create", "pool.modify"})
        /\ stage = "verify" => n > 1
    BY <1>1, <1>2, <1>b, StageOf
  <1>d. (n = 1 \/ n > 1) /\ ~(n = 1 /\ n > 1)
    BY <1>2
  <1>3. \/ r = RunStage(j, stage, host, s)
        \/ r.calls = <<>> /\ r.stash = s /\ j.kind = "xiraid.array.delete" /\ n > 1
    <2>1. Unreadable(j, stage, s).pass => j.kind = "xiraid.array.delete" /\ stage = "verify"
      BY DEF Unreadable, Check
    <2>2. Unreadable(j, stage, s).calls = <<>> /\ Unreadable(j, stage, s).stash = s
      BY DEF Unreadable, Check
    <2>3. QED BY <1>a, <1>c, <2>1, <2>2
  <1>4. n = 1 /\ j.kind \notin PoolKinds => stage = "preflight"
    BY <1>c DEF PoolKinds
  <1>5. CASE r = RunStage(j, stage, host, s)
    <2>1. Safe(r, j, FALSE)
      BY <1>1, <1>2, <1>5, <1>b, RunStageSafe
    <2>2. n > 1 /\ j.kind \in {"xiraid.array.modify", "fs.set_quota_mode"} => r.stash = s
      BY <1>1, <1>2, <1>5, <1>b, LaterStages
    <2>4. PassedStage(j, n, s, r.stash)
      BY <1>4, <1>5, <2>1, <2>2 DEF PassedStage, Safe
    <2>5. j.kind \in {"xiraid.array.modify", "fs.set_quota_mode"} => r.stash.before \in PreState(j.kind)
      <3>1. CASE n > 1
        BY <1>1, <2>2, <3>1
      <3>2. CASE n = 1 /\ j.kind \in {"xiraid.array.modify", "fs.set_quota_mode"}
        <4>1. stage = "preflight"
          BY <1>4, <3>2 DEF PoolKinds
        <4>2. QED BY <1>1, <1>5, <3>2, <4>1, PreflightPassed
      <3>3. QED BY <1>d, <3>1, <3>2
    <2>6. QED BY <2>1, <2>4, <2>5
  <1>6. CASE r.calls = <<>> /\ r.stash = s /\ j.kind = "xiraid.array.delete" /\ n > 1
    <2>1. Safe(r, j, FALSE)
      BY <1>1, <1>6, NoCalls DEF Safe
    <2>2. PassedStage(j, n, s, r.stash)
      BY <1>1, <1>6, <1>d DEF PassedStage
    <2>3. QED BY <1>6, <2>1, <2>2
  <1>7. QED BY <1>3, <1>5, <1>6

LEMMA StartStageStep ==
    ASSUME Typed, NEW t \in Task, StartStage(t)
    PROVE  Typed' /\ Step
  <1> DEFINE k     == task[t]
             stage == Stages(k.job.kind)[k.stage]
             next  == [k EXCEPT !.stage = @ + 1]
             fail  == [k EXCEPT !.phase = "failing"]
  <1>1. /\ TaskTyped(k) /\ IsTask(k) /\ k.phase = "running" /\ Begun(k) /\ k.calls = <<>> /\ k.cancelled \in BOOLEAN
        /\ k.job \in Job
    BY DEF Typed, TasksTyped, TaskTyped, StartStage, BetweenStages, Begun, Live
  <1>2. UNCHANGED <<host, desired, exposed, polls>> /\ faults' \in 0 .. MaxFaults /\ StagesLeft(t)
    BY FaultTyped DEF StartStage, Typed
  <1>3. PICK r : /\ Take(t, r, next, fail)
                 /\ \/ r = RunStage(k.job, stage, host, k.stash)
                    \/ r = Unreadable(k.job, stage, k.stash)
    BY DEF StartStage
  <1>4. CASE ~r.pass
    <2>1. task' = [task EXCEPT ![t] = fail]
      BY <1>3, <1>4 DEF Take
    <2> HIDE DEF k
    <2>2. Fields(fail, k.job, "failing", k.plan, k.was, k.stage, <<>>, k.stash, k.cancelled)
      BY <1>1 DEF IsTask, Fields
    <2> HIDE DEF fail
    <2>3. "failing" \in Live /\ AllSuit(<<>>, k.job, k.stash, "failing" = "rollback")
      BY NoCalls DEF Live
    <2>4. TasksTyped' /\ AllCarry
      BY <1>1, <2>1, <2>2, <2>3, MovedTyped DEF Typed, k
    <2>5. QED BY <1>2, <2>4 DEF Typed, Step, Still
  <1>5. CASE r.pass
    <2> DEFINE q == [next EXCEPT !.calls = r.calls, !.stash = r.stash]
    <2>1. task' = [task EXCEPT ![t] = q]
      BY <1>3, <1>5 DEF Take
    <2>2. /\ Safe(r, k.job, FALSE)
          /\ PassedStage(k.job, k.stage, k.stash, r.stash)
          /\ k.job.kind \in {"xiraid.array.modify", "fs.set_quota_mode"} => r.stash.before \in PreState(k.job.kind)
      BY <1>1, <1>2, <1>3, <1>5, StagePassed
    <2>3. k.stage \in Nat /\ k.stage + 1 > 1 /\ k.stage + 1 \in 1 .. Len(Stages(k.job.kind)) + 1
      <3>1. k.stage \in 1 .. Len(Stages(k.job.kind)) + 1 /\ k.stage <= Len(Stages(k.job.kind))
        BY <1>1, <1>2 DEF TaskTyped, StagesLeft
      <3>2. Len(Stages(k.job.kind)) \in Nat
        BY <1>1, StagesLen
      <3> DEFINE m == Len(Stages(k.job.kind))
                 i == k.stage
      <3> HIDE DEF m, i
      <3>3. i \in 1 .. m + 1 /\ i <= m /\ m \in Nat
        BY <3>1, <3>2 DEF m, i
      <3>4. i \in Nat /\ i + 1 > 1 /\ i + 1 \in 1 .. m + 1
        BY <3>3
      <3>5. QED BY <3>4 DEF m, i
    <2> HIDE DEF k
    <2>4. Fields(q, k.job, "running", k.plan, k.was, k.stage + 1, r.calls, r.stash, k.cancelled)
      BY <1>1 DEF IsTask, Fields
    <2> HIDE DEF q
    <2>5. AllSuit(r.calls, k.job, r.stash, "running" = "rollback") /\ r.stash \in Stash(k.job.kind)
      BY <2>2 DEF Safe
    <2>6. TaskTyped(q)
      BY <1>1, <2>2, <2>3, <2>4, <2>5 DEF TaskTyped, Fields, Past, Phase, Live
    <2>7. TasksTyped' /\ task'[t] = q /\ \A u \in Task \ {t} : task'[u] = task[u]
      BY <2>1, <2>6, OneTask DEF Typed
    <2>8. Passed(t)
      BY <1>1, <1>2, <2>2, <2>4, <2>7 DEF Passed, Fields, k
    <2>9. QED BY <1>2, <2>7, <2>8 DEF Typed, Step
  <1>6. QED BY <1>4, <1>5

\* A call leaves the host as it is, or as the call leaves it; and the task either goes on
\* with other calls, or fails, or ends.
LEMMA WorkMoves ==
    ASSUME Typed, NEW t \in Task, Work(t)
    PROVE  /\ TasksTyped' /\ desired' \in Wanted /\ AllCarry /\ Worked(t)
           /\ Begun(task[t]) /\ (task[t].phase = "running" => Past(task[t]))
           /\ Suits(Head(task[t].calls), task[t].job, task[t].stash, task[t].phase = "rollback")
  <1> DEFINE k    == task[t]
             rest == Tail(k.calls)
  <1>1. /\ TaskTyped(k) /\ IsTask(k) /\ k.calls # <<>> /\ k.phase \in {"running", "rollback"} /\ Begun(k)
        /\ k.phase = "running" => Past(k)
        /\ AllSuit(k.calls, k.job, k.stash, k.phase = "rollback") /\ k.cancelled \in BOOLEAN
    BY DEF Typed, TasksTyped, TaskTyped, Work, Begun, Live
  <1>2. /\ Suits(Head(k.calls), k.job, k.stash, k.phase = "rollback")
        /\ AllSuit(rest, k.job, k.stash, k.phase = "rollback")
        /\ rest # k.calls
    BY <1>1, SuitHead
  <1>3. \/ task' = [task EXCEPT ![t].calls = rest] /\ UNCHANGED desired
        \/ task' = [task EXCEPT ![t].calls = <<>>] /\ UNCHANGED desired
        \/ task' = [task EXCEPT ![t].phase = "failing", ![t].calls = <<>>] /\ UNCHANGED desired
        \/ End(t, "manual")
    BY DEF Work
  <1>4. CASE End(t, "manual")
    BY <1>1, <1>2, <1>4, EndStep DEF Typed, Worked
  <1>5. ASSUME NEW calls, AllSuit(calls, k.job, k.stash, k.phase = "rollback"), calls # k.calls,
               task' = [task EXCEPT ![t].calls = calls], UNCHANGED desired
        PROVE  TasksTyped' /\ desired' \in Wanted /\ AllCarry /\ Worked(t)
    <2> DEFINE q == [k EXCEPT !.calls = calls]
    <2>1. task' = [task EXCEPT ![t] = q]
      BY <1>5 DEF Typed, TasksTyped
    <2>2. k.calls # <<>> /\ calls # k.calls /\ AllSuit(calls, k.job, k.stash, k.phase = "rollback")
      BY <1>1, <1>5
    <2> HIDE DEF k
    <2>3. Fields(q, k.job, k.phase, k.plan, k.was, k.stage, calls, k.stash, k.cancelled)
      BY <1>1 DEF IsTask, Fields
    <2> HIDE DEF q
    <2>4. /\ k.phase \in Live /\ Begun(k) /\ k.cancelled \in BOOLEAN
          /\ calls # <<>> => k.phase \in {"running", "rollback"} /\ (k.phase = "running" => Past(k))
          /\ k.phase = "running" => k.phase = "running"
      BY <1>1 DEF Live
    <2>5. TasksTyped' /\ AllCarry /\ task'[t] = q
      BY <2>1, <2>2, <2>3, <2>4, MovedTyped DEF Typed, k
    <2>6. Worked(t)
      BY <2>2, <2>3, <2>5 DEF Worked, Fields, k
    <2>7. QED BY <1>5, <2>5, <2>6 DEF Typed
  <1>6. CASE task' = [task EXCEPT ![t].phase = "failing", ![t].calls = <<>>] /\ UNCHANGED desired
    <2> DEFINE q == [k EXCEPT !.phase = "failing", !.calls = <<>>]
    <2>1. task' = [task EXCEPT ![t] = q]
      BY <1>6 DEF Typed, TasksTyped
    <2> HIDE DEF k
    <2>2. Fields(q, k.job, "failing", k.plan, k.was, k.stage, <<>>, k.stash, k.cancelled)
      BY <1>1 DEF IsTask, Fields
    <2> HIDE DEF q
    <2>3. "failing" \in Live /\ AllSuit(<<>>, k.job, k.stash, "failing" = "rollback")
      BY NoCalls DEF Live
    <2>4. TasksTyped' /\ AllCarry /\ task'[t] = q
      <3>1. TasksTyped /\ Begun(task[t]) /\ task[t].cancelled \in BOOLEAN
        BY <1>1 DEF Typed, TasksTyped, TaskTyped, k
      <3> DEFINE none  == <<>>
                 phase == "failing"
      <3>2. Fields(q, task[t].job, phase, task[t].plan, task[t].was, task[t].stage, none,
                   task[t].stash, task[t].cancelled)
        BY <2>2 DEF k
      <3>3. AllSuit(none, task[t].job, task[t].stash, phase = "rollback")
        BY <2>3 DEF k
      <3>4. phase \in Live /\ (phase = "running" => task[t].phase = "running")
        BY DEF Live
      <3>5. none # <<>> => phase \in {"running", "rollback"} /\ (phase = "running" => Past(task[t]))
        OBVIOUS
      <3> HIDE DEF none, phase
      <3>6. QED BY <2>1, <3>1, <3>2, <3>3, <3>4, <3>5, MovedTyped, Zenon
    <2>5. Worked(t)
      BY <1>1, <2>2, <2>4 DEF Worked, Fields, k
    <2>6. QED BY <1>1, <1>2, <1>6, <2>4, <2>5 DEF Typed, k
  <1>7. CASE task' = [task EXCEPT ![t].calls = rest] /\ UNCHANGED desired
    BY <1>1, <1>2, <1>5, <1>7
  <1>8. CASE task' = [task EXCEPT ![t].calls = <<>>] /\ UNCHANGED desired
    BY <1>1, <1>2, <1>5, <1>8, NoCalls
  <1>9. QED BY <1>3, <1>4, <1>6, <1>7, <1>8

LEMMA WorkStep ==
    ASSUME Typed, NEW t \in Task, Work(t)
    PROVE  Typed' /\ Step
  <1> DEFINE c == Head(task[t].calls)
  <1>1. /\ TasksTyped' /\ desired' \in Wanted /\ AllCarry /\ Worked(t)
        /\ Begun(task[t]) /\ (task[t].phase = "running" => Past(task[t]))
        /\ Suits(c, task[t].job, task[t].stash, task[t].phase = "rollback")
    BY WorkMoves
  <1>2. task[t].calls # <<>> /\ UNCHANGED <<seen, exposed, polls>>
    BY DEF Work
  <1>3. PICK o \in Outcomes(c) : host' = o.result.host /\ faults' = IF o.fault THEN faults - 1 ELSE faults
    BY DEF Work
  <1>4. host' \in {host, Perform(host, c).host}
    BY <1>3 DEF Outcomes, Refused
  <1>5. faults' \in 0 .. MaxFaults
    <2>1. o.fault \in BOOLEAN /\ (o.fault => faults # 0)
      <3> DEFINE one   == [result |-> Perform(host, c), fault |-> FALSE]
                 two   == [result |-> Refused(host), fault |-> TRUE]
                 three == [result |-> Refused(Perform(host, c).host), fault |-> TRUE]
      <3>1. o = one \/ (faults # 0 /\ (o = two \/ o = three))
        BY DEF Outcomes
      <3>2. one.fault = FALSE /\ two.fault = TRUE /\ three.fault = TRUE
        OBVIOUS
      <3> HIDE DEF one, two, three
      <3>3. QED BY <3>1, <3>2
    <2>2. faults \in 0 .. MaxFaults /\ MaxFaults \in Nat
      BY BoundsAssumption DEF Typed
    <2>3. QED BY <1>3, <2>1, <2>2
  <1>6. host' \in Host
    <2>1. task[t].job \in Job /\ host \in Host
      BY DEF Typed, TasksTyped, TaskTyped
    <2>2. QED BY <1>1, <1>4, <2>1, PerformTyped
  <1> HIDE DEF c
  <1>7. Still \/ Works(t)
    BY <1>1, <1>2, <1>4 DEF Still, Works, c
  <1>8. QED BY <1>1, <1>2, <1>5, <1>6, <1>7 DEF Typed, Step

LEMMA ObserveStep ==
    ASSUME Typed, NEW kind, Observe(kind)
    PROVE  Typed' /\ Step
  <1>1. UNCHANGED <<host, desired, task, exposed, faults>> /\ polls' \in 0 .. MaxPolls
    BY BoundsAssumption DEF Observe, Typed
  <1>2. TasksTyped'
    BY <1>1 DEF Typed, TasksTyped, TaskTyped
  <1>3. AllCarry
    BY <1>1 DEF AllCarry, Carries, Begun
  <1>4. QED BY <1>1, <1>2, <1>3 DEF Typed, Step, Still

LEMMA InitTyped ==
    ASSUME Init
    PROVE  Typed /\ (\A t \in Task : ~Begun(task[t])) /\ exposed = {}
  <1>1. PICK c \in Cases : /\ host = c.host /\ desired = c.desired
                           /\ task = [t \in Task |-> NewTask(c.job[t])]
    BY DEF Init
  <1>2. c.host \in Host /\ c.desired \in Wanted /\ c.job \in [Task -> Job]
    BY CasesAssumption
  <1>3. \A t \in Task : TaskTyped(task[t]) /\ ~Begun(task[t])
    BY <1>1, <1>2, NewTyped
  <1>4. exposed = {} /\ faults \in 0 .. MaxFaults /\ polls \in 0 .. MaxPolls
    BY BoundsAssumption DEF Init
  <1>5. TasksTyped
    BY <1>1, <1>3 DEF TasksTyped
  <1>6. QED BY <1>1, <1>2, <1>3, <1>4, <1>5 DEF Typed

\* Every step keeps the types, and is one of the steps that the host and the live tasks can tell.
LEMMA Steps ==
    ASSUME Typed, [Next]_vars
    PROVE  Typed' /\ Step
  <1>1. ASSUME NEW t \in Task, TaskStep(t) PROVE Typed' /\ Step
    <2>1. CASE MakePlan(t)
      BY <2>1, MakePlanStep DEF Step
    <2>2. CASE Apply(t)
      BY <2>2, ApplyStep
    <2>3. CASE RequestCancel(t)
      BY <2>3, RequestCancelStep
    <2>4. CASE CancelRun(t)
      BY <2>4, CancelRunStep
    <2>5. CASE StartStage(t)
      BY <2>5, StartStageStep
    <2>6. CASE Work(t)
      BY <2>6, WorkStep
    <2>7. CASE StartRollback(t)
      BY <2>7, StartRollbackStep
    <2>8. CASE EndRollback(t)
      BY <2>8, EndRollbackStep
    <2>9. CASE EndRun(t)
      BY <2>9, EndRunStep
    <2>10. QED BY <1>1, <2>1, <2>2, <2>3, <2>4, <2>5, <2>6, <2>7, <2>8, <2>9 DEF TaskStep
  <1>2. ASSUME NEW kind, Observe(kind) PROVE Typed' /\ Step
    BY <1>2, ObserveStep
  <1>3. CASE UNCHANGED vars
    <2>1. UNCHANGED <<host, desired, task, exposed, faults, polls>>
      BY <1>3 DEF vars
    <2>2. TasksTyped'
      BY <2>1 DEF Typed, TasksTyped, TaskTyped
    <2>3. AllCarry
      BY <2>1 DEF AllCarry, Carries, Begun
    <2>4. QED BY <2>1, <2>2, <2>3 DEF Typed, Step, Still
  <1>4. QED BY <1>1, <1>2, <1>3 DEF Next

\* Tasks, their plans and stashes, the desired state and the host keep their types.
THEOREM TypeCorrect == Spec => []TypeOK
  <1>1. Init => Typed
    BY InitTyped
  <1>2. Typed /\ [Next]_vars => Typed'
    BY Steps
  <1>3. Typed => TypeOK
    BY DEF Typed, TypeOK, TasksTyped, TaskTyped
  <1>4. QED BY <1>1, <1>2, <1>3, PTL DEF Spec

-----------------------------------------------------------------------------
(***************************************************************************)
(* No array is destroyed under a mount.                                    *)
(***************************************************************************)
\* Leases change hands only in an apply; what a task reaches stays while it runs.
LEMMA CarriedReach ==
    ASSUME AllCarry, exposed' = exposed
    PROVE  /\ \A u \in Task : Leased(u)' \subseteq Leased(u)
           /\ \A u \in Task : Begun(task'[u]) => Reach(u)' = Reach(u) /\ Begun(task[u])
           /\ Disjoint => Disjoint'
  <1>1. \A u \in Task : Leased(u)' \subseteq Leased(u) /\ (Begun(task'[u]) => Leased(u)' = Leased(u) /\ Begun(task[u]))
    BY DEF AllCarry, Carries, Begun, Leased
  <1>2. QED BY <1>1 DEF Reach, Disjoint

\* A live task holds the lease of its array or path, and another one does not.
LEMMA OwnApart ==
    ASSUME Typed, Disjoint, NEW t \in Task, NEW u \in Task, t # u, Begun(task[t]), Begun(task[u])
    PROVE  /\ Own(task[t].job) \subseteq Leased(t)
           /\ Own(task[t].job) \cap Own(task[u].job) = {}
           /\ \A a \in Array : <<"XiraidArray", a>> \in Own(task[u].job) => a \notin Reach(t) \/ a \in exposed
  <1>1. Own(task[t].job) \subseteq Leased(t) /\ Own(task[u].job) \subseteq Leased(u)
    BY DEF Typed, TasksTyped, TaskTyped, Begun, Leased
  <1>2. QED BY <1>1 DEF Disjoint, Reach

LEMMA StillMounts ==
    ASSUME MountInv, Typed', Still
    PROVE  MountInv'
  <1>1. Typed /\ Disjoint /\ (\A t \in Task : Reaching(t) /\ Cleared(t)) /\ MountedOnArray
    BY DEF MountInv
  <1>2. host' = host /\ exposed' = exposed /\ AllCarry
    BY DEF Still
  <1>3. Disjoint' /\ \A u \in Task : Begun(task'[u]) => Reach(u)' = Reach(u) /\ Begun(task[u])
    BY <1>1, <1>2, CarriedReach
  <1>4. ASSUME NEW u \in Task, Begun(task'[u])
        PROVE  /\ task'[u].job = task[u].job /\ task'[u].stage = task[u].stage /\ task'[u].stash = task[u].stash
               /\ task'[u].phase = "running" => task[u].phase = "running"
    BY <1>2, <1>4 DEF AllCarry, Carries
  <1>5. \A u \in Task : Reaching(u)'
    BY <1>1, <1>2, <1>3, <1>4 DEF Reaching, Past
  <1>6. \A u \in Task : Cleared(u)'
    BY <1>1, <1>2, <1>3, <1>4 DEF Cleared, Clear, BackingOf, Mounted, Past
  <1>7. MountedOnArray'
    BY <1>1, <1>2 DEF MountedOnArray, Mounted, Shown
  <1>8. QED BY <1>3, <1>5, <1>6, <1>7 DEF MountInv

\* An array under no mount is clear, unless a task was let on to it.
LEMMA UnmountedClear ==
    ASSUME MountedOnArray, NEW a, ~Shown(host, a)
    PROVE  Clear(a)
  BY DEF MountedOnArray, Clear, BackingOf

LEMMA AppliedMounts ==
    ASSUME MountInv, Typed', NEW t \in Task, Applied(t)
    PROVE  MountInv'
  <1> DEFINE k == task'[t]
             j == k.job
             leases == k.plan.leases
  <1>1. Typed /\ Disjoint /\ (\A u \in Task : Reaching(u) /\ Cleared(u)) /\ MountedOnArray
    BY DEF MountInv
  <1>2. /\ host' = host /\ exposed' = exposed \cup Exposes(j, leases, host) /\ LeasesFree(t)
        /\ k.stage = 1 /\ k.stash = EmptyStash /\ k.phase = "running" /\ task[t].plan.leases = leases
        /\ \A u \in Task \ {t} : task'[u] = task[u]
    BY DEF Applied
  <1>3. j \in Job
    BY DEF Typed, TasksTyped, TaskTyped
  <1>4. Leased(t)' = leases /\ \A u \in Task \ {t} : Leased(u)' = Leased(u) /\ Reach(u) \subseteq Reach(u)'
    BY <1>2 DEF Leased, Live, Reach
  <1>5. Disjoint'
    BY <1>1, <1>2, <1>4 DEF Disjoint, LeasesFree
  <1>6. Reached(j, host) \subseteq Reach(t)'
    <2>1. Reached(j, host) \subseteq Array
      <3>1. host.units \in Units
        BY <1>1, HostParts DEF Typed
      <3>2. j.kind = "fs.create" => j.unit \in UnitText
        BY <1>3, JobShape
      <3>3. j.kind \in Remounting => j.path \in Path
        BY <1>3, JobShape DEF Remounting, FsKinds
      <3>4. QED BY <3>1, <3>2, <3>3 DEF Reached, Devices, UnitText, Units, HasUnit, Remounting
    <2> HIDE DEF j, leases
    <2>2. QED BY <1>2, <1>4, <2>1 DEF Exposes, Reach
  <1>7. ASSUME NEW u \in Task \ {t} PROVE Reaching(u)' /\ Cleared(u)'
    <2>1. Reaching(u) /\ Cleared(u) /\ task'[u] = task[u] /\ Reach(u) \subseteq Reach(u)' /\ exposed \subseteq exposed'
      BY <1>1, <1>2, <1>4
    <2>2. Reaching(u)'
      BY <1>2, <2>1 DEF Reaching
    <2>3. Cleared(u)'
      BY <1>2, <2>1 DEF Cleared, Clear, BackingOf, Mounted
    <2>4. QED BY <2>2, <2>3
  <1>8. ~Past(k)
    BY <1>2 DEF Past
  <1>9. Reaching(t)'
    <2>1. k.stash.before = None
      BY <1>2 DEF EmptyStash
    <2>2. j.kind = "fs.create" => Devices(j.unit) \subseteq Reach(t)'
      BY <1>6 DEF Reached
    <2>3. j.kind \in Remounting /\ host'.units[j.path] # None => host'.units[j.path].what \in Reach(t)'
      BY <1>2, <1>6 DEF Reached, Remounting, HasUnit
    <2>4. QED BY <1>8, <2>1, <2>2, <2>3 DEF Reaching
  <1>10. Cleared(t)'
    <2>1. CASE j.kind = "xiraid.array.import"
      <3>1. j.array \in Array
        BY <1>3, <2>1, JobShape DEF ArrayKinds
      <3>2. CASE Shown(host, j.array)
        BY <1>2, <2>1, <3>1, <3>2 DEF Exposes, Cleared, Clear
      <3>3. CASE ~Shown(host, j.array)
        <4>1. PICK a \in Array : a = j.array
          BY <3>1
        <4>2. Clear(a)
          BY <1>1, <3>3, <4>1, UnmountedClear
        <4>3. Clear(a)'
          BY <1>2, <4>2 DEF Clear, BackingOf, Mounted
        <4>4. QED BY <2>1, <4>1, <4>3 DEF Cleared
      <3>4. QED BY <3>2, <3>3
    <2>2. CASE j.kind # "xiraid.array.import"
      BY <1>8, <2>2 DEF Cleared
    <2>3. QED BY <2>1, <2>2
  <1>11. MountedOnArray'
    BY <1>1, <1>2 DEF MountedOnArray, Mounted, Shown
  <1>12. QED BY <1>5, <1>7, <1>9, <1>10, <1>11 DEF MountInv

LEMMA PassedMounts ==
    ASSUME MountInv, Typed', NEW t \in Task, Passed(t)
    PROVE  MountInv'
  <1> DEFINE k == task[t]
             q == task'[t]
             j == k.job
             n == k.stage
             r == RunStage(j, "preflight", host, k.stash)
  <1>1. Typed /\ Disjoint /\ (\A u \in Task : Reaching(u) /\ Cleared(u)) /\ MountedOnArray
    BY DEF MountInv
  <1>2. /\ host' = host /\ exposed' = exposed
        /\ k.phase = "running" /\ q.phase = "running" /\ Begun(k) /\ Begun(q)
        /\ q.job = j /\ q.plan = k.plan /\ q.stage = n + 1
        /\ PassedStage(j, n, k.stash, q.stash)
        /\ \A u \in Task \ {t} : task'[u] = task[u]
    BY DEF Passed, Begun, Live
  <1>3. j \in Job /\ host \in Host /\ k.stash \in Stash(j.kind) /\ n \in Nat /\ (n = 1 \/ n > 1) /\ ~(n = 1 /\ n > 1)
    <2>1. j \in Job /\ host \in Host /\ k.stash \in Stash(j.kind) /\ n \in 1 .. Len(Stages(j.kind)) + 1
      BY <1>1 DEF Typed, TasksTyped, TaskTyped
    <2>2. Len(Stages(j.kind)) \in Nat
      BY <2>1, StagesLen
    <2> HIDE DEF n
    <2>3. n \in Nat /\ (n = 1 \/ n > 1) /\ ~(n = 1 /\ n > 1)
      BY <2>1, <2>2
    <2>4. QED BY <2>1, <2>3
  <1>4. \A u \in Task : Leased(u)' = Leased(u) /\ Reach(u)' = Reach(u)
    BY <1>2 DEF Leased, Reach, Begun
  <1>5. n = 1 /\ j.kind \notin PoolKinds => r.pass /\ q.stash = r.stash
    BY <1>2 DEF PassedStage
  <1>6. n > 1 /\ j.kind = "fs.set_quota_mode" => q.stash = k.stash
    BY <1>2 DEF PassedStage
  <1> HIDE DEF r
  <1>7. n = 1 =>
           /\ j.kind = "xiraid.array.create" => ~Shown(host, j.array)
           /\ j.kind = "xiraid.array.delete" => BackingOf(host, j.array) = {}
           /\ j.kind = "fs.create" => ~HasUnit(host, j.path)
           /\ j.kind = "fs.set_quota_mode" => HasUnit(host, j.path) /\ q.stash.before.unit = host.units[j.path]
    BY <1>3, <1>5, PreflightPassed DEF PoolKinds, r
  <1>8. ASSUME NEW u \in Task \ {t} PROVE Reaching(u)' /\ Cleared(u)'
    <2>1. Reaching(u) /\ Cleared(u) /\ task'[u] = task[u] /\ Reach(u)' = Reach(u)
      BY <1>1, <1>2, <1>4
    <2>2. Reaching(u)'
      BY <1>2, <2>1 DEF Reaching
    <2>3. Cleared(u)'
      BY <1>2, <2>1 DEF Cleared, Clear, BackingOf, Mounted
    <2>4. QED BY <2>2, <2>3
  <1>9. Past(k) <=> n > 1
    BY DEF Past
  <1>10. Reaching(t)'
    <2>1. /\ j.kind = "fs.create" => Devices(j.unit) \subseteq Reach(t)
          /\ j.kind = "fs.create" /\ n > 1 => host.units[j.path] \in {None, j.unit}
          /\ j.kind \in Remounting /\ host.units[j.path] # None => host.units[j.path].what \in Reach(t)
          /\ j.kind = "fs.set_quota_mode" /\ n > 1 => k.stash.before.unit.what \in Reach(t)
      BY <1>1, <1>2, <1>9 DEF Reaching
    <2> HIDE DEF k, j, n
    <2>2. j.kind = "fs.create" => host.units[j.path] \in {None, j.unit}
      BY <1>3, <1>7, <2>1 DEF HasUnit
    <2>3. j.kind = "fs.set_quota_mode" => q.stash.before.unit.what \in Reach(t)
      BY <1>3, <1>6, <1>7, <2>1 DEF HasUnit, Remounting
    <2> HIDE DEF q
    <2>4. task'[t] = q
      BY DEF q
    <2>5. QED BY <1>2, <1>4, <2>1, <2>2, <2>3, <2>4 DEF Reaching
  <1>11. Cleared(t)'
    <2>1. /\ j.kind \in {"xiraid.array.create", "xiraid.array.delete"} /\ n > 1 => Clear(j.array)
          /\ j.kind = "xiraid.array.import" => Clear(j.array)
      BY <1>1, <1>2, <1>9 DEF Cleared
    <2> HIDE DEF k, j, n
    <2>2. j.kind \in {"xiraid.array.create", "xiraid.array.delete"} => Clear(j.array)
      BY <1>1, <1>3, <1>7, <2>1, UnmountedClear DEF Clear
    <2> HIDE DEF q
    <2>3. task'[t] = q
      BY DEF q
    <2>4. QED BY <1>2, <2>1, <2>2, <2>3 DEF Cleared, Clear, BackingOf, Mounted
  <1>12. MountedOnArray'
    BY <1>1, <1>2 DEF MountedOnArray, Mounted, Shown
  <1>13. Disjoint'
    BY <1>1, <1>4 DEF Disjoint
  <1>14. QED BY <1>8, <1>10, <1>11, <1>12, <1>13 DEF MountInv

\* What the next call of a task changes of the arrays and their data.
LEMMA WorkOnArrays ==
    ASSUME Typed, NEW t \in Task, Works(t), NEW a \in Array
    PROVE  OnArray(host, host', Head(task[t].calls), a)
  <1> DEFINE c == Head(task[t].calls)
             j == task[t].job
  <1>1. /\ host \in Host /\ j \in Job
        /\ Suits(c, j, task[t].stash, task[t].phase = "rollback")
        /\ host' = Perform(host, c).host
    BY DEF Typed, TasksTyped, TaskTyped, Works
  <1> HIDE DEF c, j
  <1>2. c.verb \in RaidVerbs \cup FsVerbs \cup NfsVerbs
    BY <1>1 DEF Suits
  <1>3. c.verb = "raidCreate" => c.arg \in ArrayState
    BY <1>1 DEF Suits, RaidSuits
  <1>4. c.verb = "raidModify" => c.arg \in PoolName \cup {None}
    BY <1>1 DEF Suits, RaidSuits
  <1>5. c.verb \in {"raidCreate", "raidDestroy", "raidModify", "raidImport"} => c.on \in Array
    <2>1. j.kind \in ArrayKinds => j.array \in Array
      BY <1>1, JobShape
    <2>2. QED BY <1>1, <2>1 DEF Suits, RaidSuits, ArrayKinds
  <1>6. OnArray(host, Perform(host, c).host, c, a)
    BY <1>1, <1>2, <1>3, <1>4, <1>5, ArrayEffects
  <1>7. QED BY <1>1, <1>6 DEF c

\* What it changes of the mounts and their units: a new mount is what the unit says, and on
\* an array in the task's reach; a unit written again names an array in its reach.
LEMMA WorkOnMounts ==
    ASSUME MountInv, NEW t \in Task, Works(t), NEW p \in Path
    PROVE  LET j == task[t].job
           IN /\ host'.mounts[p] # host.mounts[p] =>
                    \/ host'.mounts[p] = None
                    \/ /\ j.kind \in Mounting /\ host'.mounts[p].what \in Array /\ host'.mounts[p].what \in Reach(t)
                       /\ Shown(host, host'.mounts[p].what) /\ Shown(host', host'.mounts[p].what)
              /\ host'.units[p] # host.units[p] =>
                    /\ j.kind \in FsKinds /\ p = j.path
                    /\ j.kind = "fs.create" => host'.units[p] \in {None, j.unit}
                    /\ j.kind \in Remounting => host'.units[p] = None \/ host'.units[p].what \in Reach(t)
  <1> DEFINE c == Head(task[t].calls)
             j == task[t].job
             s == task[t].stash
             back == task[t].phase = "rollback"
  <1>1. /\ Typed /\ host \in Host /\ j \in Job /\ task[t].phase \in {"running", "rollback"} /\ Begun(task[t])
        /\ task[t].phase = "running" => Past(task[t])
        /\ Suits(c, j, s, back)
        /\ host' = Perform(host, c).host
    BY DEF MountInv, Typed, TasksTyped, TaskTyped, Works
  <1>2. /\ j.kind = "fs.create" => Devices(j.unit) \subseteq Reach(t)
        /\ j.kind = "fs.create" /\ ~back => host.units[j.path] \in {None, j.unit}
        /\ j.kind \in Remounting /\ host.units[j.path] # None => host.units[j.path].what \in Reach(t)
        /\ j.kind = "fs.set_quota_mode" /\ (~back \/ s.before # None) => s.before.unit.what \in Reach(t)
    <2>1. Reaching(t)
      BY DEF MountInv
    <2>2. QED BY <1>1, <2>1 DEF Reaching
  <1> HIDE DEF c, j, s, back
  <1> DEFINE g == Perform(host, c).host
  <1>3. /\ g.mounts[p] # host.mounts[p] =>
              \/ g.mounts[p] = None
              \/ /\ c.verb = "enableNow" /\ c.on = p /\ HasUnit(host, p) /\ Mountable(host, p)
                 /\ g.mounts[p] = host.units[p]
        /\ g.units[p] # host.units[p] =>
              /\ c.on = p
              /\ \/ c.verb = "writeUnit" /\ g.units[p] = c.arg
                 \/ c.verb = "removeUnit" /\ g.units[p] = None
    <2>1. c.verb \in RaidVerbs \cup FsVerbs \cup NfsVerbs
      BY <1>1 DEF Suits
    <2>2. QED BY <1>1, <2>1, MountEffects
  <1>4. g = host'
    BY <1>1
  <1> HIDE DEF g
  <1>5. FsSuits(c, j, s, back)
    BY <1>1 DEF Suits
  <1>6. ASSUME host'.mounts[p] # host.mounts[p], host'.mounts[p] # None
        PROVE  /\ j.kind \in Mounting /\ host'.mounts[p].what \in Array /\ host'.mounts[p].what \in Reach(t)
               /\ Shown(host, host'.mounts[p].what) /\ Shown(host', host'.mounts[p].what)
    <2>1. /\ c.verb = "enableNow" /\ c.on = p /\ host.units[p] # None /\ Mountable(host, p)
          /\ host'.mounts[p] = host.units[p]
      BY <1>3, <1>4, <1>6 DEF HasUnit
    <2>2. j.kind \in Mounting /\ p = j.path /\ (j.kind = "fs.create" => ~back)
      BY <1>5, <2>1 DEF FsSuits
    <2>3. host.units[p] \in UnitText
      BY <1>1, <2>1 DEF Host
    <2>4. host.units[p].what \in Array /\ host.units[p].what # None /\ host.units[p].what \in Devices(host.units[p])
      BY <2>3, NoneApart DEF UnitText, Devices
    <2>5. host.units[p].what \in Reach(t)
      <3>1. CASE j.kind = "fs.create"
        BY <1>2, <2>1, <2>2, <2>4, <3>1
      <3>2. CASE j.kind \in Remounting
        BY <1>2, <2>1, <2>2, <3>2
      <3>3. QED BY <2>2, <3>1, <3>2 DEF Mounting
    <2>6. Shown(host, host.units[p].what)
      BY <2>1, <2>4 DEF Mountable
    <2>7. PICK a \in Array : a = host.units[p].what
      BY <2>4
    <2>8. Shown(host', a)
      BY <1>1, <2>1, <2>6, <2>7, WorkOnArrays DEF c, OnArray
    <2>9. host'.mounts[p].what = a
      BY <2>1, <2>7
    <2>10. QED BY <2>2, <2>5, <2>6, <2>7, <2>8, <2>9
  <1>7. ASSUME host'.units[p] # host.units[p]
        PROVE  /\ j.kind \in FsKinds /\ p = j.path
               /\ j.kind = "fs.create" => host'.units[p] \in {None, j.unit}
               /\ j.kind \in Remounting => host'.units[p] = None \/ host'.units[p].what \in Reach(t)
    <2>1. \/ c.verb = "writeUnit" /\ c.on = p /\ host'.units[p] = c.arg
          \/ c.verb = "removeUnit" /\ c.on = p /\ host'.units[p] = None
      BY <1>3, <1>4, <1>7
    <2>2. CASE c.verb = "removeUnit" /\ c.on = p /\ host'.units[p] = None
      BY <1>5, <2>2 DEF FsSuits
    <2>3. CASE c.verb = "writeUnit" /\ c.on = p /\ host'.units[p] = c.arg
      <3>1. /\ j.kind \in FsKinds /\ c.on = j.path /\ (j.kind = "fs.create" => c.arg = j.unit)
            /\ j.kind = "fs.set_quota_mode" => c.arg.what = s.before.unit.what /\ (back => s.before # None)
            /\ j.kind \notin {"fs.mount", "fs.unmount"}
        BY <1>5, <2>3 DEF FsSuits
      <3>2. j.kind \in Remounting => c.arg.what \in Reach(t)
        BY <1>2, <3>1 DEF Remounting
      <3>3. QED BY <2>3, <3>1, <3>2
    <2>4. QED BY <2>1, <2>2, <2>3
  <1>8. QED BY <1>6, <1>7 DEF j

LEMMA WorksMounts ==
    ASSUME MountInv, Typed', NEW t \in Task, Works(t)
    PROVE  MountInv'
  <1> DEFINE c == Head(task[t].calls)
             j == task[t].job
  <1>1. Typed /\ Disjoint /\ (\A u \in Task : Reaching(u) /\ Cleared(u)) /\ MountedOnArray
    BY DEF MountInv
  <1>2. exposed' = exposed /\ AllCarry /\ Begun(task[t])
    BY DEF Works
  <1>3. Disjoint' /\ \A u \in Task : Begun(task'[u]) => Reach(u)' = Reach(u) /\ Begun(task[u])
    BY <1>1, <1>2, CarriedReach
  <1>4. ASSUME NEW u \in Task, Begun(task'[u])
        PROVE  /\ task'[u].job = task[u].job /\ task'[u].stage = task[u].stage /\ task'[u].stash = task[u].stash
               /\ task'[u].phase = "running" => task[u].phase = "running"
    BY <1>2, <1>4 DEF AllCarry, Carries
  <1>5. \A u \in Task : task[u].job \in Job
    BY <1>1 DEF Typed, TasksTyped, TaskTyped
  <1>6. ASSUME NEW u \in Task PROVE Reaching(u)'
    <2> DEFINE i == task[u].job
    <2> SUFFICES ASSUME Begun(task'[u]) PROVE Reaching(u)'
      BY DEF Reaching
    <2>1. i \in Job /\ Begun(task[u]) /\ Reaching(u) /\ Reach(u)' = Reach(u) /\ task'[u].job = i
      BY <1>1, <1>3, <1>4, <1>5
    <2>2. CASE i.kind \notin FsKinds
      BY <2>1, <2>2 DEF Reaching, FsKinds, Remounting
    <2>3. CASE i.kind \in FsKinds /\ host'.units[i.path] = host.units[i.path]
      BY <1>2, <1>4, <2>1, <2>3 DEF Reaching, Past
    <2>4. CASE i.kind \in FsKinds /\ host'.units[i.path] # host.units[i.path]
      <3>1. PICK p \in Path : p = i.path
        BY <2>1, <2>4, JobShape
      <3>2. /\ j.kind \in FsKinds /\ p = j.path
            /\ j.kind = "fs.create" => host'.units[p] \in {None, j.unit}
            /\ j.kind \in Remounting => host'.units[p] = None \/ host'.units[p].what \in Reach(t)
        BY <2>4, <3>1, WorkOnMounts
      <3>3. u = t
        <4>1. Own(i) = {<<"Filesystem", p>>} /\ Own(j) = {<<"Filesystem", p>>}
          BY <2>4, <3>1, <3>2 DEF Own, FsKinds, ArrayKinds
        <4>2. QED BY <1>1, <1>2, <2>1, <4>1, OwnApart
      <3>4. QED BY <1>2, <1>4, <2>1, <3>1, <3>2, <3>3 DEF Reaching, Past
    <2>5. QED BY <2>2, <2>3, <2>4
  <1>7. ASSUME NEW u \in Task, NEW a \in Array, task[u].job.kind \in ArrayKinds, a = task[u].job.array,
               Begun(task[u]), Clear(a)
        PROVE  Clear(a)'
    <2> SUFFICES ASSUME a \notin exposed, NEW p \in Path, host'.mounts[p] # None, host'.mounts[p].what = a
                 PROVE  FALSE
      BY <1>2 DEF Clear, BackingOf, Mounted
    <2>1. host'.mounts[p] # host.mounts[p]
      BY <1>7 DEF Clear, BackingOf, Mounted
    <2>2. j.kind \in Mounting /\ a \in Reach(t)
      BY <2>1, WorkOnMounts
    <2>3. t # u
      BY <1>7, <2>2 DEF Mounting, Remounting, ArrayKinds
    <2>4. <<"XiraidArray", a>> \in Own(task[u].job)
      BY <1>7 DEF Own
    <2>5. QED BY <1>1, <1>2, <1>7, <2>2, <2>3, <2>4, OwnApart
  <1>8. ASSUME NEW u \in Task PROVE Cleared(u)'
    <2> DEFINE i == task[u].job
    <2> SUFFICES ASSUME Begun(task'[u]), i.kind \in ArrayKinds PROVE Cleared(u)'
      BY <1>4 DEF Cleared, ArrayKinds
    <2>1. i \in Job /\ Begun(task[u]) /\ Cleared(u)
      BY <1>1, <1>3, <1>5
    <2>2. PICK a \in Array : a = i.array
      BY <2>1, JobShape
    <2>3. Clear(a) => Clear(a)'
      BY <1>7, <2>1, <2>2
    <2>4. QED BY <1>4, <2>1, <2>2, <2>3 DEF Cleared, Past
  <1>9. ASSUME NEW a \in Array, c.verb = "raidDestroy", c.on = a
        PROVE  Clear(a)
    <2>1. /\ Suits(c, j, task[t].stash, task[t].phase = "rollback") /\ (task[t].phase = "running" => Past(task[t]))
          /\ task[t].phase \in {"running", "rollback"}
      BY <1>1 DEF Works, Typed, TasksTyped, TaskTyped
    <2>2. /\ \/ j.kind \in {"xiraid.array.create", "xiraid.array.import"}
             \/ j.kind = "xiraid.array.delete" /\ Past(task[t])
          /\ a = j.array
          /\ j.kind = "xiraid.array.create" => task[t].stash.marker
      BY <1>9, <2>1 DEF Suits, RaidSuits
    <2>3. j.kind = "xiraid.array.create" => Past(task[t])
      BY <1>1, <2>2 DEF Typed, TasksTyped, TaskTyped
    <2>4. QED BY <1>1, <1>2, <2>2, <2>3 DEF Cleared
  <1>10. MountedOnArray'
    <2> SUFFICES ASSUME NEW p \in Path, host'.mounts[p] # None, host'.mounts[p].what \notin exposed
                 PROVE  Shown(host', host'.mounts[p].what)
      BY <1>2 DEF MountedOnArray, Mounted, Shown
    <2>1. CASE host'.mounts[p] # host.mounts[p]
      BY <2>1, WorkOnMounts
    <2>2. CASE host'.mounts[p] = host.mounts[p]
      <3>1. Shown(host, host.mounts[p].what)
        BY <1>1, <2>2 DEF MountedOnArray, Mounted
      <3>2. host.mounts[p].what \in Array
        BY <1>1, <2>2 DEF Typed, Host, UnitText
      <3>3. PICK a \in Array : a = host.mounts[p].what
        BY <3>2
      <3>4. ~Clear(a)
        BY <2>2, <3>3 DEF Clear, BackingOf, Mounted
      <3>5. Shown(host', a)
        BY <1>1, <1>9, <3>1, <3>3, <3>4, WorkOnArrays DEF OnArray
      <3>6. QED BY <2>2, <3>3, <3>5
    <2>3. QED BY <2>1, <2>2
  <1>11. QED BY <1>3, <1>6, <1>8, <1>10 DEF MountInv

\* The mount invariant, which every start satisfies and every step keeps.
LEMMA MountInit ==
    ASSUME Init
    PROVE  MountInv
  <1>1. Typed /\ (\A t \in Task : ~Begun(task[t])) /\ exposed = {}
    BY InitTyped
  <1>2. Disjoint
    BY <1>1 DEF Disjoint, Leased, Begun
  <1>3. \A t \in Task : Reaching(t) /\ Cleared(t)
    BY <1>1 DEF Reaching, Cleared
  <1>4. MountedOnArray
    <2>1. PICK c \in Cases : host = c.host
      BY DEF Init
    <2>2. \A p \in Path : Mounted(c.host, p) => Shown(c.host, c.host.mounts[p].what)
      BY <2>1, CasesAssumption
    <2>3. QED BY <2>1, <2>2 DEF MountedOnArray
  <1>5. QED BY <1>1, <1>2, <1>3, <1>4 DEF MountInv

LEMMA MountStep ==
    ASSUME MountInv, [Next]_vars
    PROVE  MountInv'
  <1>1. Typed
    BY DEF MountInv
  <1>2. Typed' /\ Step
    BY <1>1, Steps
  <1>3. CASE Still
    BY <1>2, <1>3, StillMounts
  <1>4. CASE \E t \in Task : Applied(t) \/ Passed(t) \/ Works(t)
    BY <1>2, <1>4, AppliedMounts, PassedMounts, WorksMounts
  <1>5. QED BY <1>2, <1>3, <1>4 DEF Step

\* No array is destroyed under a mounted filesystem that has its data on it, whatever the
\* tasks, their faults and their interleaving, unless a task was let on to the array without
\* its lease: MountedOnArray, for the leases of plan and apply, the preflights of the
\* executors and their rollbacks.
THEOREM MountsKept == Spec => []MountedOnArray
  <1>1. Init => MountInv
    BY MountInit
  <1>2. MountInv /\ [Next]_vars => MountInv'
    BY MountStep
  <1>3. MountInv => MountedOnArray
    BY DEF MountInv
  <1>4. QED BY <1>1, <1>2, <1>3, PTL DEF Spec

-----------------------------------------------------------------------------
(***************************************************************************)
(* No filesystem is destroyed but by a delete of its array, a forced       *)
(* creation on it, or an external log.                                     *)
(***************************************************************************)
\* The array of a creation and the data device of a new filesystem.
LEMMA UnusedArrays ==
    ASSUME Typed, NEW u \in Task
    PROVE  /\ task[u].job.kind = "xiraid.array.create" => task[u].job.array \in Array
           /\ task[u].job.kind = "fs.create" =>
                 /\ task[u].job.unit.what \in Array /\ task[u].job.unit.what \in Devices(task[u].job.unit)
                 /\ task[u].job.path \in Path
  <1>1. task[u].job \in Job
    BY DEF Typed, TasksTyped, TaskTyped
  <1>2. task[u].job.kind = "xiraid.array.create" => task[u].job.array \in Array
    BY <1>1, JobShape DEF ArrayKinds
  <1>3. task[u].job.kind = "fs.create" => task[u].job.unit \in UnitText /\ task[u].job.path \in Path
    BY <1>1, JobShape DEF FsKinds
  <1>4. QED BY <1>2, <1>3, NoneApart DEF UnitText, Devices

LEMMA StillUnused ==
    ASSUME DataInv, Typed', NEW u \in Task, host' = host, exposed \subseteq exposed',
           Carries(task[u], task'[u])
    PROVE  Unused(u)'
  <1>1. Unused(u)
    BY DEF DataInv
  <1>2. SUFFICES ASSUME Begun(task'[u]), Past(task'[u]) PROVE Unused(u)'
    BY DEF Unused
  <1>3. /\ Begun(task[u]) /\ task'[u].job = task[u].job /\ task'[u].stage = task[u].stage
        /\ task'[u].phase = "running" => task[u].phase = "running"
    BY <1>2 DEF Carries
  <1>4. QED BY <1>1, <1>2, <1>3 DEF Unused, Past, Shown

LEMMA AppliedUnused ==
    ASSUME DataInv, Typed', NEW t \in Task, Applied(t), NEW u \in Task
    PROVE  Unused(u)'
  <1>1. Unused(u) /\ host' = host /\ exposed \subseteq exposed'
    BY DEF DataInv, Applied
  <1>2. CASE u = t
    BY <1>2 DEF Applied, Unused, Past
  <1>3. CASE u # t
    <2>1. task'[u] = task[u]
      BY <1>3 DEF Applied
    <2>2. QED BY <1>1, <2>1 DEF Unused, Shown
  <1>4. QED BY <1>2, <1>3

LEMMA PassedUnused ==
    ASSUME DataInv, Typed', NEW t \in Task, Passed(t), NEW u \in Task
    PROVE  Unused(u)'
  <1> DEFINE j == task[t].job
             n == task[t].stage
  <1>1. Unused(u) /\ Typed /\ host' = host /\ exposed' = exposed
    BY DEF DataInv, MountInv, Passed
  <1>2. CASE u # t
    <2>1. task'[u] = task[u]
      BY <1>2 DEF Passed
    <2>2. QED BY <1>1, <2>1 DEF Unused, Shown
  <1>3. CASE u = t
    <2>1. /\ task[t].phase = "running" /\ Begun(task[t]) /\ task'[t].job = j
          /\ PassedStage(j, n, task[t].stash, task'[t].stash)
      BY DEF Passed, Begun, Live
    <2>2. j \in Job /\ host \in Host /\ task[t].stash \in Stash(j.kind) /\ n \in 1 .. Len(Stages(j.kind)) + 1
      BY <1>1 DEF Typed, TasksTyped, TaskTyped
    <2>3. n = 1 \/ n > 1
      <3>1. Len(Stages(j.kind)) \in Nat
        BY <2>2, StagesLen
      <3> HIDE DEF n
      <3>2. QED BY <2>2, <3>1
    <2>4. ASSUME n = 1
          PROVE  /\ j.kind = "xiraid.array.create" => ~Shown(host, j.array)
                 /\ j.kind = "fs.create" /\ ~j.force => host.data[j.unit.what] = None
      <3>1. j.kind \notin PoolKinds => RunStage(j, "preflight", host, task[t].stash).pass
        BY <2>1, <2>4 DEF PassedStage
      <3> HIDE DEF j
      <3>2. QED BY <2>2, <3>1, PreflightPassed DEF PoolKinds
    <2>5. CASE n = 1
      BY <1>1, <1>3, <2>1, <2>4, <2>5 DEF Unused, Shown
    <2>6. CASE n > 1
      BY <1>1, <1>3, <2>1, <2>6 DEF Unused, Shown, Past
    <2>7. QED BY <2>3, <2>5, <2>6
  <1>4. QED BY <1>2, <1>3

\* Another task's mkfs, import or creation is on arrays it holds itself.
LEMMA WorksUnused ==
    ASSUME DataInv, Typed', NEW t \in Task, Works(t), NEW u \in Task
    PROVE  Unused(u)'
  <1> DEFINE c == Head(task[t].calls)
             j == task[t].job
             i == task[u].job
  <1>1. Unused(u) /\ MountInv /\ Typed /\ Disjoint /\ (\A v \in Task : Reaching(v))
    BY DEF DataInv, MountInv
  <1>2. /\ exposed' = exposed /\ Begun(task[t]) /\ Carries(task[u], task'[u])
        /\ Suits(c, j, task[t].stash, task[t].phase = "rollback")
    BY DEF Works, AllCarry
  <1>3. SUFFICES ASSUME Begun(task'[u]), Past(task'[u]) PROVE Unused(u)'
    BY DEF Unused
  <1>4. /\ Begun(task[u]) /\ task'[u].job = i /\ Past(task[u])
        /\ task'[u].phase = "running" => task[u].phase = "running"
    BY <1>2, <1>3 DEF Carries, Past
  <1>5. \A a \in Array : OnArray(host, host', c, a)
    BY <1>1, WorkOnArrays
  <1>6. /\ c.verb = "raidImport" => j.kind = "xiraid.array.import" /\ Own(j) = {<<"XiraidArray", c.on>>}
        /\ c.verb = "mkfs" => j.kind = "fs.create" /\ c.arg = j.unit /\ c.on = j.path
    <2>1. RaidSuits(c, j, task[t].stash, task[t].phase = "rollback") /\ FsSuits(c, j, task[t].stash, task[t].phase = "rollback")
      BY <1>2 DEF Suits
    <2>2. QED BY <2>1 DEF RaidSuits, FsSuits, Own, ArrayKinds
  <1>7. c.verb = "mkfs" => Devices(c.arg) \subseteq Reach(t)
    BY <1>1, <1>2, <1>6 DEF Reaching
  <1> HIDE DEF c
  <1>8. CASE i.kind = "xiraid.array.create"
    <2>1. PICK a \in Array : a = i.array
      BY <1>1, <1>8, UnusedArrays
    <2>2. <<"XiraidArray", a>> \in Own(i)
      BY <1>8, <2>1 DEF Own, ArrayKinds
    <2>3. c.verb = "raidImport" => c.on # a
      <3>1. c.verb = "raidImport" => t # u
        BY <1>6, <1>8
      <3>2. QED BY <1>1, <1>2, <1>4, <1>6, <2>2, <3>1, OwnApart
    <2>4. c.verb = "mkfs" /\ a \in Devices(c.arg) => a \in exposed
      <3>1. c.verb = "mkfs" => t # u
        BY <1>6, <1>8
      <3>2. QED BY <1>1, <1>2, <1>4, <1>7, <2>2, <3>1, OwnApart
    <2>5. ~Shown(host, a) \/ host.data[a] = None \/ a \in exposed
      BY <1>1, <1>4, <1>8, <2>1 DEF Unused
    <2>6. ~Shown(host', a) \/ host'.data[a] = None \/ a \in exposed
      BY <1>5, <2>3, <2>4, <2>5 DEF OnArray
    <2>7. QED BY <1>2, <1>4, <1>8, <2>1, <2>6 DEF Unused
  <1>9. CASE i.kind = "fs.create" /\ ~i.force /\ task'[u].phase = "running"
    <2>1. PICK a \in Array : a = i.unit.what /\ a \in Devices(i.unit)
      BY <1>1, <1>9, UnusedArrays
    <2>2. a \in Reach(u)
      BY <1>1, <1>4, <1>9, <2>1 DEF Reaching
    <2>3. c.verb = "raidImport" => c.on # a \/ a \in exposed
      <3>1. c.verb = "raidImport" => t # u
        BY <1>6, <1>9
      <3>2. QED BY <1>1, <1>2, <1>4, <1>6, <2>2, <3>1, OwnApart
    <2>4. c.verb = "mkfs" /\ a \in Devices(c.arg) => a \in exposed \/ c.on = i.path
      <3>1. CASE t = u
        BY <1>6, <3>1
      <3>2. CASE t # u
        BY <1>1, <1>7, <2>2, <3>2 DEF Reach, Disjoint
      <3>3. QED BY <3>1, <3>2
    <2>5. host.data[a] \in {None, i.path} \/ a \in exposed
      BY <1>1, <1>4, <1>9, <2>1 DEF Unused
    <2>6. host'.data[a] \in {None, i.path} \/ a \in exposed
      BY <1>5, <2>3, <2>4, <2>5 DEF OnArray
    <2>7. QED BY <1>2, <1>4, <1>9, <2>1, <2>6 DEF Unused
  <1>10. QED BY <1>4, <1>8, <1>9 DEF Unused

LEMMA DataInit ==
    ASSUME Init
    PROVE  DataInv
  <1>1. MountInv /\ \A t \in Task : ~Begun(task[t])
    BY InitTyped, MountInit
  <1>2. QED BY <1>1 DEF DataInv, Unused

LEMMA DataStep ==
    ASSUME DataInv, [Next]_vars
    PROVE  DataInv'
  <1>1. MountInv /\ Typed
    BY DEF DataInv, MountInv
  <1>2. Typed' /\ Step /\ MountInv'
    BY <1>1, Steps, MountStep
  <1>3. ASSUME NEW u \in Task PROVE Unused(u)'
    <2>1. CASE Still
      BY <1>2, <2>1, StillUnused DEF Still, AllCarry
    <2>2. CASE \E t \in Task : Applied(t) \/ Passed(t) \/ Works(t)
      BY <1>2, <2>2, AppliedUnused, PassedUnused, WorksUnused
    <2>3. QED BY <1>2, <2>1, <2>2 DEF Step
  <1>4. QED BY <1>2, <1>3 DEF DataInv

\* What a step destroys belongs to a delete, a forced creation or a log device.
LEMMA DataLost ==
    ASSUME DataInv, [Next]_vars, NEW a \in Array,
           Shown(host, a), host.data[a] # None, host'.data[a] # host.data[a], a \notin exposed
    PROVE  \E t \in Task : Worked(t) /\ (Destroys(task[t].job, a) \/ MakesLogOn(task[t].job, a))
  <1>1. Typed /\ MountInv
    BY DEF DataInv, MountInv
  <1>2. PICK t \in Task : Works(t)
    <2>1. Step
      BY <1>1, Steps
    <2>2. host' # host
      OBVIOUS
    <2>3. QED BY <2>1, <2>2 DEF Step, Still, Applied, Passed
  <1> DEFINE c == Head(task[t].calls)
             j == task[t].job
             s == task[t].stash
             back == task[t].phase = "rollback"
  <1>3. OnArray(host, host', c, a)
    BY <1>1, <1>2, WorkOnArrays
  <1>4. /\ Worked(t) /\ Begun(task[t]) /\ RaidSuits(c, j, s, back) /\ FsSuits(c, j, s, back)
        /\ task[t].phase = "running" => Past(task[t])
    BY <1>2 DEF Works, Suits
  <1>5. /\ task[t].phase \in {"running", "rollback"}
        /\ s.marker /\ j.kind = "xiraid.array.create" => Past(task[t])
    BY <1>1, <1>2 DEF Typed, TasksTyped, TaskTyped, Works
  <1>6. /\ j.kind = "xiraid.array.create" /\ Past(task[t]) /\ j.array = a => FALSE
        /\ j.kind = "fs.create" /\ ~j.force /\ Past(task[t]) /\ task[t].phase = "running" /\ j.unit.what = a =>
              host.data[a] = j.path
    <2>1. Unused(t)
      BY DEF DataInv
    <2>2. QED BY <1>4, <2>1 DEF Unused
  <1>7. \/ c.verb = "raidDestroy" /\ c.on = a /\ c.arg # TRUE
        \/ c.verb = "mkfs" /\ a \in Devices(c.arg) /\ host'.data[a] = c.on
    BY <1>3 DEF OnArray
  <1>8. CASE c.verb = "raidDestroy" /\ c.on = a /\ c.arg # TRUE
    <2>1. j.kind = "xiraid.array.delete" /\ j.array = a
      BY <1>4, <1>5, <1>6, <1>8 DEF RaidSuits
    <2>2. QED BY <1>4, <2>1 DEF Destroys
  <1>9. CASE c.verb = "mkfs" /\ a \in Devices(c.arg) /\ host'.data[a] = c.on
    <2>1. /\ j.kind = "fs.create" /\ task[t].phase = "running" /\ Past(task[t])
          /\ c.on = j.path /\ a \in Devices(j.unit)
      BY <1>4, <1>5, <1>9 DEF FsSuits
    <2>2. j.unit.log = a \/ (j.unit.what = a /\ j.force)
      BY <1>6, <1>9, <2>1 DEF Devices
    <2>3. QED BY <1>4, <2>1, <2>2 DEF Destroys, MakesLogOn
  <1>10. QED BY <1>7, <1>8, <1>9

\* A filesystem is destroyed by a delete of its array or a forced creation on it and by no
\* other task, rollback or interleaving of tasks, external logs aside, unless a task was let
\* on to the array without its lease: DataKept, for the leases and drift of plan and apply,
\* the force and destroy guards of the executors and the marker of a creation's rollback.
THEOREM DataSafe == Spec => DataKept
  <1> DEFINE Kept == \A a \in Array :
                        Shown(host, a) /\ host.data[a] # None /\ host'.data[a] # host.data[a] /\ a \notin exposed
                            => \E t \in Task : Worked(t) /\ (Destroys(task[t].job, a) \/ MakesLogOn(task[t].job, a))
  <1>1. Init => DataInv
    BY DataInit
  <1>2. DataInv /\ [Next]_vars => DataInv'
    BY DataStep
  <1>3. DataInv /\ [Next]_vars => [Kept]_vars
    BY DataLost
  <1>4. QED BY <1>1, <1>2, <1>3, PTL DEF Spec, DataKept

-----------------------------------------------------------------------------
(***************************************************************************)
(* What is exported.  rows[i] is what is left of share i if every task     *)
(* that runs fails: what its task found desired, or what is desired.       *)
(***************************************************************************)
Sharing(k)  == k.job.kind \in ShareKinds
Changing(k) == Sharing(k) /\ Begun(k)

Wish(j)     == IF j.kind = "share.delete" THEN None ELSE [path |-> j.path, rule |-> j.rule]
WishRule(j) == IF j.kind = "share.delete" THEN None ELSE j.rule

\* The call of the apply stage, and the one that goes back to rule r.
Forward(j) ==
    CASE j.kind = "share.create" -> Call("addExport", j.path, j.rule)
      [] j.kind = "share.update" -> Call("updateExport", j.path, j.rule)
      [] j.kind = "share.delete" -> Call("removeExport", j.path, None)
Backward(j, r) ==
    CASE j.kind = "share.create" -> Call("removeExport", j.path, None)
      [] j.kind = "share.update" -> Call("updateExport", j.path, r)
      [] j.kind = "share.delete" -> Call("addExport", j.path, r)

RowsApart(rows) ==
    \A i, k \in ShareId : i # k /\ rows[i] # None /\ rows[k] # None => rows[i].path # rows[k].path

\* Path p is exported with x, as the rows say; no row is for path p.
Matches(rows, p, x) ==
    /\ \A i \in ShareId : rows[i] # None /\ rows[i].path = p => x = rows[i].rule
    /\ x # None => \E i \in ShareId : rows[i] # None /\ rows[i].path = p
Unclaimed(rows, p) == \A i \in ShareId : rows[i] # None => rows[i].path # p

\* How far a task has come, x being what its path is exported with: once it may have
\* made its change, from rule r, nothing is known of x until a call has succeeded.
Tried(k, x, r) ==
    /\ k.phase = "running" =>
          k.stage > 2 /\ (k.calls = <<Forward(k.job)>> \/ (k.calls = <<>> /\ x = WishRule(k.job)))
    /\ k.phase = "failing" => k.calls = <<>>
    /\ k.phase = "rollback" => k.calls = <<Backward(k.job, r)>> \/ (k.calls = <<>> /\ x = r)

Creating(k, x, rows) ==
    IF k.stash.marker THEN Unclaimed(rows, k.job.path) /\ Tried(k, x, None)
    ELSE /\ k.calls = <<>> /\ Matches(rows, k.job.path, x)
         /\ k.phase = "running" => k.stage = 1 \/ (k.stage = 2 /\ x = None)

Altering(k, x, r) ==
    IF k.stash.before = None THEN k.calls = <<>> /\ x = r /\ (k.phase = "running" => k.stage = 1)
    ELSE /\ k.stash.before = r
         /\ Tried(k, x, r) \/ (k.phase = "running" /\ k.stage = 2 /\ k.calls = <<>> /\ x = r)

Progress(k, x, rows) ==
    IF k.job.kind = "share.create" THEN rows[k.job.id] = None /\ Creating(k, x, rows)
    ELSE /\ rows[k.job.id] # None /\ rows[k.job.id].path = k.job.path
         /\ Altering(k, x, rows[k.job.id].rule)

\* d is what is desired, e what is exported.
Holds(k, d, e, rows) ==
    Changing(k) =>
       /\ <<"Share", k.job.id>> \in k.plan.leases
       /\ d.shares[k.job.id] = Wish(k.job) /\ rows[k.job.id] = k.was.shares[k.job.id]
       /\ Progress(k, e[k.job.path], rows)

\* A plan to change a share is for the row there was; that row may be gone since.
Pinned(k, d) ==
    Sharing(k) /\ k.phase = "planned" =>
       /\ <<"Share", k.job.id>> \in k.plan.leases
       /\ k.job.kind # "share.create" =>
             /\ k.was.rev[k.job.id] # 0
             /\ d.shares[k.job.id] # None => d.shares[k.job.id].path = k.job.path

Numbered(d) == \A i \in ShareId : d.rev[i] = 0 <=> d.shares[i] = None

ShareInv(ts, d, e, rows) ==
    /\ rows \in [ShareId -> ShareRow \cup {None}] /\ RowsApart(rows) /\ Numbered(d)
    /\ \A i \in ShareId : (\A t \in Task : Changing(ts[t]) => ts[t].job.id # i) => rows[i] = d.shares[i]
    /\ \A p \in Path : (\A t \in Task : Changing(ts[t]) => ts[t].job.path # p) => Matches(rows, p, e[p])
    /\ \A t \in Task : Holds(ts[t], d, e, rows) /\ Pinned(ts[t], d)

\* No operator is needed, and shares and paths go together.
Orderly(ts) ==
    /\ \A t \in Task : ts[t].phase # "manual"
    /\ \A t, u \in Task : Sharing(ts[t]) /\ Sharing(ts[u]) =>
          (ts[t].job.id = ts[u].job.id <=> ts[t].job.path = ts[u].job.path)

OneEach(ts) ==
    \A t, u \in Task : t # u /\ Changing(ts[t]) /\ Changing(ts[u]) =>
        ts[t].job.id # ts[u].job.id /\ ts[t].job.path # ts[u].job.path

SharesInv ==
    Typed /\ Disjoint /\ (Orderly(task) => \E rows : ShareInv(task, desired, host.exports, rows))

\* A row of the desired state replaced, with its revision.
Rewritten(j, d, d2, row) ==
    \A i \in ShareId :
        IF j.kind \in ShareKinds /\ j.id = i THEN d2.shares[i] = row /\ (d2.rev[i] = 0 <=> row = None)
        ELSE d2.shares[i] = d.shares[i] /\ d2.rev[i] = d.rev[i]

LEMMA WishRow ==
    ASSUME NEW j \in Job, j.kind \in ShareKinds
    PROVE  /\ Wish(j) \in ShareRow \cup {None}
           /\ Wish(j) # None => Wish(j).path = j.path
           /\ Wish(j) = None <=> j.kind = "share.delete"
           /\ Wish(j) # None => Wish(j).rule = j.rule /\ WishRule(j) = j.rule
           /\ Wish(j) = None => WishRule(j) = None
  <1>1. j.path \in Path /\ (j.kind # "share.delete" => j.rule \in Rule)
    BY JobShape DEF ShareKinds
  <1>2. j.kind # "share.delete" => [path |-> j.path, rule |-> j.rule] \in ShareRow
    BY <1>1 DEF ShareRow
  <1>3. QED BY <1>2, NoneIsNoShare DEF Wish, WishRule

\* The revision of a share that is written again.
LEMMA RevisedRow ==
    ASSUME NEW j, j.kind \in ShareKinds, j.id \in ShareId, NEW d \in Wanted
    PROVE  /\ Revised(j, d).shares = d.shares
           /\ \A i \in ShareId : Revised(j, d).rev[i] = IF i = j.id THEN d.rev[i] + 1 ELSE d.rev[i]
           /\ d.rev[j.id] + 1 # 0
           /\ Revised(j, d) \in Wanted
  <1>1. DOMAIN d.rev = ShareId \cup {"profile"} /\ d.rev[j.id] \in Nat
    BY WantedParts
  <1>2. DesiredRow(j) = j.id
    BY DEF DesiredRow, ShareKinds
  <1>3. QED BY <1>1, <1>2, RevisedWanted DEF Revised, Wanted

LEMMA SharesReplaced ==
    ASSUME NEW d \in Wanted, NEW i \in ShareId, NEW row
    PROVE  /\ \A k \in ShareId : [d EXCEPT !.shares[i] = row].shares[k] = IF k = i THEN row ELSE d.shares[k]
           /\ [d EXCEPT !.shares[i] = row].rev = d.rev
           /\ \A k \in ShareId : [d EXCEPT !.shares[i] = row, !.rev[i] = 0].shares[k] = IF k = i THEN row ELSE d.shares[k]
           /\ \A k \in ShareId : [d EXCEPT !.shares[i] = row, !.rev[i] = 0].rev[k] = IF k = i THEN 0 ELSE d.rev[k]
  BY DEF Wanted

LEMMA IntendedRow ==
    ASSUME NEW j \in Job, NEW d \in Wanted
    PROVE  Rewritten(j, d, Intended(j, d), Wish(j))
  <1>1. CASE j.kind \in {"share.create", "share.update"}
    <2> DEFINE r   == Revised(j, d)
               row == [path |-> j.path, rule |-> j.rule]
    <2>1. j.kind \in ShareKinds /\ j.id \in ShareId
      BY <1>1, JobShape DEF ShareKinds
    <2>2. /\ r.shares = d.shares /\ r \in Wanted /\ d.rev[j.id] + 1 # 0
          /\ \A i \in ShareId : r.rev[i] = IF i = j.id THEN d.rev[i] + 1 ELSE d.rev[i]
      BY <2>1, RevisedRow
    <2>3. Intended(j, d) = [r EXCEPT !.shares[j.id] = row]
      BY <1>1 DEF Intended
    <2>4. Wish(j) = row /\ row # None
      BY <1>1, <2>1, WishRow DEF Wish
    <2> HIDE DEF r, row
    <2>5. /\ \A k \in ShareId : [r EXCEPT !.shares[j.id] = row].shares[k] = IF k = j.id THEN row ELSE r.shares[k]
          /\ [r EXCEPT !.shares[j.id] = row].rev = r.rev
      BY <2>1, <2>2, SharesReplaced
    <2>6. QED BY <2>1, <2>2, <2>3, <2>4, <2>5 DEF Rewritten
  <1>2. CASE j.kind = "share.delete"
    <2>1. j.kind \in ShareKinds /\ j.id \in ShareId
      BY <1>2, JobShape DEF ShareKinds
    <2>2. Intended(j, d) = [d EXCEPT !.shares[j.id] = None, !.rev[j.id] = 0] /\ Wish(j) = None
      BY <1>2 DEF Intended, Wish
    <2>3. QED BY <2>1, <2>2, SharesReplaced DEF Rewritten
  <1>3. CASE j.kind \notin ShareKinds
    <2>1. Intended(j, d).shares = d.shares /\ \A i \in ShareId : Intended(j, d).rev[i] = d.rev[i]
      <3>1. CASE j.kind = "nfs-profile.update"
        <4>1. DOMAIN d.rev = ShareId \cup {"profile"} /\ DesiredRow(j) = "profile"
          BY <3>1, WantedParts DEF DesiredRow
        <4>2. Revised(j, d).shares = d.shares /\ \A i \in ShareId : Revised(j, d).rev[i] = d.rev[i]
          BY <4>1, ProfileApart DEF Revised, Wanted
        <4>3. Revised(j, d) \in Wanted
          BY RevisedWanted
        <4>4. Intended(j, d) = [Revised(j, d) EXCEPT !.profile = j.profile]
          BY <3>1 DEF Intended
        <4>5. QED BY <4>2, <4>3, <4>4 DEF Wanted
      <3>2. CASE j.kind # "nfs-profile.update"
        BY <1>3, <3>2 DEF Intended, ShareKinds
      <3>3. QED BY <3>1, <3>2
    <2>2. QED BY <1>3, <2>1 DEF Rewritten
  <1>4. QED BY <1>1, <1>2, <1>3 DEF ShareKinds

LEMMA RevertedRow ==
    ASSUME NEW j \in Job, NEW was \in Wanted, NEW d \in Wanted
    PROVE  Rewritten(j, d, Reverted(j, was, d), was.shares[j.id])
  <1>1. CASE j.kind \in ShareKinds
    <2> DEFINE r   == Revised(j, d)
               row == was.shares[j.id]
    <2>1. j.id \in ShareId
      BY <1>1, JobShape
    <2>2. /\ r.shares = d.shares /\ r \in Wanted /\ d.rev[j.id] + 1 # 0
          /\ \A i \in ShareId : r.rev[i] = IF i = j.id THEN d.rev[i] + 1 ELSE d.rev[i]
      BY <1>1, <2>1, RevisedRow
    <2>3. Reverted(j, was, d) = IF row = None THEN [d EXCEPT !.shares[j.id] = None, !.rev[j.id] = 0]
                                ELSE [r EXCEPT !.shares[j.id] = row]
      BY <1>1 DEF Reverted, ShareKinds
    <2> HIDE DEF r, row
    <2>4. CASE row = None
      BY <1>1, <2>1, <2>3, <2>4, SharesReplaced DEF Rewritten, row
    <2>5. CASE row # None
      <3>1. /\ \A k \in ShareId : [r EXCEPT !.shares[j.id] = row].shares[k] = IF k = j.id THEN row ELSE r.shares[k]
            /\ [r EXCEPT !.shares[j.id] = row].rev = r.rev
        BY <2>1, <2>2, SharesReplaced
      <3>2. QED BY <1>1, <2>1, <2>2, <2>3, <2>5, <3>1 DEF Rewritten, row
    <2>6. QED BY <2>4, <2>5
  <1>3. CASE j.kind \notin ShareKinds
    <2>1. Reverted(j, was, d).shares = d.shares /\ \A i \in ShareId : Reverted(j, was, d).rev[i] = d.rev[i]
      <3>1. CASE j.kind = "nfs-profile.update"
        <4>1. DOMAIN d.rev = ShareId \cup {"profile"} /\ DesiredRow(j) = "profile"
          BY <3>1, WantedParts DEF DesiredRow
        <4>2. Revised(j, d).shares = d.shares /\ \A i \in ShareId : Revised(j, d).rev[i] = d.rev[i]
          BY <4>1, ProfileApart DEF Revised, Wanted
        <4>3. Revised(j, d) \in Wanted
          BY RevisedWanted
        <4>4. Reverted(j, was, d) = [Revised(j, d) EXCEPT !.profile = was.profile]
          BY <3>1 DEF Reverted
        <4>5. QED BY <4>2, <4>3, <4>4 DEF Wanted
      <3>2. CASE j.kind # "nfs-profile.update"
        BY <1>3, <3>2 DEF Reverted, ShareKinds
      <3>3. QED BY <3>1, <3>2
    <2>2. QED BY <1>3, <2>1 DEF Rewritten
  <1>4. QED BY <1>1, <1>3

-----------------------------------------------------------------------------
(***************************************************************************)
(* What a step of one task leaves of the invariant for the others.         *)
(***************************************************************************)
LEMMA SharesAlone ==
    ASSUME NEW ts, NEW d, NEW e, NEW rows, ShareInv(ts, d, e, rows), Orderly(ts),
           \A t, u \in Task : t # u /\ Begun(ts[t]) /\ Begun(ts[u]) => ts[t].plan.leases \cap ts[u].plan.leases = {}
    PROVE  OneEach(ts)
  <1> SUFFICES ASSUME NEW t \in Task, NEW u \in Task, t # u, Changing(ts[t]), Changing(ts[u])
               PROVE  ts[t].job.id # ts[u].job.id /\ ts[t].job.path # ts[u].job.path
    BY DEF OneEach
  <1>1. <<"Share", ts[t].job.id>> \in ts[t].plan.leases /\ <<"Share", ts[u].job.id>> \in ts[u].plan.leases
    BY DEF ShareInv, Holds
  <1>2. ts[t].plan.leases \cap ts[u].plan.leases = {}
    BY DEF Changing
  <1>3. ts[t].job.id # ts[u].job.id
    BY <1>1, <1>2
  <1>4. QED BY <1>3 DEF Orderly, Changing

\* A task that is not about a share.
LEMMA OtherMoved ==
    ASSUME NEW ts, NEW ts2, NEW d, NEW d2, NEW e, NEW rows, NEW t \in Task,
           \A u \in Task \ {t} : ts2[u] = ts[u], ~Sharing(ts[t]), ~Sharing(ts2[t]),
           \A i \in ShareId : d2.shares[i] = d.shares[i] /\ d2.rev[i] = d.rev[i],
           \A u \in Task : Sharing(ts[u]) => ts[u].job.id \in ShareId,
           ShareInv(ts, d, e, rows)
    PROVE  ShareInv(ts2, d2, e, rows)
  <1>1. \A u \in Task : (Sharing(ts2[u]) <=> Sharing(ts[u])) /\ (Sharing(ts[u]) => ts2[u] = ts[u])
    OBVIOUS
  <1>2. \A u \in Task : (Changing(ts2[u]) <=> Changing(ts[u])) /\ (Changing(ts[u]) => ts2[u] = ts[u])
    BY <1>1 DEF Changing
  <1>3. ASSUME NEW u \in Task PROVE Holds(ts2[u], d2, e, rows) /\ Pinned(ts2[u], d2)
    <2>1. Holds(ts[u], d, e, rows) /\ Pinned(ts[u], d)
      BY DEF ShareInv
    <2>2. CASE Sharing(ts[u])
      <3>1. ts2[u] = ts[u] /\ d2.shares[ts[u].job.id] = d.shares[ts[u].job.id]
        BY <1>1, <2>2
      <3>2. QED BY <2>1, <3>1 DEF Holds, Pinned
    <2>3. CASE ~Sharing(ts[u])
      BY <1>1, <2>3 DEF Holds, Pinned, Changing
    <2>4. QED BY <2>2, <2>3
  <1>4. QED BY <1>2, <1>3 DEF ShareInv, Numbered

\* A task about a share that does not begin or end.
LEMMA ShareMoved ==
    ASSUME NEW ts, NEW ts2, NEW d, NEW e, NEW e2, NEW rows, NEW t \in Task,
           \A u \in Task \ {t} : ts2[u] = ts[u], Sharing(ts[t]), ts2[t].job = ts[t].job,
           Changing(ts2[t]) <=> Changing(ts[t]),
           \A p \in Path : e2[p] = e[p] \/ (Changing(ts[t]) /\ p = ts[t].job.path),
           \A u \in Task : Sharing(ts[u]) => ts[u].job.path \in Path,
           ShareInv(ts, d, e, rows), OneEach(ts),
           Holds(ts2[t], d, e2, rows), Pinned(ts2[t], d)
    PROVE  ShareInv(ts2, d, e2, rows)
  <1>1. \A u \in Task : (Changing(ts2[u]) <=> Changing(ts[u])) /\ ts2[u].job.id = ts[u].job.id /\ ts2[u].job.path = ts[u].job.path
    OBVIOUS
  <1>2. ASSUME NEW u \in Task PROVE Holds(ts2[u], d, e2, rows) /\ Pinned(ts2[u], d)
    <2>1. CASE u = t
      BY <2>1
    <2>2. CASE u # t
      <3>1. ts2[u] = ts[u] /\ Holds(ts[u], d, e, rows) /\ Pinned(ts[u], d)
        BY <2>2 DEF ShareInv
      <3>2. Changing(ts[u]) => e2[ts[u].job.path] = e[ts[u].job.path]
        BY <2>2 DEF OneEach, Changing
      <3>3. QED BY <3>1, <3>2 DEF Holds
    <2>3. QED BY <2>1, <2>2
  <1>3. ASSUME NEW p \in Path, \A u \in Task : Changing(ts2[u]) => ts2[u].job.path # p
        PROVE  Matches(rows, p, e2[p])
    BY <1>1, <1>3 DEF ShareInv
  <1>4. QED BY <1>1, <1>2, <1>3 DEF ShareInv

\* A task that begins to change a share.
LEMMA ShareBegun ==
    ASSUME NEW ts, NEW ts2, NEW d, NEW d2, NEW e, NEW rows, NEW t \in Task,
           \A u \in Task \ {t} : ts2[u] = ts[u], Sharing(ts[t]), ts2[t].job = ts[t].job, ts[t].job \in Job,
           ~Changing(ts[t]), Changing(ts2[t]), ts2[t].phase = "running",
           \A u \in Task : Sharing(ts[u]) => ts[u].job.id \in ShareId,
           Rewritten(ts[t].job, d, d2, Wish(ts[t].job)),
           ShareInv(ts, d, e, rows), Orderly(ts), OneEach(ts2), Holds(ts2[t], d2, e, rows)
    PROVE  ShareInv(ts2, d2, e, rows)
  <1> DEFINE j == ts[t].job
  <1>1. /\ j.kind \in ShareKinds /\ j.id \in ShareId
        /\ Wish(j) # None => Wish(j).path = j.path
    BY WishRow DEF Sharing
  <1>2. \A i \in ShareId : IF i = j.id THEN d2.shares[i] = Wish(j) /\ (d2.rev[i] = 0 <=> Wish(j) = None)
                           ELSE d2.shares[i] = d.shares[i] /\ d2.rev[i] = d.rev[i]
    BY <1>1 DEF Rewritten
  <1>3. \A u \in Task : Changing(ts[u]) => Changing(ts2[u]) /\ ts2[u].job = ts[u].job
    OBVIOUS
  <1>4. ASSUME NEW u \in Task PROVE Holds(ts2[u], d2, e, rows) /\ Pinned(ts2[u], d2)
    <2>1. CASE u = t
      BY <2>1 DEF Pinned
    <2>2. CASE u # t
      <3>1. ts2[u] = ts[u] /\ Holds(ts[u], d, e, rows) /\ Pinned(ts[u], d)
        BY <2>2 DEF ShareInv
      <3>2. Changing(ts[u]) => ts[u].job.id # j.id
        BY <2>2, <3>1 DEF OneEach
      <3>3. Sharing(ts[u]) /\ ts[u].job.id = j.id => ts[u].job.path = j.path
        BY DEF Orderly
      <3>4. Holds(ts[u], d2, e, rows)
        BY <1>2, <3>1, <3>2 DEF Holds, Changing
      <3>5. Pinned(ts[u], d2)
        BY <1>1, <1>2, <3>1, <3>3 DEF Pinned
      <3>6. QED BY <3>1, <3>4, <3>5
    <2>3. QED BY <2>1, <2>2
  <1>5. ASSUME NEW i \in ShareId, \A u \in Task : Changing(ts2[u]) => ts2[u].job.id # i
        PROVE  rows[i] = d2.shares[i]
    <2>1. i # j.id /\ rows[i] = d.shares[i]
      BY <1>3, <1>5 DEF ShareInv
    <2>2. QED BY <1>2, <2>1
  <1>6. ASSUME NEW p \in Path, \A u \in Task : Changing(ts2[u]) => ts2[u].job.path # p
        PROVE  Matches(rows, p, e[p])
    BY <1>3, <1>6 DEF ShareInv
  <1>7. Numbered(d2)
    BY <1>2 DEF ShareInv, Numbered
  <1>8. QED BY <1>4, <1>5, <1>6, <1>7 DEF ShareInv

\* A task that ends; rows2 is what the rows are then.
LEMMA ShareEnded ==
    ASSUME NEW ts, NEW ts2, NEW d, NEW d2, NEW e, NEW rows, NEW rows2, NEW t \in Task,
           \A u \in Task \ {t} : ts2[u] = ts[u], Sharing(ts[t]), ts2[t].job = ts[t].job,
           Changing(ts[t]), ts2[t].phase \in Ended,
           \A u \in Task : Sharing(ts[u]) => ts[u].job.id \in ShareId /\ ts[u].job.path \in Path,
           \A i \in ShareId : i # ts[t].job.id =>
               rows2[i] = rows[i] /\ d2.shares[i] = d.shares[i] /\ d2.rev[i] = d.rev[i],
           rows2 \in [ShareId -> ShareRow \cup {None}], RowsApart(rows2),
           rows2[ts[t].job.id] = d2.shares[ts[t].job.id],
           rows2[ts[t].job.id] # None => rows2[ts[t].job.id].path = ts[t].job.path,
           d2.rev[ts[t].job.id] = 0 <=> d2.shares[ts[t].job.id] = None,
           Matches(rows2, ts[t].job.path, e[ts[t].job.path]),
           ShareInv(ts, d, e, rows), Orderly(ts), OneEach(ts)
    PROVE  ShareInv(ts2, d2, e, rows2)
  <1> DEFINE j == ts[t].job
  <1>1. /\ j.id \in ShareId /\ j.path \in Path
        /\ rows[j.id] # None => rows[j.id].path = j.path
    BY DEF ShareInv, Holds, Progress
  <1>2. ~Changing(ts2[t]) /\ ts2[t].phase # "planned"
    BY DEF Changing, Begun, Live, Ended
  <1>3. ASSUME NEW p \in Path \ {j.path}, NEW x
        PROVE  /\ Matches(rows, p, x) => Matches(rows2, p, x)
               /\ Unclaimed(rows, p) => Unclaimed(rows2, p)
    <2>1. \A i \in ShareId : rows2[i] # None /\ rows2[i].path = p <=> rows[i] # None /\ rows[i].path = p
      BY <1>1
    <2>2. \A i \in ShareId : rows[i] # None /\ rows[i].path = p => rows2[i] = rows[i]
      BY <1>1
    <2>3. QED BY <2>1, <2>2 DEF Matches, Unclaimed
  <1>4. ASSUME NEW u \in Task PROVE Holds(ts2[u], d2, e, rows2) /\ Pinned(ts2[u], d2)
    <2>1. CASE u = t
      BY <1>2, <2>1 DEF Holds, Pinned
    <2>2. CASE u # t
      <3>1. ts2[u] = ts[u] /\ Holds(ts[u], d, e, rows) /\ Pinned(ts[u], d)
        BY <2>2 DEF ShareInv
      <3>2. Changing(ts[u]) => ts[u].job.id # j.id /\ ts[u].job.path \in Path \ {j.path} /\ ts[u].job.id \in ShareId
        BY <2>2 DEF OneEach, Changing
      <3>3. Sharing(ts[u]) /\ ts[u].job.id = j.id => ts[u].job.path = j.path
        BY DEF Orderly
      <3>4. Holds(ts[u], d2, e, rows2)
        BY <1>3, <3>1, <3>2 DEF Holds, Progress, Creating
      <3>5. Pinned(ts[u], d2)
        BY <3>1, <3>3 DEF Pinned
      <3>6. QED BY <3>1, <3>4, <3>5
    <2>3. QED BY <2>1, <2>2
  <1>5. ASSUME NEW i \in ShareId, \A u \in Task : Changing(ts2[u]) => ts2[u].job.id # i
        PROVE  rows2[i] = d2.shares[i]
    <2>1. CASE i = j.id
      BY <2>1
    <2>2. CASE i # j.id
      <3>1. \A u \in Task : Changing(ts[u]) => ts[u].job.id # i
        BY <1>5, <2>2
      <3>2. QED BY <2>2, <3>1 DEF ShareInv
    <2>3. QED BY <2>1, <2>2
  <1>6. ASSUME NEW p \in Path, \A u \in Task : Changing(ts2[u]) => ts2[u].job.path # p
        PROVE  Matches(rows2, p, e[p])
    <2>1. CASE p = j.path
      BY <2>1
    <2>2. CASE p # j.path
      <3>1. \A u \in Task : Changing(ts[u]) => ts[u].job.path # p
        BY <1>6, <2>2
      <3>2. QED BY <1>3, <2>2, <3>1 DEF ShareInv
    <2>3. QED BY <2>1, <2>2
  <1>7. Numbered(d2)
    BY DEF ShareInv, Numbered
  <1>8. QED BY <1>4, <1>5, <1>6, <1>7 DEF ShareInv

-----------------------------------------------------------------------------
(***************************************************************************)
(* What a step of a task about a share does to it.                         *)
(***************************************************************************)
\* A call changes what is exported only at the path of the share it is for.
LEMMA CallExports ==
    ASSUME NEW h \in Host, NEW j, NEW s, NEW back, NEW c, Suits(c, j, s, back)
    PROVE  /\ j.kind \notin ShareKinds => Perform(h, c).host.exports = h.exports
           /\ \A p \in Path : Perform(h, c).host.exports[p] = h.exports[p] \/ (j.kind \in ShareKinds /\ p = j.path)
  <1>1. /\ c.verb \in RaidVerbs \cup FsVerbs \cup NfsVerbs
        /\ c.verb \in {"addExport", "updateExport", "removeExport"} => j.kind \in ShareKinds /\ c.on = j.path /\ c.on \in Path
    BY DEF Suits, NfsSuits
  <1>2. CASE c.verb \notin {"addExport", "updateExport", "removeExport"}
    <2>1. Perform(h, c).host.exports = h.exports
      BY <1>1, <1>2, LeftAlone DEF Same
    <2>2. QED BY <2>1
  <1>3. CASE c.verb \in {"addExport", "updateExport", "removeExport"}
    <2>1. h.exports \in Exports
      BY HostParts
    <2>2. Perform(h, c) \in {AddExport(h, c.on, c.arg), UpdateExport(h, c.on, c.arg), RemoveExport(h, c.on)}
      BY <1>3, PerformIs
    <2>3. \A p \in Path : Perform(h, c).host.exports[p] = h.exports[p] \/ p = c.on
      BY <2>1, <2>2, HostParts DEF Exports, AddExport, UpdateExport, RemoveExport, Done, Refused
    <2>4. QED BY <1>1, <1>3, <2>3
  <1>4. QED BY <1>2, <1>3

\* A call of a task about a share that succeeds leaves the rule it is there for.
LEMMA CallDone ==
    ASSUME NEW h \in Host, NEW j \in Job, j.kind \in ShareKinds, NEW r, NEW c,
           Perform(h, c).ok
    PROVE  /\ c = Forward(j) => Perform(h, c).host.exports[j.path] = WishRule(j)
           /\ c = Backward(j, r) /\ (j.kind = "share.create" => r = None) => Perform(h, c).host.exports[j.path] = r
  <1>1. j.path \in Path /\ h.exports \in Exports
    BY JobShape, HostParts
  <1>2. \A rule : \A p \in Path :
           /\ AddExport(h, p, rule).host.exports[p] = rule
           /\ UpdateExport(h, p, rule).ok => UpdateExport(h, p, rule).host.exports[p] = rule
           /\ RemoveExport(h, p).ok => RemoveExport(h, p).host.exports[p] = None
    BY <1>1, HostParts DEF Exports, AddExport, UpdateExport, RemoveExport, Done, Refused
  <1>3. \A on, arg : /\ Perform(h, Call("addExport", on, arg)) = AddExport(h, on, arg)
                     /\ Perform(h, Call("updateExport", on, arg)) = UpdateExport(h, on, arg)
                     /\ Perform(h, Call("removeExport", on, arg)) = RemoveExport(h, on)
    BY PerformIs DEF Call
  <1>4. CASE j.kind = "share.create"
    BY <1>1, <1>2, <1>3, <1>4 DEF Forward, Backward, WishRule
  <1>5. CASE j.kind = "share.update"
    BY <1>1, <1>2, <1>3, <1>5 DEF Forward, Backward, WishRule
  <1>6. CASE j.kind = "share.delete"
    BY <1>1, <1>2, <1>3, <1>6 DEF Forward, Backward, WishRule
  <1>7. QED BY <1>4, <1>5, <1>6 DEF ShareKinds

\* A share's call throws when it fails.
LEMMA Throws ==
    ASSUME NEW j, j.kind \in ShareKinds, NEW r
    PROVE  Forward(j).onError = "throw" /\ Backward(j, r).onError = "throw"
  BY DEF Forward, Backward, Call, ShareKinds

\* A run that fails between its calls, or at one.
LEMMA ProgressFails ==
    ASSUME NEW k, NEW q, NEW x, NEW x2, NEW rows, k.phase = "running", q.phase = "failing", q.calls = <<>>,
           q.job = k.job, q.stash = k.stash, Progress(k, x, rows), x2 = x \/ k.calls # <<>>
    PROVE  Progress(q, x2, rows)
  <1>1. Tried(q, x2, None) /\ \A r : Tried(q, x2, r)
    BY DEF Tried
  <1>2. CASE k.job.kind = "share.create"
    BY <1>1, <1>2 DEF Progress, Creating
  <1>3. CASE k.job.kind # "share.create"
    BY <1>1, <1>3 DEF Progress, Altering
  <1>4. QED BY <1>2, <1>3

\* A call that succeeds.
LEMMA ProgressWorks ==
    ASSUME NEW k, NEW q, NEW x, NEW h \in Host, NEW rows, k.phase \in {"running", "rollback"}, q.phase = k.phase,
           k.job \in Job, k.job.kind \in ShareKinds, k.calls # <<>>, q.calls = Tail(k.calls),
           q.job = k.job, q.stash = k.stash, q.stage = k.stage, Progress(k, x, rows),
           Perform(h, Head(k.calls)).ok
    PROVE  Progress(q, Perform(h, Head(k.calls)).host.exports[k.job.path], rows)
  <1> DEFINE c == Head(k.calls)
             y == Perform(h, c).host.exports[k.job.path]
  <1>1. \A d : Head(<<d>>) = d /\ Tail(<<d>>) = <<>>
    OBVIOUS
  <1>2. ASSUME NEW r, Tried(k, x, r), k.job.kind = "share.create" => r = None
        PROVE  Tried(q, y, r)
    <2>1. CASE k.phase = "running"
      <3>1. k.calls = <<Forward(k.job)>> /\ k.stage > 2
        BY <1>2, <2>1 DEF Tried
      <3>2. c = Forward(k.job) /\ q.calls = <<>>
        BY <1>1, <3>1
      <3>3. y = WishRule(k.job)
        BY <3>2, CallDone
      <3>4. QED BY <2>1, <3>1, <3>2, <3>3 DEF Tried
    <2>2. CASE k.phase = "rollback"
      <3>1. k.calls = <<Backward(k.job, r)>>
        BY <1>2, <2>2 DEF Tried
      <3>2. c = Backward(k.job, r) /\ q.calls = <<>>
        BY <1>1, <3>1
      <3>3. y = r
        BY <1>2, <3>2, CallDone
      <3>4. QED BY <2>2, <3>2, <3>3 DEF Tried
    <2>3. QED BY <2>1, <2>2
  <1> HIDE DEF c, y
  <1>3. CASE k.job.kind = "share.create"
    BY <1>2, <1>3 DEF Progress, Creating, c, y
  <1>4. CASE k.job.kind # "share.create"
    BY <1>2, <1>4 DEF Progress, Altering, c, y
  <1>5. QED BY <1>3, <1>4

\* A stage that passes.
LEMMA ProgressPasses ==
    ASSUME NEW k, NEW q, NEW h \in Host, NEW rows, k.phase = "running", q.phase = "running",
           k.job \in Job, k.job.kind \in ShareKinds, k.calls = <<>>, k.stage \in 1 .. Len(Stages(k.job.kind)),
           q.job = k.job, q.stage = k.stage + 1,
           NEW r, r = RunStage(k.job, Stages(k.job.kind)[k.stage], h, k.stash), r.pass,
           q.calls = r.calls, q.stash = r.stash, k.stash \in Stash(k.job.kind),
           rows[k.job.id] # None => rows[k.job.id].rule \in Rule,
           rows \in [ShareId -> ShareRow \cup {None}],
           Progress(k, h.exports[k.job.path], rows)
    PROVE  Progress(q, h.exports[k.job.path], rows)
  <1> DEFINE j == k.job
             x == h.exports[j.path]
             stage == Stages(j.kind)[k.stage]
  <1>0. j.kind \in {"share.create", "share.update"} \/ j.kind = "share.delete"
    BY DEF ShareKinds
  <1>1. /\ k.stage \in Nat
        /\ k.stage = 1 \/ k.stage = 2 \/ (k.stage = 3 /\ j.kind # "share.delete")
    <2>1. CASE j.kind \in {"share.create", "share.update"}
      <3> DEFINE len == Len(Stages(j.kind))
      <3>1. Stages(j.kind) = <<"preflight", "apply", "verify">>
        BY <2>1, Zenon DEF Stages
      <3>2. len = 3 /\ k.stage \in 1 .. len
        BY <3>1
      <3>3. j.kind # "share.delete"
        BY <2>1
      <3> HIDE DEF len, j
      <3>4. QED BY <3>2, <3>3
    <2>2. CASE j.kind = "share.delete"
      <3> DEFINE len == Len(Stages(j.kind))
      <3>1. Stages(j.kind) = <<"preflight", "apply">>
        BY <2>2 DEF Stages
      <3>2. len = 2 /\ k.stage \in 1 .. len
        BY <3>1
      <3> HIDE DEF len, j
      <3>3. QED BY <3>2
    <2>3. QED BY <1>0, <2>1, <2>2
  <1>2. /\ k.stage = 1 => stage = "preflight"
        /\ k.stage = 2 => stage = "apply"
        /\ k.stage = 3 => stage = "verify"
    <2>1. CASE j.kind \in {"share.create", "share.update"}
      <3>1. Stages(j.kind) = <<"preflight", "apply", "verify">>
        BY <2>1, Zenon DEF Stages
      <3> HIDE DEF j
      <3>2. QED BY <3>1
    <2>2. CASE j.kind = "share.delete"
      <3>1. Stages(j.kind) = <<"preflight", "apply">>
        BY <2>2 DEF Stages
      <3>2. QED BY <1>1, <2>2, <3>1
    <2>3. QED BY <1>0, <2>1, <2>2
  <1>3. CASE j.kind = "share.create"
    <2>1. r = ShareCreate(j, stage, h, k.stash)
      BY <1>3 DEF RunStage
    <2>2. CASE k.stage = 1
      <3>1. ~k.stash.marker /\ Matches(rows, j.path, x) /\ rows[j.id] = None
        BY <1>3, <2>2 DEF Progress, Creating, Tried
      <3>2. x = None /\ r.stash = k.stash /\ r.calls = <<>>
        <4> DEFINE free == Mounted(h, j.path) /\ ~Exported(h, j.path)
        <4>1. r = Check(free, k.stash)
          BY <1>2, <2>1, <2>2 DEF ShareCreate
        <4> HIDE DEF free
        <4>2. free /\ r.stash = k.stash /\ r.calls = <<>>
          BY <4>1 DEF Check
        <4>3. QED BY <4>2 DEF Exported, free
      <3>3. QED BY <1>3, <2>2, <3>1, <3>2 DEF Progress, Creating
    <2>3. CASE k.stage = 2
      <3>1. ~k.stash.marker /\ Matches(rows, j.path, x) /\ x = None /\ rows[j.id] = None
        BY <1>3, <2>3 DEF Progress, Creating, Tried
      <3>2. r.stash = Marked(k.stash) /\ r.calls = <<Forward(j)>>
        BY <1>2, <1>3, <2>1, <2>3 DEF ShareCreate, Issue, Forward
      <3>3. Marked(k.stash).marker
        BY DEF Marked, Stash
      <3>4. Unclaimed(rows, j.path)
        <4>1. ASSUME NEW i \in ShareId, rows[i] # None, rows[i].path = j.path PROVE FALSE
          <5>1. x = rows[i].rule /\ rows[i].rule \in Rule
            BY <3>1, <4>1 DEF Matches, ShareRow
          <5>2. QED BY <3>1, <5>1, NoneIsNoShare
        <4>2. QED BY <4>1 DEF Unclaimed
      <3>5. Tried(q, x, None)
        BY <2>3, <3>2 DEF Tried
      <3>6. QED BY <1>3, <3>1, <3>2, <3>3, <3>4, <3>5 DEF Progress, Creating
    <2>4. CASE k.stage = 3
      <3>1. k.stash.marker /\ Unclaimed(rows, j.path) /\ x = WishRule(j) /\ rows[j.id] = None
        BY <1>3, <2>4 DEF Progress, Creating, Tried
      <3>2. r.stash = k.stash /\ r.calls = <<>>
        BY <1>2, <2>1, <2>4 DEF ShareCreate, Check
      <3>3. QED BY <1>3, <2>4, <3>1, <3>2 DEF Progress, Creating, Tried
    <2>5. QED BY <1>1, <2>2, <2>3, <2>4
  <1>4. CASE j.kind \in {"share.update", "share.delete"}
    <2> DEFINE rule == rows[j.id].rule
    <2>1. /\ k.stage = 1 => r = Nothing(Saw(k.stash, x))
          /\ k.stage = 2 /\ j.kind = "share.update" => r = Issue(k.stash, <<Forward(j)>>)
          /\ k.stage = 2 /\ j.kind = "share.delete" => r = Issue(k.stash, If(x # None, <<Forward(j)>>))
          /\ k.stage = 3 => r.stash = k.stash /\ r.calls = <<>>
      BY <1>1, <1>2, <1>4 DEF RunStage, ShareUpdate, ShareDelete, Check, Exported, Forward
    <2>2. rows[j.id] # None /\ rows[j.id].path = j.path /\ Altering(k, x, rule) /\ rule # None
      BY <1>4, NoneIsNoShare DEF Progress
    <2>3. CASE k.stage = 1
      <3>1. x = rule
        BY <2>2, <2>3 DEF Altering, Tried
      <3>2. q.stash.before = x /\ q.calls = <<>>
        BY <2>1, <2>3 DEF Nothing, Issue, Saw, Stash
      <3>3. Altering(q, x, rule)
        BY <2>2, <2>3, <3>1, <3>2 DEF Altering
      <3>4. QED BY <1>4, <2>2, <3>3 DEF Progress
    <2>4. CASE k.stage = 2
      <3>1. k.stash.before = rule /\ x = rule
        BY <2>2, <2>4 DEF Altering, Tried
      <3>2. q.stash = k.stash /\ q.calls = <<Forward(j)>>
        BY <1>4, <2>1, <2>2, <2>4, <3>1 DEF Issue, If
      <3>3. Tried(q, x, rule)
        BY <2>4, <3>2 DEF Tried
      <3>4. Altering(q, x, rule)
        BY <2>2, <3>1, <3>2, <3>3 DEF Altering
      <3>5. QED BY <1>4, <2>2, <3>4 DEF Progress
    <2>5. CASE k.stage = 3
      <3>1. k.stash.before = rule /\ x = WishRule(j)
        BY <2>2, <2>5 DEF Altering, Tried
      <3>2. q.stash = k.stash /\ q.calls = <<>>
        BY <2>1, <2>5
      <3>3. Tried(q, x, rule)
        BY <2>5, <3>1, <3>2 DEF Tried
      <3>4. Altering(q, x, rule)
        BY <2>2, <3>1, <3>2, <3>3 DEF Altering
      <3>5. QED BY <1>4, <2>2, <3>4 DEF Progress
    <2>6. QED BY <1>1, <2>3, <2>4, <2>5
  <1>5. QED BY <1>3, <1>4 DEF ShareKinds

\* The rollback begins.
LEMMA ProgressTurns ==
    ASSUME NEW k, NEW q, NEW h, NEW rows, k.phase = "failing", q.phase = "rollback",
           k.job.kind \in ShareKinds, q.job = k.job, q.stash = k.stash, k.stash.marker \in BOOLEAN,
           q.calls = Rollback(k.job, h, k.stash).calls,
           Progress(k, h.exports[k.job.path], rows)
    PROVE  Progress(q, h.exports[k.job.path], rows)
  <1> DEFINE j == k.job
             x == h.exports[j.path]
  <1>1. CASE j.kind = "share.create"
    <2>1. q.calls = If(k.stash.marker /\ x # None, <<Backward(j, None)>>)
      BY <1>1 DEF Rollback, ShareCreateRollback, Issue, Exported, Backward
    <2>2. k.stash.marker => Tried(q, x, None)
      BY <2>1 DEF Tried, If
    <2>3. ~k.stash.marker => q.calls = <<>>
      BY <2>1 DEF If
    <2>4. QED BY <1>1, <2>2, <2>3 DEF Progress, Creating
  <1>2. CASE j.kind \in {"share.update", "share.delete"}
    <2>1. q.calls = If(k.stash.before # None, <<Backward(j, k.stash.before)>>)
      BY <1>2 DEF Rollback, ShareUpdateRollback, ShareDeleteRollback, Issue, Backward
    <2>2. k.stash.before # None => Tried(q, x, k.stash.before)
      BY <2>1 DEF Tried, If
    <2>3. k.stash.before = None => q.calls = <<>>
      BY <2>1 DEF If
    <2>4. QED BY <1>2, <2>2, <2>3 DEF Progress, Altering
  <1>3. QED BY <1>1, <1>2 DEF ShareKinds

\* What a rollback that is through leaves, and a run that is.
LEMMA ProgressBack ==
    ASSUME NEW k, NEW x, NEW rows, k.phase = "rollback", k.calls = <<>>, k.job.id \in ShareId,
           RowsApart(rows), Progress(k, x, rows)
    PROVE  Matches(rows, k.job.path, x)
  <1>1. CASE k.job.kind = "share.create"
    <2>1. CASE k.stash.marker
      <3>1. Unclaimed(rows, k.job.path) /\ x = None
        BY <1>1, <2>1 DEF Progress, Creating, Tried
      <3>2. QED BY <3>1 DEF Unclaimed, Matches
    <2>2. CASE ~k.stash.marker
      BY <1>1, <2>2 DEF Progress, Creating
    <2>3. QED BY <2>1, <2>2
  <1>2. CASE k.job.kind # "share.create"
    <2> DEFINE i == k.job.id
    <2>1. rows[i] # None /\ rows[i].path = k.job.path /\ x = rows[i].rule
      BY <1>2 DEF Progress, Altering, Tried
    <2>2. \A m \in ShareId : rows[m] # None /\ rows[m].path = k.job.path => m = i
      BY <2>1 DEF RowsApart
    <2> HIDE DEF i
    <2>3. i \in ShareId
      BY DEF i
    <2>4. QED BY <2>1, <2>2, <2>3 DEF Matches
  <1>3. QED BY <1>1, <1>2

LEMMA ProgressDone ==
    ASSUME NEW k, NEW x, NEW rows, NEW rows2, k.phase = "running", k.calls = <<>>, k.job \in Job,
           k.job.kind \in ShareKinds, k.stage > 2, k.stage \in Nat,
           RowsApart(rows), Progress(k, x, rows),
           rows2 = [rows EXCEPT ![k.job.id] = Wish(k.job)], rows \in [ShareId -> ShareRow \cup {None}]
    PROVE  RowsApart(rows2) /\ Matches(rows2, k.job.path, x)
  <1> DEFINE j == k.job
             i == j.id
             wish == Wish(j)
  <1>1. /\ i \in ShareId
        /\ wish # None => wish.path = j.path
        /\ wish = None <=> j.kind = "share.delete"
        /\ wish # None => wish.rule = j.rule /\ WishRule(j) = j.rule
        /\ wish = None => WishRule(j) = None
    BY JobShape, WishRow
  <1> HIDE DEF wish, i, j
  <1>2. x = WishRule(j)
    <2>1. CASE j.kind = "share.create"
      BY <2>1 DEF Progress, Creating, Tried, j
    <2>2. CASE j.kind # "share.create"
      BY <2>2 DEF Progress, Altering, Tried, j
    <2>3. QED BY <2>1, <2>2
  <1>3. ASSUME NEW m \in ShareId, m # i, rows[m] # None PROVE rows[m].path # j.path
    <2>1. CASE j.kind = "share.create"
      <3>1. k.stash.marker
        BY <2>1 DEF Progress, Creating, j
      <3>2. QED BY <1>3, <2>1, <3>1 DEF Progress, Creating, Unclaimed, j
    <2>2. CASE j.kind # "share.create"
      BY <1>1, <1>3, <2>2 DEF Progress, RowsApart, i, j
    <2>3. QED BY <2>1, <2>2
  <1>4. \A m \in ShareId : rows2[m] = IF m = i THEN wish ELSE rows[m]
    BY DEF i, j, wish
  <1>5. RowsApart(rows2)
    BY <1>1, <1>3, <1>4 DEF RowsApart
  <1>6. Matches(rows2, j.path, x)
    BY <1>1, <1>2, <1>3, <1>4 DEF Matches
  <1>7. QED BY <1>5, <1>6 DEF j

-----------------------------------------------------------------------------
(***************************************************************************)
(* The actions.                                                            *)
(***************************************************************************)
\* One task moves, and not one that needs an operator; it stays about its share.
Moved(t) ==
    /\ \A u \in Task \ {t} : task'[u] = task[u]
    /\ task[t].phase # "manual"
    /\ Sharing(task[t]) => task'[t].job = task[t].job
    /\ ~Sharing(task[t]) => ~Sharing(task'[t])

\* What a task that is not about a share leaves as it is.
Aside(t) ==
    ~Sharing(task[t]) =>
        /\ host'.exports = host.exports
        /\ \A i \in ShareId : desired'.shares[i] = desired.shares[i] /\ desired'.rev[i] = desired.rev[i]

LEMMA MovedTo ==
    ASSUME TasksTyped, NEW t \in Task, NEW q, task' = [task EXCEPT ![t] = q],
           task[t].phase # "manual", q.job = task[t].job
    PROVE  Moved(t) /\ task'[t] = q
  BY DEF TasksTyped, Moved, Sharing

LEMMA EndMoves ==
    ASSUME Typed, NEW t \in Task, Begun(task[t]), NEW final \in {"success", "failed", "cancelled", "manual"}, End(t, final)
    PROVE  /\ Moved(t) /\ task'[t].phase = final
           /\ final = "success" => desired' = desired
           /\ final # "success" => Rewritten(task[t].job, desired, desired', task[t].was.shares[task[t].job.id])
           /\ ~Sharing(task[t]) =>
                 \A i \in ShareId : desired'.shares[i] = desired.shares[i] /\ desired'.rev[i] = desired.rev[i]
  <1> DEFINE q == EndedTask(task[t].job, final)
             j == task[t].job
  <1>1. /\ j \in Job /\ task[t].was \in Wanted /\ desired \in Wanted /\ TasksTyped
        /\ task[t].phase # "manual"
    BY DEF Typed, TasksTyped, TaskTyped, Begun, Live
  <1>2. q.job = j /\ q.phase = final
    BY DEF EndedTask, NewTask
  <1>3. task' = [task EXCEPT ![t] = q]
    BY DEF End
  <1> HIDE DEF q
  <1>4. Moved(t) /\ task'[t] = q
    BY <1>1, <1>2, <1>3, MovedTo
  <1>5. final # "success" => desired' = Reverted(j, task[t].was, desired)
    BY DEF End
  <1>6. final = "success" => desired' = desired
    BY DEF End
  <1>7. final # "success" => Rewritten(j, desired, desired', task[t].was.shares[j.id])
    BY <1>1, <1>5, RevertedRow
  <1>8. QED BY <1>2, <1>4, <1>6, <1>7 DEF Rewritten, Sharing

LEMMA OrderlyBefore ==
    ASSUME NEW t \in Task, Moved(t), Orderly(task')
    PROVE  Orderly(task)
  <1>1. \A u \in Task : Sharing(task[u]) => Sharing(task'[u]) /\ task'[u].job = task[u].job
    BY DEF Moved, Sharing
  <1>2. \A u \in Task : task[u].phase # "manual"
    BY DEF Moved, Orderly
  <1>3. QED BY <1>1, <1>2 DEF Orderly

\* The invariant after a step.
SharesNext == Orderly(task') => \E rows : ShareInv(task', desired', host'.exports, rows)

LEMMA SharesKnown ==
    ASSUME SharesInv, Orderly(task)
    PROVE  \E rows : ShareInv(task, desired, host.exports, rows) /\ OneEach(task)
  <1>1. PICK rows : ShareInv(task, desired, host.exports, rows)
    BY DEF SharesInv
  <1>2. \A t, u \in Task : t # u /\ Begun(task[t]) /\ Begun(task[u]) => task[t].plan.leases \cap task[u].plan.leases = {}
    BY DEF SharesInv, Disjoint, Leased, Begun
  <1>3. OneEach(task)
    BY <1>1, <1>2, SharesAlone
  <1>4. QED BY <1>1, <1>3

LEMMA SharesTyped ==
    ASSUME TasksTyped, NEW u \in Task, Sharing(task[u])
    PROVE  /\ task[u].job \in Job /\ task[u].job.kind \in ShareKinds
           /\ task[u].job.id \in ShareId /\ task[u].job.path \in Path
  BY JobShape DEF TasksTyped, TaskTyped, Sharing

LEMMA OtherStep ==
    ASSUME SharesInv, NEW t \in Task, Moved(t), Aside(t), ~Sharing(task[t])
    PROVE  SharesNext
  <1> SUFFICES ASSUME Orderly(task') PROVE \E rows : ShareInv(task', desired', host'.exports, rows)
    BY DEF SharesNext
  <1>1. PICK rows : ShareInv(task, desired, host.exports, rows)
    BY OrderlyBefore, SharesKnown
  <1>2. \A u \in Task : Sharing(task[u]) => task[u].job.id \in ShareId
    BY SharesTyped DEF SharesInv, Typed
  <1>3. ShareInv(task', desired', host.exports, rows)
    BY <1>1, <1>2, OtherMoved DEF Moved, Aside
  <1>4. QED BY <1>3 DEF Aside

\* A step of a task about a share that neither begins nor ends it.
LEMMA ShareStep ==
    ASSUME SharesInv, NEW t \in Task, Moved(t), Sharing(task[t]), desired' = desired,
           Changing(task'[t]) <=> Changing(task[t]),
           \A p \in Path : host'.exports[p] = host.exports[p] \/ (Changing(task[t]) /\ p = task[t].job.path),
           \A rows : ShareInv(task, desired, host.exports, rows) =>
                        Holds(task'[t], desired, host'.exports, rows) /\ Pinned(task'[t], desired)
    PROVE  SharesNext
  <1> SUFFICES ASSUME Orderly(task') PROVE \E rows : ShareInv(task', desired', host'.exports, rows)
    BY DEF SharesNext
  <1>1. PICK rows : ShareInv(task, desired, host.exports, rows) /\ OneEach(task)
    BY OrderlyBefore, SharesKnown
  <1>2. \A u \in Task : Sharing(task[u]) => task[u].job.path \in Path
    BY SharesTyped DEF SharesInv, Typed
  <1> DEFINE d == desired
  <1> HIDE DEF d
  <1>3. d = desired /\ d = desired'
    BY DEF d
  <1>4. ShareInv(task', d, host'.exports, rows)
    BY <1>1, <1>2, <1>3, ShareMoved DEF Moved
  <1>5. QED BY <1>3, <1>4

LEMMA MakePlanShares ==
    ASSUME SharesInv, NEW t \in Task, MakePlan(t)
    PROVE  SharesNext
  <1> DEFINE k    == task[t]
             j    == Enriched(k.job, seen, desired)
             plan == PlanOf(j, seen, desired)
             p    == [k EXCEPT !.job = j, !.phase = "planned", !.plan = plan, !.was = desired]
             r    == EndedTask(j, "refused")
             q    == IF plan.found THEN p ELSE r
  <1>1. TasksTyped /\ IsTask(k) /\ k.phase = "new" /\ k.job \in Job /\ desired \in Wanted
    BY DEF SharesInv, Typed, TasksTyped, TaskTyped, MakePlan
  <1>2. j.kind = k.job.kind /\ (Sharing(k) => j = k.job)
    BY <1>1, EnrichedJob DEF Enriched, Sharing, ShareKinds
  <1>3. task' = [task EXCEPT ![t] = q] /\ UNCHANGED <<host, desired>>
    BY DEF MakePlan
  <1>p. plan = PlanOf(j, seen, desired)
    OBVIOUS
  <1> HIDE DEF j, plan, k
  <1>4. p.job = j /\ p.phase = "planned" /\ p.plan = plan /\ p.was = desired
    BY <1>1 DEF IsTask
  <1>5. r.job = j /\ r.phase = "refused"
    BY DEF EndedTask, NewTask
  <1> HIDE DEF p, r
  <1>6. q.job = j /\ q.phase \in {"planned", "refused"} /\ (q.phase = "planned" => plan.found /\ q.plan = plan /\ q.was = desired)
    BY <1>4, <1>5
  <1> HIDE DEF q
  <1>7. task'[t] = q /\ \A u \in Task \ {t} : task'[u] = task[u]
    BY <1>1, <1>3 DEF TasksTyped
  <1>8. Moved(t) /\ Aside(t)
    BY <1>1, <1>2, <1>3, <1>6, <1>7 DEF Moved, Aside, Sharing, k
  <1>9. CASE ~Sharing(task[t])
    BY <1>8, <1>9, OtherStep
  <1>10. CASE Sharing(task[t])
    <2>1. ~Changing(task[t]) /\ ~Changing(task'[t])
      BY <1>1, <1>6, <1>7 DEF Changing, Begun, Live, k
    <2>2. j \in Job /\ j.kind \in ShareKinds /\ j.id \in ShareId
      BY <1>1, <1>2, <1>10, JobShape DEF Sharing, k
    <2>3. ASSUME NEW rows, ShareInv(task, desired, host.exports, rows), q.phase = "planned"
          PROVE  Pinned(q, desired)
      <3>1. <<"Share", j.id>> \in plan.leases
        <4>1. <<"Share", j.id>> \in Of("Share", {j.id})
          BY DEF Of
        <4>2. plan.leases = Of("Share", {j.id})
          BY <1>p, <2>2 DEF PlanOf, ShareKinds, ShareCreatePlan, ShareChangePlan, Plan
        <4>3. QED BY <4>1, <4>2
      <3>2. ASSUME j.kind # "share.create"
            PROVE  desired.rev[j.id] # 0 /\ desired.shares[j.id].path = j.path
        <4>1. plan.found /\ plan = ShareChangePlan(j, seen, desired)
          BY <1>6, <1>p, <2>2, <2>3, <3>2 DEF PlanOf, ShareKinds
        <4>2. desired.shares[j.id] # None /\ desired.shares[j.id].path = j.path
          BY <4>1 DEF ShareChangePlan, Plan
        <4>3. QED BY <2>2, <2>3, <4>2 DEF ShareInv, Numbered
      <3>3. QED BY <1>6, <2>3, <3>1, <3>2 DEF Pinned
    <2>4. \A rows : ShareInv(task, desired, host.exports, rows) =>
              Holds(task'[t], desired, host'.exports, rows) /\ Pinned(task'[t], desired)
      BY <1>6, <1>7, <2>1, <2>3 DEF Holds, Pinned
    <2>5. QED BY <1>3, <1>8, <1>10, <2>1, <2>4, ShareStep
  <1>11. QED BY <1>9, <1>10

LEMMA ApplyShares ==
    ASSUME SharesInv, NEW t \in Task, Apply(t)
    PROVE  SharesNext
  <1> DEFINE k == task[t]
             j == k.job
             p == [k EXCEPT !.phase = "running", !.was = desired, !.base = Slice(k.job, host)]
             r == EndedTask(j, "refused")
  <1>1. /\ TasksTyped /\ IsTask(k) /\ k.phase = "planned" /\ j \in Job /\ desired \in Wanted /\ LeasesFree(t)
        /\ k.stage = 1 /\ k.calls = <<>> /\ k.stash = EmptyStash
    BY DEF SharesInv, Typed, TasksTyped, TaskTyped, Apply
  <1>2. UNCHANGED host
    BY DEF Apply
  <1>3. CASE Applicable(j, k.plan, seen, desired) /\ DesiredFresh(j, k.was, desired)
    <2>1. desired' = Intended(j, desired) /\ task' = [task EXCEPT ![t] = p]
      BY <1>1, <1>3 DEF Apply, TasksTyped
    <2> HIDE DEF k
    <2>2. /\ p.job = j /\ p.phase = "running" /\ p.plan = k.plan /\ p.was = desired
          /\ p.stage = 1 /\ p.calls = <<>> /\ p.stash = EmptyStash
      BY <1>1 DEF IsTask
    <2> HIDE DEF p
    <2>3. Moved(t) /\ task'[t] = p
      BY <1>1, <2>1, <2>2, MovedTo DEF k
    <2>4. Rewritten(j, desired, desired', Wish(j))
      BY <1>1, <2>1, IntendedRow
    <2>5. CASE ~Sharing(task[t])
      <3>1. Aside(t)
        BY <1>2, <2>4, <2>5 DEF Aside, Rewritten, Sharing, k
      <3>2. QED BY <2>3, <2>5, <3>1, OtherStep
    <2>6. CASE Sharing(task[t])
      <3> SUFFICES ASSUME Orderly(task') PROVE \E rows : ShareInv(task', desired', host'.exports, rows)
        BY DEF SharesNext
      <3>1. Orderly(task)
        BY <2>3, OrderlyBefore
      <3>2. PICK rows : ShareInv(task, desired, host.exports, rows) /\ OneEach(task)
        BY <3>1, SharesKnown
      <3>3. ~Changing(task[t]) /\ Changing(p) /\ j.kind \in ShareKinds /\ j.id \in ShareId /\ j.path \in Path
        BY <1>1, <2>2, <2>6, JobShape DEF Changing, Begun, Live, Sharing, k
      <3>4. Pinned(k, desired) /\ <<"Share", j.id>> \in k.plan.leases
        BY <1>1, <2>6, <3>2 DEF ShareInv, Pinned, k
      <3>5. ASSUME NEW u \in Task \ {t}, Changing(task[u])
            PROVE  task[u].job.id # j.id /\ task[u].job.path # j.path
        <4>1. <<"Share", task[u].job.id>> \in Leased(u)
          BY <3>2, <3>5 DEF ShareInv, Holds, Leased, Changing, Begun
        <4>2. task[u].job.id # j.id
          BY <1>1, <3>4, <4>1 DEF LeasesFree, k
        <4>3. QED BY <2>6, <3>1, <3>5, <4>2 DEF Orderly, Changing, k
      <3>6. OneEach(task')
        BY <2>2, <2>3, <3>2, <3>3, <3>5 DEF OneEach, Moved
      <3>7. rows[j.id] = desired.shares[j.id] /\ Matches(rows, j.path, host.exports[j.path])
        <4>1. \A u \in Task : Changing(task[u]) => task[u].job.id # j.id /\ task[u].job.path # j.path
          BY <3>3, <3>5
        <4>2. QED BY <3>2, <3>3, <4>1 DEF ShareInv
      <3>8. desired'.shares[j.id] = Wish(j)
        BY <2>4, <3>3 DEF Rewritten
      <3>9. DesiredRow(j) = j.id /\ DesiredRow(j) # None
        BY <3>3, NoneIsNoShare DEF DesiredRow, ShareKinds
      <3>10. Progress(p, host.exports[j.path], rows)
        <4>1. p.stash.marker = FALSE /\ p.stash.before = None
          BY <2>2 DEF EmptyStash
        <4>2. CASE j.kind = "share.create"
          <5>1. desired.rev[j.id] = 0
            BY <1>3, <3>9, <4>2 DEF DesiredFresh
          <5>2. rows[j.id] = None
            BY <3>2, <3>3, <3>7, <5>1 DEF ShareInv, Numbered
          <5>3. QED BY <2>2, <3>7, <4>1, <4>2, <5>2 DEF Progress, Creating
        <4>3. CASE j.kind # "share.create"
          <5>1. desired.rev[j.id] = k.was.rev[j.id]
            BY <1>3, <3>9, <4>3 DEF DesiredFresh
          <5>2. k.was.rev[j.id] # 0 /\ (desired.shares[j.id] # None => desired.shares[j.id].path = j.path)
            BY <1>1, <2>6, <3>4, <4>3 DEF Pinned, k
          <5>3. rows[j.id] # None /\ rows[j.id].path = j.path
            BY <3>2, <3>3, <3>7, <5>1, <5>2 DEF ShareInv, Numbered
          <5>4. host.exports[j.path] = rows[j.id].rule
            BY <3>3, <3>7, <5>3 DEF Matches
          <5>5. QED BY <2>2, <4>1, <4>3, <5>3, <5>4 DEF Progress, Altering
        <4>4. QED BY <4>2, <4>3
      <3>11. Holds(p, desired', host.exports, rows)
        BY <2>2, <3>4, <3>7, <3>8, <3>10 DEF Holds
      <3> DEFINE d2 == desired'
                 e  == host.exports
      <3> HIDE DEF d2, e
      <3>12. /\ Rewritten(task[t].job, desired, d2, Wish(task[t].job)) /\ ShareInv(task, desired, e, rows)
             /\ Holds(task'[t], d2, e, rows) /\ task[t].job \in Job /\ ~Changing(task[t]) /\ Changing(task'[t])
             /\ task'[t].phase = "running" /\ task'[t].job = task[t].job
        BY <1>1, <2>2, <2>3, <2>4, <3>2, <3>3, <3>11 DEF d2, e, k
      <3>13. \A u \in Task : Sharing(task[u]) => task[u].job.id \in ShareId
        BY <1>1, SharesTyped
      <3>14. ShareInv(task', d2, e, rows)
        BY <2>3, <2>6, <3>1, <3>6, <3>12, <3>13, ShareBegun DEF Moved
      <3>15. QED BY <1>2, <3>14 DEF d2, e
    <2>7. QED BY <2>5, <2>6
  <1>4. CASE ~(Applicable(j, k.plan, seen, desired) /\ DesiredFresh(j, k.was, desired))
    <2>1. task' = [task EXCEPT ![t] = r] /\ UNCHANGED desired
      BY <1>4 DEF Apply
    <2>2. r.job = j /\ r.phase = "refused"
      BY DEF EndedTask, NewTask
    <2> HIDE DEF r
    <2>3. Moved(t) /\ task'[t] = r
      BY <1>1, <2>1, <2>2, MovedTo
    <2>4. CASE ~Sharing(task[t])
      <3>1. Aside(t)
        BY <1>2, <2>1 DEF Aside
      <3>2. QED BY <2>3, <2>4, <3>1, OtherStep
    <2>5. CASE Sharing(task[t])
      <3>1. ~Changing(task[t]) /\ ~Changing(task'[t])
        BY <1>1, <2>2, <2>3 DEF Changing, Begun, Live
      <3>2. \A rows : Holds(task'[t], desired, host'.exports, rows) /\ Pinned(task'[t], desired)
        BY <2>2, <2>3, <3>1 DEF Holds, Pinned
      <3>3. QED BY <1>2, <2>1, <2>3, <2>5, <3>1, <3>2, ShareStep
    <2>6. QED BY <2>4, <2>5
  <1>5. QED BY <1>3, <1>4

\* A step of a task that runs and still does.
LEMMA ShareGoes ==
    ASSUME SharesInv, NEW t \in Task, NEW q, task' = [task EXCEPT ![t] = q], desired' = desired,
           Begun(task[t]), Begun(q), q.job = task[t].job, q.plan = task[t].plan, q.was = task[t].was,
           ~Sharing(task[t]) => host'.exports = host.exports,
           \A p \in Path : host'.exports[p] = host.exports[p] \/ (Sharing(task[t]) /\ p = task[t].job.path),
           Sharing(task[t]) =>
               \A rows : rows \in [ShareId -> ShareRow \cup {None}] /\ Progress(task[t], host.exports[task[t].job.path], rows)
                            => Progress(q, host'.exports[q.job.path], rows)
    PROVE  SharesNext
  <1>1. Moved(t) /\ task'[t] = q
    BY MovedTo DEF SharesInv, Typed, Begun, Live
  <1>2. CASE ~Sharing(task[t])
    <2>1. Aside(t)
      BY <1>2 DEF Aside
    <2>2. QED BY <1>1, <1>2, <2>1, OtherStep
  <1>3. CASE Sharing(task[t])
    <2>1. Changing(task[t]) /\ Changing(task'[t])
      BY <1>1, <1>3 DEF Changing, Sharing
    <2>2. ASSUME NEW rows, ShareInv(task, desired, host.exports, rows)
          PROVE  Holds(task'[t], desired, host'.exports, rows) /\ Pinned(task'[t], desired)
      <3>1. Holds(task[t], desired, host.exports, rows) /\ rows \in [ShareId -> ShareRow \cup {None}]
        BY <2>2 DEF ShareInv
      <3>2. Progress(q, host'.exports[q.job.path], rows)
        BY <1>3, <2>1, <3>1 DEF Holds
      <3>3. Pinned(task'[t], desired)
        BY <1>1 DEF Pinned, Begun, Live
      <3>4. Holds(task'[t], desired, host'.exports, rows)
        BY <1>1, <2>1, <3>1, <3>2 DEF Holds
      <3>5. QED BY <3>3, <3>4
    <2>3. QED BY <1>1, <1>3, <2>1, <2>2, ShareStep
  <1>4. QED BY <1>2, <1>3

\* A task that ends needing an operator says nothing of the shares.
LEMMA ShareStuck ==
    ASSUME SharesInv, NEW t \in Task, Begun(task[t]), End(t, "manual")
    PROVE  SharesNext
  <1>1. task'[t].phase = "manual"
    BY EndMoves DEF SharesInv
  <1>2. QED BY <1>1 DEF SharesNext, Orderly

LEMMA CancelShares ==
    ASSUME SharesInv, NEW t \in Task, RequestCancel(t) \/ CancelRun(t)
    PROVE  SharesNext
  <1> DEFINE k == task[t]
             c == [k EXCEPT !.cancelled = TRUE]
             f == [k EXCEPT !.phase = "failing"]
  <1>1. TasksTyped /\ IsTask(k) /\ k.phase = "running" /\ Begun(k)
    BY DEF SharesInv, Typed, TasksTyped, TaskTyped, RequestCancel, CancelRun, BetweenStages, Begun, Live
  <1>2. UNCHANGED <<host, desired>>
    BY DEF RequestCancel, CancelRun
  <1>3. CASE RequestCancel(t)
    <2>1. task' = [task EXCEPT ![t] = c]
      BY <1>1, <1>3 DEF RequestCancel, TasksTyped
    <2> HIDE DEF k
    <2>2. /\ c.job = k.job /\ c.plan = k.plan /\ c.was = k.was /\ c.phase = k.phase /\ c.stage = k.stage
          /\ c.calls = k.calls /\ c.stash = k.stash
      BY <1>1 DEF IsTask
    <2> HIDE DEF c
    <2>3. Begun(c) /\ \A x, rows : Progress(k, x, rows) => Progress(c, x, rows)
      BY <1>1, <2>2 DEF Begun, Progress, Creating, Altering, Tried
    <2>4. QED BY <1>1, <1>2, <2>1, <2>2, <2>3, ShareGoes DEF k
  <1>4. CASE CancelRun(t)
    <2>1. task' = [task EXCEPT ![t] = f] /\ k.calls = <<>>
      BY <1>1, <1>4 DEF CancelRun, BetweenStages, TasksTyped
    <2> HIDE DEF k
    <2>2. /\ f.job = k.job /\ f.plan = k.plan /\ f.was = k.was /\ f.phase = "failing"
          /\ f.calls = <<>> /\ f.stash = k.stash
      BY <1>1, <2>1 DEF IsTask
    <2> HIDE DEF f
    <2>3. Begun(f) /\ \A x, rows : Progress(k, x, rows) => Progress(f, x, rows)
      BY <1>1, <2>2, ProgressFails DEF Begun, Live
    <2>4. QED BY <1>1, <1>2, <2>1, <2>2, <2>3, ShareGoes DEF k
  <1>5. QED BY <1>3, <1>4

LEMMA StartStageShares ==
    ASSUME SharesInv, NEW t \in Task, StartStage(t)
    PROVE  SharesNext
  <1> DEFINE k     == task[t]
             stage == Stages(k.job.kind)[k.stage]
             next  == [k EXCEPT !.stage = @ + 1]
             fail  == [k EXCEPT !.phase = "failing"]
  <1>1. /\ TasksTyped /\ IsTask(k) /\ k.phase = "running" /\ Begun(k) /\ k.calls = <<>> /\ k.job \in Job
        /\ host \in Host /\ k.stash \in Stash(k.job.kind)
    BY DEF SharesInv, Typed, TasksTyped, TaskTyped, StartStage, BetweenStages, Begun, Live
  <1>2. UNCHANGED <<host, desired>>
    BY DEF StartStage
  <1>3. PICK r : /\ Take(t, r, next, fail)
                 /\ \/ r = RunStage(k.job, stage, host, k.stash)
                    \/ r = Unreadable(k.job, stage, k.stash)
    BY DEF StartStage
  <1>4. CASE ~r.pass
    <2>1. task' = [task EXCEPT ![t] = fail]
      BY <1>3, <1>4 DEF Take
    <2> HIDE DEF k
    <2>2. /\ fail.job = k.job /\ fail.plan = k.plan /\ fail.was = k.was /\ fail.phase = "failing"
          /\ fail.calls = <<>> /\ fail.stash = k.stash
      BY <1>1 DEF IsTask
    <2> HIDE DEF fail
    <2>3. Begun(fail) /\ \A x, rows : Progress(k, x, rows) => Progress(fail, x, rows)
      BY <1>1, <2>2, ProgressFails DEF Begun, Live
    <2>4. QED BY <1>1, <1>2, <2>1, <2>2, <2>3, ShareGoes DEF k
  <1>5. CASE r.pass
    <2> DEFINE q == [next EXCEPT !.calls = r.calls, !.stash = r.stash]
    <2>1. task' = [task EXCEPT ![t] = q]
      BY <1>3, <1>5 DEF Take
    <2>2. k.stage \in 1 .. Len(Stages(k.job.kind))
      <3>1. /\ k.stage \in 1 .. Len(Stages(k.job.kind)) + 1 /\ k.stage <= Len(Stages(k.job.kind))
            /\ Len(Stages(k.job.kind)) \in Nat
        BY <1>1, StagesLen DEF TasksTyped, TaskTyped, StartStage, StagesLeft
      <3>2. QED BY <3>1
    <2>u. Sharing(k) => ~Unreadable(k.job, stage, k.stash).pass
      BY DEF Sharing, ShareKinds, Unreadable, Check
    <2>r. Sharing(k) => r = RunStage(k.job, Stages(k.job.kind)[k.stage], host, k.stash)
      BY <1>3, <1>5, <2>u
    <2> HIDE DEF k
    <2>3. /\ q.job = k.job /\ q.plan = k.plan /\ q.was = k.was /\ q.phase = "running"
          /\ q.stage = k.stage + 1 /\ q.calls = r.calls /\ q.stash = r.stash
      BY <1>1 DEF IsTask
    <2> HIDE DEF q, next, stage
    <2>4. ASSUME Sharing(k), NEW rows, rows \in [ShareId -> ShareRow \cup {None}],
                 Progress(k, host.exports[k.job.path], rows)
          PROVE  Progress(q, host.exports[k.job.path], rows)
      <3>1. k.job.kind \in ShareKinds /\ r = RunStage(k.job, Stages(k.job.kind)[k.stage], host, k.stash)
        BY <2>4, <2>r DEF Sharing
      <3>2. k.job.id \in ShareId
        BY <1>1, <2>4, SharesTyped DEF k
      <3>3. rows[k.job.id] # None => rows[k.job.id].rule \in Rule
        BY <2>4, <3>2 DEF ShareRow
      <3>4. QED BY <1>1, <1>5, <2>2, <2>3, <2>4, <3>1, <3>3, ProgressPasses
    <2>5. Begun(q)
      BY <2>3 DEF Begun, Live
    <2>6. QED BY <1>1, <1>2, <2>1, <2>3, <2>4, <2>5, ShareGoes DEF k
  <1>6. QED BY <1>4, <1>5

\* The call that a task about a share is at throws when it fails.
LEMMA ProgressThrows ==
    ASSUME NEW k, NEW x, NEW rows, k.job.kind \in ShareKinds, k.calls # <<>>,
           k.phase \in {"running", "rollback"}, Progress(k, x, rows)
    PROVE  Head(k.calls).onError = "throw"
  <1>1. \A r : Forward(k.job).onError = "throw" /\ Backward(k.job, r).onError = "throw"
    BY Throws
  <1>2. PICK r : Tried(k, x, r)
    BY DEF Progress, Creating, Altering
  <1>3. k.calls = <<Forward(k.job)>> \/ k.calls = <<Backward(k.job, r)>>
    BY <1>2 DEF Tried
  <1>4. QED BY <1>1, <1>3

LEMMA WorkShares ==
    ASSUME SharesInv, NEW t \in Task, Work(t)
    PROVE  SharesNext
  <1> DEFINE k == task[t]
             c == Head(k.calls)
  <1>1. /\ TasksTyped /\ IsTask(k) /\ k.phase \in {"running", "rollback"} /\ Begun(k) /\ k.calls # <<>> /\ k.job \in Job
        /\ host \in Host
    BY DEF SharesInv, Typed, TasksTyped, TaskTyped, Work, Begun, Live
  <1>2. Suits(c, k.job, k.stash, k.phase = "rollback")
    BY WorkMoves DEF SharesInv
  <1>3. PICK o \in Outcomes(c) :
           /\ host' = o.result.host
           /\ IF o.result.ok \/ c.onError = "next"
              THEN task' = [task EXCEPT ![t].calls = Tail(@)] /\ UNCHANGED desired
              ELSE IF c.onError = "end"
              THEN task' = [task EXCEPT ![t].calls = <<>>] /\ UNCHANGED desired
              ELSE IF k.phase = "running"
              THEN task' = [task EXCEPT ![t].phase = "failing", ![t].calls = <<>>] /\ UNCHANGED desired
              ELSE End(t, "manual")
    BY DEF Work
  <1>4. host' \in {host, Perform(host, c).host} /\ (o.result.ok => Perform(host, c).ok /\ host' = Perform(host, c).host)
    BY <1>3 DEF Outcomes, Refused
  <1>5. /\ ~Sharing(k) => host'.exports = host.exports
        /\ \A p \in Path : host'.exports[p] = host.exports[p] \/ (Sharing(k) /\ p = k.job.path)
    BY <1>1, <1>2, <1>4, CallExports DEF Sharing
  <1> DEFINE rest == [k EXCEPT !.calls = Tail(@)]
             none == [k EXCEPT !.calls = <<>>]
             fail == [k EXCEPT !.phase = "failing", !.calls = <<>>]
  <1>6. \/ End(t, "manual")
        \/ desired' = desired /\ task' = [task EXCEPT ![t] = rest] /\ (o.result.ok \/ c.onError # "throw")
        \/ desired' = desired /\ task' = [task EXCEPT ![t] = none] /\ c.onError # "throw"
        \/ desired' = desired /\ task' = [task EXCEPT ![t] = fail] /\ k.phase = "running"
    BY <1>1, <1>3 DEF TasksTyped
  <1> HIDE DEF k
  <1>7. \A q \in {rest, none, fail} : q.job = k.job /\ q.plan = k.plan /\ q.was = k.was /\ q.stash = k.stash /\ q.stage = k.stage
    BY <1>1 DEF IsTask
  <1>8. /\ rest.phase = k.phase /\ rest.calls = Tail(k.calls) /\ none.phase = k.phase
        /\ fail.phase = "failing" /\ fail.calls = <<>>
    BY <1>1 DEF IsTask
  <1> HIDE DEF rest, none, fail, c
  <1>c. c = Head(k.calls)
    BY DEF c, k
  <1>9. Sharing(k) => k.job.kind \in ShareKinds
    BY DEF Sharing
  <1>10. Sharing(k) => \A rows : Progress(k, host.exports[k.job.path], rows) => c.onError = "throw"
    BY <1>1, <1>9, <1>c, ProgressThrows
  <1>11. CASE desired' = desired /\ task' = [task EXCEPT ![t] = rest] /\ (o.result.ok \/ c.onError # "throw")
    <2>1. Begun(rest)
      BY <1>1, <1>8 DEF Begun
    <2>2. ASSUME Sharing(k), NEW rows, Progress(k, host.exports[k.job.path], rows)
          PROVE  Progress(rest, host'.exports[k.job.path], rows)
      <3>1. Perform(host, c).ok /\ host' = Perform(host, c).host
        BY <1>4, <1>10, <1>11, <2>2
      <3>2. QED BY <1>1, <1>7, <1>8, <1>9, <1>c, <2>2, <3>1, ProgressWorks
    <2>3. QED BY <1>1, <1>5, <1>7, <1>11, <2>1, <2>2, ShareGoes DEF k
  <1>12. CASE desired' = desired /\ task' = [task EXCEPT ![t] = none] /\ c.onError # "throw"
    <2>1. Begun(none)
      BY <1>1, <1>8 DEF Begun
    <2>2. Sharing(k) => \A rows : ~Progress(k, host.exports[k.job.path], rows)
      BY <1>10, <1>12
    <2>3. QED BY <1>1, <1>5, <1>7, <1>12, <2>1, <2>2, ShareGoes DEF k
  <1>13. CASE desired' = desired /\ task' = [task EXCEPT ![t] = fail] /\ k.phase = "running"
    <2>1. Begun(fail)
      BY <1>8 DEF Begun, Live
    <2>2. \A x, y, rows : Progress(k, x, rows) => Progress(fail, y, rows)
      BY <1>1, <1>7, <1>8, <1>13, ProgressFails
    <2>3. QED BY <1>1, <1>5, <1>7, <1>13, <2>1, <2>2, ShareGoes DEF k
  <1>14. CASE End(t, "manual")
    BY <1>1, <1>14, ShareStuck DEF k
  <1>15. QED BY <1>6, <1>11, <1>12, <1>13, <1>14

LEMMA StartRollbackShares ==
    ASSUME SharesInv, NEW t \in Task, StartRollback(t)
    PROVE  SharesNext
  <1> DEFINE k == task[t]
             r == Rollback(k.job, host, k.stash)
             q == [k EXCEPT !.phase = "rollback", !.calls = r.calls]
  <1>1. /\ TasksTyped /\ IsTask(k) /\ k.phase = "failing" /\ Begun(k) /\ k.stash.marker \in BOOLEAN
    BY DEF SharesInv, Typed, TasksTyped, TaskTyped, StartRollback, Begun, Live, Stash
  <1>2. UNCHANGED host
    BY DEF StartRollback
  <1>3. \/ task' = [task EXCEPT ![t].phase = "rollback", ![t].calls = r.calls] /\ UNCHANGED desired
        \/ End(t, "manual")
    BY DEF StartRollback
  <1>4. CASE End(t, "manual")
    BY <1>1, <1>4, ShareStuck
  <1>5. CASE task' = [task EXCEPT ![t].phase = "rollback", ![t].calls = r.calls] /\ UNCHANGED desired
    <2>1. task' = [task EXCEPT ![t] = q]
      BY <1>1, <1>5 DEF TasksTyped
    <2>r. r = Rollback(k.job, host, k.stash)
      OBVIOUS
    <2> HIDE DEF k, r
    <2>2. /\ q.job = k.job /\ q.plan = k.plan /\ q.was = k.was /\ q.phase = "rollback"
          /\ q.calls = r.calls /\ q.stash = k.stash
      BY <1>1 DEF IsTask
    <2> HIDE DEF q
    <2>3. Begun(q)
      BY <2>2 DEF Begun, Live
    <2>4. ASSUME Sharing(k), NEW rows, Progress(k, host.exports[k.job.path], rows)
          PROVE  Progress(q, host.exports[k.job.path], rows)
      BY <1>1, <2>2, <2>4, <2>r, ProgressTurns DEF Sharing
    <2>5. QED BY <1>1, <1>2, <1>5, <2>1, <2>2, <2>3, <2>4, ShareGoes DEF k
  <1>6. QED BY <1>3, <1>4, <1>5

LEMMA EndRollbackShares ==
    ASSUME SharesInv, NEW t \in Task, EndRollback(t)
    PROVE  SharesNext
  <1> DEFINE k == task[t]
             j == k.job
  <1>1. /\ Typed /\ TasksTyped /\ k.phase = "rollback" /\ k.calls = <<>> /\ Begun(k)
    BY DEF SharesInv, Typed, EndRollback, Begun, Live
  <1>2. PICK final \in {"failed", "cancelled"} : End(t, final)
    BY DEF EndRollback
  <1>3. UNCHANGED host
    BY DEF EndRollback
  <1>4. /\ Moved(t) /\ task'[t].phase = final
        /\ Rewritten(j, desired, desired', k.was.shares[j.id])
        /\ ~Sharing(k) => \A i \in ShareId : desired'.shares[i] = desired.shares[i] /\ desired'.rev[i] = desired.rev[i]
    BY <1>1, <1>2, EndMoves
  <1>5. CASE ~Sharing(task[t])
    <2>1. Aside(t)
      BY <1>3, <1>4 DEF Aside
    <2>2. QED BY <1>4, <1>5, <2>1, OtherStep
  <1>6. CASE Sharing(task[t])
    <2> SUFFICES ASSUME Orderly(task') PROVE \E rows : ShareInv(task', desired', host'.exports, rows)
      BY DEF SharesNext
    <2>1. Orderly(task)
      BY <1>4, OrderlyBefore
    <2>2. PICK rows : ShareInv(task, desired, host.exports, rows) /\ OneEach(task)
      BY <2>1, SharesKnown
    <2>3. /\ \A u \in Task : Sharing(task[u]) => task[u].job.id \in ShareId /\ task[u].job.path \in Path
          /\ j.kind \in ShareKinds /\ j.id \in ShareId /\ Changing(k) /\ task'[t].job = j
      BY <1>1, <1>4, <1>6, SharesTyped DEF Changing, Moved
    <2>4. /\ rows[j.id] = k.was.shares[j.id] /\ Progress(k, host.exports[j.path], rows)
          /\ rows \in [ShareId -> ShareRow \cup {None}] /\ RowsApart(rows)
      BY <2>2, <2>3 DEF ShareInv, Holds
    <2>5. rows[j.id] # None => rows[j.id].path = j.path
      BY <2>4 DEF Progress
    <2>6. Matches(rows, j.path, host.exports[j.path])
      BY <1>1, <2>3, <2>4, ProgressBack
    <2>7. /\ rows[j.id] = desired'.shares[j.id]
          /\ desired'.rev[j.id] = 0 <=> desired'.shares[j.id] = None
          /\ \A i \in ShareId : i # j.id =>
                desired'.shares[i] = desired.shares[i] /\ desired'.rev[i] = desired.rev[i]
      BY <1>4, <2>3, <2>4 DEF Rewritten
    <2>8. task'[t].phase \in Ended /\ \A u \in Task \ {t} : task'[u] = task[u]
      BY <1>4 DEF Ended, Moved
    <2> DEFINE d2    == desired'
               e     == host.exports
               rows2 == rows
    <2> HIDE DEF d2, e, rows2
    <2>9. /\ rows2[task[t].job.id] = d2.shares[task[t].job.id]
          /\ rows2[task[t].job.id] # None => rows2[task[t].job.id].path = task[t].job.path
          /\ d2.rev[task[t].job.id] = 0 <=> d2.shares[task[t].job.id] = None
          /\ Matches(rows2, task[t].job.path, e[task[t].job.path])
          /\ \A i \in ShareId : i # task[t].job.id =>
                rows2[i] = rows[i] /\ d2.shares[i] = desired.shares[i] /\ d2.rev[i] = desired.rev[i]
          /\ ShareInv(task, desired, e, rows) /\ task'[t].job = task[t].job /\ Changing(task[t])
          /\ rows2 \in [ShareId -> ShareRow \cup {None}] /\ RowsApart(rows2)
      BY <2>2, <2>3, <2>4, <2>5, <2>6, <2>7 DEF d2, e, rows2
    <2>10. ShareInv(task', d2, e, rows2)
      BY <1>6, <2>1, <2>2, <2>3, <2>8, <2>9, ShareEnded
    <2>11. QED BY <1>3, <2>10 DEF d2, e
  <1>7. QED BY <1>5, <1>6

LEMMA EndRunShares ==
    ASSUME SharesInv, NEW t \in Task, EndRun(t)
    PROVE  SharesNext
  <1> DEFINE k == task[t]
             j == k.job
  <1>1. /\ Typed /\ TasksTyped /\ k.phase = "running" /\ k.calls = <<>> /\ Begun(k) /\ k.job \in Job
    BY DEF SharesInv, Typed, TasksTyped, TaskTyped, EndRun, BetweenStages, Begun, Live
  <1>2. End(t, "success") \/ End(t, "manual")
    BY DEF EndRun
  <1>3. UNCHANGED host
    BY DEF EndRun
  <1>4. CASE End(t, "manual")
    BY <1>1, <1>4, ShareStuck
  <1>5. CASE End(t, "success")
    <2>1. Moved(t) /\ task'[t].phase = "success" /\ desired' = desired
      BY <1>1, <1>5, EndMoves
    <2>2. CASE ~Sharing(task[t])
      <3>1. Aside(t)
        BY <1>3, <2>1 DEF Aside
      <3>2. QED BY <2>1, <2>2, <3>1, OtherStep
    <2>3. CASE Sharing(task[t])
      <3> SUFFICES ASSUME Orderly(task') PROVE \E rows : ShareInv(task', desired', host'.exports, rows)
        BY DEF SharesNext
      <3>1. Orderly(task)
        BY <2>1, OrderlyBefore
      <3>2. PICK rows : ShareInv(task, desired, host.exports, rows) /\ OneEach(task)
        BY <3>1, SharesKnown
      <3>3. /\ \A u \in Task : Sharing(task[u]) => task[u].job.id \in ShareId /\ task[u].job.path \in Path
            /\ j.kind \in ShareKinds /\ j.id \in ShareId /\ Changing(k) /\ task'[t].job = j
        BY <1>1, <2>1, <2>3, SharesTyped DEF Changing, Moved
      <3>4. /\ desired.shares[j.id] = Wish(j) /\ Progress(k, host.exports[j.path], rows)
            /\ rows \in [ShareId -> ShareRow \cup {None}] /\ RowsApart(rows) /\ Numbered(desired)
        BY <3>2, <3>3 DEF ShareInv, Holds
      <3>5. k.stage \in Nat /\ k.stage > 2
        <4>1. /\ k.stage \in 1 .. Len(Stages(j.kind)) + 1 /\ ~(k.stage <= Len(Stages(j.kind)))
          BY <1>1 DEF TasksTyped, TaskTyped, EndRun, StagesLeft
        <4>2. Len(Stages(j.kind)) \in {2, 3}
          <5>1. j.kind = "share.create" => Len(Stages(j.kind)) = 3
            BY DEF Stages
          <5>2. j.kind = "share.update" => Len(Stages(j.kind)) = 3
            BY DEF Stages
          <5>3. j.kind = "share.delete" => Len(Stages(j.kind)) = 2
            BY DEF Stages
          <5>4. QED BY <3>3, <5>1, <5>2, <5>3 DEF ShareKinds
        <4> DEFINE m == Len(Stages(j.kind))
                   i == k.stage
        <4> HIDE DEF m, i
        <4>3. i \in 1 .. m + 1 /\ ~(i <= m) /\ m \in {2, 3}
          BY <4>1, <4>2 DEF m, i
        <4>4. i \in Nat /\ i > 2
          BY <4>3
        <4>5. QED BY <4>4 DEF i
      <3> DEFINE rows2 == [rows EXCEPT ![j.id] = Wish(j)]
      <3>6. RowsApart(rows2) /\ Matches(rows2, j.path, host.exports[j.path])
        BY <1>1, <3>3, <3>4, <3>5, ProgressDone
      <3>7. /\ Wish(j) \in ShareRow \cup {None} /\ (Wish(j) # None => Wish(j).path = j.path)
        BY <1>1, <3>3, WishRow
      <3>8. /\ rows2 \in [ShareId -> ShareRow \cup {None}] /\ rows2[j.id] = Wish(j)
            /\ \A i \in ShareId : i # j.id => rows2[i] = rows[i]
        BY <3>3, <3>4, <3>7
      <3> HIDE DEF rows2
      <3>9. desired.rev[j.id] = 0 <=> desired.shares[j.id] = None
        BY <3>3, <3>4 DEF Numbered
      <3>10. task'[t].phase \in Ended /\ \A u \in Task \ {t} : task'[u] = task[u]
        BY <2>1 DEF Ended, Moved
      <3> DEFINE d == desired
                 e == host.exports
      <3> HIDE DEF d, e
      <3>11. /\ rows2[task[t].job.id] = d.shares[task[t].job.id]
             /\ rows2[task[t].job.id] # None => rows2[task[t].job.id].path = task[t].job.path
             /\ d.rev[task[t].job.id] = 0 <=> d.shares[task[t].job.id] = None
             /\ Matches(rows2, task[t].job.path, e[task[t].job.path])
             /\ \A i \in ShareId : i # task[t].job.id => rows2[i] = rows[i]
             /\ ShareInv(task, d, e, rows) /\ task'[t].job = task[t].job /\ Changing(task[t])
        BY <3>2, <3>3, <3>4, <3>6, <3>7, <3>8, <3>9 DEF d, e
      <3>12. ShareInv(task', d, e, rows2)
        BY <2>3, <3>1, <3>2, <3>3, <3>6, <3>8, <3>10, <3>11, ShareEnded
      <3>13. QED BY <1>3, <2>1, <3>12 DEF d, e
    <2>4. QED BY <2>2, <2>3
  <1>6. QED BY <1>2, <1>4, <1>5

LEMMA StillShares ==
    ASSUME SharesInv, UNCHANGED <<host, desired, task>>
    PROVE  SharesNext
  BY DEF SharesInv, SharesNext

\* Nothing runs at the start, and the rows are what is desired.
LEMMA SharesInit ==
    ASSUME Init
    PROVE  SharesInv
  <1>1. PICK c \in Cases : /\ host = c.host /\ desired = c.desired
                           /\ task = [t \in Task |-> NewTask(c.job[t])]
    BY DEF Init
  <1>2. /\ c.desired \in Wanted /\ Agree(c.desired.shares, c.host.exports)
        /\ \A i \in ShareId : c.desired.rev[i] = 0 <=> c.desired.shares[i] = None
    BY CasesAssumption
  <1>3. \A t \in Task : ~Changing(task[t]) /\ task[t].phase = "new"
    BY <1>1 DEF NewTask, Changing, Begun, Live
  <1>4. \A t \in Task : Holds(task[t], desired, host.exports, desired.shares) /\ Pinned(task[t], desired)
    BY <1>3 DEF Holds, Pinned
  <1>5. \A p \in Path : Matches(desired.shares, p, host.exports[p])
    BY <1>1, <1>2 DEF Agree, Matches
  <1>6. /\ desired.shares \in [ShareId -> ShareRow \cup {None}]
        /\ RowsApart(desired.shares) /\ Numbered(desired)
    BY <1>1, <1>2 DEF Wanted, Agree, RowsApart, Numbered
  <1>7. ShareInv(task, desired, host.exports, desired.shares)
    BY <1>4, <1>5, <1>6 DEF ShareInv
  <1>8. Typed /\ Disjoint
    BY MountInit DEF MountInv
  <1>9. QED BY <1>7, <1>8 DEF SharesInv

LEMMA SharesStep ==
    ASSUME MountInv, SharesInv, [Next]_vars
    PROVE  SharesInv'
  <1>1. (Typed /\ Disjoint)'
    BY MountStep DEF MountInv
  <1>2. SharesNext
    <2>1. ASSUME NEW t \in Task, TaskStep(t) PROVE SharesNext
      <3>1. CASE MakePlan(t)
        BY <3>1, MakePlanShares
      <3>2. CASE Apply(t)
        BY <3>2, ApplyShares
      <3>3. CASE RequestCancel(t) \/ CancelRun(t)
        BY <3>3, CancelShares
      <3>4. CASE StartStage(t)
        BY <3>4, StartStageShares
      <3>5. CASE Work(t)
        BY <3>5, WorkShares
      <3>6. CASE StartRollback(t)
        BY <3>6, StartRollbackShares
      <3>7. CASE EndRollback(t)
        BY <3>7, EndRollbackShares
      <3>8. CASE EndRun(t)
        BY <3>8, EndRunShares
      <3>9. QED BY <2>1, <3>1, <3>2, <3>3, <3>4, <3>5, <3>6, <3>7, <3>8 DEF TaskStep
    <2>2. ASSUME NEW kind, Observe(kind) PROVE SharesNext
      BY <2>2, StillShares DEF Observe
    <2>3. CASE UNCHANGED vars
      BY <2>3, StillShares DEF vars
    <2>4. QED BY <2>1, <2>2, <2>3 DEF Next
  <1>3. QED BY <1>1, <1>2 DEF SharesInv, SharesNext

\* When nothing runs the rows are what is desired.
LEMMA QuietShares ==
    ASSUME SharesInv
    PROVE  SharesExported
  <1> SUFFICES ASSUME Quiet PROVE Agree(desired.shares, host.exports)
    BY DEF SharesExported
  <1>1. \A t \in Task : task[t].phase # "manual" /\ ~Changing(task[t])
    BY DEF Quiet, Changing, Begun
  <1>2. Orderly(task)
    <2>1. \A t, u \in Task : Sharing(task[t]) /\ Sharing(task[u]) =>
              (task[t].job.id = task[u].job.id <=> task[t].job.path = task[u].job.path)
      BY DEF Quiet, OnItsPath, OnTwoPaths, Sharing, ShareKinds
    <2>2. QED BY <1>1, <2>1 DEF Orderly
  <1>3. PICK rows : ShareInv(task, desired, host.exports, rows)
    BY <1>2 DEF SharesInv
  <1>4. \A i \in ShareId : rows[i] = desired.shares[i]
    BY <1>1, <1>3 DEF ShareInv
  <1>5. RowsApart(rows) /\ \A p \in Path : Matches(rows, p, host.exports[p])
    BY <1>1, <1>3 DEF ShareInv
  <1>6. \A i \in ShareId : rows[i] # None => rows[i].path \in Path
    BY <1>3 DEF ShareInv, ShareRow
  <1>7. QED BY <1>4, <1>5, <1>6 DEF Agree, RowsApart, Matches

\* Whatever the tasks on shares did, failed at, rolled back or found changed since their
\* plan, what is exported once they have ended is what the desired shares say: apply writes
\* the desired row before the run, and a run that fails puts both back.
THEOREM SharesKept == Spec => []SharesExported
  <1>1. Init => MountInv /\ SharesInv
    BY MountInit, SharesInit
  <1>2. MountInv /\ SharesInv /\ [Next]_vars => (MountInv /\ SharesInv)'
    BY MountStep, SharesStep
  <1>3. MountInv /\ SharesInv => SharesExported
    BY QuietShares
  <1>4. QED BY <1>1, <1>2, <1>3, PTL DEF Spec

-----------------------------------------------------------------------------
(***************************************************************************)
(* What a run has still to do.  Its part of the host is what no other task *)
(* touches while it holds its leases; each call changes it in a known way, *)
(* and what is said of the run is what its calls left will have done.      *)
(***************************************************************************)
\* What of a host a job works on, in the fields of every kind of job.
Part(j, h) ==
    [array   |-> IF j.kind \in ArrayKinds THEN h.arrays[j.array] ELSE None,
     pool    |-> IF j.kind \in Pooling THEN h.pools[PoolOf(j)] ELSE None,
     unit    |-> IF j.kind \in FsKinds THEN h.units[j.path] ELSE None,
     mount   |-> IF j.kind \in FsKinds THEN h.mounts[j.path] ELSE None,
     on      |-> j.kind \in FsKinds \ {"fs.unmanage"} /\ j.path \in h.enabled,
     data    |-> IF j.kind = "fs.create" THEN h.data[j.unit.what] ELSE None,
     export  |-> IF j.kind \in ShareKinds THEN h.exports[j.path] ELSE None,
     domain  |-> IF j.kind = "nfs-idmap.set" THEN h.domain ELSE None,
     profile |-> IF j.kind = "nfs-profile.update" THEN h.profile ELSE None]

Parts == [array : ArrayState \cup {None}, pool : PoolState \cup {None}, unit : UnitText \cup {None},
          mount : UnitText \cup {None}, on : BOOLEAN, data : Path \cup {None}, export : Rule \cup {None},
          domain : Domain \cup {None}, profile : Profile \cup {None}]

\* What becomes of an array or a pool.
Fresh(drives)       == [drives |-> drives, active |-> FALSE]
Spared(v, pool)     == [v EXCEPT !.spare = pool]
Enlarged(v, drives) == [v EXCEPT !.drives = @ \cup drives]
Reduced(v, drives)  == [v EXCEPT !.drives = @ \ drives]
Switched(v, active) == [v EXCEPT !.active = active]

\* What a call that succeeds makes of it.
Eff(x, c) ==
    [array   |-> CASE c.verb = "raidCreate"  -> c.arg
                   [] c.verb = "raidDestroy" -> None
                   [] c.verb = "raidModify"  -> Spared(x.array, c.arg)
                   [] OTHER -> x.array,
     pool    |-> CASE c.verb = "poolCreate"    -> Fresh(c.arg)
                   [] c.verb = "poolDelete"    -> None
                   [] c.verb = "poolAdd"       -> Enlarged(x.pool, c.arg)
                   [] c.verb = "poolRemove"    -> Reduced(x.pool, c.arg)
                   [] c.verb = "poolSetActive" -> Switched(x.pool, c.arg)
                   [] OTHER -> x.pool,
     unit    |-> CASE c.verb = "writeUnit"  -> c.arg
                   [] c.verb = "removeUnit" -> None
                   [] OTHER -> x.unit,
     mount   |-> CASE c.verb = "enableNow" -> IF x.mount # None THEN x.mount ELSE x.unit
                   [] c.verb = "stop"      -> None
                   [] OTHER -> x.mount,
     on      |-> CASE c.verb = "enableNow" -> TRUE
                   [] c.verb = "disable"   -> FALSE
                   [] OTHER -> x.on,
     data    |-> IF c.verb = "mkfs" THEN c.on ELSE x.data,
     export  |-> CASE c.verb \in {"addExport", "updateExport"} -> c.arg
                   [] c.verb = "removeExport" -> None
                   [] OTHER -> x.export,
     domain  |-> IF c.verb = "setIdmapDomain" THEN c.arg ELSE x.domain,
     profile |-> IF c.verb = "renderProfile" THEN c.arg ELSE x.profile]

\* Calls that all succeed take x to y.
Leads(x, calls, y) ==
    \E st : /\ st[0] = x /\ st[Len(calls)] = y
            /\ \A i \in 1 .. Len(calls) : st[i] = Eff(st[i - 1], calls[i])

LEMMA LeadsNone ==
    ASSUME NEW x, NEW y
    PROVE  Leads(x, <<>>, y) <=> x = y
  <1>1. Len(<<>>) = 0
    OBVIOUS
  <1>2. ASSUME x = y PROVE Leads(x, <<>>, y)
    <2> DEFINE st == [i \in {0} |-> x]
    <2>1. st[0] = x /\ st[Len(<<>>)] = y /\ \A i \in 1 .. Len(<<>>) : st[i] = Eff(st[i - 1], <<>>[i])
      BY <1>1, <1>2
    <2>2. QED BY <2>1 DEF Leads
  <1>3. ASSUME Leads(x, <<>>, y) PROVE x = y
    BY <1>1, <1>3 DEF Leads
  <1>4. QED BY <1>2, <1>3

LEMMA LeadsOne ==
    ASSUME NEW x, NEW c
    PROVE  Leads(x, <<c>>, Eff(x, c))
  <1> DEFINE y  == Eff(x, c)
             st == [i \in {0, 1} |-> IF i = 0 THEN x ELSE y]
  <1>1. Len(<<c>>) = 1 /\ <<c>>[1] = c
    OBVIOUS
  <1>2. y = Eff(x, c)
    OBVIOUS
  <1> HIDE DEF y
  <1>3. st[0] = x /\ st[1] = y
    OBVIOUS
  <1> HIDE DEF st
  <1>4. \A i \in 1 .. Len(<<c>>) : st[i] = Eff(st[i - 1], <<c>>[i])
    BY <1>1, <1>2, <1>3
  <1>5. Leads(x, <<c>>, y)
    BY <1>1, <1>3, <1>4 DEF Leads
  <1>6. QED BY <1>2, <1>5

LEMMA LeadsThen ==
    ASSUME NEW S, NEW one \in Seq(S), NEW two \in Seq(S), NEW x, NEW y, NEW z,
           Leads(x, one, y), Leads(y, two, z)
    PROVE  Leads(x, one \o two, z)
  <1>1. PICK a : /\ a[0] = x /\ a[Len(one)] = y
                 /\ \A i \in 1 .. Len(one) : a[i] = Eff(a[i - 1], one[i])
    BY DEF Leads
  <1>2. PICK b : /\ b[0] = y /\ b[Len(two)] = z
                 /\ \A i \in 1 .. Len(two) : b[i] = Eff(b[i - 1], two[i])
    BY DEF Leads
  <1> DEFINE m  == Len(one)
             n  == Len(two)
             st == [i \in 0 .. m + n |-> IF i <= m THEN a[i] ELSE b[i - m]]
  <1>3. /\ m \in Nat /\ n \in Nat /\ Len(one \o two) = m + n
        /\ \A i \in 1 .. m + n : (one \o two)[i] = IF i <= m THEN one[i] ELSE two[i - m]
    BY ConcatProperties, LenProperties
  <1> HIDE DEF m, n
  <1>4. st[0] = x /\ st[m + n] = z
    <2>1. CASE n = 0
      BY <1>1, <1>2, <1>3, <2>1 DEF m, n
    <2>2. CASE n > 0
      BY <1>1, <1>2, <1>3, <2>2 DEF m, n
    <2>3. QED BY <1>3, <2>1, <2>2
  <1>5. \A i \in 0 .. m + n : st[i] = IF i <= m THEN a[i] ELSE b[i - m]
    OBVIOUS
  <1> HIDE DEF st
  <1>6. ASSUME NEW i \in 1 .. m + n PROVE st[i] = Eff(st[i - 1], (one \o two)[i])
    <2>1. CASE i <= m
      <3>1. st[i] = a[i] /\ st[i - 1] = a[i - 1] /\ (one \o two)[i] = one[i]
        BY <1>3, <1>5, <2>1
      <3>2. a[i] = Eff(a[i - 1], one[i])
        BY <1>1, <1>3, <2>1 DEF m
      <3>3. QED BY <3>1, <3>2
    <2>2. CASE i = m + 1
      <3>1. st[i] = b[1] /\ st[i - 1] = a[m] /\ (one \o two)[i] = two[1] /\ n >= 1
        BY <1>3, <1>5, <2>2
      <3>2. b[1] = Eff(b[0], two[1])
        BY <1>2, <1>3, <3>1 DEF n
      <3>3. QED BY <1>1, <1>2, <3>1, <3>2 DEF m
    <2>3. CASE i > m + 1
      <3>1. st[i] = b[i - m] /\ st[i - 1] = b[i - m - 1] /\ (one \o two)[i] = two[i - m] /\ i - m \in 1 .. n
        BY <1>3, <1>5, <2>3
      <3>2. b[i - m] = Eff(b[i - m - 1], two[i - m])
        BY <1>2, <3>1 DEF n
      <3>3. QED BY <3>1, <3>2
    <2>4. QED BY <1>3, <2>1, <2>2, <2>3
  <1>7. QED BY <1>3, <1>4, <1>6 DEF Leads

LEMMA LeadsIf ==
    ASSUME NEW cond, NEW calls, NEW x, NEW y, cond => Leads(x, calls, y), ~cond => x = y
    PROVE  Leads(x, If(cond, calls), y)
  <1>1. CASE cond
    BY <1>1 DEF If
  <1>2. CASE ~cond
    BY <1>2, LeadsNone DEF If
  <1>3. QED BY <1>1, <1>2

\* The first of the calls made, the others lead on from what it left.
LEMMA LeadsOn ==
    ASSUME NEW S, NEW calls \in Seq(S), calls # <<>>, NEW x, NEW y, Leads(x, calls, y)
    PROVE  Leads(Eff(x, Head(calls)), Tail(calls), y)
  <1>1. PICK a : /\ a[0] = x /\ a[Len(calls)] = y
                 /\ \A i \in 1 .. Len(calls) : a[i] = Eff(a[i - 1], calls[i])
    BY DEF Leads
  <1> DEFINE n  == Len(calls)
             st == [i \in 0 .. n - 1 |-> a[i + 1]]
  <1>2. /\ n \in Nat /\ n >= 1 /\ Len(Tail(calls)) = n - 1 /\ Head(calls) = calls[1]
        /\ \A i \in 1 .. n - 1 : Tail(calls)[i] = calls[i + 1]
    BY HeadTailProperties, EmptySeq, LenProperties
  <1> HIDE DEF n
  <1>3. \A i \in 0 .. n - 1 : st[i] = a[i + 1]
    OBVIOUS
  <1> HIDE DEF st
  <1>4. st[0] = Eff(x, Head(calls)) /\ st[n - 1] = y
    <2>1. a[1] = Eff(a[0], calls[1])
      BY <1>1, <1>2 DEF n
    <2>2. st[0] = a[1] /\ st[n - 1] = a[n]
      BY <1>2, <1>3
    <2>3. QED BY <1>1, <1>2, <2>1, <2>2 DEF n
  <1>5. ASSUME NEW i \in 1 .. n - 1 PROVE st[i] = Eff(st[i - 1], Tail(calls)[i])
    <2>1. st[i] = a[i + 1] /\ st[i - 1] = a[i]
      BY <1>2, <1>3
    <2>2. a[i + 1] = Eff(a[i], calls[i + 1])
      BY <1>1, <1>2 DEF n
    <2>3. QED BY <1>2, <2>1, <2>2
  <1>6. QED BY <1>2, <1>4, <1>5 DEF Leads

-----------------------------------------------------------------------------
(***************************************************************************)
(* What the commands change, field by field.                               *)
(***************************************************************************)
OnArrays == {"raidCreate", "raidDestroy", "raidModify", "raidImport"}

\* What a command returns, told from the outside.
LEMMA Returned ==
    ASSUME NEW r, NEW h
    PROVE  (r = Refused(h) => ~r.ok /\ r.host = h) /\ (r = Done(h) => r.ok /\ r.host = h)
  BY DEF Refused, Done

LEMMA RaidFrame ==
    ASSUME NEW h \in Host, NEW c, c.verb \in OnArrays, NEW on \in Array, on = c.on,
           NEW r, r = Perform(h, c), NEW g, g = r.host
    PROVE  /\ g.pools = h.pools /\ g.units = h.units /\ g.mounts = h.mounts /\ g.enabled = h.enabled
           /\ g.exports = h.exports /\ g.domain = h.domain /\ g.profile = h.profile
           /\ \A a \in Array \ {on} : g.arrays[a] = h.arrays[a]
           /\ ~r.ok => g = h
           /\ r.ok /\ c.verb = "raidCreate" => g.arrays[on] = c.arg
           /\ c.verb = "raidDestroy" => g.arrays[on] = None
           /\ r.ok /\ c.verb = "raidModify" => g.arrays[on] = Spared(h.arrays[on], c.arg)
  <1>1. h \in [arrays : Arrays, pools : Pools, foreign : Foreign, data : Datas, units : Units, enabled : Paths,
               mounts : Units, exports : Exports, domain : Domains, profile : Profile, busy : Paths]
    BY HostParts
  <1>2. on \in Array /\ h.arrays \in Arrays
    BY <1>1
  <1> DEFINE Put(v) == [h.arrays EXCEPT ![on] = v]
             gone   == [h.data EXCEPT ![on] = None]
             lost   == [h.data EXCEPT ![on] = IF c.arg THEN @ ELSE None]
             found  == [h.data EXCEPT ![on] = h.foreign.data]
             seenAs == [disks |-> h.foreign.disks, spare |-> None]
             moved  == Spared(h.arrays[on], c.arg)
  <1>3. \A v : Put(v)[on] = v /\ \A a \in Array \ {on} : Put(v)[a] = h.arrays[a]
    BY <1>2 DEF Arrays
  <1>4. CASE c.verb = "raidCreate"
    <2>1. \/ r = Refused(h)
          \/ r = Done([h EXCEPT !.arrays = Put(c.arg), !.data = gone])
      <3>1. r = RaidCreate(h, on, c.arg)
        BY <1>4, PerformIs
      <3>2. [h EXCEPT !.arrays = Put(c.arg)].data = h.data
        BY <1>1
      <3>3. QED BY <3>1, <3>2 DEF RaidCreate
    <2> HIDE DEF Put, gone, lost, found, seenAs, moved
    <2>2. \/ (~r.ok /\ g = h)
          \/ (r.ok /\ g = [h EXCEPT !.arrays = Put(c.arg), !.data = gone])
      BY <2>1, Returned
    <2>3. CASE ~r.ok /\ g = h
      BY <1>4, <2>3
    <2>4. CASE r.ok /\ g = [h EXCEPT !.arrays = Put(c.arg), !.data = gone]
      BY <1>1, <1>3, <1>4, <2>4
    <2>5. QED BY <2>2, <2>3, <2>4
  <1>5. CASE c.verb = "raidDestroy"
    <2>1. r = Done([h EXCEPT !.arrays = Put(None), !.data = lost])
      <3>1. r = RaidDestroy(h, on, c.arg)
        BY <1>5, PerformIs
      <3>2. [h EXCEPT !.arrays = Put(None)].data = h.data
        BY <1>1
      <3>3. QED BY <3>1, <3>2 DEF RaidDestroy
    <2> HIDE DEF Put, gone, lost, found, seenAs, moved
    <2>2. r.ok /\ g = [h EXCEPT !.arrays = Put(None), !.data = lost]
      BY <2>1, Returned
    <2>3. QED BY <1>1, <1>3, <1>5, <2>2
  <1>6. CASE c.verb = "raidModify"
    <2>1. \/ r = Refused(h)
          \/ r = Done([h EXCEPT !.arrays = Put(moved)])
      BY <1>6, PerformIs DEF RaidModify, Spared
    <2> HIDE DEF Put, gone, lost, found, seenAs, moved
    <2>2. \/ (~r.ok /\ g = h)
          \/ (r.ok /\ g = [h EXCEPT !.arrays = Put(moved)])
      BY <2>1, Returned
    <2>3. QED BY <1>1, <1>3, <1>6, <2>2 DEF moved
  <1>7. CASE c.verb = "raidImport"
    <2>1. \/ r = Refused(h)
          \/ r = Done([h EXCEPT !.arrays = Put(seenAs), !.data = found, !.foreign = None])
      <3>1. r = RaidImportApply(h, on)
        BY <1>7, PerformIs
      <3>2. /\ [h EXCEPT !.arrays = Put(seenAs)].data = h.data
            /\ [[h EXCEPT !.arrays = Put(seenAs)] EXCEPT !.data = found].foreign = h.foreign
        BY <1>1
      <3>3. QED BY <3>1, <3>2 DEF RaidImportApply
    <2> HIDE DEF Put, gone, lost, found, seenAs, moved
    <2>2. \/ (~r.ok /\ g = h)
          \/ r.ok /\ g = [h EXCEPT !.arrays = Put(seenAs), !.data = found, !.foreign = None]
      BY <2>1, Returned
    <2>3. CASE ~r.ok /\ g = h
      BY <1>7, <2>3
    <2>4. CASE r.ok /\ g = [h EXCEPT !.arrays = Put(seenAs), !.data = found, !.foreign = None]
      BY <1>1, <1>3, <1>7, <2>4
    <2>5. QED BY <2>2, <2>3, <2>4
  <1>8. QED BY <1>4, <1>5, <1>6, <1>7 DEF OnArrays

LEMMA PoolFrame ==
    ASSUME NEW h \in Host, NEW c, c.verb \in OnPools, NEW on \in PoolName, on = c.on,
           NEW r, r = Perform(h, c), NEW g, g = r.host
    PROVE  /\ g.arrays = h.arrays /\ g.data = h.data /\ g.units = h.units /\ g.mounts = h.mounts
           /\ g.enabled = h.enabled /\ g.exports = h.exports /\ g.domain = h.domain /\ g.profile = h.profile
           /\ \A n \in PoolName \ {on} : g.pools[n] = h.pools[n]
           /\ ~r.ok => g = h
           /\ r.ok => /\ c.verb = "poolCreate" => g.pools[on] = Fresh(c.arg)
                      /\ c.verb = "poolDelete" => g.pools[on] = None
                      /\ c.verb = "poolAdd" => g.pools[on] = Enlarged(h.pools[on], c.arg)
                      /\ c.verb = "poolRemove" => g.pools[on] = Reduced(h.pools[on], c.arg)
                      /\ c.verb = "poolSetActive" => g.pools[on] = Switched(h.pools[on], c.arg)
  <1>1. h \in [arrays : Arrays, pools : Pools, foreign : Foreign, data : Datas, units : Units, enabled : Paths,
               mounts : Units, exports : Exports, domain : Domains, profile : Profile, busy : Paths]
    BY HostParts
  <1> DEFINE new == CASE c.verb = "poolCreate"    -> Fresh(c.arg)
                      [] c.verb = "poolDelete"    -> None
                      [] c.verb = "poolAdd"       -> Enlarged(h.pools[on], c.arg)
                      [] c.verb = "poolRemove"    -> Reduced(h.pools[on], c.arg)
                      [] c.verb = "poolSetActive" -> Switched(h.pools[on], c.arg)
  <1>2. on \in PoolName /\ h.pools \in Pools
    BY <1>1
  <1> DEFINE put == [h.pools EXCEPT ![on] = new]
  <1>3. put[on] = new /\ \A n \in PoolName \ {on} : put[n] = h.pools[n]
    BY <1>2 DEF Pools
  <1>4. \/ r = Refused(h)
        \/ r = Done([h EXCEPT !.pools = put])
    <2>1. CASE c.verb = "poolCreate"
      BY <2>1, PerformIs DEF PoolCreate, Fresh
    <2>2. CASE c.verb = "poolDelete"
      BY <2>2, PerformIs DEF PoolDelete
    <2>3. CASE c.verb = "poolAdd"
      BY <2>3, PerformIs DEF PoolAdd, Enlarged
    <2>4. CASE c.verb = "poolRemove"
      BY <2>4, PerformIs DEF PoolRemove, Reduced
    <2>5. CASE c.verb = "poolSetActive"
      BY <2>5, PerformIs DEF PoolSetActive, Switched
    <2>6. QED BY <2>1, <2>2, <2>3, <2>4, <2>5 DEF OnPools
  <1>5. /\ g.arrays = h.arrays /\ g.data = h.data /\ g.units = h.units /\ g.mounts = h.mounts
        /\ g.enabled = h.enabled /\ g.exports = h.exports /\ g.domain = h.domain
        /\ g.profile = h.profile
        /\ \A n \in PoolName \ {on} : g.pools[n] = h.pools[n]
        /\ ~r.ok => g = h
        /\ r.ok => g.pools[on] = new
    <2> HIDE DEF new, put
    <2>1. \/ (~r.ok /\ g = h)
          \/ (r.ok /\ g = [h EXCEPT !.pools = put])
      BY <1>4, Returned
    <2>2. QED BY <1>1, <1>3, <2>1
  <1>6. /\ c.verb = "poolCreate" => new = Fresh(c.arg)
        /\ c.verb = "poolDelete" => new = None
        /\ c.verb = "poolAdd" => new = Enlarged(h.pools[on], c.arg)
        /\ c.verb = "poolRemove" => new = Reduced(h.pools[on], c.arg)
        /\ c.verb = "poolSetActive" => new = Switched(h.pools[on], c.arg)
    OBVIOUS
  <1> HIDE DEF new
  <1>7. QED BY <1>5, <1>6

LEMMA FsFrame ==
    ASSUME NEW h \in Host, NEW c, c.verb \in FsVerbs, NEW on \in Path, on = c.on,
           NEW r, r = Perform(h, c), NEW g, g = r.host
    PROVE  /\ g.arrays = h.arrays /\ g.pools = h.pools
           /\ g.exports = h.exports /\ g.domain = h.domain /\ g.profile = h.profile
           /\ \A p \in Path \ {on} : g.units[p] = h.units[p]
           /\ \A p \in Path \ {on} : g.mounts[p] = h.mounts[p]
           /\ \A p \in Path \ {on} : p \in g.enabled <=> p \in h.enabled
           /\ r.ok => /\ g.units[on] = CASE c.verb = "writeUnit" -> c.arg
                                           [] c.verb = "removeUnit" -> None
                                           [] OTHER -> h.units[on]
                      /\ g.mounts[on] = CASE c.verb = "stop" -> None
                                            [] c.verb = "enableNow" ->
                                                 IF h.mounts[on] # None THEN h.mounts[on] ELSE h.units[on]
                                            [] OTHER -> h.mounts[on]
                      /\ on \in g.enabled <=> CASE c.verb = "enableNow" -> TRUE
                                                  [] c.verb = "disable" -> FALSE
                                                  [] OTHER -> on \in h.enabled
           /\ ~r.ok => g.units = h.units /\ g.mounts = h.mounts /\ (c.verb # "enableNow" => g = h)
           /\ c.verb # "mkfs" => g.data = h.data
           /\ c.verb = "mkfs" =>
                 \A a \in Array : g.data[a] = IF r.ok /\ a \in Devices(c.arg) THEN on ELSE h.data[a]
  <1>1. h \in [arrays : Arrays, pools : Pools, foreign : Foreign, data : Datas, units : Units, enabled : Paths,
               mounts : Units, exports : Exports, domain : Domains, profile : Profile, busy : Paths]
    BY HostParts
  <1>2. on \in Path /\ h.units \in Units /\ h.mounts \in Units /\ h.enabled \in Paths
    BY <1>1
  <1> DEFINE Unit(v)  == [h.units EXCEPT ![on] = v]
             Mount(v) == [h.mounts EXCEPT ![on] = v]
  <1>3. \A v : /\ Unit(v)[on] = v /\ Mount(v)[on] = v
               /\ \A p \in Path \ {on} : Unit(v)[p] = h.units[p] /\ Mount(v)[p] = h.mounts[p]
    BY <1>2 DEF Units
  <1>4. CASE c.verb = "mkfs"
    <2> DEFINE new == [a \in Array |-> IF a \in Devices(c.arg) THEN on ELSE h.data[a]]
    <2>1. \/ r = Refused(h)
          \/ r = Done([h EXCEPT !.data = new])
      BY <1>4, PerformIs DEF Mkfs
    <2>2. \A a \in Array : new[a] = IF a \in Devices(c.arg) THEN on ELSE h.data[a]
      OBVIOUS
    <2> HIDE DEF new, Unit, Mount
    <2>3. \/ (~r.ok /\ g = h)
          \/ (r.ok /\ g = [h EXCEPT !.data = new])
      BY <2>1, Returned
    <2>4. QED BY <1>1, <1>4, <2>2, <2>3
  <1>5. CASE c.verb \in {"writeUnit", "removeUnit"}
    <2> DEFINE new == IF c.verb = "writeUnit" THEN c.arg ELSE None
    <2>1. r = Done([h EXCEPT !.units = Unit(new)])
      BY <1>5, PerformIs DEF WriteUnit, RemoveUnit
    <2>2. new = CASE c.verb = "writeUnit" -> c.arg
                  [] c.verb = "removeUnit" -> None
                  [] OTHER -> h.units[on]
      BY <1>5
    <2> HIDE DEF new, Unit, Mount
    <2>3. r.ok /\ g = [h EXCEPT !.units = Unit(new)]
      BY <2>1, Returned
    <2>4. QED BY <1>1, <1>3, <1>5, <2>2, <2>3
  <1>6. CASE c.verb = "enableNow"
    <2> DEFINE with == h.enabled \cup {on}
    <2>1. \/ r = Refused(h)
          \/ r = Done([h EXCEPT !.enabled = with]) /\ h.mounts[on] # None
          \/ /\ r = Done([h EXCEPT !.enabled = with, !.mounts = Mount(h.units[on])])
             /\ h.mounts[on] = None
          \/ r = Refused([h EXCEPT !.enabled = with])
      <3>1. r = EnableNow(h, on)
        BY <1>6, PerformIs
      <3>2. /\ [h EXCEPT !.enabled = with].mounts = h.mounts
            /\ [[h EXCEPT !.enabled = with] EXCEPT !.mounts = Mount(h.units[on])]
                  = [h EXCEPT !.enabled = with, !.mounts = Mount(h.units[on])]
        BY <1>1
      <3>3. QED BY <3>1, <3>2 DEF EnableNow, Mounted
    <2>2. on \in with /\ \A p \in Path \ {on} : p \in with <=> p \in h.enabled
      OBVIOUS
    <2> HIDE DEF with, Unit, Mount
    <2>3. \/ (~r.ok /\ g = h)
          \/ r.ok /\ g = [h EXCEPT !.enabled = with] /\ h.mounts[on] # None
          \/ /\ r.ok /\ g = [h EXCEPT !.enabled = with, !.mounts = Mount(h.units[on])]
             /\ h.mounts[on] = None
          \/ (~r.ok /\ g = [h EXCEPT !.enabled = with])
      BY <2>1, Returned
    <2>4. CASE ~r.ok /\ g = h
      BY <1>6, <2>4
    <2>5. CASE r.ok /\ g = [h EXCEPT !.enabled = with] /\ h.mounts[on] # None
      BY <1>1, <1>6, <2>2, <2>5
    <2>6. CASE r.ok /\ g = [h EXCEPT !.enabled = with, !.mounts = Mount(h.units[on])] /\ h.mounts[on] = None
      BY <1>1, <1>3, <1>6, <2>2, <2>6
    <2>7. CASE ~r.ok /\ g = [h EXCEPT !.enabled = with]
      BY <1>1, <1>6, <2>2, <2>7
    <2>8. QED BY <2>3, <2>4, <2>5, <2>6, <2>7
  <1>7. CASE c.verb = "stop"
    <2>1. \/ r = Refused(h)
          \/ r = Done([h EXCEPT !.mounts = Mount(None)])
      BY <1>7, PerformIs DEF Stop
    <2> HIDE DEF Unit, Mount
    <2>2. \/ (~r.ok /\ g = h)
          \/ (r.ok /\ g = [h EXCEPT !.mounts = Mount(None)])
      BY <2>1, Returned
    <2>3. QED BY <1>1, <1>3, <1>7, <2>2
  <1>8. CASE c.verb = "disable"
    <2> DEFINE without == h.enabled \ {on}
    <2>1. \/ r = Refused(h)
          \/ r = Done([h EXCEPT !.enabled = without])
      BY <1>8, PerformIs DEF Disable
    <2>2. on \notin without /\ \A p \in Path \ {on} : p \in without <=> p \in h.enabled
      OBVIOUS
    <2> HIDE DEF without, Unit, Mount
    <2>3. \/ (~r.ok /\ g = h)
          \/ (r.ok /\ g = [h EXCEPT !.enabled = without])
      BY <2>1, Returned
    <2>4. QED BY <1>1, <1>8, <2>2, <2>3
  <1>9. CASE c.verb = "growfs"
    <2>1. r = Refused(h) \/ r = Done(h)
      BY <1>9, PerformIs DEF Growfs
    <2>2. (~r.ok /\ g = h) \/ (r.ok /\ g = h)
      BY <2>1, Returned
    <2>3. QED BY <1>9, <2>2
  <1>10. QED BY <1>4, <1>5, <1>6, <1>7, <1>8, <1>9 DEF FsVerbs

LEMMA NfsFrame ==
    ASSUME NEW h \in Host, NEW c, c.verb \in NfsVerbs, NEW on, on = c.on,
           NEW r, r = Perform(h, c), NEW g, g = r.host
    PROVE  /\ g.arrays = h.arrays /\ g.pools = h.pools /\ g.data = h.data /\ g.units = h.units
           /\ g.mounts = h.mounts /\ g.enabled = h.enabled
           /\ ~r.ok => g = h
           /\ c.verb \notin {"addExport", "updateExport", "removeExport"} => g.exports = h.exports
           /\ c.verb \in {"addExport", "updateExport", "removeExport"} /\ on \in Path =>
                 /\ \A p \in Path \ {on} : g.exports[p] = h.exports[p]
                 /\ r.ok => g.exports[on] = IF c.verb = "removeExport" THEN None ELSE c.arg
                 /\ h.exports[on] = None /\ c.verb # "addExport" => ~r.ok
           /\ g.domain = IF r.ok /\ c.verb = "setIdmapDomain" THEN c.arg ELSE h.domain
           /\ g.profile = IF c.verb = "renderProfile" THEN c.arg ELSE h.profile
  <1>1. h \in [arrays : Arrays, pools : Pools, foreign : Foreign, data : Datas, units : Units, enabled : Paths,
               mounts : Units, exports : Exports, domain : Domains, profile : Profile, busy : Paths]
    BY HostParts
  <1>2. CASE c.verb \in {"addExport", "updateExport", "removeExport"}
    <2> DEFINE new == IF c.verb = "removeExport" THEN None ELSE c.arg
               put == [h.exports EXCEPT ![on] = new]
    <2>1. \/ r = Refused(h) /\ c.verb # "addExport"
          \/ /\ r = Done([h EXCEPT !.exports = put])
             /\ c.verb # "addExport" => h.exports[on] # None
      BY <1>2, PerformIs DEF AddExport, UpdateExport, RemoveExport, Exported
    <2>2. on \in Path => put[on] = new /\ \A p \in Path \ {on} : put[p] = h.exports[p]
      BY <1>1 DEF Exports
    <2>3. new = IF c.verb = "removeExport" THEN None ELSE c.arg
      OBVIOUS
    <2> HIDE DEF new, put
    <2>4. \/ (~r.ok /\ g = h) /\ c.verb # "addExport"
          \/ /\ (r.ok /\ g = [h EXCEPT !.exports = put])
             /\ c.verb # "addExport" => h.exports[on] # None
      BY <2>1, Returned
    <2>5. QED BY <1>1, <1>2, <2>2, <2>3, <2>4
  <1>3. CASE c.verb = "setIdmapDomain"
    <2>1. \/ r = Refused(h)
          \/ r = Done([h EXCEPT !.domain = c.arg])
      BY <1>3, PerformIs DEF SetIdmapDomain
    <2>2. \/ (~r.ok /\ g = h)
          \/ (r.ok /\ g = [h EXCEPT !.domain = c.arg])
      BY <2>1, Returned
    <2>3. QED BY <1>1, <1>3, <2>2
  <1>4. CASE c.verb = "renderProfile"
    <2>1. r = Done([h EXCEPT !.profile = c.arg])
      BY <1>4, PerformIs DEF RenderProfile
    <2>2. r.ok /\ g = [h EXCEPT !.profile = c.arg]
      BY <2>1, Returned
    <2>3. QED BY <1>1, <1>4, <2>2
  <1>5. QED BY <1>2, <1>3, <1>4 DEF NfsVerbs

-----------------------------------------------------------------------------
(***************************************************************************)
(* The part of a job.                                                      *)
(***************************************************************************)
\* What a command of each daemon leaves alone.
LEMMA RaidAside ==
    ASSUME NEW h \in Host, NEW c, c.verb \in OnArrays, NEW a \in Array, c.on = a, NEW g, g = Perform(h, c).host
    PROVE  /\ g.pools = h.pools /\ g.units = h.units /\ g.mounts = h.mounts /\ g.enabled = h.enabled
           /\ g.exports = h.exports /\ g.domain = h.domain /\ g.profile = h.profile
           /\ \A b \in Array \ {a} : g.arrays[b] = h.arrays[b]
  <1> DEFINE r == Perform(h, c)
  <1>1. r = Perform(h, c) /\ g = r.host /\ a = c.on
    OBVIOUS
  <1> HIDE DEF r
  <1>2. QED BY <1>1, RaidFrame

LEMMA PoolAside ==
    ASSUME NEW h \in Host, NEW c, c.verb \in OnPools, NEW n \in PoolName, c.on = n, NEW g, g = Perform(h, c).host
    PROVE  /\ g.arrays = h.arrays /\ g.data = h.data /\ g.units = h.units /\ g.mounts = h.mounts
           /\ g.enabled = h.enabled /\ g.exports = h.exports /\ g.domain = h.domain /\ g.profile = h.profile
           /\ \A m \in PoolName \ {n} : g.pools[m] = h.pools[m]
  <1> DEFINE r == Perform(h, c)
  <1>1. r = Perform(h, c) /\ g = r.host /\ n = c.on
    OBVIOUS
  <1> HIDE DEF r
  <1>2. QED BY <1>1, PoolFrame

LEMMA FsAside ==
    ASSUME NEW h \in Host, NEW c, c.verb \in FsVerbs, NEW p \in Path, c.on = p, NEW g, g = Perform(h, c).host
    PROVE  /\ g.arrays = h.arrays /\ g.pools = h.pools
           /\ g.exports = h.exports /\ g.domain = h.domain /\ g.profile = h.profile
           /\ \A q \in Path \ {p} : g.units[q] = h.units[q]
           /\ \A q \in Path \ {p} : g.mounts[q] = h.mounts[q]
           /\ \A q \in Path \ {p} : q \in g.enabled <=> q \in h.enabled
  <1> DEFINE r == Perform(h, c)
  <1>1. r = Perform(h, c) /\ g = r.host /\ p = c.on
    OBVIOUS
  <1> HIDE DEF r
  <1>2. QED BY <1>1, FsFrame

LEMMA PartTyped ==
    ASSUME NEW h \in Host, NEW j \in Job
    PROVE  Part(j, h) \in Parts
  <1>1. /\ h.arrays \in Arrays /\ h.pools \in Pools /\ h.units \in Units /\ h.mounts \in Units
        /\ h.data \in Datas /\ h.exports \in Exports /\ h.domain \in Domains /\ h.profile \in Profile
    BY HostParts
  <1>2. /\ j.kind \in ArrayKinds => j.array \in Array
        /\ j.kind \in Pooling => PoolOf(j) \in PoolName
        /\ j.kind \in FsKinds \cup ShareKinds => j.path \in Path
        /\ j.kind = "fs.create" => j.unit.what \in Array
    <2>1. j.kind = "fs.create" => j.unit.what \in Array
      BY JobShape DEF UnitText
    <2>2. QED BY <2>1, JobShape DEF Pooling, PoolOf, PoolName, ArrayKinds
  <1>3. /\ (IF j.kind \in ArrayKinds THEN h.arrays[j.array] ELSE None) \in ArrayState \cup {None}
        /\ (IF j.kind \in Pooling THEN h.pools[PoolOf(j)] ELSE None) \in PoolState \cup {None}
        /\ (IF j.kind = "fs.create" THEN h.data[j.unit.what] ELSE None) \in Path \cup {None}
    BY <1>1, <1>2 DEF Arrays, Pools, Datas
  <1>4. /\ (IF j.kind \in FsKinds THEN h.units[j.path] ELSE None) \in UnitText \cup {None}
        /\ (IF j.kind \in FsKinds THEN h.mounts[j.path] ELSE None) \in UnitText \cup {None}
        /\ (j.kind \in FsKinds \ {"fs.unmanage"} /\ j.path \in h.enabled) \in BOOLEAN
        /\ (IF j.kind \in ShareKinds THEN h.exports[j.path] ELSE None) \in Rule \cup {None}
    BY <1>1, <1>2 DEF Units, Exports
  <1>5. /\ (IF j.kind = "nfs-idmap.set" THEN h.domain ELSE None) \in Domain \cup {None}
        /\ (IF j.kind = "nfs-profile.update" THEN h.profile ELSE None) \in Profile \cup {None}
    BY <1>1 DEF Domains
  <1>6. QED BY <1>3, <1>4, <1>5 DEF Part, Parts

\* Two hosts that agree on a job's part of them, field by field.
LEMMA SamePart ==
    ASSUME NEW j, NEW h, NEW g,
           j.kind \in ArrayKinds => g.arrays[j.array] = h.arrays[j.array],
           j.kind \in Pooling => g.pools[PoolOf(j)] = h.pools[PoolOf(j)],
           j.kind \in FsKinds => /\ g.units[j.path] = h.units[j.path] /\ g.mounts[j.path] = h.mounts[j.path]
                                 /\ j.path \in g.enabled <=> j.path \in h.enabled,
           j.kind = "fs.create" => g.data[j.unit.what] = h.data[j.unit.what],
           j.kind \in ShareKinds => g.exports[j.path] = h.exports[j.path],
           j.kind = "nfs-idmap.set" => g.domain = h.domain,
           j.kind = "nfs-profile.update" => g.profile = h.profile
    PROVE  Part(j, g) = Part(j, h)
  <1>1. (j.kind \in FsKinds \ {"fs.unmanage"} /\ j.path \in g.enabled)
            = (j.kind \in FsKinds \ {"fs.unmanage"} /\ j.path \in h.enabled)
    OBVIOUS
  <1>2. QED BY <1>1 DEF Part

\* A task lets its host be, as far as another task's part of it goes.
Unshared(t) ==
    /\ task[t].job.kind = "fs.create" => exposed = {}
    /\ \A u \in Task : ~OnItsPool(t, u) /\ ~OnItsPool(u, t) /\ ~OnItsPath(t, u)

LEMMA Undisturbed ==
    ASSUME MountInv, NEW t \in Task, NEW u \in Task, t # u, Begun(task[t]), Begun(task[u]), Unshared(t),
           NEW c, Suits(c, task[u].job, task[u].stash, task[u].phase = "rollback"),
           NEW r, r = Perform(host, c)
    PROVE  Part(task[t].job, r.host) = Part(task[t].job, host)
  <1> DEFINE j == task[t].job
             i == task[u].job
             h == host
             g == r.host
             s == task[u].stash
             back == task[u].phase = "rollback"
  <1>1. Typed /\ h \in Host /\ j \in Job /\ i \in Job /\ Disjoint /\ Reaching(t) /\ Reaching(u)
    BY DEF MountInv, Typed, TasksTyped, TaskTyped
  <1>2. Own(j) \cap Own(i) = {}
    BY <1>1, OwnApart
  <1>3. Suits(c, i, s, back) /\ c.verb \in RaidVerbs \cup FsVerbs \cup NfsVerbs
    BY DEF Suits
  <1>4. /\ j.kind \in Pooling /\ i.kind \in Pooling => PoolOf(j) # PoolOf(i)
    <2>1. CASE j.kind \in PoolKinds /\ i.kind \in PoolKinds
      <3>1. Own(j) = {<<"Pool", j.pool>>} /\ Own(i) = {<<"Pool", i.pool>>}
        BY <2>1 DEF Own, PoolKinds, FsKinds, ArrayKinds
      <3>2. QED BY <1>2, <2>1, <3>1 DEF PoolOf
    <2>2. CASE j.kind \in PoolKinds /\ i.kind \in Pooling \ PoolKinds
      BY <2>2 DEF PoolOf, Pooling, PoolKinds, Unshared, OnItsPool
    <2>3. CASE j.kind \in Pooling \ PoolKinds /\ i.kind \in PoolKinds
      BY <2>3 DEF PoolOf, Pooling, PoolKinds, Unshared, OnItsPool
    <2>4. CASE j.kind \in Pooling \ PoolKinds /\ i.kind \in Pooling \ PoolKinds
      <3>1. Own(j) = {<<"XiraidArray", j.array>>} /\ Own(i) = {<<"XiraidArray", i.array>>}
        BY <2>4 DEF Own, Pooling, PoolKinds, ArrayKinds
      <3>2. QED BY <1>2, <2>4, <3>1 DEF PoolOf
    <2>5. QED BY <2>1, <2>2, <2>3, <2>4
  <1>5. j.kind \in ArrayKinds /\ i.kind \in ArrayKinds => j.array # i.array
    BY <1>2 DEF Own
  <1>6. j.kind \in FsKinds /\ i.kind \in FsKinds => j.path # i.path
    BY <1>2 DEF Own, FsKinds, ArrayKinds
  <1>7. j.kind \in ShareKinds /\ i.kind \in ShareKinds => j.path # i.path
    <2>1. j.kind \in ShareKinds /\ i.kind \in ShareKinds => j.id # i.id
      BY <1>2 DEF Own, ShareKinds, PoolKinds, FsKinds, ArrayKinds
    <2>2. QED BY <2>1 DEF Unshared, OnItsPath, ShareKinds
  <1>8. ~(j.kind = "nfs-idmap.set" /\ i.kind = "nfs-idmap.set")
        /\ ~(j.kind = "nfs-profile.update" /\ i.kind = "nfs-profile.update")
    BY <1>2 DEF Own, ShareKinds, PoolKinds, FsKinds, ArrayKinds
  <1>9. /\ j.kind \in ArrayKinds => j.array \in Array
        /\ j.kind \in Pooling => PoolOf(j) \in PoolName
        /\ j.kind \in FsKinds \cup ShareKinds => j.path \in Path
        /\ j.kind = "fs.create" => j.unit.what \in Array /\ j.unit.what \in Devices(j.unit)
    <2>1. j.kind = "fs.create" => j.unit.what \in Array /\ j.unit.what \in Devices(j.unit)
      BY <1>1, UnusedArrays
    <2>2. QED BY <1>1, <2>1, JobShape DEF Pooling, PoolOf, PoolName, ArrayKinds
  <1>10. ASSUME j.kind = "fs.create" PROVE g.data[j.unit.what] = h.data[j.unit.what]
    <2>1. PICK a \in Array : a = j.unit.what
      BY <1>9, <1>10
    <2>2. exposed = {} /\ a \in Reach(t)
      BY <1>1, <1>9, <1>10, <2>1 DEF Unshared, Reaching
    <2>3. <<"XiraidArray", a>> \in Leased(t)
      BY <2>2 DEF Reach
    <2>4. <<"XiraidArray", a>> \notin Leased(u)
      BY <1>1, <2>3 DEF Disjoint
    <2>5. i.kind \in ArrayKinds => i.array # a
      <3>1. Own(i) \subseteq Leased(u)
        BY <1>1, OwnApart
      <3>2. QED BY <2>4, <3>1 DEF Own
    <2>6. c.verb = "mkfs" => a \notin Devices(c.arg)
      <3>1. c.verb = "mkfs" => i.kind = "fs.create" /\ c.arg = i.unit
        BY <1>3 DEF Suits, FsSuits
      <3>2. i.kind = "fs.create" => Devices(i.unit) \subseteq Reach(u)
        BY <1>1 DEF Reaching
      <3>3. a \notin Reach(u)
        BY <2>2, <2>4 DEF Reach
      <3>4. QED BY <3>1, <3>2, <3>3
    <2>7. c.verb \in OnArrays => i.kind \in ArrayKinds /\ c.on = i.array /\ c.on \in Array
      BY <1>1, <1>3, JobShape DEF Suits, RaidSuits, OnArrays, ArrayKinds
    <2>8. OnArray(h, g, c, a)
      BY <1>1, <1>3, <2>7, ArrayEffects DEF Suits, RaidSuits, OnArrays
    <2>9. QED BY <2>1, <2>5, <2>6, <2>7, <2>8 DEF OnArray, OnArrays
  <1>a. g = Perform(h, c).host
    OBVIOUS
  <1> HIDE DEF j, i, h, s, back
  <1>11. CASE c.verb \in OnArrays
    <2>1. i.kind \in ArrayKinds /\ c.on = i.array
      BY <1>3, <1>11 DEF Suits, RaidSuits, OnArrays, ArrayKinds
    <2>2. i.array \in Array
      BY <1>1, <2>1, JobShape
    <2>3. /\ g.pools = h.pools /\ g.units = h.units /\ g.mounts = h.mounts /\ g.enabled = h.enabled
          /\ g.exports = h.exports /\ g.domain = h.domain /\ g.profile = h.profile
          /\ \A a \in Array \ {i.array} : g.arrays[a] = h.arrays[a]
      BY <1>1, <1>11, <1>a, <2>1, <2>2, RaidAside
    <2> HIDE DEF g
    <2>4. j.kind \in ArrayKinds => g.arrays[j.array] = h.arrays[j.array]
      BY <1>5, <1>9, <2>1, <2>3
    <2>5. Part(j, g) = Part(j, h)
      BY <1>10, <2>3, <2>4, SamePart DEF g
    <2>6. QED BY <2>5 DEF g, h, j
  <1>12. CASE c.verb \in OnPools
    <2>1. i.kind \in Pooling /\ c.on = PoolOf(i) /\ c.on \in PoolName
      BY <1>3, <1>12 DEF Suits, PoolSuits
    <2>2. /\ g.arrays = h.arrays /\ g.units = h.units /\ g.mounts = h.mounts /\ g.enabled = h.enabled
          /\ g.exports = h.exports /\ g.domain = h.domain /\ g.profile = h.profile
          /\ \A n \in PoolName \ {PoolOf(i)} : g.pools[n] = h.pools[n]
      BY <1>1, <1>12, <1>a, <2>1, PoolAside
    <2> HIDE DEF g
    <2>3. j.kind \in Pooling => g.pools[PoolOf(j)] = h.pools[PoolOf(j)]
      BY <1>4, <1>9, <2>1, <2>2
    <2>4. Part(j, g) = Part(j, h)
      BY <1>10, <2>2, <2>3, SamePart DEF g
    <2>5. QED BY <2>4 DEF g, h, j
  <1>13. CASE c.verb \in FsVerbs
    <2>1. i.kind \in FsKinds /\ c.on = i.path
      BY <1>3, <1>13 DEF Suits, FsSuits, FsVerbs, FsKinds, Mounting, Remounting
    <2>2. i.path \in Path
      BY <1>1, <2>1, JobShape
    <2> DEFINE p == i.path
    <2>3. p \in Path /\ c.on = p
      BY <2>1, <2>2
    <2> HIDE DEF p, g
    <2>a. /\ g.arrays = h.arrays /\ g.pools = h.pools
          /\ g.exports = h.exports /\ g.domain = h.domain /\ g.profile = h.profile
          /\ \A q \in Path \ {p} : g.units[q] = h.units[q]
          /\ \A q \in Path \ {p} : g.mounts[q] = h.mounts[q]
          /\ \A q \in Path \ {p} : q \in g.enabled <=> q \in h.enabled
      BY <1>1, <1>13, <1>a, <2>3, FsAside
    <2>4. j.kind \in FsKinds => /\ g.units[j.path] = h.units[j.path] /\ g.mounts[j.path] = h.mounts[j.path]
                                /\ j.path \in g.enabled <=> j.path \in h.enabled
      BY <1>6, <1>9, <2>1, <2>a DEF p
    <2>5. Part(j, g) = Part(j, h)
      BY <1>10, <2>a, <2>4, SamePart DEF g
    <2>6. QED BY <2>5 DEF g, h, j
  <1>14. CASE c.verb \in NfsVerbs
    <2>1. /\ c.verb \in {"addExport", "updateExport", "removeExport"} =>
                i.kind \in ShareKinds /\ c.on = i.path /\ c.on \in Path
          /\ c.verb = "setIdmapDomain" => i.kind = "nfs-idmap.set"
          /\ c.verb = "renderProfile" => i.kind = "nfs-profile.update"
      BY <1>3 DEF Suits, NfsSuits
    <2>2. /\ g.arrays = h.arrays /\ g.pools = h.pools /\ g.data = h.data /\ g.units = h.units
          /\ g.mounts = h.mounts /\ g.enabled = h.enabled
          /\ c.verb \notin {"addExport", "updateExport", "removeExport"} => g.exports = h.exports
          /\ c.verb \in {"addExport", "updateExport", "removeExport"} =>
                \A p \in Path \ {c.on} : g.exports[p] = h.exports[p]
          /\ c.verb # "setIdmapDomain" => g.domain = h.domain
          /\ c.verb # "renderProfile" => g.profile = h.profile
      BY <1>1, <1>14, <2>1, NfsFrame DEF h
    <2> HIDE DEF g
    <2>3. j.kind \in ShareKinds => g.exports[j.path] = h.exports[j.path]
      BY <1>7, <1>9, <2>1, <2>2
    <2>4. /\ j.kind = "nfs-idmap.set" => g.domain = h.domain
          /\ j.kind = "nfs-profile.update" => g.profile = h.profile
      BY <1>8, <2>1, <2>2
    <2>5. Part(j, g) = Part(j, h)
      BY <2>2, <2>3, <2>4, SamePart
    <2>6. QED BY <2>5 DEF g, h, j
  <1>15. QED BY <1>3, <1>11, <1>12, <1>13, <1>14 DEF RaidVerbs, OnArrays, OnPools

\* What a part is made of.
LEMMA PartFields ==
    ASSUME NEW j, NEW h, NEW x, x = Part(j, h)
    PROVE  /\ x.array = IF j.kind \in ArrayKinds THEN h.arrays[j.array] ELSE None
           /\ x.pool = IF j.kind \in Pooling THEN h.pools[PoolOf(j)] ELSE None
           /\ x.unit = IF j.kind \in FsKinds THEN h.units[j.path] ELSE None
           /\ x.mount = IF j.kind \in FsKinds THEN h.mounts[j.path] ELSE None
           /\ x.on = (j.kind \in FsKinds \ {"fs.unmanage"} /\ j.path \in h.enabled)
           /\ x.data = IF j.kind = "fs.create" THEN h.data[j.unit.what] ELSE None
           /\ x.export = IF j.kind \in ShareKinds THEN h.exports[j.path] ELSE None
           /\ x.domain = IF j.kind = "nfs-idmap.set" THEN h.domain ELSE None
           /\ x.profile = IF j.kind = "nfs-profile.update" THEN h.profile ELSE None
  BY DEF Part

\* Two records with the fields of a part.
IsPart(x) == x = [array |-> x.array, pool |-> x.pool, unit |-> x.unit, mount |-> x.mount, on |-> x.on,
                  data |-> x.data, export |-> x.export, domain |-> x.domain, profile |-> x.profile]

LEMMA ArePart ==
    ASSUME NEW j, NEW h, NEW x, NEW c
    PROVE  IsPart(Part(j, h)) /\ IsPart(Eff(x, c))
  <1>1. IsPart(Part(j, h))
    BY DEF IsPart, Part
  <1>2. IsPart(Eff(x, c))
    BY DEF IsPart, Eff
  <1>3. QED BY <1>1, <1>2

LEMMA PartsEqual ==
    ASSUME NEW x, NEW y, IsPart(x), IsPart(y), x.array = y.array, x.pool = y.pool, x.unit = y.unit,
           x.mount = y.mount, x.on = y.on, x.data = y.data, x.export = y.export, x.domain = y.domain,
           x.profile = y.profile
    PROVE  x = y
  BY DEF IsPart

\* What a call leaves as it was, by its verb.
LEMMA EffRaid ==
    ASSUME NEW x, NEW c, NEW y, y = Eff(x, c), c.verb \in {"raidCreate", "raidDestroy", "raidModify"}
    PROVE  /\ y.pool = x.pool /\ y.unit = x.unit /\ y.mount = x.mount /\ y.on = x.on /\ y.data = x.data
           /\ y.export = x.export /\ y.domain = x.domain /\ y.profile = x.profile
           /\ c.verb = "raidCreate" => y.array = c.arg
           /\ c.verb = "raidDestroy" => y.array = None
           /\ c.verb = "raidModify" => y.array = Spared(x.array, c.arg)
  BY DEF Eff

LEMMA EffPool ==
    ASSUME NEW x, NEW c, NEW y, y = Eff(x, c), c.verb \in OnPools
    PROVE  /\ y.array = x.array /\ y.unit = x.unit /\ y.mount = x.mount /\ y.on = x.on /\ y.data = x.data
           /\ y.export = x.export /\ y.domain = x.domain /\ y.profile = x.profile
           /\ c.verb = "poolCreate" => y.pool = Fresh(c.arg)
           /\ c.verb = "poolDelete" => y.pool = None
           /\ c.verb = "poolAdd" => y.pool = Enlarged(x.pool, c.arg)
           /\ c.verb = "poolRemove" => y.pool = Reduced(x.pool, c.arg)
           /\ c.verb = "poolSetActive" => y.pool = Switched(x.pool, c.arg)
  BY DEF Eff, OnPools

LEMMA EffFs ==
    ASSUME NEW x, NEW c, NEW y, y = Eff(x, c), c.verb \in FsVerbs
    PROVE  /\ y.array = x.array /\ y.pool = x.pool
           /\ y.export = x.export /\ y.domain = x.domain /\ y.profile = x.profile
           /\ y.data = IF c.verb = "mkfs" THEN c.on ELSE x.data
  BY DEF Eff, FsVerbs

LEMMA EffUnit ==
    ASSUME NEW x, NEW c, NEW y, y = Eff(x, c), c.verb \in FsVerbs
    PROVE  /\ c.verb = "writeUnit" => y.unit = c.arg
           /\ c.verb = "removeUnit" => y.unit = None
           /\ c.verb \notin {"writeUnit", "removeUnit"} => y.unit = x.unit
           /\ c.verb = "stop" => y.mount = None
           /\ c.verb = "enableNow" => y.mount = IF x.mount # None THEN x.mount ELSE x.unit
           /\ c.verb \notin {"stop", "enableNow"} => y.mount = x.mount
  BY DEF Eff, FsVerbs

LEMMA EffOn ==
    ASSUME NEW x, NEW c, NEW y, y = Eff(x, c), c.verb \in FsVerbs
    PROVE  /\ c.verb = "enableNow" => y.on
           /\ c.verb = "disable" => y.on = FALSE
           /\ c.verb \notin {"disable", "enableNow"} => y.on = x.on
  BY DEF Eff, FsVerbs

LEMMA EffNfs ==
    ASSUME NEW x, NEW c, NEW y, y = Eff(x, c), c.verb \in NfsVerbs
    PROVE  /\ y.array = x.array /\ y.pool = x.pool /\ y.unit = x.unit /\ y.mount = x.mount /\ y.on = x.on
           /\ y.data = x.data
           /\ c.verb \in {"addExport", "updateExport"} => y.export = c.arg
           /\ c.verb = "removeExport" => y.export = None
           /\ c.verb \notin {"addExport", "updateExport", "removeExport"} => y.export = x.export
           /\ y.domain = IF c.verb = "setIdmapDomain" THEN c.arg ELSE x.domain
           /\ y.profile = IF c.verb = "renderProfile" THEN c.arg ELSE x.profile
  BY DEF Eff, NfsVerbs

\* The kinds of a call's job, and what the call is about.
LEMMA SuitKind ==
    ASSUME NEW j \in Job, NEW s, NEW back, NEW c, Suits(c, j, s, back)
    PROVE  /\ c.verb \in OnArrays \cup OnPools \cup FsVerbs \cup NfsVerbs
           /\ c.verb \in OnArrays => j.kind \in ArrayKinds /\ c.on = j.array /\ j.array \in Array
           /\ c.verb = "raidImport" => j.kind = "xiraid.array.import"
           /\ c.verb \in OnPools => j.kind \in Pooling /\ c.on = PoolOf(j) /\ PoolOf(j) \in PoolName
           /\ c.verb \in FsVerbs => j.kind \in FsKinds /\ c.on = j.path /\ j.path \in Path
           /\ c.verb = "mkfs" => j.kind = "fs.create" /\ c.arg = j.unit
           /\ c.verb = "enableNow" => j.kind \in Mounting
           /\ c.verb \in {"addExport", "updateExport", "removeExport"} =>
                 j.kind \in ShareKinds /\ c.on = j.path /\ j.path \in Path
           /\ c.verb = "setIdmapDomain" => j.kind = "nfs-idmap.set"
           /\ c.verb = "renderProfile" => j.kind = "nfs-profile.update"
  <1>1. c.verb \in OnArrays \cup OnPools \cup FsVerbs \cup NfsVerbs
    BY DEF Suits, RaidVerbs, OnArrays, OnPools
  <1>2. c.verb \in OnArrays => j.kind \in ArrayKinds /\ c.on = j.array
    BY DEF Suits, RaidSuits, OnArrays, ArrayKinds
  <1>3. c.verb \in FsVerbs => j.kind \in FsKinds /\ c.on = j.path
    BY DEF Suits, FsSuits, FsVerbs, FsKinds, Mounting, Remounting
  <1>4. QED BY <1>1, <1>2, <1>3, JobShape DEF Suits, RaidSuits, PoolSuits, FsSuits, NfsSuits

\* A call of a task's own that succeeds does to the task's part what it is for; of the
\* calls that fail, a mount alone may leave something behind.  An import is apart: the
\* array it brings is what the host has of it.
LEMMA OwnEffect ==
    ASSUME NEW h \in Host, NEW j \in Job, NEW s, NEW back, NEW c, Suits(c, j, s, back),
           c.verb # "raidImport", NEW r, r = Perform(h, c), r.ok
    PROVE  Part(j, r.host) = Eff(Part(j, h), c)
  <1> DEFINE g == r.host
             x == Part(j, h)
             y == Part(j, g)
             z == Eff(x, c)
  <1>1. /\ IsPart(y) /\ IsPart(z)
    BY ArePart
  <1>2. x = Part(j, h) /\ y = Part(j, g) /\ z = Eff(x, c) /\ g = r.host
    OBVIOUS
  <1> HIDE DEF x, y, z, g
  <1>3. CASE c.verb \in OnArrays
    <2>1. j.kind \in ArrayKinds /\ c.on = j.array /\ j.array \in Array /\ c.verb \in OnArrays \ {"raidImport"}
      BY <1>3, SuitKind
    <2>2. /\ g.pools = h.pools /\ g.units = h.units /\ g.mounts = h.mounts /\ g.enabled = h.enabled
          /\ g.exports = h.exports /\ g.domain = h.domain /\ g.profile = h.profile
          /\ c.verb = "raidCreate" => g.arrays[j.array] = c.arg
          /\ c.verb = "raidDestroy" => g.arrays[j.array] = None
          /\ c.verb = "raidModify" => g.arrays[j.array] = Spared(h.arrays[j.array], c.arg)
      BY <1>2, <1>3, <2>1, RaidFrame
    <2>3. j.kind \notin FsKinds \cup ShareKinds \cup {"nfs-idmap.set", "nfs-profile.update", "fs.create"}
      BY <2>1 DEF ArrayKinds, FsKinds, ShareKinds
    <2>4. c.verb \in {"raidCreate", "raidDestroy", "raidModify"}
      BY <2>1 DEF OnArrays
    <2>5. /\ z.pool = x.pool /\ z.unit = x.unit /\ z.mount = x.mount /\ z.on = x.on /\ z.data = x.data
          /\ z.export = x.export /\ z.domain = x.domain /\ z.profile = x.profile
          /\ c.verb = "raidCreate" => z.array = c.arg
          /\ c.verb = "raidDestroy" => z.array = None
          /\ c.verb = "raidModify" => z.array = Spared(x.array, c.arg)
      BY <1>2, <2>4, EffRaid
    <2>6. x.array = h.arrays[j.array] /\ y.array = g.arrays[j.array]
      BY <1>2, <2>1, PartFields
    <2>7. y.array = z.array
      BY <2>2, <2>4, <2>5, <2>6
    <2>8. /\ y.pool = x.pool /\ y.unit = x.unit /\ y.mount = x.mount /\ y.on = x.on /\ y.data = x.data
          /\ y.export = x.export /\ y.domain = x.domain /\ y.profile = x.profile
      BY <1>2, <2>2, <2>3 DEF Part
    <2>9. QED BY <1>1, <1>2, <2>5, <2>7, <2>8, PartsEqual
  <1>4. CASE c.verb \in OnPools
    <2>1. j.kind \in Pooling /\ c.on = PoolOf(j) /\ PoolOf(j) \in PoolName
      BY <1>4, SuitKind
    <2>2. /\ g.arrays = h.arrays /\ g.data = h.data /\ g.units = h.units /\ g.mounts = h.mounts
          /\ g.enabled = h.enabled /\ g.exports = h.exports /\ g.domain = h.domain /\ g.profile = h.profile
          /\ c.verb = "poolCreate" => g.pools[PoolOf(j)] = Fresh(c.arg)
          /\ c.verb = "poolDelete" => g.pools[PoolOf(j)] = None
          /\ c.verb = "poolAdd" => g.pools[PoolOf(j)] = Enlarged(h.pools[PoolOf(j)], c.arg)
          /\ c.verb = "poolRemove" => g.pools[PoolOf(j)] = Reduced(h.pools[PoolOf(j)], c.arg)
          /\ c.verb = "poolSetActive" => g.pools[PoolOf(j)] = Switched(h.pools[PoolOf(j)], c.arg)
      BY <1>2, <1>4, <2>1, PoolFrame
    <2>3. /\ z.array = x.array /\ z.unit = x.unit /\ z.mount = x.mount /\ z.on = x.on /\ z.data = x.data
          /\ z.export = x.export /\ z.domain = x.domain /\ z.profile = x.profile
          /\ c.verb = "poolCreate" => z.pool = Fresh(c.arg)
          /\ c.verb = "poolDelete" => z.pool = None
          /\ c.verb = "poolAdd" => z.pool = Enlarged(x.pool, c.arg)
          /\ c.verb = "poolRemove" => z.pool = Reduced(x.pool, c.arg)
          /\ c.verb = "poolSetActive" => z.pool = Switched(x.pool, c.arg)
      BY <1>2, <1>4, EffPool
    <2>4. x.pool = h.pools[PoolOf(j)] /\ y.pool = g.pools[PoolOf(j)]
      BY <1>2, <2>1, PartFields
    <2>5. y.pool = z.pool
      BY <1>4, <2>2, <2>3, <2>4 DEF OnPools
    <2>6. /\ y.array = x.array /\ y.unit = x.unit /\ y.mount = x.mount /\ y.on = x.on /\ y.data = x.data
          /\ y.export = x.export /\ y.domain = x.domain /\ y.profile = x.profile
      BY <1>2, <2>2 DEF Part
    <2>7. QED BY <1>1, <1>2, <2>3, <2>5, <2>6, PartsEqual
  <1>5. CASE c.verb \in FsVerbs
    <2>1. j.kind \in FsKinds /\ c.on = j.path /\ j.path \in Path
      BY <1>5, SuitKind
    <2>2. /\ g.arrays = h.arrays /\ g.pools = h.pools
          /\ g.exports = h.exports /\ g.domain = h.domain /\ g.profile = h.profile
      BY <1>2, <1>5, <2>1, FsFrame
    <2>3. /\ c.verb = "writeUnit" => g.units[j.path] = c.arg
          /\ c.verb = "removeUnit" => g.units[j.path] = None
          /\ c.verb \notin {"writeUnit", "removeUnit"} => g.units[j.path] = h.units[j.path]
      BY <1>2, <1>5, <2>1, FsFrame
    <2>4. /\ c.verb = "stop" => g.mounts[j.path] = None
          /\ c.verb = "enableNow" =>
                g.mounts[j.path] = IF h.mounts[j.path] # None THEN h.mounts[j.path] ELSE h.units[j.path]
          /\ c.verb \notin {"stop", "enableNow"} => g.mounts[j.path] = h.mounts[j.path]
      BY <1>2, <1>5, <2>1, FsFrame
    <2>5. j.path \in g.enabled <=> CASE c.verb = "enableNow" -> TRUE
                                      [] c.verb = "disable" -> FALSE
                                      [] OTHER -> j.path \in h.enabled
      BY <1>2, <1>5, <2>1, FsFrame
    <2>6. j.kind = "fs.create" =>
             g.data[j.unit.what] = IF c.verb = "mkfs" THEN c.on ELSE h.data[j.unit.what]
      <3>1. SUFFICES ASSUME j.kind = "fs.create"
                     PROVE  g.data[j.unit.what] = IF c.verb = "mkfs" THEN c.on ELSE h.data[j.unit.what]
        OBVIOUS
      <3>2. j.unit.what \in Array /\ j.unit.what \in Devices(j.unit)
        <4>1. j.unit \in UnitText
          BY <3>1, JobShape
        <4>2. QED BY <4>1, NoneApart DEF UnitText, Devices
      <3>3. CASE c.verb = "mkfs"
        <4>1. c.arg = j.unit
          BY <3>3, SuitKind
        <4>2. QED BY <1>2, <1>5, <2>1, <3>2, <3>3, <4>1, FsFrame
      <3>4. CASE c.verb # "mkfs"
        BY <1>2, <1>5, <2>1, <3>4, FsFrame
      <3>5. QED BY <3>3, <3>4
    <2>7. j.kind \notin ShareKinds \cup {"nfs-idmap.set", "nfs-profile.update"} /\ c.verb = "mkfs" => j.kind = "fs.create"
      BY <2>1, SuitKind DEF FsKinds, ShareKinds
    <2>8. /\ x.unit = h.units[j.path] /\ y.unit = g.units[j.path]
          /\ x.mount = h.mounts[j.path] /\ y.mount = g.mounts[j.path]
      BY <1>2, <2>1, PartFields
    <2>9. /\ z.array = x.array /\ z.pool = x.pool
          /\ z.export = x.export /\ z.domain = x.domain /\ z.profile = x.profile
          /\ c.verb = "writeUnit" => z.unit = c.arg
          /\ c.verb = "removeUnit" => z.unit = None
          /\ c.verb \notin {"writeUnit", "removeUnit"} => z.unit = x.unit
          /\ c.verb = "stop" => z.mount = None
          /\ c.verb = "enableNow" => z.mount = IF x.mount # None THEN x.mount ELSE x.unit
          /\ c.verb \notin {"stop", "enableNow"} => z.mount = x.mount
      <3>1. /\ z.array = x.array /\ z.pool = x.pool
            /\ z.export = x.export /\ z.domain = x.domain /\ z.profile = x.profile
        BY <1>2, <1>5, EffFs
      <3>2. QED BY <1>2, <1>5, <3>1, EffUnit
    <2>10. y.unit = z.unit /\ y.mount = z.mount
      BY <2>3, <2>4, <2>8, <2>9
    <2>11. y.array = x.array /\ y.pool = x.pool /\ y.export = x.export /\ y.domain = x.domain /\ y.profile = x.profile
      BY <1>2, <2>2 DEF Part
    <2>12. y.on = z.on
      <3>1. /\ x.on = (j.kind \in FsKinds \ {"fs.unmanage"} /\ j.path \in h.enabled)
            /\ y.on = (j.kind \in FsKinds \ {"fs.unmanage"} /\ j.path \in g.enabled)
        BY <1>2, PartFields
      <3>2. /\ c.verb = "enableNow" => z.on /\ j.kind # "fs.unmanage"
            /\ c.verb = "disable" => z.on = FALSE
            /\ c.verb \notin {"disable", "enableNow"} => z.on = x.on
        <4>1. c.verb = "enableNow" => j.kind # "fs.unmanage"
          BY SuitKind DEF Mounting, Remounting
        <4>2. QED BY <1>2, <1>5, <4>1, EffOn
      <3>3. CASE c.verb = "enableNow"
        BY <2>1, <2>5, <3>1, <3>2, <3>3
      <3>4. CASE c.verb = "disable"
        BY <2>5, <3>1, <3>2, <3>4
      <3>5. CASE c.verb \notin {"disable", "enableNow"}
        BY <2>5, <3>1, <3>2, <3>5
      <3>6. QED BY <3>3, <3>4, <3>5
    <2>13. y.data = z.data
      <3>1. z.data = IF c.verb = "mkfs" THEN c.on ELSE x.data
        BY <1>2, <1>5, EffFs
      <3>2. /\ x.data = IF j.kind = "fs.create" THEN h.data[j.unit.what] ELSE None
            /\ y.data = IF j.kind = "fs.create" THEN g.data[j.unit.what] ELSE None
        BY <1>2, PartFields
      <3>3. c.verb = "mkfs" => j.kind = "fs.create"
        BY SuitKind
      <3>4. QED BY <2>6, <3>1, <3>2, <3>3
    <2>14. QED BY <1>1, <1>2, <2>9, <2>10, <2>11, <2>12, <2>13, PartsEqual
  <1>6. CASE c.verb \in NfsVerbs
    <2>1. /\ c.verb \in {"addExport", "updateExport", "removeExport"} =>
                j.kind \in ShareKinds /\ c.on = j.path /\ j.path \in Path
          /\ c.verb = "setIdmapDomain" => j.kind = "nfs-idmap.set"
          /\ c.verb = "renderProfile" => j.kind = "nfs-profile.update"
      BY SuitKind
    <2>2. /\ g.arrays = h.arrays /\ g.pools = h.pools /\ g.data = h.data /\ g.units = h.units
          /\ g.mounts = h.mounts /\ g.enabled = h.enabled
          /\ c.verb \notin {"addExport", "updateExport", "removeExport"} => g.exports = h.exports
          /\ c.verb \in {"addExport", "updateExport", "removeExport"} =>
                g.exports[c.on] = IF c.verb = "removeExport" THEN None ELSE c.arg
          /\ g.domain = IF c.verb = "setIdmapDomain" THEN c.arg ELSE h.domain
          /\ g.profile = IF c.verb = "renderProfile" THEN c.arg ELSE h.profile
      BY <1>2, <1>6, <2>1, NfsFrame
    <2>3. /\ z.array = x.array /\ z.pool = x.pool /\ z.unit = x.unit /\ z.mount = x.mount /\ z.on = x.on
          /\ z.data = x.data
          /\ c.verb \in {"addExport", "updateExport"} => z.export = c.arg
          /\ c.verb = "removeExport" => z.export = None
          /\ c.verb \notin {"addExport", "updateExport", "removeExport"} => z.export = x.export
          /\ z.domain = IF c.verb = "setIdmapDomain" THEN c.arg ELSE x.domain
          /\ z.profile = IF c.verb = "renderProfile" THEN c.arg ELSE x.profile
      BY <1>2, <1>6, EffNfs
    <2>4. y.array = x.array /\ y.pool = x.pool /\ y.unit = x.unit /\ y.mount = x.mount /\ y.on = x.on
          /\ y.data = x.data
      BY <1>2, <2>2 DEF Part
    <2>5. /\ x.export = IF j.kind \in ShareKinds THEN h.exports[j.path] ELSE None
          /\ y.export = IF j.kind \in ShareKinds THEN g.exports[j.path] ELSE None
          /\ x.domain = IF j.kind = "nfs-idmap.set" THEN h.domain ELSE None
          /\ y.domain = IF j.kind = "nfs-idmap.set" THEN g.domain ELSE None
          /\ x.profile = IF j.kind = "nfs-profile.update" THEN h.profile ELSE None
          /\ y.profile = IF j.kind = "nfs-profile.update" THEN g.profile ELSE None
      BY <1>2, PartFields
    <2>6. y.export = z.export
      BY <2>1, <2>2, <2>3, <2>5
    <2>7. y.domain = z.domain /\ y.profile = z.profile
      BY <2>1, <2>2, <2>3, <2>5
    <2>8. QED BY <1>1, <1>2, <2>3, <2>4, <2>6, <2>7, PartsEqual
  <1>7. c.verb \in OnArrays \cup OnPools \cup FsVerbs \cup NfsVerbs
    BY SuitKind
  <1>8. QED BY <1>3, <1>4, <1>5, <1>6, <1>7

-----------------------------------------------------------------------------
(***************************************************************************)
(* The steps again, as a run sees them.                                    *)
(***************************************************************************)
Alike(k, q) == q.job = k.job /\ q.stage = k.stage /\ q.stash = k.stash /\ q.base = k.base

\* The run has ended, or did not begin; it ends when its calls have been made.
Ends(k, q) ==
    /\ ~Begun(q)
    /\ Begun(k) => q.job = k.job
    /\ Begun(k) /\ q.phase = "success" =>
          k.phase = "running" /\ k.calls = <<>> /\ ~(k.stage <= Len(Stages(k.job.kind))) /\ host' = host
    /\ Begun(k) /\ q.phase \in {"failed", "cancelled"} =>
          k.phase = "rollback" /\ k.calls = <<>> /\ host' = host

Begins(k, q) ==
    /\ ~Begun(k) /\ host' = host /\ q.phase = "running" /\ q.job = k.job /\ q.stage = 1
    /\ q.calls = <<>> /\ q.stash = EmptyStash /\ q.base = Slice(q.job, host)

Noted(k, q) == k.phase = "running" /\ host' = host /\ Alike(k, q) /\ q.calls = k.calls /\ q.phase = k.phase

\* What the call at hand may have left.
Tries(k) == k.calls # <<>> /\ host' \in {host, Perform(host, Head(k.calls)).host}

Fails(k, q) ==
    /\ k.phase = "running" /\ q.phase = "failing" /\ q.calls = <<>> /\ Alike(k, q)
    /\ host' = host \/ Tries(k)

Turns(k, q) ==
    /\ k.phase = "running" /\ k.calls = <<>> /\ host' = host
    /\ k.stage \in 1 .. Len(Stages(k.job.kind))
    /\ q.phase = "running" /\ q.job = k.job /\ q.base = k.base /\ q.stage = k.stage + 1
    /\ \E r : /\ \/ r = RunStage(k.job, Stages(k.job.kind)[k.stage], host, k.stash)
                 \/ r = Unreadable(k.job, Stages(k.job.kind)[k.stage], k.stash)
              /\ r.pass /\ q.calls = r.calls /\ q.stash = r.stash

\* The call succeeded, or its error is let go, alone or with the calls that follow.
Goes(k, q) ==
    /\ k.phase \in {"running", "rollback"} /\ q.phase = k.phase /\ Alike(k, q)
    /\ Tries(k)
    /\ \/ /\ q.calls = Tail(k.calls)
          /\ \/ Perform(host, Head(k.calls)).ok /\ host' = Perform(host, Head(k.calls)).host
             \/ Head(k.calls).onError = "next"
       \/ q.calls = <<>> /\ Head(k.calls).onError = "end"

Backs(k, q) ==
    /\ k.phase = "failing" /\ q.phase = "rollback" /\ Alike(k, q) /\ host' = host
    /\ Rollback(k.job, host, k.stash).pass /\ q.calls = Rollback(k.job, host, k.stash).calls

RunStep(k, q) ==
    \/ Ends(k, q) \/ Begins(k, q) \/ Noted(k, q) \/ Fails(k, q) \/ Turns(k, q) \/ Goes(k, q) \/ Backs(k, q)

\* The other tasks stay as they are, and all of them about what they are about.
Alone(t) ==
    /\ \A u \in Task \ {t} : task'[u] = task[u]
    /\ exposed \subseteq exposed'
    /\ task'[t].job.kind = task[t].job.kind
    /\ task[t].job.kind \in ArrayKinds => task'[t].job.array = task[t].job.array
    /\ task[t].job.kind \in PoolKinds => task'[t].job.pool = task[t].job.pool
    /\ task[t].job.kind \in ShareKinds =>
          task'[t].job.path = task[t].job.path /\ task'[t].job.id = task[t].job.id

LEMMA Replaced ==
    ASSUME TasksTyped, NEW t \in Task, NEW q, task' = [task EXCEPT ![t] = q], exposed \subseteq exposed',
           q.job = task[t].job
    PROVE  Alone(t) /\ task'[t] = q
  BY DEF TasksTyped, Alone

\* A run that ends.
LEMMA EndRuns ==
    ASSUME Typed, NEW t \in Task, Begun(task[t]), NEW final \in {"success", "failed", "cancelled", "manual"},
           End(t, final), UNCHANGED exposed
    PROVE  Alone(t) /\ task'[t].job = task[t].job /\ task'[t].phase = final /\ ~Begun(task'[t])
  <1> DEFINE q == EndedTask(task[t].job, final)
  <1>1. q.job = task[t].job /\ q.phase = final
    BY DEF EndedTask, NewTask
  <1>2. task' = [task EXCEPT ![t] = q]
    BY DEF End
  <1> HIDE DEF q
  <1>3. Alone(t) /\ task'[t] = q
    BY <1>1, <1>2, Replaced DEF Typed
  <1>4. ~Begun(q)
    BY <1>1 DEF Begun, Live
  <1>5. QED BY <1>1, <1>3, <1>4

LEMMA MakePlanRuns ==
    ASSUME Typed, NEW t \in Task, MakePlan(t)
    PROVE  Alone(t) /\ RunStep(task[t], task'[t])
  <1> DEFINE k == task[t]
             j == Enriched(k.job, seen, desired)
             plan == PlanOf(j, seen, desired)
             found == [k EXCEPT !.job = j, !.phase = "planned", !.plan = plan, !.was = desired]
             gone == EndedTask(j, "refused")
  <1>1. /\ TasksTyped /\ IsTask(k) /\ k.phase = "new" /\ k.job \in Job /\ desired \in Wanted
        /\ UNCHANGED <<host, exposed>>
    BY DEF Typed, TasksTyped, TaskTyped, MakePlan
  <1>2. task' = [task EXCEPT ![t] = found] \/ task' = [task EXCEPT ![t] = gone]
    BY DEF MakePlan
  <1>3. /\ j.kind = k.job.kind
        /\ k.job.kind \notin {"fs.create", "nfs-profile.update"} => j = k.job
    BY <1>1, EnrichedJob DEF Enriched
  <1> HIDE DEF k, j, plan
  <1>4. found.job = j /\ found.phase = "planned" /\ gone.job = j /\ gone.phase = "refused"
    BY <1>1 DEF IsTask, EndedTask, NewTask
  <1> HIDE DEF found, gone
  <1>5. PICK q \in {found, gone} : task' = [task EXCEPT ![t] = q]
    BY <1>2
  <1>6. task'[t] = q /\ (\A u \in Task \ {t} : task'[u] = task[u]) /\ q.job = j /\ ~Begun(q)
    BY <1>1, <1>4, <1>5 DEF TasksTyped, Begun, Live
  <1>7. Alone(t)
    BY <1>1, <1>3, <1>6 DEF Alone, k, ArrayKinds, PoolKinds, ShareKinds
  <1>8. ~Begun(k)
    BY <1>1 DEF Begun, Live
  <1>9. RunStep(k, q)
    BY <1>6, <1>8 DEF RunStep, Ends
  <1>10. QED BY <1>6, <1>7, <1>9 DEF k

LEMMA ApplyRuns ==
    ASSUME Typed, NEW t \in Task, Apply(t)
    PROVE  Alone(t) /\ RunStep(task[t], task'[t])
  <1> DEFINE k == task[t]
             p == [k EXCEPT !.phase = "running", !.was = desired, !.base = Slice(k.job, host)]
             r == EndedTask(k.job, "refused")
  <1>1. /\ TasksTyped /\ TaskTyped(k) /\ IsTask(k) /\ k.phase = "planned" /\ host' = host /\ exposed \subseteq exposed'
        /\ task' = [task EXCEPT ![t] = p] \/ task' = [task EXCEPT ![t] = r]
    BY DEF Typed, TasksTyped, TaskTyped, Apply
  <1>2. k.stage = 1 /\ k.stash = EmptyStash /\ k.calls = <<>> /\ ~Begun(k)
    BY <1>1 DEF TaskTyped, Begun, Live
  <1>c. k = task[t]
    OBVIOUS
  <1> HIDE DEF k
  <1>3. /\ p.job = k.job /\ p.phase = "running" /\ p.stage = k.stage /\ p.stash = k.stash /\ p.calls = k.calls
        /\ p.base = Slice(k.job, host)
    BY <1>1 DEF IsTask
  <1>4. r.job = k.job /\ r.phase = "refused"
    BY DEF EndedTask, NewTask
  <1> HIDE DEF p, r
  <1>5. CASE task' = [task EXCEPT ![t] = p]
    <2>1. Alone(t) /\ task'[t] = p
      BY <1>1, <1>c, <1>3, <1>5, Replaced
    <2>2. Begins(k, p)
      BY <1>1, <1>2, <1>3 DEF Begins
    <2>3. QED BY <1>c, <2>1, <2>2 DEF RunStep
  <1>6. CASE task' = [task EXCEPT ![t] = r]
    <2>1. Alone(t) /\ task'[t] = r
      BY <1>1, <1>c, <1>4, <1>6, Replaced
    <2>2. Ends(k, r)
      BY <1>2, <1>4 DEF Ends, Begun, Live
    <2>3. QED BY <1>c, <2>1, <2>2 DEF RunStep
  <1>7. QED BY <1>1, <1>5, <1>6

LEMMA CancelRuns ==
    ASSUME Typed, NEW t \in Task, RequestCancel(t) \/ CancelRun(t)
    PROVE  Alone(t) /\ RunStep(task[t], task'[t])
  <1> DEFINE k == task[t]
             c == [k EXCEPT !.cancelled = TRUE]
             f == [k EXCEPT !.phase = "failing"]
  <1>1. TasksTyped /\ IsTask(k) /\ k.phase = "running" /\ UNCHANGED <<host, exposed>>
    BY DEF Typed, TasksTyped, TaskTyped, RequestCancel, CancelRun, BetweenStages
  <1>2. \/ task' = [task EXCEPT ![t] = c]
        \/ task' = [task EXCEPT ![t] = f] /\ k.calls = <<>>
    BY <1>1 DEF RequestCancel, CancelRun, BetweenStages, TasksTyped
  <1>c. k = task[t]
    OBVIOUS
  <1> HIDE DEF k
  <1>3. /\ Alike(k, c) /\ c.phase = k.phase /\ c.calls = k.calls
        /\ Alike(k, f) /\ f.phase = "failing" /\ f.calls = k.calls
    BY <1>1 DEF IsTask, Alike
  <1> HIDE DEF c, f
  <1>4. CASE task' = [task EXCEPT ![t] = c]
    <2>1. Alone(t) /\ task'[t] = c
      BY <1>1, <1>c, <1>3, <1>4, Replaced DEF Alike
    <2>2. Noted(k, c)
      BY <1>1, <1>3 DEF Noted
    <2>3. QED BY <1>c, <2>1, <2>2 DEF RunStep
  <1>5. CASE task' = [task EXCEPT ![t] = f] /\ k.calls = <<>>
    <2>1. Alone(t) /\ task'[t] = f
      BY <1>1, <1>c, <1>3, <1>5, Replaced DEF Alike
    <2>2. Fails(k, f)
      BY <1>1, <1>3, <1>5 DEF Fails
    <2>3. QED BY <1>c, <2>1, <2>2 DEF RunStep
  <1>6. QED BY <1>2, <1>4, <1>5

LEMMA StartStageRuns ==
    ASSUME Typed, NEW t \in Task, StartStage(t)
    PROVE  Alone(t) /\ RunStep(task[t], task'[t])
  <1> DEFINE k     == task[t]
             stage == Stages(k.job.kind)[k.stage]
             next  == [k EXCEPT !.stage = @ + 1]
             fail  == [k EXCEPT !.phase = "failing"]
  <1>1. /\ TasksTyped /\ IsTask(k) /\ k.phase = "running" /\ k.calls = <<>>
        /\ k.stage \in 1 .. Len(Stages(k.job.kind)) + 1 /\ k.stage <= Len(Stages(k.job.kind))
        /\ k.job \in Job /\ UNCHANGED <<host, exposed>>
    BY DEF Typed, TasksTyped, TaskTyped, StartStage, BetweenStages, StagesLeft
  <1>2. PICK r : /\ Take(t, r, next, fail)
                 /\ \/ r = RunStage(k.job, stage, host, k.stash)
                    \/ r = Unreadable(k.job, stage, k.stash)
    BY DEF StartStage
  <1>3. k.stage \in 1 .. Len(Stages(k.job.kind))
    <2>1. Len(Stages(k.job.kind)) \in Nat
      BY <1>1, StagesLen
    <2>2. QED BY <1>1, <2>1
  <1>c. k = task[t]
    OBVIOUS
  <1>4. CASE ~r.pass
    <2>1. task' = [task EXCEPT ![t] = fail]
      BY <1>2, <1>4 DEF Take
    <2> HIDE DEF k
    <2>2. Alike(k, fail) /\ fail.phase = "failing" /\ fail.calls = <<>>
      BY <1>1 DEF IsTask, Alike
    <2> HIDE DEF fail
    <2>3. Alone(t) /\ task'[t] = fail
      BY <1>1, <1>c, <2>1, <2>2, Replaced DEF Alike
    <2>4. Fails(k, fail)
      BY <1>1, <2>2 DEF Fails
    <2>5. QED BY <1>c, <2>3, <2>4 DEF RunStep
  <1>5. CASE r.pass
    <2> DEFINE q == [next EXCEPT !.calls = r.calls, !.stash = r.stash]
    <2>1. task' = [task EXCEPT ![t] = q]
      BY <1>2, <1>5 DEF Take
    <2> HIDE DEF k
    <2>2. /\ q.job = k.job /\ q.base = k.base /\ q.phase = "running"
          /\ q.stage = k.stage + 1 /\ q.calls = r.calls /\ q.stash = r.stash
      BY <1>1 DEF IsTask
    <2> HIDE DEF q
    <2>3. Alone(t) /\ task'[t] = q
      BY <1>1, <1>c, <2>1, <2>2, Replaced
    <2>4. Turns(k, q)
      BY <1>1, <1>2, <1>3, <1>5, <2>2 DEF Turns
    <2>5. QED BY <1>c, <2>3, <2>4 DEF RunStep
  <1>6. QED BY <1>4, <1>5

LEMMA WorkRuns ==
    ASSUME Typed, NEW t \in Task, Work(t)
    PROVE  Alone(t) /\ RunStep(task[t], task'[t])
  <1> DEFINE k == task[t]
             c == Head(k.calls)
             rest == [k EXCEPT !.calls = Tail(@)]
             none == [k EXCEPT !.calls = <<>>]
             fail == [k EXCEPT !.phase = "failing", !.calls = <<>>]
  <1>1. /\ TasksTyped /\ IsTask(k) /\ k.phase \in {"running", "rollback"} /\ Begun(k) /\ k.calls # <<>>
        /\ UNCHANGED exposed
    BY DEF Typed, TasksTyped, TaskTyped, Work, Begun, Live
  <1>2. PICK o \in Outcomes(c) :
           /\ host' = o.result.host
           /\ IF o.result.ok \/ c.onError = "next"
              THEN task' = [task EXCEPT ![t].calls = Tail(@)] /\ UNCHANGED desired
              ELSE IF c.onError = "end"
              THEN task' = [task EXCEPT ![t].calls = <<>>] /\ UNCHANGED desired
              ELSE IF k.phase = "running"
              THEN task' = [task EXCEPT ![t].phase = "failing", ![t].calls = <<>>] /\ UNCHANGED desired
              ELSE End(t, "manual")
    BY DEF Work
  <1>3. host' \in {host, Perform(host, c).host} /\ (o.result.ok => Perform(host, c).ok /\ host' = Perform(host, c).host)
    BY <1>2 DEF Outcomes, Refused
  <1>4. \/ End(t, "manual")
        \/ task' = [task EXCEPT ![t] = rest] /\ (o.result.ok \/ c.onError = "next")
        \/ task' = [task EXCEPT ![t] = none] /\ c.onError = "end"
        \/ task' = [task EXCEPT ![t] = fail] /\ k.phase = "running"
    BY <1>1, <1>2 DEF TasksTyped
  <1>5. Tries(k)
    BY <1>1, <1>3 DEF Tries
  <1>c. k = task[t] /\ c = Head(k.calls)
    OBVIOUS
  <1> HIDE DEF k
  <1>6. /\ Alike(k, rest) /\ rest.phase = k.phase /\ rest.calls = Tail(k.calls)
        /\ Alike(k, none) /\ none.phase = k.phase /\ none.calls = <<>>
        /\ Alike(k, fail) /\ fail.phase = "failing" /\ fail.calls = <<>>
    BY <1>1 DEF IsTask, Alike
  <1> HIDE DEF rest, none, fail, c
  <1>7. CASE task' = [task EXCEPT ![t] = rest] /\ (o.result.ok \/ c.onError = "next")
    <2>1. Alone(t) /\ task'[t] = rest
      BY <1>1, <1>c, <1>6, <1>7, Replaced DEF Alike
    <2>2. Goes(k, rest)
      BY <1>1, <1>3, <1>5, <1>6, <1>7, <1>c DEF Goes
    <2>3. QED BY <1>c, <2>1, <2>2 DEF RunStep
  <1>8. CASE task' = [task EXCEPT ![t] = none] /\ c.onError = "end"
    <2>1. Alone(t) /\ task'[t] = none
      BY <1>1, <1>c, <1>6, <1>8, Replaced DEF Alike
    <2>2. Goes(k, none)
      BY <1>1, <1>5, <1>6, <1>8, <1>c DEF Goes
    <2>3. QED BY <1>c, <2>1, <2>2 DEF RunStep
  <1>9. CASE task' = [task EXCEPT ![t] = fail] /\ k.phase = "running"
    <2>1. Alone(t) /\ task'[t] = fail
      BY <1>1, <1>c, <1>6, <1>9, Replaced DEF Alike
    <2>2. Fails(k, fail)
      BY <1>5, <1>6, <1>9 DEF Fails
    <2>3. QED BY <1>c, <2>1, <2>2 DEF RunStep
  <1>10. CASE End(t, "manual")
    <2>1. Alone(t) /\ task'[t].job = task[t].job /\ task'[t].phase = "manual" /\ ~Begun(task'[t])
      BY <1>1, <1>c, <1>10, EndRuns
    <2>2. Ends(k, task'[t])
      BY <1>c, <2>1 DEF Ends
    <2>3. QED BY <1>c, <2>1, <2>2 DEF RunStep
  <1>11. QED BY <1>4, <1>7, <1>8, <1>9, <1>10

LEMMA StartRollbackRuns ==
    ASSUME Typed, NEW t \in Task, StartRollback(t)
    PROVE  Alone(t) /\ RunStep(task[t], task'[t])
  <1> DEFINE k == task[t]
             r == Rollback(k.job, host, k.stash)
             q == [k EXCEPT !.phase = "rollback", !.calls = r.calls]
  <1>1. TasksTyped /\ IsTask(k) /\ k.phase = "failing" /\ Begun(k) /\ UNCHANGED <<host, exposed>>
    BY DEF Typed, TasksTyped, TaskTyped, StartRollback, Begun, Live
  <1>2. (r.pass /\ task' = [task EXCEPT ![t] = q]) \/ End(t, "manual")
    BY <1>1 DEF StartRollback, TasksTyped
  <1>c. k = task[t]
    OBVIOUS
  <1>3. CASE End(t, "manual")
    <2>1. Alone(t) /\ task'[t].job = task[t].job /\ task'[t].phase = "manual" /\ ~Begun(task'[t])
      BY <1>1, <1>3, EndRuns
    <2>2. Ends(k, task'[t])
      BY <2>1 DEF Ends
    <2>3. QED BY <2>1, <2>2 DEF RunStep
  <1>4. CASE r.pass /\ task' = [task EXCEPT ![t] = q]
    <2> HIDE DEF k
    <2>1. Alike(k, q) /\ q.phase = "rollback" /\ q.calls = r.calls
      BY <1>1 DEF IsTask, Alike
    <2> HIDE DEF q
    <2>2. Alone(t) /\ task'[t] = q
      BY <1>1, <1>c, <1>4, <2>1, Replaced DEF Alike
    <2>3. Backs(k, q)
      BY <1>1, <1>4, <2>1 DEF Backs
    <2>4. QED BY <1>c, <2>2, <2>3 DEF RunStep
  <1>5. QED BY <1>2, <1>3, <1>4

LEMMA EndRollbackRuns ==
    ASSUME Typed, NEW t \in Task, EndRollback(t)
    PROVE  Alone(t) /\ RunStep(task[t], task'[t])
  <1>1. task[t].phase = "rollback" /\ task[t].calls = <<>> /\ Begun(task[t]) /\ UNCHANGED <<host, exposed>>
    BY DEF EndRollback, Begun, Live
  <1>2. PICK final \in {"failed", "cancelled"} : End(t, final)
    BY DEF EndRollback
  <1>3. Alone(t) /\ task'[t].job = task[t].job /\ task'[t].phase = final /\ ~Begun(task'[t])
    BY <1>1, <1>2, EndRuns
  <1>4. Ends(task[t], task'[t])
    BY <1>1, <1>3 DEF Ends
  <1>5. QED BY <1>3, <1>4 DEF RunStep

LEMMA EndRunRuns ==
    ASSUME Typed, NEW t \in Task, EndRun(t)
    PROVE  Alone(t) /\ RunStep(task[t], task'[t])
  <1>1. /\ task[t].phase = "running" /\ task[t].calls = <<>> /\ Begun(task[t]) /\ UNCHANGED <<host, exposed>>
        /\ ~(task[t].stage <= Len(Stages(task[t].job.kind)))
    BY DEF EndRun, BetweenStages, StagesLeft, Begun, Live
  <1>2. PICK final \in {"success", "manual"} : End(t, final)
    BY DEF EndRun
  <1>3. Alone(t) /\ task'[t].job = task[t].job /\ task'[t].phase = final /\ ~Begun(task'[t])
    BY <1>1, <1>2, EndRuns
  <1>4. Ends(task[t], task'[t])
    BY <1>1, <1>3 DEF Ends
  <1>5. QED BY <1>3, <1>4 DEF RunStep

\* A step is a step of one run, or none of the host and the tasks.
LEMMA RunSteps ==
    ASSUME Typed, [Next]_vars
    PROVE  \/ \E t \in Task : Alone(t) /\ RunStep(task[t], task'[t])
           \/ UNCHANGED <<host, task, exposed>>
  <1>1. CASE \E t \in Task : TaskStep(t)
    <2>1. PICK t \in Task : TaskStep(t)
      BY <1>1
    <2>2. Alone(t) /\ RunStep(task[t], task'[t])
      BY <2>1, MakePlanRuns, ApplyRuns, CancelRuns, StartStageRuns, WorkRuns, StartRollbackRuns,
         EndRollbackRuns, EndRunRuns DEF TaskStep
    <2>3. QED BY <2>2
  <1>2. CASE \E kind \in {"XiraidArray", "Pool", "Filesystem", "ExportRule", "nfs_idmap"} : Observe(kind)
    BY <1>2 DEF Observe
  <1>3. CASE UNCHANGED vars
    BY <1>3 DEF vars
  <1>4. QED BY <1>1, <1>2, <1>3 DEF Next

\* Who has the host to itself after a step had it before.
LEMMA UnsharedBefore ==
    ASSUME NEW t \in Task, Alone(t), NEW u \in Task, Unshared(u)'
    PROVE  Unshared(u)
  <1>1. \A w \in Task : /\ task'[w].job.kind = task[w].job.kind
                        /\ task[w].job.kind \in ArrayKinds => task'[w].job.array = task[w].job.array
                        /\ task[w].job.kind \in PoolKinds => task'[w].job.pool = task[w].job.pool
                        /\ task[w].job.kind \in ShareKinds =>
                              task'[w].job.path = task[w].job.path /\ task'[w].job.id = task[w].job.id
    BY DEF Alone
  <1>2. \A v, w \in Task : (OnItsPool(v, w) => OnItsPool(v, w)') /\ (OnItsPath(v, w) => OnItsPath(v, w)')
    BY <1>1 DEF OnItsPool, OnItsPath, ArrayKinds, PoolKinds, ShareKinds
  <1>3. exposed' = {} => exposed = {}
    BY DEF Alone
  <1>4. QED BY <1>1, <1>2, <1>3 DEF Unshared

\* A task that does not move finds its part of the host as it was.
LEMMA OtherRuns ==
    ASSUME MountInv, Step, NEW u \in Task, task'[u] = task[u], Begun(task[u]), Unshared(u)
    PROVE  Part(task[u].job, host') = Part(task[u].job, host)
  <1>1. CASE host' = host
    BY <1>1
  <1>2. CASE host' # host
    <2>1. PICK t \in Task : Works(t)
      BY <1>2 DEF Step, Still, Applied, Passed
    <2>2. t # u
      BY <2>1 DEF Works, Worked
    <2> DEFINE c == Head(task[t].calls)
               r == Perform(host, c)
    <2>3. /\ Begun(task[t]) /\ Suits(c, task[t].job, task[t].stash, task[t].phase = "rollback")
          /\ r = Perform(host, c) /\ host' = r.host
      BY <2>1 DEF Works
    <2> HIDE DEF c, r
    <2>4. Part(task[u].job, r.host) = Part(task[u].job, host)
      BY <2>2, <2>3, Undisturbed
    <2>5. QED BY <2>3, <2>4
  <1>3. QED BY <1>1, <1>2

-----------------------------------------------------------------------------
(***************************************************************************)
(* What the stages achieve.                                                *)
(***************************************************************************)
\* A pool with these drives, switched on.
Filled(drives) == [drives |-> drives, active |-> TRUE]

\* The kinds whose calls, all made, leave what the job is for.  Not the others: the pool an
\* array leaves behind may stay, an import brings what it finds, and three of them promise nothing.
Leading == {"xiraid.array.create", "xiraid.array.modify", "pool.delete", "fs.create", "fs.mount",
            "fs.unmount", "fs.set_quota_mode", "fs.unmanage", "share.create", "share.update",
            "share.delete", "nfs-idmap.set", "nfs-profile.update"}

\* What the stages before the n-th of a job have made of its part of the host.
Achieved(j, n, s, x) ==
    /\ j.kind = "xiraid.array.create" /\ n > 2 =>
          x.array # None /\ (j.spares # {} => x.pool = Filled(j.spares))
    /\ j.kind = "xiraid.array.modify" =>
          /\ n > 1 => x.array # None
          /\ n = 2 => x.pool = s.before.pool
          /\ n > 2 => (j.spares \notin {None, {}} => x.pool = Filled(j.spares))
    /\ j.kind = "pool.delete" /\ n > 2 => x.pool = None
    /\ j.kind = "fs.create" =>
          /\ n \in {2, 3} => x.unit = None /\ x.mount = None
          /\ n = 4 => x.unit = j.unit /\ x.mount = None
          /\ n > 4 => x.mount = j.unit
          /\ n > 2 => x.data = j.path
    /\ j.kind = "fs.mount" => (n > 2 => x.on) /\ (n > 3 => x.mount # None)
    /\ j.kind = "fs.unmount" /\ n > 2 => x.mount = None /\ ~x.on
    /\ j.kind = "fs.set_quota_mode" =>
          /\ n = 2 => s.before.unit = x.unit /\ (s.before.mounted <=> x.mount # None)
          /\ n > 2 => x.unit.quota = j.quota /\ (x.mount # None => x.mount.quota = j.quota)
    /\ j.kind = "fs.unmanage" => (n > 1 => x.mount = None) /\ (n > 2 => x.unit = None)
    /\ j.kind \in {"share.create", "share.update"} /\ n > 2 => x.export = j.rule
    /\ j.kind = "share.delete" /\ n > 2 => x.export = None
    /\ j.kind = "nfs-idmap.set" /\ n > 2 => x.domain = j.domain
    /\ j.kind = "nfs-profile.update" /\ n > 2 => x.profile = j.profile

\* Calls with one more at their end, if cond.
LEMMA LeadsMore ==
    ASSUME NEW S, NEW calls \in Seq(S), NEW c \in S, NEW cond, NEW x, NEW y, NEW z, Leads(x, calls, y),
           cond => z = Eff(y, c), ~cond => z = y
    PROVE  Leads(x, calls \o If(cond, <<c>>), z) /\ calls \o If(cond, <<c>>) \in Seq(S)
  <1>1. If(cond, <<c>>) \in Seq(S)
    BY DEF If
  <1>2. cond => Leads(y, <<c>>, z)
    BY LeadsOne
  <1>3. Leads(y, If(cond, <<c>>), z)
    BY <1>2, LeadsIf
  <1>4. Leads(x, calls \o If(cond, <<c>>), z)
    BY <1>1, <1>3, LeadsThen
  <1>5. calls \o If(cond, <<c>>) \in Seq(S)
    BY <1>1, ConcatProperties
  <1>6. QED BY <1>4, <1>5

\* Two calls in a row, and a call after others.
LEMMA LeadsTwo ==
    ASSUME NEW x, NEW c, NEW d
    PROVE  Leads(x, <<c, d>>, Eff(Eff(x, c), d))
  <1> DEFINE y  == Eff(x, c)
             z  == Eff(y, d)
             st == [i \in {0, 1, 2} |-> IF i = 0 THEN x ELSE IF i = 1 THEN y ELSE z]
  <1>1. Len(<<c, d>>) = 2 /\ <<c, d>>[1] = c /\ <<c, d>>[2] = d
    OBVIOUS
  <1>2. y = Eff(x, c) /\ z = Eff(y, d)
    OBVIOUS
  <1> HIDE DEF y, z
  <1>3. st[0] = x /\ st[1] = y /\ st[2] = z
    OBVIOUS
  <1> HIDE DEF st
  <1>4. \A i \in 1 .. Len(<<c, d>>) : st[i] = Eff(st[i - 1], <<c, d>>[i])
    BY <1>1, <1>2, <1>3
  <1>5. Leads(x, <<c, d>>, z)
    BY <1>1, <1>3, <1>4 DEF Leads
  <1>6. QED BY <1>2, <1>5

LEMMA LeadsLast ==
    ASSUME NEW S, NEW calls \in Seq(S), NEW c \in S, NEW x, NEW y, NEW z, Leads(x, calls, y), z = Eff(y, c)
    PROVE  Leads(x, calls \o <<c>>, z) /\ calls \o <<c>> \in Seq(S)
  <1>1. Leads(x, calls \o If(TRUE, <<c>>), z) /\ calls \o If(TRUE, <<c>>) \in Seq(S)
    BY LeadsMore
  <1>2. QED BY <1>1 DEF If

\* A stage without calls.
LEMMA LeadsStill ==
    ASSUME NEW x, NEW r, r.calls = <<>>
    PROVE  Leads(x, r.calls, x)
  BY LeadsNone

\* What a stage returns, told from the outside.
LEMMA StageReturns ==
    ASSUME NEW r, NEW s, NEW calls, NEW ok
    PROVE  /\ r = Check(ok, s) => r.pass = ok /\ r.stash = s /\ r.calls = <<>>
           /\ r = Issue(s, calls) => r.pass /\ r.stash = s /\ r.calls = calls
           /\ r = Nothing(s) => r.pass /\ r.stash = s /\ r.calls = <<>>
  BY DEF Check, Issue, Nothing

\* Arrays are still arrays once their spare pool is named, and pools get the drives they
\* were short of, lose those they had too many of, and are switched on.
LEMMA StillArray ==
    ASSUME NEW v \in ArrayState, NEW pool \in PoolName \cup {None}
    PROVE  Spared(v, pool) \in ArrayState /\ Spared(v, pool) # None
  <1>1. Spared(v, pool) \in ArrayState
    BY DEF ArrayState, Spared
  <1>2. QED BY <1>1, NoneApart

LEMMA SamePool ==
    ASSUME NEW p \in PoolState, NEW q \in PoolState, p.drives = q.drives, p.active = q.active
    PROVE  p = q
  BY DEF PoolState

LEMMA EnlargedPool ==
    ASSUME NEW p \in PoolState, NEW drives \in SUBSET Drive
    PROVE  /\ Enlarged(p, drives) \in PoolState
           /\ Enlarged(p, drives).drives = p.drives \cup drives /\ Enlarged(p, drives).active = p.active
  BY DEF PoolState, Enlarged

LEMMA ReducedPool ==
    ASSUME NEW p \in PoolState, NEW drives \in SUBSET Drive
    PROVE  /\ Reduced(p, drives) \in PoolState
           /\ Reduced(p, drives).drives = p.drives \ drives /\ Reduced(p, drives).active = p.active
  BY DEF PoolState, Reduced

LEMMA SwitchedPool ==
    ASSUME NEW p \in PoolState, NEW active \in BOOLEAN
    PROVE  /\ Switched(p, active) \in PoolState
           /\ Switched(p, active).drives = p.drives /\ Switched(p, active).active = active
  BY DEF PoolState, Switched

LEMMA NewPool ==
    ASSUME NEW drives \in SUBSET Drive
    PROVE  /\ Fresh(drives) \in PoolState /\ Filled(drives) \in PoolState
           /\ Fresh(drives).drives = drives /\ Fresh(drives).active = FALSE
           /\ Filled(drives).drives = drives /\ Filled(drives).active = TRUE
  BY DEF PoolState, Fresh, Filled

LEMMA FilledPool ==
    ASSUME NEW drives \in SUBSET Drive
    PROVE  /\ Switched(Fresh(drives), TRUE) = Filled(drives)
           /\ Filled(drives) # None /\ Filled(drives).active
  <1> DEFINE q == Fresh(drives)
             p == Switched(q, TRUE)
             f == Filled(drives)
  <1>1. q \in PoolState /\ f \in PoolState /\ q.drives = f.drives /\ f.active = TRUE
    BY NewPool
  <1> HIDE DEF q, f
  <1>2. p \in PoolState /\ p.drives = f.drives /\ p.active = f.active
    BY <1>1, SwitchedPool
  <1> HIDE DEF p
  <1>3. p = f
    BY <1>1, <1>2, SamePool
  <1>4. f # None
    BY <1>1, NoneApart
  <1>5. QED BY <1>1, <1>3, <1>4 DEF p, q, f

\* Drives a pool is short of, those it has too many of, and its switch, all set right.
Grown(p, drives)     == IF ~(drives \subseteq p.drives) THEN Enlarged(p, drives \ p.drives) ELSE p
Pruned(q, p, drives) == IF ~(p.drives \subseteq drives) THEN Reduced(q, p.drives \ drives) ELSE q
Lit(q, p)            == IF ~p.active THEN Switched(q, TRUE) ELSE q

LEMMA RefilledPool ==
    ASSUME NEW p \in PoolState, NEW drives \in SUBSET Drive
    PROVE  Lit(Pruned(Grown(p, drives), p, drives), p) = Filled(drives)
  <1> DEFINE p1 == Grown(p, drives)
             p2 == Pruned(p1, p, drives)
             p3 == Lit(p2, p)
  <1>a. /\ p1 = IF ~(drives \subseteq p.drives) THEN Enlarged(p, drives \ p.drives) ELSE p
        /\ p2 = IF ~(p.drives \subseteq drives) THEN Reduced(p1, p.drives \ drives) ELSE p1
        /\ p3 = IF ~p.active THEN Switched(p2, TRUE) ELSE p2
    BY DEF Grown, Pruned, Lit
  <1> HIDE DEF p1, p2, p3
  <1>1. p.active \in BOOLEAN /\ p.drives \in SUBSET Drive
    BY DEF PoolState
  <1>2. PICK new \in SUBSET Drive : new = drives \ p.drives
    BY <1>1
  <1>3. PICK old \in SUBSET Drive : old = p.drives \ drives
    BY <1>1
  <1>4. p1 \in PoolState /\ p1.drives = p.drives \cup drives /\ p1.active = p.active
    <2>1. p.drives \cup new = p.drives \cup drives /\ (drives \subseteq p.drives => p.drives = p.drives \cup drives)
      BY <1>2
    <2>2. p1 = IF ~(drives \subseteq p.drives) THEN Enlarged(p, new) ELSE p
      BY <1>2, <1>a
    <2>3. /\ Enlarged(p, new) \in PoolState
          /\ Enlarged(p, new).drives = p.drives \cup new /\ Enlarged(p, new).active = p.active
      BY EnlargedPool
    <2>4. QED BY <2>1, <2>2, <2>3
  <1>5. p2 \in PoolState /\ p2.drives = drives /\ p2.active = p.active
    <2>1. (p.drives \cup drives) \ old = drives /\ (p.drives \subseteq drives => p.drives \cup drives = drives)
      BY <1>3
    <2>2. p2 = IF ~(p.drives \subseteq drives) THEN Reduced(p1, old) ELSE p1
      BY <1>3, <1>a
    <2>3. /\ Reduced(p1, old) \in PoolState
          /\ Reduced(p1, old).drives = p1.drives \ old /\ Reduced(p1, old).active = p1.active
      BY <1>4, ReducedPool
    <2>4. QED BY <1>4, <2>1, <2>2, <2>3
  <1>6. p3 \in PoolState /\ p3.drives = drives /\ p3.active = TRUE
    <2>1. /\ Switched(p2, TRUE) \in PoolState
          /\ Switched(p2, TRUE).drives = p2.drives /\ Switched(p2, TRUE).active = TRUE
      BY <1>5, SwitchedPool
    <2>2. QED BY <1>1, <1>5, <1>a, <2>1
  <1>7. Filled(drives) \in PoolState /\ Filled(drives).drives = drives /\ Filled(drives).active = TRUE
    BY NewPool
  <1>8. p3 = Filled(drives)
    BY <1>6, <1>7, SamePool
  <1>9. QED BY <1>8 DEF p1, p2, p3

\* What the calls of a stage may be made of.
LEMMA CallSeq ==
    ASSUME NEW S, NEW c \in S, NEW cond
    PROVE  <<c>> \in Seq(S) /\ If(cond, <<c>>) \in Seq(S) /\ <<>> \in Seq(S)
  BY DEF If

LEMMA CallsSeq ==
    ASSUME NEW S, NEW c \in S, NEW d \in S, NEW cond
    PROVE  <<c, d>> \in Seq(S) /\ If(cond, <<c, d>>) \in Seq(S)
  BY DEF If

LEMMA Stashed ==
    ASSUME NEW kind, NEW s \in Stash(kind), NEW pre
    PROVE  Saw(s, pre).before = pre /\ Marked(s).before = s.before
  BY DEF Stash, Saw, Marked

LEMMA Issued ==
    ASSUME NEW s, NEW calls, NEW r, r = Issue(s, calls)
    PROVE  r.calls = calls /\ r.stash = s /\ r.pass
  BY DEF Issue

LEMMA EffCreated ==
    ASSUME NEW x, NEW c, c.verb = "poolCreate"
    PROVE  Eff(x, c).array = x.array /\ Eff(x, c).pool = Fresh(c.arg)
  BY DEF Eff

LEMMA EffEnlarged ==
    ASSUME NEW x, NEW c, c.verb = "poolAdd"
    PROVE  Eff(x, c).array = x.array /\ Eff(x, c).pool = Enlarged(x.pool, c.arg)
  BY DEF Eff

LEMMA EffReduced ==
    ASSUME NEW x, NEW c, c.verb = "poolRemove"
    PROVE  Eff(x, c).array = x.array /\ Eff(x, c).pool = Reduced(x.pool, c.arg)
  BY DEF Eff

LEMMA EffSwitched ==
    ASSUME NEW x, NEW c, c.verb = "poolSetActive"
    PROVE  Eff(x, c).array = x.array /\ Eff(x, c).pool = Switched(x.pool, c.arg)
  BY DEF Eff

LEMMA EffDropped ==
    ASSUME NEW x, NEW c, c.verb = "poolDelete"
    PROVE  Eff(x, c).array = x.array /\ Eff(x, c).pool = None
  BY DEF Eff

LEMMA EffNamed ==
    ASSUME NEW x, NEW c, c.verb = "raidModify"
    PROVE  Eff(x, c).array = Spared(x.array, c.arg) /\ Eff(x, c).pool = x.pool
  BY DEF Eff

LEMMA CreateLeads ==
    ASSUME NEW j \in Job, j.kind = "xiraid.array.create", NEW h \in Host, NEW s \in Stash(j.kind),
           NEW n \in 1 .. Len(Stages(j.kind)), NEW x, x = Part(j, h), Achieved(j, n, s, x),
           NEW r, r = RunStage(j, Stages(j.kind)[n], h, s), r.pass
    PROVE  \E y : Leads(x, r.calls, y) /\ Achieved(j, n + 1, r.stash, y)
  <1>1. Stages(j.kind) = <<"preflight", "create", "wait_online", "verify">>
    BY DEF Stages
  <1>2. PICK stage : /\ n \in 1 .. 4 /\ r = ArrayCreate(j, stage, h, s)
                     /\ n = 1 => stage = "preflight"
                     /\ n = 2 => stage = "create"
                     /\ n > 2 => stage \in {"wait_online", "verify"}
    BY <1>1 DEF RunStage
  <1>3. CASE n # 2
    <2>1. n + 1 = 2 \/ (n > 2 /\ n + 1 > 2)
      BY <1>2, <1>3
    <2>2. r.calls = <<>>
      BY <1>2, <1>3 DEF ArrayCreate, Check
    <2>3. Achieved(j, n + 1, r.stash, x)
      BY <2>1 DEF Achieved
    <2>4. QED BY <2>2, <2>3, LeadsStill
  <1>4. CASE n = 2
    <2> DEFINE spare == IF j.spares = {} THEN None ELSE j.array
               array == [disks |-> j.disks, spare |-> spare]
               add   == Call("poolCreate", j.array, j.spares)
               on    == Call("poolSetActive", j.array, TRUE)
               raid  == Call("raidCreate", j.array, array)
               pool  == If(j.spares # {}, <<add, on>>)
               S     == {add, on, raid}
    <2>1. r = Issue(Marked(s), pool \o <<raid>>)
      BY <1>2, <1>4 DEF ArrayCreate
    <2>2. r.calls = pool \o <<raid>>
      <3> HIDE DEF pool, raid
      <3>1. QED BY <2>1 DEF Issue
    <2>3. array \in ArrayState
      <3>1. j.array \in Array /\ j.disks \in SUBSET Drive
        BY JobShape DEF ArrayKinds
      <3>2. QED BY <3>1 DEF ArrayState, PoolName
    <2>4. array # None
      <3> HIDE DEF array
      <3>1. QED BY <2>3, NoneApart
    <2>5. /\ add.verb = "poolCreate" /\ add.arg = j.spares
          /\ on.verb = "poolSetActive" /\ on.arg = TRUE
          /\ raid.verb = "raidCreate" /\ raid.arg = array
      BY DEF Call
    <2> HIDE DEF array, add, on, raid
    <2>6. raid \in S /\ pool \in Seq(S)
      <3>1. raid \in S /\ add \in S /\ on \in S
        OBVIOUS
      <3> HIDE DEF S
      <3>2. QED BY <3>1, CallsSeq
    <2> DEFINE x1 == Eff(x, add)
               x2 == Eff(x1, on)
               x3 == IF j.spares # {} THEN x2 ELSE x
               y  == Eff(x3, raid)
    <2>7. x1.pool = Fresh(j.spares)
      BY <2>5, EffPool DEF OnPools
    <2>8. x2.pool = Switched(x1.pool, TRUE)
      <3> HIDE DEF x1
      <3>1. QED BY <2>5, EffSwitched
    <2>9. Leads(x, pool, x3)
      <3>1. Leads(x, <<add, on>>, x2)
        BY LeadsTwo
      <3> HIDE DEF x2, S
      <3>2. QED BY <3>1, LeadsIf
    <2>10. j.spares # {} => x3.pool = Filled(j.spares)
      <3>1. j.spares \in SUBSET Drive
        BY JobShape
      <3> HIDE DEF x1, x2
      <3>2. QED BY <2>7, <2>8, <3>1, FilledPool
    <2> HIDE DEF x3, S, pool
    <2>11. y.array = array /\ y.pool = x3.pool
      BY <2>5, EffRaid
    <2>12. Leads(x, r.calls, y)
      BY <2>2, <2>6, <2>9, LeadsLast
    <2> HIDE DEF y
    <2>13. Achieved(j, n + 1, r.stash, y)
      BY <2>4, <2>10, <2>11, <1>4 DEF Achieved
    <2>14. QED BY <2>12, <2>13
  <1>5. QED BY <1>3, <1>4

LEMMA ModifyLeads ==
    ASSUME NEW j \in Job, j.kind = "xiraid.array.modify", NEW h \in Host, NEW s \in Stash(j.kind),
           NEW n \in 1 .. Len(Stages(j.kind)), NEW x, x = Part(j, h), Achieved(j, n, s, x),
           n > 1 => s.before \in PreState(j.kind),
           NEW r, r = RunStage(j, Stages(j.kind)[n], h, s), r.pass
    PROVE  \E y : Leads(x, r.calls, y) /\ Achieved(j, n + 1, r.stash, y)
  <1>1. Stages(j.kind) = <<"preflight", "apply_spares", "apply_tuning", "verify">>
    BY DEF Stages
  <1>2. PICK stage : /\ n \in 1 .. 4 /\ r = ArrayModify(j, stage, h, s)
                     /\ n = 1 => stage = "preflight"
                     /\ n = 2 => stage = "apply_spares"
                     /\ n = 3 => stage = "apply_tuning"
                     /\ n = 4 => stage = "verify"
    BY <1>1 DEF RunStage
  <1> DEFINE a == j.array
  <1>3. a \in Array /\ a \in PoolName /\ j.spares \in (SUBSET Drive) \cup {None}
    BY JobShape DEF ArrayKinds, PoolName
  <1>4. x.array = h.arrays[a] /\ x.pool = h.pools[a] /\ x \in Parts
    <2>1. x.array = h.arrays[a] /\ x.pool = h.pools[a]
      BY PartFields DEF ArrayKinds, Pooling, PoolOf, PoolKinds
    <2>2. QED BY <2>1, PartTyped
  <1>5. CASE n = 1
    <2> DEFINE pre == [spare |-> h.arrays[a].spare, pool |-> h.pools[a]]
    <2>1. r = IF Shown(h, a) /\ (j.spares # None => h.arrays[a].spare \in {None, a})
              THEN Nothing(Saw(s, pre)) ELSE Check(FALSE, s)
      BY <1>2, <1>5 DEF ArrayModify
    <2>a. pre.pool = h.pools[a]
      OBVIOUS
    <2> HIDE DEF pre
    <2>2. Shown(h, a) /\ r = Nothing(Saw(s, pre))
      BY <2>1 DEF Check
    <2>3. r.calls = <<>> /\ r.stash = Saw(s, pre)
      BY <2>2 DEF Nothing, Issue
    <2>4. Achieved(j, n + 1, r.stash, x)
      <3>1. r.stash.before.pool = x.pool /\ x.array # None
        BY <1>4, <2>a, <2>2, <2>3, Stashed DEF Shown
      <3>2. n + 1 = 2
        BY <1>5
      <3>3. QED BY <3>1, <3>2 DEF Achieved
    <2>5. QED BY <2>3, <2>4, LeadsStill
  <1>6. CASE n = 2
    <2>1. stage = "apply_spares"
      BY <1>2, <1>6
    <2>2. x.array \in ArrayState /\ x.pool = s.before.pool
      BY <1>4, <1>6 DEF Achieved, Parts
    <2>3. CASE j.spares = None
      <3>1. r.calls = <<>>
        BY <1>2, <2>1, <2>3 DEF ArrayModify, Nothing, Issue
      <3>2. Achieved(j, n + 1, r.stash, x)
        <4>1. n > 1 /\ n + 1 = 3
          BY <1>6
        <4>2. QED BY <2>3, <4>1 DEF Achieved
      <3>3. QED BY <3>1, <3>2, LeadsStill
    <2>4. CASE j.spares \in SUBSET Drive /\ j.spares # None /\ j.spares # {}
      <3> DEFINE pre    == s.before
                 new    == j.spares \ pre.pool.drives
                 old    == pre.pool.drives \ j.spares
                 make   == Call("poolCreate", a, j.spares)
                 on     == Call("poolSetActive", a, TRUE)
                 add    == Call("poolAdd", a, new)
                 drop   == Call("poolRemove", a, old)
                 named  == Call("raidModify", a, a)
                 S      == {make, on, add, drop, named}
                 one    == If(~(j.spares \subseteq pre.pool.drives), <<add>>)
                 two    == one \o If(~(pre.pool.drives \subseteq j.spares), <<drop>>)
                 three  == two \o If(~pre.pool.active, <<on>>)
                 pool   == IF ~(pre.pool # None) THEN <<make, on>> ELSE three
      <3>1. r.calls = pool \o If(pre.spare # a, <<named>>)
        <4> DEFINE calls == pool \o If(pre.spare # a, <<named>>)
        <4>1. r = Issue(s, calls)
          BY <1>2, <2>1, <2>4 DEF ArrayModify
        <4> HIDE DEF calls
        <4>2. r.calls = calls
          BY <4>1, Issued
        <4>3. QED BY <4>2, Zenon DEF calls
      <3>2. /\ make.verb = "poolCreate" /\ make.arg = j.spares
            /\ on.verb = "poolSetActive" /\ on.arg = TRUE
            /\ add.verb = "poolAdd" /\ add.arg = new
            /\ drop.verb = "poolRemove" /\ drop.arg = old
            /\ named.verb = "raidModify" /\ named.arg = a
        BY DEF Call
      <3> HIDE DEF make, on, add, drop, named
      <3>3. make \in S /\ on \in S /\ add \in S /\ drop \in S /\ named \in S /\ <<make, on>> \in Seq(S) /\ one \in Seq(S)
        <4>1. make \in S /\ on \in S /\ add \in S /\ drop \in S /\ named \in S
          OBVIOUS
        <4> HIDE DEF S
        <4>2. QED BY <4>1, CallSeq, CallsSeq
      <3> HIDE DEF S
      <3>4. \E z : Leads(x, pool, z) /\ pool \in Seq(S) /\ z.array = x.array /\ z.pool = Filled(j.spares)
        <4>1. CASE pre.pool = None
          <5> DEFINE x1 == Eff(x, make)
                     z  == Eff(x1, on)
          <5>1. x1.pool = Fresh(j.spares) /\ x1.array = x.array
            BY <3>2, EffCreated
          <5>2. Leads(x, <<make, on>>, z)
            BY LeadsTwo
          <5> HIDE DEF x1
          <5>3. z.pool = Switched(x1.pool, TRUE) /\ z.array = x1.array
            BY <3>2, EffSwitched
          <5> HIDE DEF z
          <5>4. z.pool = Filled(j.spares) /\ z.array = x.array
            BY <2>4, <5>1, <5>3, FilledPool
          <5>5. pool = <<make, on>>
            BY <4>1
          <5> HIDE DEF pool
          <5>6. QED BY <3>3, <5>2, <5>4, <5>5
        <4>2. CASE pre.pool # None
          <5> DEFINE x1 == IF ~(j.spares \subseteq pre.pool.drives) THEN Eff(x, add) ELSE x
                     x2 == IF ~(pre.pool.drives \subseteq j.spares) THEN Eff(x1, drop) ELSE x1
                     x3 == IF ~pre.pool.active THEN Eff(x2, on) ELSE x2
          <5> HIDE DEF pre
          <5>1. Leads(x, one, x1)
            <6>1. ~(j.spares \subseteq pre.pool.drives) => Leads(x, <<add>>, x1)
              BY LeadsOne
            <6> HIDE DEF x1
            <6>2. j.spares \subseteq pre.pool.drives => x = x1
              BY DEF x1
            <6>3. QED BY <6>1, <6>2, LeadsIf
          <5>2. /\ x1.array = x.array
                /\ x1.pool = IF ~(j.spares \subseteq pre.pool.drives) THEN Enlarged(x.pool, new) ELSE x.pool
            BY <3>2, EffEnlarged
          <5>3. /\ ~(pre.pool.drives \subseteq j.spares) => x2 = Eff(x1, drop)
                /\ pre.pool.drives \subseteq j.spares => x2 = x1
            OBVIOUS
          <5>4. /\ ~pre.pool.active => x3 = Eff(x2, on)
                /\ pre.pool.active => x3 = x2
            OBVIOUS
          <5> HIDE DEF x1, x2, x3, one
          <5>5. Leads(x, two, x2) /\ two \in Seq(S)
            BY <3>3, <5>1, <5>3, LeadsMore
          <5>6. /\ x2.array = x1.array
                /\ x2.pool = IF ~(pre.pool.drives \subseteq j.spares) THEN Reduced(x1.pool, old) ELSE x1.pool
            <6>1. drop.verb = "poolRemove" /\ drop.arg = old
              BY <3>2
            <6> HIDE DEF drop, old
            <6>2. ~(pre.pool.drives \subseteq j.spares) =>
                     x2.array = x1.array /\ x2.pool = Reduced(x1.pool, old)
              BY <5>3, <6>1, EffReduced
            <6>3. pre.pool.drives \subseteq j.spares => x2 = x1
              BY <5>3
            <6>4. QED BY <6>2, <6>3
          <5> HIDE DEF two
          <5>7. Leads(x, three, x3) /\ three \in Seq(S)
            BY <3>3, <5>4, <5>5, LeadsMore
          <5>8. /\ x3.array = x2.array
                /\ x3.pool = IF ~pre.pool.active THEN Switched(x2.pool, TRUE) ELSE x2.pool
            BY <3>2, <5>4, EffSwitched
          <5>9. x.pool = pre.pool /\ x.pool \in PoolState
            BY <1>4, <2>2, <4>2 DEF Parts, pre
          <5>10. x3.pool = Filled(j.spares)
            <6>1. PICK p \in PoolState : p = x.pool /\ p = pre.pool
              BY <5>9
            <6>2. x1.pool = Grown(p, j.spares)
              BY <5>2, <6>1 DEF Grown
            <6>3. x2.pool = Pruned(x1.pool, p, j.spares)
              BY <5>6, <6>1 DEF Pruned
            <6>4. x3.pool = Lit(x2.pool, p)
              BY <5>8, <6>1 DEF Lit
            <6>5. QED BY <2>4, <6>2, <6>3, <6>4, RefilledPool
          <5>11. pool = three
            BY <4>2
          <5> HIDE DEF pool, three
          <5>12. QED BY <5>2, <5>6, <5>7, <5>8, <5>10, <5>11
        <4>3. QED BY <4>1, <4>2
      <3> HIDE DEF pool
      <3>5. PICK z : Leads(x, pool, z) /\ pool \in Seq(S) /\ z.array = x.array /\ z.pool = Filled(j.spares)
        BY <3>4
      <3> DEFINE y == IF pre.spare # a THEN Eff(z, named) ELSE z
      <3>6. y.pool = Filled(j.spares) /\ y.array # None
        <4>1. CASE pre.spare # a
          <5>1. y.pool = z.pool /\ y.array = Spared(z.array, a)
            BY <3>2, <4>1, EffNamed
          <5>2. Spared(x.array, a) # None
            BY <1>3, <2>2, StillArray
          <5> HIDE DEF y
          <5>3. QED BY <3>5, <5>1, <5>2
        <4>2. CASE pre.spare = a
          <5>1. x.array # None
            BY <2>2, NoneApart
          <5>2. QED BY <3>5, <4>2, <5>1
        <4>3. QED BY <4>1, <4>2
      <3>7. (pre.spare # a => y = Eff(z, named)) /\ (pre.spare = a => y = z)
        OBVIOUS
      <3> HIDE DEF y
      <3>8. Leads(x, r.calls, y)
        <4>1. Leads(x, pool \o If(pre.spare # a, <<named>>), y)
          <5> HIDE DEF pre
          <5>1. QED BY <3>3, <3>5, <3>7, LeadsMore
        <4>2. QED BY <3>1, <4>1
      <3>9. Achieved(j, n + 1, r.stash, y)
        <4>1. n + 1 = 3
          BY <1>6
        <4>2. QED BY <3>6, <4>1 DEF Achieved
      <3>10. QED BY <3>8, <3>9, Zenon
    <2>5. CASE j.spares = {} /\ j.spares # None
      <3> DEFINE pre  == s.before
                 bare == Call("raidModify", a, None)
                 off  == Call("poolSetActive", a, FALSE)
                 del  == Call("poolDelete", a, None)
                 S    == {bare, off, del}
                 one  == If(pre.spare = a, <<bare>>)
                 out  == If(pre.pool.active, <<off>>) \o <<del>>
                 two  == If(pre.pool # None, out)
      <3>1. r.calls = one \o two
        <4>1. r = Issue(s, one \o two)
          BY <1>2, <2>1, <2>5 DEF ArrayModify
        <4> HIDE DEF one, two
        <4>2. QED BY <4>1 DEF Issue
      <3>2. /\ bare.verb = "raidModify" /\ bare.arg = None
            /\ off.verb = "poolSetActive" /\ del.verb = "poolDelete"
        BY DEF Call
      <3> HIDE DEF bare, off, del
      <3>3. bare \in S /\ off \in S /\ del \in S /\ one \in Seq(S) /\ If(pre.pool.active, <<off>>) \in Seq(S)
        <4>1. bare \in S /\ off \in S /\ del \in S
          OBVIOUS
        <4> HIDE DEF S
        <4>2. QED BY <4>1, CallSeq
      <3> HIDE DEF S
      <3> DEFINE x1 == IF pre.spare = a THEN Eff(x, bare) ELSE x
                 x2 == IF pre.pool.active THEN Eff(x1, off) ELSE x1
                 x3 == Eff(x2, del)
                 y  == IF pre.pool # None THEN x3 ELSE x1
      <3>4. x1.array # None
        <4>1. CASE pre.spare = a
          <5>1. x1.array = Spared(x.array, None)
            BY <3>2, <4>1, EffRaid
          <5>2. Spared(x.array, None) # None
            BY <2>2, StillArray
          <5>3. QED BY <5>1, <5>2
        <4>2. CASE pre.spare # a
          BY <2>2, <4>2, NoneApart
        <4>3. QED BY <4>1, <4>2
      <3>5. Leads(x, one, x1)
        <4>1. pre.spare = a => Leads(x, <<bare>>, x1)
          BY LeadsOne
        <4>2. pre.spare # a => x = x1
          OBVIOUS
        <4> HIDE DEF x1
        <4>3. QED BY <4>1, <4>2, LeadsIf
      <3> HIDE DEF x1
      <3>6. Leads(x1, If(pre.pool.active, <<off>>), x2)
        <4>1. pre.pool.active => Leads(x1, <<off>>, x2)
          BY LeadsOne
        <4>2. ~pre.pool.active => x1 = x2
          OBVIOUS
        <4> HIDE DEF x2
        <4>3. QED BY <4>1, <4>2, LeadsIf
      <3>7. x2.array = x1.array
        BY <3>2, EffPool DEF OnPools
      <3> HIDE DEF x2
      <3>8. x3.array = x2.array
        BY <3>2, EffPool DEF OnPools
      <3>9. Leads(x1, out, x3) /\ out \in Seq(S)
        <4>1. x3 = Eff(x2, del)
          OBVIOUS
        <4> HIDE DEF x3
        <4>2. QED BY <3>3, <3>6, <4>1, LeadsLast
      <3> HIDE DEF x3, out
      <3>10. Leads(x1, two, y) /\ two \in Seq(S)
        <4>1. (pre.pool # None => Leads(x1, out, y)) /\ (pre.pool = None => x1 = y)
          BY <3>9
        <4> HIDE DEF y
        <4>2. Leads(x1, two, y)
          BY <4>1, LeadsIf
        <4>3. two \in Seq(S)
          BY <3>9 DEF If
        <4>4. QED BY <4>2, <4>3
      <3>11. y.array # None
        BY <3>4, <3>7, <3>8
      <3> HIDE DEF y, one, two
      <3>12. Leads(x, r.calls, y)
        BY <3>1, <3>3, <3>5, <3>10, LeadsThen
      <3>13. Achieved(j, n + 1, r.stash, y)
        <4>1. n + 1 = 3
          BY <1>6
        <4>2. QED BY <2>5, <3>11, <4>1 DEF Achieved
      <3>14. QED BY <3>12, <3>13
    <2>6. QED BY <1>3, <2>3, <2>4, <2>5
  <1>7. CASE n = 3
    <2>1. stage = "apply_tuning"
      BY <1>2, <1>7
    <2> DEFINE keep == Call("raidModify", a, h.arrays[a].spare)
               y    == Eff(x, keep)
    <2>2. x.array \in ArrayState /\ x.array # None
      BY <1>4, <1>7 DEF Achieved, Parts
    <2>3. r.calls = <<keep>>
      <3>1. Shown(h, a)
        BY <1>4, <2>2 DEF Shown
      <3>2. r = Issue(s, <<keep>>)
        BY <1>2, <2>1, <3>1 DEF ArrayModify, If
      <3> HIDE DEF keep
      <3>3. QED BY <3>2 DEF Issue
    <2>4. keep.verb = "raidModify" /\ keep.arg = x.array.spare
      BY <1>4 DEF Call
    <2> HIDE DEF keep
    <2>5. y.pool = x.pool /\ y.array = Spared(x.array, x.array.spare)
      BY <2>4, EffRaid
    <2>6. x.array.spare \in PoolName \cup {None}
      BY <2>2 DEF ArrayState
    <2>7. y.array # None
      BY <2>2, <2>5, <2>6, StillArray
    <2>8. Leads(x, r.calls, y)
      BY <2>3, LeadsOne
    <2> HIDE DEF y
    <2>9. Achieved(j, n + 1, r.stash, y)
      <3>1. n > 2 /\ n + 1 = 4
        BY <1>7
      <3>2. QED BY <2>5, <2>7, <3>1 DEF Achieved
    <2>10. QED BY <2>8, <2>9
  <1>8. CASE n = 4
    <2>1. r.calls = <<>>
      BY <1>2, <1>8 DEF ArrayModify, Check
    <2>2. Achieved(j, n + 1, r.stash, x)
      <3>1. n > 2 /\ n + 1 = 5
        BY <1>8
      <3>2. QED BY <3>1 DEF Achieved
    <2>3. QED BY <2>1, <2>2, LeadsStill
  <1>9. QED BY <1>2, <1>5, <1>6, <1>7, <1>8

LEMMA EffOfFs ==
    ASSUME NEW x, NEW c
    PROVE  /\ c.verb = "mkfs" =>
                 Eff(x, c).unit = x.unit /\ Eff(x, c).mount = x.mount /\ Eff(x, c).data = c.on
           /\ c.verb # "mkfs" => Eff(x, c).data = x.data
           /\ c.verb = "writeUnit" => Eff(x, c).unit = c.arg /\ Eff(x, c).mount = x.mount
           /\ c.verb = "removeUnit" => Eff(x, c).unit = None /\ Eff(x, c).mount = x.mount
           /\ c.verb = "enableNow" =>
                 /\ Eff(x, c).unit = x.unit /\ Eff(x, c).on
                 /\ Eff(x, c).mount = IF x.mount # None THEN x.mount ELSE x.unit
           /\ c.verb = "stop" => Eff(x, c).unit = x.unit /\ Eff(x, c).mount = None
           /\ c.verb = "disable" => Eff(x, c).unit = x.unit /\ Eff(x, c).mount = x.mount /\ ~Eff(x, c).on
  BY DEF Eff

LEMMA EffOfNfs ==
    ASSUME NEW x, NEW c
    PROVE  /\ c.verb \in {"addExport", "updateExport"} => Eff(x, c).export = c.arg
           /\ c.verb = "removeExport" => Eff(x, c).export = None
           /\ c.verb = "setIdmapDomain" => Eff(x, c).domain = c.arg
           /\ c.verb = "renderProfile" => Eff(x, c).profile = c.arg
  BY DEF Eff

\* A stage that makes one call.
LEMMA OneCall ==
    ASSUME NEW x, NEW s, NEW c, NEW r, r = Issue(s, <<c>>)
    PROVE  Leads(x, r.calls, Eff(x, c)) /\ r.stash = s
  <1> DEFINE calls == <<c>>
  <1>1. r = Issue(s, calls) /\ Leads(x, calls, Eff(x, c))
    BY LeadsOne
  <1> HIDE DEF calls
  <1>2. QED BY <1>1, Issued

\* A stage that makes none.
LEMMA NoCall ==
    ASSUME NEW x, NEW s, NEW ok, NEW r, r \in {Check(ok, s), Nothing(s)}
    PROVE  Leads(x, r.calls, x) /\ r.stash = s /\ (r = Check(ok, s) => r.pass = ok)
  <1>1. r.calls = <<>> /\ r.stash = s /\ (r = Check(ok, s) => r.pass = ok)
    BY DEF Check, Nothing, Issue
  <1>2. QED BY <1>1, LeadsStill

LEMMA PoolDeleteLeads ==
    ASSUME NEW j \in Job, j.kind = "pool.delete", NEW h \in Host, NEW s \in Stash(j.kind),
           NEW n \in 1 .. Len(Stages(j.kind)), NEW x, x = Part(j, h), Achieved(j, n, s, x),
           NEW r, r = RunStage(j, Stages(j.kind)[n], h, s), r.pass
    PROVE  \E y : Leads(x, r.calls, y) /\ Achieved(j, n + 1, r.stash, y)
  <1>1. Stages(j.kind) = <<"preflight", "delete">>
    BY DEF Stages
  <1>2. PICK stage : /\ n \in 1 .. 2 /\ r = PoolDeleteStage(j, stage, h, s)
                     /\ n = 1 => stage = "preflight"
                     /\ n = 2 => stage = "delete"
    BY <1>1 DEF RunStage
  <1>3. CASE n = 1
    <2>1. r.calls = <<>>
      BY <1>2, <1>3 DEF PoolDeleteStage, Check
    <2>2. Achieved(j, n + 1, r.stash, x)
      BY <1>3 DEF Achieved
    <2>3. QED BY <2>1, <2>2, LeadsStill
  <1>4. CASE n = 2
    <2> DEFINE del == Call("poolDelete", j.pool, None)
               y   == Eff(x, del)
    <2>1. r = Issue(s, <<del>>)
      BY <1>2, <1>4 DEF PoolDeleteStage
    <2>2. del.verb = "poolDelete"
      BY DEF Call
    <2> HIDE DEF del
    <2>3. Leads(x, r.calls, y)
      BY <2>1, OneCall
    <2>4. y.pool = None
      BY <2>2, EffDropped
    <2> HIDE DEF y
    <2>5. Achieved(j, n + 1, r.stash, y)
      BY <2>4 DEF Achieved
    <2>6. QED BY <2>3, <2>5
  <1>5. QED BY <1>2, <1>3, <1>4

LEMMA FsCreateLeads ==
    ASSUME NEW j \in Job, j.kind = "fs.create", NEW h \in Host, NEW s \in Stash(j.kind),
           NEW n \in 1 .. Len(Stages(j.kind)), NEW x, x = Part(j, h), Achieved(j, n, s, x),
           NEW r, r = RunStage(j, Stages(j.kind)[n], h, s), r.pass
    PROVE  \E y : Leads(x, r.calls, y) /\ Achieved(j, n + 1, r.stash, y)
  <1>1. Stages(j.kind) = <<"preflight", "mkfs", "install_unit", "mount", "verify">>
    BY DEF Stages
  <1>2. PICK stage : /\ n \in 1 .. 5 /\ r = FsCreate(j, stage, h, s)
                     /\ n = 1 => stage = "preflight"
                     /\ n = 2 => stage = "mkfs"
                     /\ n = 3 => stage = "install_unit"
                     /\ n = 4 => stage = "mount"
                     /\ n = 5 => stage = "verify"
    BY <1>1 DEF RunStage
  <1>3. x.unit = h.units[j.path] /\ x.mount = h.mounts[j.path] /\ x.data = h.data[j.unit.what]
    BY PartFields DEF FsKinds
  <1>4. j.resolved
    <2>1. ~j.resolved => r = Check(FALSE, s)
      BY <1>2 DEF FsCreate
    <2>2. QED BY <2>1 DEF Check
  <1>5. CASE n \in {1, 5}
    <2> DEFINE ok == IF n = 1 THEN (h.data[j.unit.what] # None => j.force) /\ ~HasUnit(h, j.path) /\ ~Mounted(h, j.path)
                     ELSE Mounted(h, j.path) /\ h.data[j.unit.what] # None
    <2>1. r = Check(ok, s)
      BY <1>2, <1>4, <1>5 DEF FsCreate
    <2> HIDE DEF ok
    <2>2. ok /\ Leads(x, r.calls, x)
      BY <2>1, NoCall
    <2>3. CASE n = 1
      <3>1. x.unit = None /\ x.mount = None
        BY <1>3, <2>2, <2>3 DEF ok, HasUnit, Mounted
      <3>2. Achieved(j, n + 1, r.stash, x)
        <4>1. n + 1 = 2
          BY <2>3
        <4>2. QED BY <3>1, <4>1 DEF Achieved
      <3>3. QED BY <2>2, <3>2
    <2>4. CASE n = 5
      <3>1. x.mount = j.unit /\ x.data = j.path
        BY <2>4 DEF Achieved
      <3>2. Achieved(j, n + 1, r.stash, x)
        <4>1. n + 1 = 6
          BY <2>4
        <4>2. QED BY <3>1, <4>1 DEF Achieved
      <3>3. QED BY <2>2, <3>2
    <2>5. QED BY <1>5, <2>3, <2>4
  <1>6. CASE n = 2
    <2> DEFINE c == Call("mkfs", j.path, j.unit)
               y == Eff(x, c)
    <2>1. r = Issue(s, <<c>>)
      BY <1>2, <1>4, <1>6 DEF FsCreate
    <2>2. c.verb = "mkfs" /\ c.on = j.path
      BY DEF Call
    <2> HIDE DEF c
    <2>3. Leads(x, r.calls, y)
      BY <2>1, OneCall
    <2>4. y.unit = None /\ y.mount = None /\ y.data = j.path
      BY <2>2, <1>6, EffOfFs DEF Achieved
    <2> HIDE DEF y
    <2>5. Achieved(j, n + 1, r.stash, y)
      <3>1. n + 1 = 3
        BY <1>6
      <3>2. QED BY <2>4, <3>1 DEF Achieved
    <2>6. QED BY <2>3, <2>5
  <1>7. CASE n = 3
    <2> DEFINE c == Call("writeUnit", j.path, j.unit)
               y == Eff(x, c)
    <2>1. r = Issue(s, <<c>>)
      BY <1>2, <1>4, <1>7 DEF FsCreate
    <2>2. c.verb = "writeUnit" /\ c.arg = j.unit
      BY DEF Call
    <2> HIDE DEF c
    <2>3. Leads(x, r.calls, y)
      BY <2>1, OneCall
    <2>4. y.unit = j.unit /\ y.mount = None /\ y.data = j.path
      BY <2>2, <1>7, EffOfFs DEF Achieved
    <2> HIDE DEF y
    <2>5. Achieved(j, n + 1, r.stash, y)
      <3>1. n + 1 = 4
        BY <1>7
      <3>2. QED BY <2>4, <3>1 DEF Achieved
    <2>6. QED BY <2>3, <2>5
  <1>8. CASE n = 4
    <2> DEFINE c == Call("enableNow", j.path, None)
               y == Eff(x, c)
    <2>1. r = Issue(s, <<c>>)
      BY <1>2, <1>4, <1>8 DEF FsCreate
    <2>2. c.verb = "enableNow"
      BY DEF Call
    <2> HIDE DEF c
    <2>3. Leads(x, r.calls, y)
      BY <2>1, OneCall
    <2>4. y.mount = j.unit /\ y.data = j.path
      BY <2>2, <1>8, EffOfFs DEF Achieved
    <2> HIDE DEF y
    <2>5. Achieved(j, n + 1, r.stash, y)
      <3>1. n + 1 = 5
        BY <1>8
      <3>2. QED BY <2>4, <3>1 DEF Achieved
    <2>6. QED BY <2>3, <2>5
  <1>9. QED BY <1>2, <1>5, <1>6, <1>7, <1>8

LEMMA FsMountLeads ==
    ASSUME NEW j \in Job, j.kind = "fs.mount", NEW h \in Host, NEW s \in Stash(j.kind),
           NEW n \in 1 .. Len(Stages(j.kind)), NEW x, x = Part(j, h), Achieved(j, n, s, x),
           NEW r, r = RunStage(j, Stages(j.kind)[n], h, s), r.pass
    PROVE  \E y : Leads(x, r.calls, y) /\ Achieved(j, n + 1, r.stash, y)
  <1>1. Stages(j.kind) = <<"preflight", "mount", "verify">>
    BY DEF Stages
  <1>2. PICK stage : /\ n \in 1 .. 3 /\ r = FsMount(j, stage, h, s)
                     /\ n = 1 => stage = "preflight"
                     /\ n = 2 => stage = "mount"
                     /\ n = 3 => stage = "verify"
    BY <1>1 DEF RunStage
  <1>3. CASE n = 1
    <2>1. r.calls = <<>>
      BY <1>2, <1>3 DEF FsMount, Check
    <2>2. Achieved(j, n + 1, r.stash, x)
      BY <1>3 DEF Achieved
    <2>3. QED BY <2>1, <2>2, LeadsStill
  <1>4. CASE n = 2
    <2> DEFINE c == Call("enableNow", j.path, None)
               y == Eff(x, c)
    <2>1. r = Issue(s, <<c>>)
      BY <1>2, <1>4 DEF FsMount
    <2>2. c.verb = "enableNow"
      BY DEF Call
    <2> HIDE DEF c
    <2>3. Leads(x, r.calls, y)
      BY <2>1, OneCall
    <2>4. y.on
      BY <2>2, EffOfFs
    <2> HIDE DEF y
    <2>5. Achieved(j, n + 1, r.stash, y)
      BY <1>4, <2>4 DEF Achieved
    <2>6. QED BY <2>3, <2>5
  <1>5. CASE n = 3
    <2>1. r = Check(Mounted(h, j.path), s)
      BY <1>2, <1>5 DEF FsMount
    <2>2. r.calls = <<>> /\ Mounted(h, j.path)
      BY <2>1 DEF Check
    <2>3. x.mount # None /\ x.on
      BY <1>5, <2>2, PartFields DEF Mounted, Achieved, FsKinds
    <2>4. Achieved(j, n + 1, r.stash, x)
      BY <2>3 DEF Achieved
    <2>5. QED BY <2>2, <2>4, LeadsStill
  <1>6. QED BY <1>2, <1>3, <1>4, <1>5

LEMMA FsUnmountLeads ==
    ASSUME NEW j \in Job, j.kind = "fs.unmount", NEW h \in Host, NEW s \in Stash(j.kind),
           NEW n \in 1 .. Len(Stages(j.kind)), NEW x, x = Part(j, h), Achieved(j, n, s, x),
           NEW r, r = RunStage(j, Stages(j.kind)[n], h, s), r.pass
    PROVE  \E y : Leads(x, r.calls, y) /\ Achieved(j, n + 1, r.stash, y)
  <1>1. Stages(j.kind) = <<"preflight", "unmount", "verify">>
    BY DEF Stages
  <1>2. PICK stage : /\ n \in 1 .. 3 /\ r = FsUnmount(j, stage, h, s)
                     /\ n = 1 => stage = "preflight"
                     /\ n = 2 => stage = "unmount"
                     /\ n = 3 => stage = "verify"
    BY <1>1 DEF RunStage
  <1>3. CASE n \in {1, 3}
    <2>1. r.calls = <<>>
      BY <1>2, <1>3 DEF FsUnmount, Check
    <2>2. Achieved(j, n + 1, r.stash, x)
      BY <1>3 DEF Achieved
    <2>3. QED BY <2>1, <2>2, LeadsStill
  <1>4. CASE n = 2
    <2> DEFINE stop  == Call("stop", j.path, None)
               off   == Call("disable", j.path, None)
               first == If(Mounted(h, j.path), <<stop>>)
               calls == first \o <<off>>
               S     == {stop, off}
    <2>1. r = Issue(s, calls)
      BY <1>2, <1>4 DEF FsUnmount
    <2>2. stop.verb = "stop" /\ off.verb = "disable" /\ stop \in S /\ off \in S
      BY DEF Call
    <2> HIDE DEF stop, off, S
    <2> DEFINE x1 == IF Mounted(h, j.path) THEN Eff(x, stop) ELSE x
               y  == Eff(x1, off)
    <2>3. x1.mount = None
      <3>1. x.mount = h.mounts[j.path]
        BY PartFields DEF FsKinds
      <3>2. QED BY <2>2, <3>1, EffOfFs DEF Mounted
    <2>4. Leads(x, first, x1) /\ first \in Seq(S)
      <3>1. (Mounted(h, j.path) => Leads(x, <<stop>>, x1)) /\ (~Mounted(h, j.path) => x = x1)
        BY LeadsOne
      <3> HIDE DEF x1
      <3>2. Leads(x, first, x1)
        BY <3>1, LeadsIf
      <3>3. QED BY <2>2, <3>2, CallSeq
    <2> HIDE DEF x1, first
    <2>5. y.mount = None /\ ~y.on
      BY <2>2, <2>3, EffOfFs
    <2>6. Leads(x, calls, y)
      BY <2>2, <2>4, LeadsLast
    <2> HIDE DEF calls, y
    <2>7. Leads(x, r.calls, y)
      BY <2>1, <2>6, Issued
    <2>8. Achieved(j, n + 1, r.stash, y)
      BY <2>5 DEF Achieved
    <2>9. QED BY <2>7, <2>8
  <1>5. QED BY <1>2, <1>3, <1>4

LEMMA QuotaLeads ==
    ASSUME NEW j \in Job, j.kind = "fs.set_quota_mode", NEW h \in Host, NEW s \in Stash(j.kind),
           NEW n \in 1 .. Len(Stages(j.kind)), NEW x, x = Part(j, h), Achieved(j, n, s, x),
           n > 1 => s.before \in PreState(j.kind),
           NEW r, r = RunStage(j, Stages(j.kind)[n], h, s), r.pass
    PROVE  \E y : Leads(x, r.calls, y) /\ Achieved(j, n + 1, r.stash, y)
  <1>1. Stages(j.kind) = <<"preflight", "apply", "verify">>
    BY DEF Stages
  <1>2. PICK stage : /\ n \in 1 .. 3 /\ r = FsSetQuotaMode(j, stage, h, s)
                     /\ n = 1 => stage = "preflight"
                     /\ n = 2 => stage = "apply"
                     /\ n = 3 => stage = "verify"
    BY <1>1 DEF RunStage
  <1> DEFINE p == j.path
  <1>3. x.unit = h.units[p] /\ x.mount = h.mounts[p]
    BY PartFields DEF FsKinds
  <1>4. CASE n = 1
    <2> DEFINE pre == [unit |-> h.units[p], mounted |-> Mounted(h, p)]
    <2>1. r = IF HasUnit(h, p) THEN Nothing(Saw(s, pre)) ELSE Check(FALSE, s)
      BY <1>2, <1>4 DEF FsSetQuotaMode
    <2>2. pre.unit = x.unit /\ (pre.mounted <=> x.mount # None)
      BY <1>3 DEF Mounted
    <2> HIDE DEF pre
    <2>3. r = Nothing(Saw(s, pre))
      BY <2>1 DEF Check
    <2>4. r.calls = <<>> /\ r.stash.before = pre
      BY <2>3, Stashed DEF Nothing, Issue
    <2>5. Achieved(j, n + 1, r.stash, x)
      <3>1. n + 1 = 2
        BY <1>4
      <3>2. QED BY <2>2, <2>4, <3>1 DEF Achieved
    <2>6. QED BY <2>4, <2>5, LeadsStill
  <1>5. CASE n = 2
    <2> DEFINE unit  == [s.before.unit EXCEPT !.quota = j.quota]
               write == Call("writeUnit", p, unit)
               stop  == Call("stop", p, None)
               start == Call("enableNow", p, None)
               again == If(s.before.mounted, <<stop, start>>)
               calls == <<write>> \o again
               S     == {write, stop, start}
    <2>1. r = Issue(s, calls)
      BY <1>2, <1>5 DEF FsSetQuotaMode
    <2>2. unit.quota = j.quota
      BY <1>5 DEF PreState, UnitText
    <2> HIDE DEF unit
    <2>3. /\ write.verb = "writeUnit" /\ write.arg = unit /\ stop.verb = "stop" /\ start.verb = "enableNow"
          /\ write \in S /\ stop \in S /\ start \in S
      BY DEF Call
    <2>4. s.before.mounted <=> x.mount # None
      BY <1>5 DEF Achieved
    <2> HIDE DEF write, stop, start, S
    <2> DEFINE x1 == Eff(x, write)
               x2 == Eff(x1, stop)
               x3 == Eff(x2, start)
               y  == IF s.before.mounted THEN x3 ELSE x1
    <2>5. x1.unit = unit /\ x1.mount = x.mount
      BY <2>3, EffOfFs
    <2>6. Leads(x, <<write>>, x1) /\ <<write>> \in Seq(S)
      BY <2>3, LeadsOne, CallSeq
    <2> HIDE DEF x1
    <2>7. x2.unit = x1.unit /\ x2.mount = None
      BY <2>3, EffOfFs
    <2>8. Leads(x1, <<stop, start>>, x3) /\ again \in Seq(S)
      BY <2>3, LeadsTwo, CallsSeq
    <2> HIDE DEF x2
    <2>9. x3.unit = x2.unit /\ x3.mount = x2.unit
      BY <2>3, <2>7, EffOfFs
    <2> HIDE DEF x3
    <2>10. Leads(x1, again, y)
      <3>1. (s.before.mounted => Leads(x1, <<stop, start>>, y)) /\ (~s.before.mounted => x1 = y)
        BY <2>8
      <3> HIDE DEF y
      <3>2. QED BY <3>1, LeadsIf
    <2>11. y.unit.quota = j.quota /\ (y.mount # None => y.mount.quota = j.quota)
      BY <2>2, <2>4, <2>5, <2>7, <2>9
    <2> HIDE DEF again, y
    <2>12. Leads(x, calls, y)
      BY <2>6, <2>8, <2>10, LeadsThen
    <2> HIDE DEF calls
    <2>13. Leads(x, r.calls, y)
      BY <2>1, <2>12, Issued
    <2>14. Achieved(j, n + 1, r.stash, y)
      <3>1. n + 1 = 3
        BY <1>5
      <3>2. QED BY <2>11, <3>1 DEF Achieved
    <2>15. QED BY <2>13, <2>14
  <1>6. CASE n = 3
    <2>1. r.calls = <<>>
      BY <1>2, <1>6 DEF FsSetQuotaMode, Check
    <2>2. Achieved(j, n + 1, r.stash, x)
      BY <1>6 DEF Achieved
    <2>3. QED BY <2>1, <2>2, LeadsStill
  <1>7. QED BY <1>2, <1>4, <1>5, <1>6

LEMMA UnmanageLeads ==
    ASSUME NEW j \in Job, j.kind = "fs.unmanage", NEW h \in Host, NEW s \in Stash(j.kind),
           NEW n \in 1 .. Len(Stages(j.kind)), NEW x, x = Part(j, h), Achieved(j, n, s, x),
           NEW r, r = RunStage(j, Stages(j.kind)[n], h, s), r.pass
    PROVE  \E y : Leads(x, r.calls, y) /\ Achieved(j, n + 1, r.stash, y)
  <1>1. Stages(j.kind) = <<"preflight", "remove", "verify">>
    BY DEF Stages
  <1>2. PICK stage : /\ n \in 1 .. 3 /\ r = FsUnmanage(j, stage, h, s)
                     /\ n = 1 => stage = "preflight"
                     /\ n = 2 => stage = "remove"
                     /\ n = 3 => stage = "verify"
    BY <1>1 DEF RunStage
  <1>3. CASE n = 1
    <2>1. r = IF HasUnit(h, j.path) /\ ~Mounted(h, j.path) THEN Nothing(Saw(s, h.units[j.path])) ELSE Check(FALSE, s)
      BY <1>2, <1>3 DEF FsUnmanage
    <2>2. r.calls = <<>> /\ h.mounts[j.path] = None
      BY <2>1 DEF Check, Nothing, Issue, Mounted
    <2>3. x.mount = None
      BY <2>2, PartFields DEF FsKinds
    <2>4. Achieved(j, n + 1, r.stash, x)
      BY <1>3, <2>3 DEF Achieved
    <2>5. QED BY <2>2, <2>4, LeadsStill
  <1>4. CASE n = 2
    <2> DEFINE off   == Soft(Call("disable", j.path, None))
               gone  == Call("removeUnit", j.path, None)
               calls == <<off, gone>>
               x1    == Eff(x, off)
               y     == Eff(x1, gone)
    <2>1. r = Issue(s, calls)
      BY <1>2, <1>4 DEF FsUnmanage
    <2>2. off.verb = "disable" /\ gone.verb = "removeUnit"
      BY DEF Call, Soft
    <2> HIDE DEF off, gone
    <2>3. Leads(x, calls, y)
      BY LeadsTwo
    <2>4. x1.mount = None
      BY <2>2, <1>4, EffOfFs DEF Achieved
    <2> HIDE DEF x1
    <2>5. y.mount = None /\ y.unit = None
      BY <2>2, <2>4, EffOfFs
    <2> HIDE DEF calls, y
    <2>6. Leads(x, r.calls, y)
      BY <2>1, <2>3, Issued
    <2>7. Achieved(j, n + 1, r.stash, y)
      BY <2>5 DEF Achieved
    <2>8. QED BY <2>6, <2>7
  <1>5. CASE n = 3
    <2>1. r.calls = <<>>
      BY <1>2, <1>5 DEF FsUnmanage, Check
    <2>2. Achieved(j, n + 1, r.stash, x)
      BY <1>5 DEF Achieved
    <2>3. QED BY <2>1, <2>2, LeadsStill
  <1>6. QED BY <1>2, <1>3, <1>4, <1>5

LEMMA ShareLeads ==
    ASSUME NEW j \in Job, j.kind \in ShareKinds, NEW h \in Host, NEW s \in Stash(j.kind),
           NEW n \in 1 .. Len(Stages(j.kind)), NEW x, x = Part(j, h), Achieved(j, n, s, x),
           NEW r, r = RunStage(j, Stages(j.kind)[n], h, s), r.pass
    PROVE  \E y : Leads(x, r.calls, y) /\ Achieved(j, n + 1, r.stash, y)
  <1>1. /\ j.kind \in {"share.create", "share.update"} => Stages(j.kind) = <<"preflight", "apply", "verify">>
        /\ j.kind = "share.delete" => Stages(j.kind) = <<"preflight", "apply">>
    BY Zenon DEF Stages
  <1>2. PICK stage : /\ r = RunStage(j, stage, h, s) /\ n \in 1 .. 3
                     /\ n = 1 => stage = "preflight"
                     /\ n = 2 => stage = "apply"
                     /\ n = 3 => stage = "verify" /\ j.kind # "share.delete"
    BY <1>1 DEF ShareKinds
  <1>3. /\ j.kind = "share.create" => r = ShareCreate(j, stage, h, s)
        /\ j.kind = "share.update" => r = ShareUpdate(j, stage, h, s)
        /\ j.kind = "share.delete" => r = ShareDelete(j, stage, h, s)
    BY <1>2 DEF RunStage
  <1>4. CASE n # 2
    <2>1. r.calls = <<>>
      BY <1>2, <1>3, <1>4 DEF ShareKinds, ShareCreate, ShareUpdate, ShareDelete, Check, Nothing, Issue
    <2>2. Achieved(j, n + 1, r.stash, x)
      BY <1>2, <1>4 DEF Achieved, ShareKinds
    <2>3. QED BY <2>1, <2>2, LeadsStill
  <1>5. CASE n = 2 /\ j.kind \in {"share.create", "share.update"}
    <2> DEFINE c    == IF j.kind = "share.create" THEN Call("addExport", j.path, j.rule)
                       ELSE Call("updateExport", j.path, j.rule)
               left == IF j.kind = "share.create" THEN Marked(s) ELSE s
               y    == Eff(x, c)
    <2>1. r = Issue(left, <<c>>)
      <3>1. CASE j.kind = "share.create"
        <4>1. r = Issue(Marked(s), <<Call("addExport", j.path, j.rule)>>)
          BY <1>2, <1>3, <1>5, <3>1 DEF ShareCreate
        <4>2. c = Call("addExport", j.path, j.rule) /\ left = Marked(s)
          BY <3>1
        <4> HIDE DEF c, left
        <4>3. QED BY <4>1, <4>2
      <3>2. CASE j.kind = "share.update"
        <4>1. r = Issue(s, <<Call("updateExport", j.path, j.rule)>>)
          BY <1>2, <1>3, <1>5, <3>2 DEF ShareUpdate
        <4>2. c = Call("updateExport", j.path, j.rule) /\ left = s
          BY <3>2
        <4> HIDE DEF c, left
        <4>3. QED BY <4>1, <4>2
      <3>3. QED BY <1>5, <3>1, <3>2
    <2>2. c.verb \in {"addExport", "updateExport"} /\ c.arg = j.rule
      BY DEF Call
    <2> HIDE DEF c, left
    <2>3. Leads(x, r.calls, y)
      BY <2>1, OneCall
    <2>4. y.export = j.rule
      BY <2>2, EffOfNfs
    <2> HIDE DEF y
    <2>5. Achieved(j, n + 1, r.stash, y)
      BY <1>5, <2>4 DEF Achieved
    <2>6. QED BY <2>3, <2>5
  <1>6. CASE n = 2 /\ j.kind = "share.delete"
    <2> DEFINE c     == Call("removeExport", j.path, None)
               calls == If(Exported(h, j.path), <<c>>)
               y     == IF Exported(h, j.path) THEN Eff(x, c) ELSE x
    <2>1. r = Issue(s, calls)
      BY <1>2, <1>3, <1>6 DEF ShareDelete
    <2>2. c.verb = "removeExport"
      BY DEF Call
    <2> HIDE DEF c
    <2>3. x.export = h.exports[j.path]
      BY PartFields DEF ShareKinds
    <2>4. y.export = None
      BY <2>2, <2>3, EffOfNfs DEF Exported
    <2>5. (Exported(h, j.path) => Leads(x, <<c>>, y)) /\ (~Exported(h, j.path) => x = y)
      BY LeadsOne
    <2> HIDE DEF y
    <2>6. Leads(x, calls, y)
      BY <2>5, LeadsIf
    <2> HIDE DEF calls
    <2>7. Leads(x, r.calls, y)
      BY <2>1, <2>6, Issued
    <2>8. Achieved(j, n + 1, r.stash, y)
      BY <1>6, <2>4 DEF Achieved
    <2>9. QED BY <2>7, <2>8
  <1>7. QED BY <1>4, <1>5, <1>6, Zenon DEF ShareKinds

LEMMA NfsLeads ==
    ASSUME NEW j \in Job, j.kind \in {"nfs-idmap.set", "nfs-profile.update"}, NEW h \in Host, NEW s \in Stash(j.kind),
           NEW n \in 1 .. Len(Stages(j.kind)), NEW x, x = Part(j, h), Achieved(j, n, s, x),
           NEW r, r = RunStage(j, Stages(j.kind)[n], h, s), r.pass
    PROVE  \E y : Leads(x, r.calls, y) /\ Achieved(j, n + 1, r.stash, y)
  <1>1. Stages(j.kind) = <<"preflight", "apply">>
    BY Zenon DEF Stages
  <1>2. PICK stage : /\ r = RunStage(j, stage, h, s) /\ n \in 1 .. 2
                     /\ n = 1 => stage = "preflight"
                     /\ n = 2 => stage = "apply"
    BY <1>1
  <1>3. /\ j.kind = "nfs-idmap.set" => r = NfsIdmapSet(j, stage, h, s)
        /\ j.kind = "nfs-profile.update" => r = NfsProfileUpdate(j, stage, h, s)
    BY <1>2 DEF RunStage
  <1>4. CASE n = 1
    <2>1. r.calls = <<>>
      BY <1>2, <1>3, <1>4 DEF NfsIdmapSet, NfsProfileUpdate, Nothing, Issue
    <2>2. Achieved(j, n + 1, r.stash, x)
      BY <1>4 DEF Achieved
    <2>3. QED BY <2>1, <2>2, LeadsStill
  <1>5. CASE n = 2 /\ j.kind = "nfs-idmap.set"
    <2> DEFINE c == Call("setIdmapDomain", None, j.domain)
               y == Eff(x, c)
    <2>1. r = Issue(s, <<c>>)
      BY <1>2, <1>3, <1>5 DEF NfsIdmapSet
    <2>2. c.verb = "setIdmapDomain" /\ c.arg = j.domain
      BY DEF Call
    <2> HIDE DEF c
    <2>3. Leads(x, r.calls, y)
      BY <2>1, OneCall
    <2>4. y.domain = j.domain
      BY <2>2, EffOfNfs
    <2> HIDE DEF y
    <2>5. Achieved(j, n + 1, r.stash, y)
      BY <1>5, <2>4 DEF Achieved
    <2>6. QED BY <2>3, <2>5
  <1>6. CASE n = 2 /\ j.kind = "nfs-profile.update"
    <2> DEFINE c == Call("renderProfile", None, j.profile)
               y == Eff(x, c)
    <2>1. r = Issue(s, <<c>>)
      BY <1>2, <1>3, <1>6 DEF NfsProfileUpdate
    <2>2. c.verb = "renderProfile" /\ c.arg = j.profile
      BY DEF Call
    <2> HIDE DEF c
    <2>3. Leads(x, r.calls, y)
      BY <2>1, OneCall
    <2>4. y.profile = j.profile
      BY <2>2, EffOfNfs
    <2> HIDE DEF y
    <2>5. Achieved(j, n + 1, r.stash, y)
      BY <1>6, <2>4 DEF Achieved
    <2>6. QED BY <2>3, <2>5
  <1>7. QED BY <1>2, <1>4, <1>5, <1>6

\* Every stage that passes leads on to the next.
LEMMA StageLeads ==
    ASSUME NEW j \in Job, j.kind \in Leading, NEW h \in Host, NEW s \in Stash(j.kind),
           NEW n \in 1 .. Len(Stages(j.kind)), NEW x, x = Part(j, h), Achieved(j, n, s, x),
           n > 1 /\ j.kind \in {"xiraid.array.modify", "fs.set_quota_mode"} => s.before \in PreState(j.kind),
           NEW r, r = RunStage(j, Stages(j.kind)[n], h, s), r.pass
    PROVE  \E y : Leads(x, r.calls, y) /\ Achieved(j, n + 1, r.stash, y)
  <1>1. CASE j.kind \in {"xiraid.array.create", "xiraid.array.modify", "pool.delete"}
    BY <1>1, CreateLeads, ModifyLeads, PoolDeleteLeads
  <1>2. CASE j.kind \in {"fs.create", "fs.mount", "fs.unmount", "fs.set_quota_mode", "fs.unmanage"}
    BY <1>2, FsCreateLeads, FsMountLeads, FsUnmountLeads, QuotaLeads, UnmanageLeads
  <1>3. CASE j.kind \in ShareKinds \cup {"nfs-idmap.set", "nfs-profile.update"}
    BY <1>3, ShareLeads, NfsLeads
  <1>4. QED BY <1>1, <1>2, <1>3 DEF Leading, ShareKinds

-----------------------------------------------------------------------------
(***************************************************************************)
(* A run that has its part of the host to itself, up to its success.       *)
(***************************************************************************)
\* The calls left begin with the one that destroys the array.
Destroying(calls) == calls # <<>> /\ Head(calls).verb = "raidDestroy"

\* What a running task k will have done with its part x of the host.
Going(k, x) ==
    /\ k.job.kind \in Leading => \E y : Leads(x, k.calls, y) /\ Achieved(k.job, k.stage, k.stash, y)
    /\ k.job.kind = "xiraid.array.delete" /\ k.stage > 2 => x.array = None \/ Destroying(k.calls)
    /\ k.job.kind = "xiraid.array.import" /\ k.stage > 3 => x.array # None /\ k.calls = <<>>

OnCourse(t) ==
    task[t].phase = "running" /\ Unshared(t) => Going(task[t], Part(task[t].job, host))

RunInv == MountInv /\ \A t \in Task : OnCourse(t)

\* A run that begins has achieved nothing yet.
LEMMA GoingFirst ==
    ASSUME NEW k, k.stage = 1, k.calls = <<>>, NEW x
    PROVE  Going(k, x)
  <1>1. Achieved(k.job, k.stage, k.stash, x)
    BY DEF Achieved
  <1>2. Leads(x, k.calls, x)
    BY LeadsNone
  <1>3. QED BY <1>1, <1>2 DEF Going

\* The calls of a destroy.
LEMMA DestroyFirst ==
    ASSUME NEW j \in Job, j.kind = "xiraid.array.delete", NEW h \in Host, NEW s,
           NEW r, r = ArrayDelete(j, "destroy", h, s)
    PROVE  Destroying(r.calls)
  <1> DEFINE raid == Call("raidDestroy", j.array, FALSE)
             drop == Rest(DropPool(h, j.array))
             X    == {drop[i] : i \in DOMAIN drop}
             all  == <<raid>> \o drop
  <1>1. r.calls = all
    BY DEF ArrayDelete, Issue
  <1>2. drop \in Seq(X)
    BY DropPoolRest DEF AllSuit
  <1>3. raid.verb = "raidDestroy"
    BY DEF Call
  <1> HIDE DEF raid, drop, X
  <1>4. <<raid>> \in Seq(X \cup {raid}) /\ drop \in Seq(X \cup {raid})
    BY <1>2, SeqMonotonic
  <1>5. all \in Seq(X \cup {raid}) /\ Len(all) = 1 + Len(drop) /\ all[1] = raid /\ Len(drop) \in Nat
    BY <1>4, ConcatProperties, LenProperties
  <1> HIDE DEF all
  <1>6. all # <<>> /\ Head(all) = raid
    BY <1>5, HeadTailProperties, EmptySeq
  <1>7. QED BY <1>1, <1>3, <1>6 DEF Destroying

\* A stage that passes.
LEMMA GoingTurns ==
    ASSUME Typed, NEW t \in Task, NEW k, k = task[t], NEW q, Turns(k, q), NEW x, x = Part(k.job, host), Going(k, x)
    PROVE  Going(q, x)
  <1> DEFINE j == k.job
             n == k.stage
  <1>1. PICK stage, r : /\ stage = Stages(j.kind)[n]
                        /\ r = RunStage(j, stage, host, k.stash) \/ r = Unreadable(j, stage, k.stash)
                        /\ r.pass /\ q.calls = r.calls /\ q.stash = r.stash
    BY DEF Turns
  <1>2. /\ n \in 1 .. Len(Stages(j.kind)) /\ q.job = j /\ q.stage = n + 1 /\ k.calls = <<>>
        /\ host \in Host /\ j \in Job /\ k.stash \in Stash(j.kind)
        /\ n > 1 /\ j.kind \in {"xiraid.array.modify", "fs.set_quota_mode"} => k.stash.before \in PreState(j.kind)
    BY DEF Turns, Typed, TasksTyped, TaskTyped, Past
  <1>3. r = Unreadable(j, stage, k.stash) => j.kind = "xiraid.array.delete" /\ stage = "verify" /\ r.calls = <<>>
    <2> DEFINE ok == j.kind = "xiraid.array.delete" /\ stage = "verify"
    <2>1. Unreadable(j, stage, k.stash) = Check(ok, k.stash)
      BY DEF Unreadable
    <2> HIDE DEF ok
    <2>2. r = Unreadable(j, stage, k.stash) => ok /\ r.calls = <<>>
      BY <1>1, <2>1, StageReturns
    <2>3. QED BY <2>2 DEF ok
  <1> HIDE DEF j, n
  <1>4. ASSUME j.kind \in Leading
        PROVE  \E y : Leads(x, q.calls, y) /\ Achieved(j, n + 1, q.stash, y)
    <2>1. r = RunStage(j, Stages(j.kind)[n], host, k.stash)
      BY <1>1, <1>3, <1>4 DEF Leading
    <2>2. Achieved(j, n, k.stash, x)
      <3>1. PICK y : Leads(x, k.calls, y) /\ Achieved(j, n, k.stash, y)
        BY <1>4 DEF Going, j, n
      <3>2. Leads(x, <<>>, y)
        BY <1>2, <3>1
      <3>3. QED BY <3>1, <3>2, LeadsNone
    <2>3. x = Part(j, host)
      BY DEF j
    <2>4. \E y : Leads(x, r.calls, y) /\ Achieved(j, n + 1, r.stash, y)
      <3>1. /\ j \in Job /\ host \in Host /\ k.stash \in Stash(j.kind) /\ n \in 1 .. Len(Stages(j.kind))
            /\ n > 1 /\ j.kind \in {"xiraid.array.modify", "fs.set_quota_mode"} =>
                  k.stash.before \in PreState(j.kind)
        BY <1>2
      <3>2. r.pass
        BY <1>1
      <3>3. QED BY <1>4, <2>1, <2>2, <2>3, <3>1, <3>2, StageLeads, Zenon
    <2>5. QED BY <1>1, <2>4
  <1>5. ASSUME j.kind = "xiraid.array.delete", n + 1 > 2 PROVE x.array = None \/ Destroying(q.calls)
    <2>1. Stages(j.kind) = <<"preflight", "destroy", "verify">>
      BY <1>5 DEF Stages
    <2>2. n \in {2, 3} /\ (n = 2 => stage = "destroy") /\ (n = 3 => stage = "verify")
      BY <1>1, <1>2, <1>5, <2>1
    <2>3. CASE n = 2
      <3>1. r = ArrayDelete(j, "destroy", host, k.stash)
        BY <1>1, <1>3, <1>5, <2>2, <2>3 DEF RunStage
      <3>2. QED BY <1>1, <1>2, <1>5, <3>1, DestroyFirst
    <2>4. CASE n = 3
      BY <1>2, <1>5, <2>4 DEF Going, Destroying, j, n
    <2>5. QED BY <2>2, <2>3, <2>4
  <1>6. ASSUME j.kind = "xiraid.array.import", n + 1 > 3 PROVE x.array # None /\ q.calls = <<>>
    <2>1. Stages(j.kind) = <<"preflight", "adopt", "verify">>
      BY <1>6 DEF Stages
    <2>2. n = 3 /\ stage = "verify"
      BY <1>1, <1>2, <1>6, <2>1
    <2>3. r = ArrayImport(j, "verify", host, k.stash)
      BY <1>1, <1>3, <1>6, <2>2 DEF RunStage
    <2>4. Shown(host, j.array) /\ r.calls = <<>>
      BY <1>1, <2>3 DEF ArrayImport, Check
    <2>5. x.array = host.arrays[j.array]
      BY <1>6, PartFields DEF ArrayKinds, j
    <2>6. QED BY <1>1, <2>4, <2>5 DEF Shown
  <1>7. QED BY <1>2, <1>4, <1>5, <1>6 DEF Going, j, n

\* The unit of a filesystem nobody manages any more is not looked at for its enablement.
LEMMA EffDisable ==
    ASSUME NEW x, IsPart(x), x.on = FALSE, NEW c, c.verb = "disable"
    PROVE  Eff(x, c) = x
  <1> DEFINE y == Eff(x, c)
  <1>1. IsPart(y) /\ y = Eff(x, c)
    BY ArePart
  <1>2. c.verb \in FsVerbs
    BY DEF FsVerbs
  <1> HIDE DEF y
  <1>3. y.on = x.on
    BY <1>1, <1>2, EffOn
  <1>4. y.unit = x.unit /\ y.mount = x.mount
    BY <1>1, <1>2, EffUnit
  <1>5. /\ y.array = x.array /\ y.pool = x.pool /\ y.data = x.data
        /\ y.export = x.export /\ y.domain = x.domain /\ y.profile = x.profile
    BY <1>1, <1>2, EffFs
  <1>6. y = x
    BY <1>1, <1>3, <1>4, <1>5, PartsEqual
  <1>7. QED BY <1>6 DEF y

\* The calls of a deletion destroy the array or leave it destroyed.
LEMMA StaysGone ==
    ASSUME NEW j \in Job, j.kind = "xiraid.array.delete", NEW h \in Host, NEW s, NEW back, NEW c, Suits(c, j, s, back),
           NEW g \in {h, Perform(h, c).host}
    PROVE  /\ Part(j, h).array = None => Part(j, g).array = None
           /\ c.verb = "raidDestroy" /\ g = Perform(h, c).host => Part(j, g).array = None
  <1> DEFINE r == Perform(h, c)
             f == r.host
  <1>1. j.kind \in ArrayKinds /\ j.array \in Array /\ r = Perform(h, c) /\ f = r.host
    BY JobShape DEF ArrayKinds
  <1> HIDE DEF r, f
  <1>2. Part(j, h).array = h.arrays[j.array] /\ Part(j, f).array = f.arrays[j.array]
    BY <1>1, PartFields
  <1>3. /\ c.verb \in OnArrays \cup OnPools
        /\ c.verb \in OnArrays => c.verb = "raidDestroy" /\ c.on = j.array
        /\ c.verb \in OnPools => c.on = PoolOf(j) /\ PoolOf(j) \in PoolName
    <2>1. j.kind \notin FsKinds \cup ShareKinds \cup {"nfs-idmap.set", "nfs-profile.update"}
      BY DEF FsKinds, ShareKinds
    <2>2. c.verb \notin FsVerbs \cup NfsVerbs
      BY <2>1, SuitKind DEF NfsVerbs
    <2>3. c.verb \in OnArrays => c.verb = "raidDestroy"
      BY DEF Suits, RaidSuits, OnArrays
    <2>4. QED BY <2>2, <2>3, SuitKind
  <1>4. c.verb = "raidDestroy" => f.arrays[j.array] = None
    BY <1>1, <1>3, RaidFrame DEF OnArrays
  <1>5. c.verb \in OnPools => f.arrays = h.arrays
    BY <1>1, <1>3, PoolFrame
  <1>6. g = f \/ g = h
    BY <1>1
  <1>7. QED BY <1>1, <1>2, <1>3, <1>4, <1>5, <1>6

\* A call of the run's own.
LEMMA GoingGoes ==
    ASSUME Typed, NEW t \in Task, NEW k, k = task[t], k.phase = "running", NEW q, Goes(k, q),
           NEW x, x = Part(k.job, host), Going(k, x), NEW z, z = Part(k.job, host')
    PROVE  Going(q, z)
  <1> DEFINE j     == k.job
             n     == k.stage
             s     == k.stash
             calls == k.calls
             c     == Head(calls)
             r     == Perform(host, c)
             S     == {calls[i] : i \in DOMAIN calls}
             back  == FALSE
  <1>1. /\ host \in Host /\ j \in Job /\ calls # <<>> /\ calls \in Seq(S)
        /\ q.job = j /\ q.stage = n /\ q.stash = s
        /\ AllSuit(calls, j, s, back)
    <2>1. TaskTyped(k) /\ host \in Host
      BY DEF Typed, TasksTyped
    <2>2. j \in Job /\ AllSuit(calls, j, s, back)
      BY <2>1 DEF TaskTyped
    <2>3. calls \in Seq(S)
      BY <2>2 DEF AllSuit
    <2>4. calls # <<>> /\ q.job = j /\ q.stage = n /\ q.stash = s
      BY DEF Goes, Tries, Alike
    <2>5. QED BY <2>1, <2>2, <2>3, <2>4
  <1>2. /\ host' \in {host, r.host}
        /\ \/ q.calls = Tail(calls) /\ ((r.ok /\ host' = r.host) \/ c.onError = "next")
           \/ q.calls = <<>> /\ c.onError = "end"
    BY DEF Goes, Tries
  <1>3. x = Part(j, host) /\ z = Part(j, host') /\ r = Perform(host, c) /\ c = Head(calls)
    OBVIOUS
  <1>4. /\ j.kind \in Leading => \E y : Leads(x, calls, y) /\ Achieved(j, n, s, y)
        /\ j.kind = "xiraid.array.delete" /\ n > 2 => x.array = None \/ Destroying(calls)
        /\ j.kind = "xiraid.array.import" /\ n > 3 => calls = <<>>
    BY DEF Going
  <1> HIDE DEF j, n, s, calls, c, r, S, back
  <1>5. Suits(c, j, s, back)
    BY <1>1, <1>3, SuitHead
  <1>6. c.onError # "throw" =>
           \/ j.kind = "xiraid.array.delete" /\ c.verb \in OnPools
           \/ c.onError = "next" /\ j.kind = "fs.unmanage" /\ c.verb = "disable"
    BY <1>5 DEF Suits, ErrorSuits, back
  <1>7. ASSUME j.kind \in Leading
        PROVE  \E y : Leads(z, q.calls, y) /\ Achieved(j, n, s, y)
    <2>1. PICK y : Leads(x, calls, y) /\ Achieved(j, n, s, y)
      BY <1>4, <1>7
    <2>2. q.calls = Tail(calls) /\ ((r.ok /\ host' = r.host) \/ (j.kind = "fs.unmanage" /\ c.verb = "disable"))
      BY <1>2, <1>6, <1>7 DEF Leading
    <2>3. c.verb # "raidImport"
      <3>1. j.kind # "xiraid.array.import"
        BY <1>7 DEF Leading
      <3>2. QED BY <1>1, <1>5, <3>1, SuitKind
    <2>4. r.ok /\ host' = r.host => z = Eff(x, c)
      BY <1>1, <1>3, <1>5, <2>3, OwnEffect
    <2>5. ASSUME j.kind = "fs.unmanage", c.verb = "disable" PROVE z = Eff(x, c)
      <3>1. x.on = FALSE
        <4>1. x.on = (j.kind \in FsKinds \ {"fs.unmanage"} /\ j.path \in host.enabled)
          BY <1>3, PartFields
        <4>2. QED BY <2>5, <4>1
      <3>2. IsPart(x)
        BY <1>3, ArePart
      <3>3. Eff(x, c) = x
        BY <2>5, <3>1, <3>2, EffDisable
      <3>4. j.path \in Path /\ c.on = j.path /\ c.verb \in FsVerbs
        BY <1>1, <1>5, <2>5, SuitKind DEF FsVerbs
      <3>5. ~r.ok => r.host = host
        BY <1>1, <1>3, <2>5, <3>4, FsFrame
      <3>6. QED BY <1>2, <1>3, <2>4, <3>3, <3>5
    <2>6. z = Eff(x, c)
      BY <2>2, <2>4, <2>5
    <2>7. Leads(Eff(x, c), Tail(calls), y)
      BY <1>1, <1>3, <2>1, LeadsOn
    <2>8. QED BY <2>1, <2>2, <2>6, <2>7
  <1>8. ASSUME j.kind = "xiraid.array.delete", n > 2 PROVE z.array = None
    <2>1. CASE x.array = None
      BY <1>1, <1>2, <1>3, <1>5, <1>8, <2>1, StaysGone
    <2>2. CASE Destroying(calls)
      <3>1. c.verb = "raidDestroy"
        BY <1>3, <2>2 DEF Destroying
      <3>2. host' = r.host
        BY <1>2, <1>6, <1>8, <3>1 DEF OnPools
      <3>3. QED BY <1>1, <1>3, <1>5, <1>8, <3>1, <3>2, StaysGone
    <2>3. QED BY <1>4, <1>8, <2>1, <2>2
  <1>9. ~(j.kind = "xiraid.array.import" /\ n > 3)
    BY <1>1, <1>4
  <1>10. QED BY <1>1, <1>7, <1>8, <1>9 DEF Going

\* What a run that got to its end has left.
LEMMA GoingEnd ==
    ASSUME NEW k, k.job \in Job, k.stage = Len(Stages(k.job.kind)) + 1, k.calls = <<>>,
           NEW h \in Host, NEW x, x = Part(k.job, h), Going(k, x)
    PROVE  Post(k.job, h)
  <1> DEFINE j == k.job
             n == k.stage
             s == k.stash
  <1>1. j \in Job /\ n = Len(Stages(j.kind)) + 1 /\ x = Part(j, h)
    OBVIOUS
  <1>2. /\ j.kind \in Leading => Achieved(j, n, s, x)
        /\ j.kind = "xiraid.array.delete" /\ n > 2 => x.array = None
        /\ j.kind = "xiraid.array.import" /\ n > 3 => x.array # None
    <2>1. ASSUME NEW y, Leads(x, k.calls, y) PROVE x = y
      <3>1. Leads(x, <<>>, y)
        BY <2>1
      <3>2. QED BY <3>1, LeadsNone
    <2>2. QED BY <2>1 DEF Going, Destroying
  <1> HIDE DEF j, n, s
  <1>3. /\ j.kind \in {"xiraid.array.create", "xiraid.array.modify"} => n = 5
        /\ j.kind \in {"xiraid.array.import", "xiraid.array.delete"} => n = 4
        /\ j.kind = "pool.delete" => n = 3
        /\ j.kind = "fs.create" => n = 6
        /\ j.kind \in {"fs.mount", "fs.unmount", "fs.set_quota_mode", "fs.unmanage"} => n = 4
        /\ j.kind \in {"share.create", "share.update"} => n = 4
        /\ j.kind \in {"share.delete", "nfs-idmap.set", "nfs-profile.update"} => n = 3
    <2> DEFINE len == Len(Stages(j.kind))
    <2>1. j.kind \in {"xiraid.array.create", "xiraid.array.modify"} => len = 4
      BY DEF Stages
    <2>2. j.kind \in {"xiraid.array.import", "xiraid.array.delete"} => len = 3
      BY DEF Stages
    <2>3. j.kind \in {"pool.delete", "share.delete", "nfs-idmap.set", "nfs-profile.update"} => len = 2
      BY DEF Stages
    <2>4. j.kind = "fs.create" => len = 5
      BY DEF Stages
    <2>5. j.kind \in {"fs.mount", "fs.unmount", "fs.set_quota_mode", "fs.unmanage"} => len = 3
      BY DEF Stages
    <2>6. j.kind \in {"share.create", "share.update"} => len = 3
      BY DEF Stages
    <2>7. n = len + 1
      BY <1>1
    <2> HIDE DEF len
    <2>8. QED BY <2>1, <2>2, <2>3, <2>4, <2>5, <2>6, <2>7
  <1>4. CASE j.kind \in {"xiraid.array.create", "xiraid.array.modify"}
    <2>1. x.array = h.arrays[j.array] /\ x.pool = h.pools[j.array]
      BY <1>1, <1>4, PartFields DEF ArrayKinds, Pooling, PoolOf, PoolKinds
    <2>2. /\ x.array # None
          /\ j.spares # {} /\ (j.kind = "xiraid.array.modify" => j.spares # None) => x.pool = Filled(j.spares)
      BY <1>2, <1>3, <1>4 DEF Achieved, Leading
    <2>3. j.spares \in SUBSET Drive => Filled(j.spares) # None /\ Filled(j.spares).active
      BY FilledPool
    <2>4. j.spares \in (SUBSET Drive) \cup {None} /\ (j.kind = "xiraid.array.create" => j.spares \in SUBSET Drive)
      BY <1>1, <1>4, JobShape
    <2>5. CASE j.kind = "xiraid.array.create"
      BY <2>1, <2>2, <2>3, <2>4, <2>5 DEF Post, Shown, HasPool, j
    <2>6. CASE j.kind = "xiraid.array.modify"
      BY <2>1, <2>2, <2>3, <2>4, <2>6 DEF Post, Shown, HasPool, Filled, j
    <2>7. QED BY <1>4, <2>5, <2>6
  <1>5. CASE j.kind \in {"xiraid.array.import", "xiraid.array.delete"}
    <2>1. x.array = h.arrays[j.array]
      BY <1>1, <1>5, PartFields DEF ArrayKinds
    <2>2. QED BY <1>2, <1>3, <1>5, <2>1 DEF Post, Shown, j
  <1>6. CASE j.kind = "pool.delete"
    <2>1. x.pool = h.pools[j.pool]
      BY <1>1, <1>6, PartFields DEF Pooling, PoolOf, PoolKinds
    <2>2. x.pool = None
      BY <1>2, <1>3, <1>6 DEF Achieved, Leading
    <2>3. QED BY <1>6, <2>1, <2>2 DEF Post, HasPool, j
  <1>7. CASE j.kind \in FsKinds
    <2>1. x.unit = h.units[j.path] /\ x.mount = h.mounts[j.path]
      BY <1>1, <1>7, PartFields
    <2>2. CASE j.kind = "fs.create"
      <3>1. x.data = h.data[j.unit.what]
        BY <1>1, <2>2, PartFields
      <3>2. x.mount = j.unit /\ x.data = j.path
        BY <1>2, <1>3, <2>2 DEF Achieved, Leading
      <3>3. j.unit # None
        <4>1. j.unit \in UnitText
          BY <1>1, <2>2, JobShape
        <4>2. QED BY <4>1, NoneApart
      <3>4. QED BY <2>1, <2>2, <3>1, <3>2, <3>3 DEF Post, Mounted, j
    <2>3. CASE j.kind \in {"fs.mount", "fs.unmount"}
      <3>1. x.on = (j.kind \in FsKinds \ {"fs.unmanage"} /\ j.path \in h.enabled)
        BY <1>1, PartFields
      <3>2. x.on = (j.path \in h.enabled)
        BY <1>7, <2>3, <3>1
      <3>3. /\ j.kind = "fs.mount" => x.on /\ x.mount # None
            /\ j.kind = "fs.unmount" => ~x.on /\ x.mount = None
        BY <1>2, <1>3, <2>3 DEF Achieved, Leading
      <3>4. QED BY <2>1, <2>3, <3>2, <3>3 DEF Post, Mounted, j
    <2>4. CASE j.kind = "fs.set_quota_mode"
      <3>1. x.unit.quota = j.quota /\ (x.mount # None => x.mount.quota = j.quota)
        BY <1>2, <1>3, <2>4 DEF Achieved, Leading
      <3>2. QED BY <2>1, <2>4, <3>1 DEF Post, Mounted, j
    <2>5. CASE j.kind = "fs.unmanage"
      <3>1. x.unit = None /\ x.mount = None
        BY <1>2, <1>3, <2>5 DEF Achieved, Leading
      <3>2. QED BY <2>1, <2>5, <3>1 DEF Post, HasUnit, Mounted, j
    <2>6. CASE j.kind = "fs.grow"
      BY <2>6 DEF Post, j
    <2>7. QED BY <1>7, <2>2, <2>3, <2>4, <2>5, <2>6 DEF FsKinds
  <1>8. CASE j.kind \in ShareKinds
    <2>1. x.export = h.exports[j.path]
      BY <1>1, <1>8, PartFields
    <2>2. /\ j.kind \in {"share.create", "share.update"} => x.export = j.rule
          /\ j.kind = "share.delete" => x.export = None
      BY <1>2, <1>3, <1>8 DEF Achieved, Leading, ShareKinds
    <2>3. QED BY <1>8, <2>1, <2>2 DEF Post, Exported, ShareKinds, j
  <1>9. CASE j.kind \in {"nfs-idmap.set", "nfs-profile.update"}
    <2>1. /\ j.kind = "nfs-idmap.set" => x.domain = h.domain
          /\ j.kind = "nfs-profile.update" => x.profile = h.profile
      BY <1>1, PartFields
    <2>2. /\ j.kind = "nfs-idmap.set" => x.domain = j.domain
          /\ j.kind = "nfs-profile.update" => x.profile = j.profile
      BY <1>2, <1>3, <1>9 DEF Achieved, Leading
    <2>3. QED BY <1>9, <2>1, <2>2 DEF Post, j
  <1>10. CASE j.kind \in {"pool.create", "pool.modify"}
    BY <1>10 DEF Post, j
  <1>11. QED BY <1>1, <1>4, <1>5, <1>6, <1>7, <1>8, <1>9, <1>10, JobKind DEF ArrayKinds, PoolKinds, j

LEMMA RunInit ==
    ASSUME Init
    PROVE  RunInv
  <1>1. MountInv
    BY MountInit
  <1>2. \A t \in Task : task[t].phase # "running"
    BY InitTyped DEF Begun, Live
  <1>3. QED BY <1>1, <1>2 DEF RunInv, OnCourse

LEMMA RunKept ==
    ASSUME RunInv, [Next]_vars
    PROVE  RunInv'
  <1>1. MountInv /\ MountInv' /\ Typed /\ Step
    BY MountStep, Steps DEF RunInv, MountInv
  <1>2. CASE UNCHANGED <<host, task, exposed>>
    <2>1. \A t \in Task : OnCourse(t)'
      BY <1>2 DEF RunInv, OnCourse, Unshared, OnItsPool, OnItsPath
    <2>2. QED BY <1>1, <2>1 DEF RunInv
  <1>3. ASSUME NEW t \in Task, Alone(t), RunStep(task[t], task'[t]) PROVE RunInv'
    <2>1. ASSUME NEW u \in Task, task'[u].phase = "running", Unshared(u)'
          PROVE  Going(task'[u], Part(task'[u].job, host'))
      <3> DEFINE k == task[u]
                 q == task'[u]
                 x == Part(k.job, host)
                 z == Part(k.job, host')
      <3>1. Unshared(u)
        BY <1>3, <2>1, UnsharedBefore
      <3>2. k.phase = "running" => Going(k, x)
        BY <3>1 DEF RunInv, OnCourse
      <3>3. CASE u # t
        <4>1. q = k
          BY <1>3, <3>3 DEF Alone
        <4>2. k.phase = "running" /\ Begun(k)
          BY <2>1, <4>1 DEF Begun, Live
        <4>3. z = x
          BY <1>1, <3>1, <4>1, <4>2, OtherRuns
        <4> HIDE DEF k, q, x, z
        <4>4. Going(q, z)
          BY <3>2, <4>1, <4>2, <4>3
        <4>5. QED BY <4>1, <4>4 DEF k, q, z
      <3>4. CASE u = t
        <4>1. RunStep(k, q) /\ q.phase = "running" /\ Begun(q)
          BY <1>3, <2>1, <3>4 DEF Begun, Live
        <4>2. CASE Begins(k, q)
          BY <4>2, GoingFirst DEF Begins
        <4>3. CASE Noted(k, q)
          <5>1. k.phase = "running" /\ z = x /\ q.job = k.job
            BY <4>3 DEF Noted, Alike
          <5>2. q.stage = k.stage /\ q.stash = k.stash /\ q.calls = k.calls
            BY <4>3 DEF Noted, Alike
          <5> HIDE DEF k, q, x, z
          <5>3. Going(q, z)
            BY <3>2, <5>1, <5>2 DEF Going
          <5>4. QED BY <5>1, <5>3 DEF k, q, z
        <4>4. CASE Turns(k, q)
          <5>1. k.phase = "running" /\ z = x /\ q.job = k.job
            BY <4>4 DEF Turns
          <5>2. k = task[u] /\ x = Part(k.job, host)
            OBVIOUS
          <5> HIDE DEF k, q, x, z
          <5>3. Going(q, x)
            BY <1>1, <3>2, <4>4, <5>1, <5>2, GoingTurns
          <5>4. QED BY <5>1, <5>3 DEF q, z
        <4>5. CASE Goes(k, q)
          <5>1. k.phase = "running" /\ q.job = k.job
            BY <4>1, <4>5 DEF Goes, Alike
          <5>2. k = task[u] /\ x = Part(k.job, host) /\ z = Part(k.job, host')
            OBVIOUS
          <5> HIDE DEF k, q, x, z
          <5>3. Going(q, z)
            BY <1>1, <3>2, <4>5, <5>1, <5>2, GoingGoes
          <5>4. QED BY <5>1, <5>3 DEF q, z
        <4>6. QED BY <4>1, <4>2, <4>3, <4>4, <4>5 DEF RunStep, Ends, Fails, Backs
      <3>5. QED BY <3>3, <3>4
    <2>2. \A u \in Task : OnCourse(u)'
      BY <2>1 DEF OnCourse
    <2>3. QED BY <1>1, <2>2 DEF RunInv
  <1>4. QED BY <1>1, <1>2, <1>3, RunSteps

\* A task that is reported successful has done what its kind of job is for: SuccessMeansDone,
\* for the stages of the executors and the order of their calls.  No call of a run is let
\* go but those that need not succeed, and nobody else touches what the run works on: two
\* tasks on it hold different leases, where no exemption of Apart is in the way.
THEOREM SuccessKept == Spec => SuccessMeansDone
  <1>1. Init => RunInv
    BY RunInit
  <1>2. RunInv /\ [Next]_vars => RunInv'
    BY RunKept
  <1>3. ASSUME RunInv, [Next]_vars, NEW t \in Task, task[t].phase \in Live, task'[t].phase = "success", Apart(t)
        PROVE  Post(task[t].job, host')
    <2> DEFINE k == task[t]
               x == Part(k.job, host)
    <2>1. Typed /\ Begun(k)
      BY <1>3 DEF RunInv, MountInv, Begun
    <2>2. PICK u \in Task : Alone(u) /\ RunStep(task[u], task'[u])
      <3>1. ~UNCHANGED <<host, task, exposed>>
        BY <1>3 DEF Live
      <3>2. QED BY <1>3, <2>1, <3>1, RunSteps
    <2>3. u = t
      <3>1. task'[t] # task[t]
        BY <1>3 DEF Live
      <3>2. QED BY <2>2, <3>1 DEF Alone
    <2>4. Ends(task[t], task'[t])
      BY <1>3, <2>2, <2>3 DEF RunStep, Begins, Noted, Fails, Turns, Goes, Backs
    <2>5. k.phase = "running" /\ k.calls = <<>> /\ ~(k.stage <= Len(Stages(k.job.kind))) /\ host' = host
      BY <1>3, <2>1, <2>4 DEF Ends
    <2>6. k.job \in Job /\ k.stage \in 1 .. Len(Stages(k.job.kind)) + 1 /\ host \in Host
      BY <2>1 DEF Typed, TasksTyped, TaskTyped
    <2>7. k.stage = Len(Stages(k.job.kind)) + 1
      BY <2>5, <2>6, StagesLen
    <2>8. Unshared(t)
      BY <1>3 DEF Apart, Unshared
    <2>9. Going(k, x)
      BY <1>3, <2>5, <2>8 DEF RunInv, OnCourse
    <2>10. x = Part(k.job, host)
      OBVIOUS
    <2> HIDE DEF k, x
    <2>11. Post(k.job, host)
      BY <2>5, <2>6, <2>7, <2>9, <2>10, GoingEnd
    <2>12. QED BY <2>5, <2>11 DEF k
  <1>4. RunInv /\ [Next]_vars => [\A t \in Task : task[t].phase \in Live /\ task'[t].phase = "success" /\ Apart(t)
                                      => Post(task[t].job, host')]_vars
    BY <1>3
  <1>5. QED BY <1>1, <1>2, <1>4, PTL DEF Spec, SuccessMeansDone
=============================================================================
