------------------------------ MODULE MCStorage ------------------------------
\* Two tasks on a host with two arrays, three drives and two mountpoints.
EXTENDS StorageControl, TLC

Plain(p, a)   == [what |-> a, log |-> None, quota |-> "none"]
NoneOf(S)     == [x \in S |-> None]
Empty == [arrays |-> NoneOf(Array), pools |-> NoneOf(PoolName), foreign |-> None,
          data |-> NoneOf(Array), units |-> NoneOf(Path), enabled |-> {}, mounts |-> NoneOf(Path),
          exports |-> NoneOf(Path), domain |-> None, profile |-> "threads8", busy |-> {}]
NoShares == [shares |-> [i \in {"s1", "s2"} |-> None], profile |-> "threads8",
             rev |-> [r \in {"s1", "s2", "profile"} |-> IF r = "profile" THEN 1 ELSE 0]]
S1on(p)  == [NoShares EXCEPT !.shares["s1"] = [path |-> p, rule |-> "rw"], !.rev["s1"] = 1]

\* Both arrays there; a formatted for m, its unit written; m mounted; m exported.
Bare      == [Empty EXCEPT !.arrays["a"] = [disks |-> {"d1"}, spare |-> None],
                           !.arrays["b"] = [disks |-> {"d2"}, spare |-> None]]
Formatted == [Bare EXCEPT !.data["a"] = "m"]
Unmounted == [Formatted EXCEPT !.units["m"] = Plain("m", "a")]
MountedM  == [Unmounted EXCEPT !.mounts["m"] = Plain("m", "a"), !.enabled = {"m"}]
ExportedM == [MountedM EXCEPT !.exports["m"] = "rw"]
Spared    == [Bare EXCEPT !.arrays["a"].spare = "a", !.pools["a"] = [drives |-> {"d3"}, active |-> TRUE]]
IdlePool  == [Bare EXCEPT !.pools["p"] = [drives |-> {"d3"}, active |-> FALSE]]
Foreign   == [Empty EXCEPT !.foreign = [disks |-> {"d1"}, data |-> "m"]]

Create(a, disks, spares) == [kind |-> "xiraid.array.create", array |-> a, disks |-> disks, spares |-> spares]
Modify(a, spares) == [kind |-> "xiraid.array.modify", array |-> a, spares |-> spares]
Import(a)         == [kind |-> "xiraid.array.import", array |-> a]
Delete(a)         == [kind |-> "xiraid.array.delete", array |-> a]
PCreate(p, ds)    == [kind |-> "pool.create", pool |-> p, drives |-> ds]
PModify(p, i, ds) == [kind |-> "pool.modify", pool |-> p, intent |-> i, drives |-> ds]
PDelete(p)        == [kind |-> "pool.delete", pool |-> p]
FCreate(p, a, log, force) == [kind |-> "fs.create", path |-> p, force |-> force, sized |-> FALSE, resolved |-> FALSE,
                              unit |-> [what |-> a, log |-> log, quota |-> "none"]]
Sized(j)          == [j EXCEPT !.sized = TRUE]
Fs(op, p)         == [kind |-> "fs." \o op, path |-> p]
Quota(p, q)       == [kind |-> "fs.set_quota_mode", path |-> p, quota |-> q]
Share(op, i, p, r) == [kind |-> "share." \o op, id |-> i, path |-> p, rule |-> r]
Unshare(i, p)     == [kind |-> "share.delete", id |-> i, path |-> p]
Idmap(d)          == [kind |-> "nfs-idmap.set", domain |-> d]
Nfsd(s)           == [kind |-> "nfs-profile.update", profile |-> s, prior |-> None]

Case(h, d, j1, j2) == [host |-> h, desired |-> d, job |-> [t \in Task |-> IF t = "t1" THEN j1 ELSE j2]]

\* Any two of these operations, on any of these hosts.
ArrayAndFsJobs ==
    {Create("a", {"d1"}, {"d3"}), Create("b", {"d2"}, {}), Modify("a", {"d3"}), Modify("a", {}),
     Import("a"), Delete("a"), Delete("b"), FCreate("m", "a", None, FALSE),
     FCreate("n", "a", None, TRUE), FCreate("m", "b", "a", FALSE), Fs("mount", "m"),
     Fs("unmount", "m"), Fs("grow", "m"), Fs("unmanage", "m"), Quota("m", "pquota"),
     Share("create", "s1", "m", "rw"), Unshare("s1", "m")}
PoolJobs ==
    {PCreate("p", {"d3"}), PCreate("a", {"d3"}), PModify("p", "add_drives", {"d3"}), PModify("p", "remove_drives", {"d3"}),
     PModify("p", "activate", {}), PModify("a", "deactivate", {}), PDelete("p"), PDelete("a"),
     Create("a", {"d1"}, {"d3"}), Modify("a", {"d3"}), Modify("a", {}), Delete("a")}
NfsJobs ==
    {Share("create", "s1", "m", "rw"), Share("update", "s1", "m", "ro"), Share("update", "s1", "m", "rw"),
     Unshare("s1", "m"), Share("create", "s2", "m", "ro"), Fs("unmount", "m"), Fs("mount", "m"), Quota("m", "pquota"),
     Delete("a")}
\* Filesystems on an array that is not there yet, or not observed.
EarlyJobs ==
    {Create("a", {"d1"}, {}), Import("a"), Sized(FCreate("n", "a", None, TRUE)),
     Sized(FCreate("m", "b", "a", FALSE)), Fs("mount", "m"), Quota("m", "pquota")}
ServerJobs == {Nfsd("threads64"), Nfsd("threads8"), Idmap("one.example"), Idmap("local")}

All(hosts, shares, jobs) == {Case(h, shares, j1, j2) : h \in hosts, j1 \in jobs, j2 \in jobs}

CoreCases ==
    All({Empty, Bare, Formatted, Unmounted, MountedM, Foreign}, NoShares, ArrayAndFsJobs)
    \cup All({Empty, Bare, IdlePool, Spared}, NoShares, PoolJobs)
    \cup All({Empty, Foreign, [Foreign EXCEPT !.units["m"] = Plain("m", "a")]}, NoShares, EarlyJobs)
    \cup All({MountedM}, NoShares, NfsJobs)
    \cup All({ExportedM, [ExportedM EXCEPT !.busy = {"m"}]}, S1on("m"), NfsJobs)
    \cup All({[Empty EXCEPT !.domain = d] : d \in {None, "local", "two.example"}}, NoShares, ServerJobs)

\* A log on a formatted volume.
LogCases  == {Case(Formatted, NoShares, FCreate("n", "b", "a", FALSE), Idmap("one.example"))}
=============================================================================
