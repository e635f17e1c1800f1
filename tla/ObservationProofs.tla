-------------------------- MODULE ObservationProofs --------------------------
(***************************************************************************)
(* Proofs about Observation, for any host, collector of the registry,      *)
(* batch ceiling and faults: the types, that the rows of what never        *)
(* changed are left alone, that a settle which got through shows the host, *)
(* and that an apply acts on the row of its plan.                          *)
(***************************************************************************)
EXTENDS Observation, SequenceTheorems, FiniteSetTheorems, WellFoundedInduction, TLAPS

-----------------------------------------------------------------------------
(***************************************************************************)
(* Induction over sets of numbers.                                         *)
(***************************************************************************)
\* A set of numbers that is not empty has a least one.
LEMMA LeastNumber ==
    ASSUME NEW S \in SUBSET Nat, S # {}
    PROVE  \E n \in S : \A m \in S : n <= m
    <1> DEFINE R == {ss \in Nat \X Nat : ss[1] < ss[2]}
    <1>1. IsWellFoundedOn(R, Nat)
        BY NatLessThanWellFounded DEF OpToRel
    <1>2. \E n \in S : \A m \in S : ~(<<m, n>> \in R)
        <2> HIDE DEF R
        <2>1. S \subseteq Nat
            OBVIOUS
        <2>2. QED BY <1>1, <2>1, WFMin
    <1>3. PICK n \in S : \A m \in S : ~(<<m, n>> \in R)
        BY <1>2
    <1>4. \A m \in S : ~(m < n)
        BY <1>3
    <1>5. QED BY <1>4

LEMMA Induction ==
    ASSUME NEW T, 0 \in T, \A n \in Nat : n \in T => n + 1 \in T
    PROVE  \A n \in Nat : n \in T
    <1> DEFINE U == Nat \ T
    <1>1. ASSUME U # {} PROVE FALSE
        <2>1. U \in SUBSET Nat
            OBVIOUS
        <2>2. PICK x \in U : \A y \in U : x <= y
            <3> HIDE DEF U
            <3>1. QED BY <1>1, <2>1, LeastNumber
        <2>3. x \in Nat /\ x # 0
            OBVIOUS
        <2>4. x - 1 \in Nat /\ (x - 1) + 1 = x
            BY <2>3
        <2>5. x - 1 \in U
            BY <2>4
        <2>6. QED BY <2>2, <2>3, <2>5
    <1>2. QED BY <1>1

-----------------------------------------------------------------------------
(***************************************************************************)
(* Collectors, and the deltas of what they read.                           *)
(***************************************************************************)
\* The kinds that a task re-observes have no events, and a share's probe does not blur.
LEMMA CollectorFacts ==
    ASSUME NEW k \in Registry
    PROVE  /\ k.own \in DOMAIN ReobserveKinds => k.events = "none"
           /\ k.own = "NfsSession" => k.probe = {"fails"}
    <1> DEFINE Fits == /\ k.own \in DOMAIN ReobserveKinds => k.events = "none"
                       /\ k.own = "NfsSession" => k.probe = {"fails"}
    <1>0. DOMAIN ReobserveKinds = {"Filesystem", "XiraidArray", "Pool", "NfsSession"}
        BY DEF ReobserveKinds
    <1>1. CASE k = DiskCollector
        BY <1>0, <1>1 DEF DiskCollector, Polled
    <1>2. CASE k = NetworkCollector
        BY <1>0, <1>2 DEF NetworkCollector, Polled
    <1>3. CASE k = NfsCollector
        BY <1>0, <1>3 DEF NfsCollector, Polled, NfsProbe
    <1>4. CASE k \in {FilesystemCollector, XiraidCollector, PoolCollector}
        BY <1>0, <1>4 DEF FilesystemCollector, XiraidCollector, PoolCollector, Polled
    <1>5. CASE k \in {UsersCollector, SnapshotCollector}
        BY <1>0, <1>5 DEF UsersCollector, SnapshotCollector, Polled
    <1>6. CASE k \in {NfsIdmapCollector, NfsProfileCollector, SystemdCollector, InventoryCollector,
                      TuningCollector, StubCollector}
        BY <1>0, <1>6 DEF NfsIdmapCollector, NfsProfileCollector, SystemdCollector, InventoryCollector,
                          TuningCollector, StubCollector, Singleton, Polled
    <1>7. QED BY <1>1, <1>2, <1>3, <1>4, <1>5, <1>6 DEF Registry

LEMMA Nothing ==
    /\ None \notin Content /\ None # Unknown /\ None \notin Row /\ Unknown \notin Content
    /\ Malformed \subseteq Content /\ Unknown \notin Malformed
    BY NoneIsNothing, HostAssumption, Contents DEF Value, Unknown

LEMMA AllOfSet ==
    ASSUME NEW S, IsFiniteSet(S)
    PROVE  SetToSeq(S) \in Seq(S) /\ ToSet(SetToSeq(S)) = S
    <1> DEFINE N == Cardinality(S)
               order == SetToSeq(S)
    <1>1. N \in Nat /\ ExistsBijection(1..N, S)
        BY FS_CardinalityType
    <1>2. order \in [1..N -> S] /\ IsInjective(order)
        <2>1. PICK f \in Bijection(1..N, S) : TRUE
            BY <1>1 DEF ExistsBijection
        <2>2. f \in [1..N -> S] /\ IsInjective(f)
            BY <2>1 DEF Bijection, Injection, IsInjective
        <2>3. QED BY <2>2 DEF SetToSeq
    <1> HIDE DEF order
    <1>3. order \in Surjection(1..N, S)
        <2>1. order \in Injection(1..N, S)
            BY <1>2 DEF Injection, IsInjective
        <2>2. Cardinality(1..N) = N
            BY <1>1, FS_Interval
        <2>3. QED BY <1>1, <2>1, <2>2, FS_Injection
    <1>4. order \in Seq(S)
        BY <1>1, <1>2, SeqDef
    <1>5. \A x \in S : \E n \in DOMAIN order : order[n] = x
        BY <1>2, <1>3 DEF Surjection
    <1>6. ToSet(order) = S
        BY <1>2, <1>5 DEF ToSet
    <1>7. QED BY <1>4, <1>6 DEF order

\* What two sequences have, one after the other.
LEMMA SetOfBoth ==
    ASSUME NEW S, NEW p \in Seq(S), NEW q \in Seq(S)
    PROVE  p \o q \in Seq(S) /\ ToSet(p \o q) = ToSet(p) \cup ToSet(q)
    <1>1. /\ p \o q \in Seq(S) /\ Len(p \o q) = Len(p) + Len(q)
          /\ Len(p) \in Nat /\ Len(q) \in Nat
          /\ \A i \in 1..Len(p) + Len(q) : (p \o q)[i] = IF i <= Len(p) THEN p[i] ELSE q[i - Len(p)]
        BY ConcatProperties, LenProperties
    <1>2. DOMAIN p = 1..Len(p) /\ DOMAIN q = 1..Len(q) /\ DOMAIN (p \o q) = 1..Len(p) + Len(q)
        BY <1>1, LenProperties
    <1>3. ToSet(p \o q) \subseteq ToSet(p) \cup ToSet(q)
        BY <1>1, <1>2 DEF ToSet
    <1>4. ASSUME NEW i \in 1..Len(p) PROVE p[i] \in ToSet(p \o q)
        BY <1>1, <1>2 DEF ToSet
    <1>5. ASSUME NEW i \in 1..Len(q) PROVE q[i] \in ToSet(p \o q)
        <2>1. i + Len(p) \in 1..Len(p) + Len(q) /\ (p \o q)[i + Len(p)] = q[i]
            BY <1>1
        <2>2. QED BY <1>2, <2>1 DEF ToSet
    <1>6. QED BY <1>1, <1>2, <1>3, <1>4, <1>5 DEF ToSet

LEMMA SetOfAppend ==
    ASSUME NEW S, NEW p \in Seq(S), NEW x \in S
    PROVE  Append(p, x) \in Seq(S) /\ ToSet(Append(p, x)) = ToSet(p) \cup {x}
    <1>1. /\ Append(p, x) \in Seq(S) /\ Len(Append(p, x)) = Len(p) + 1 /\ Len(p) \in Nat
          /\ \A i \in 1..Len(p) : Append(p, x)[i] = p[i]
          /\ Append(p, x)[Len(p) + 1] = x
        BY AppendProperties, LenProperties
    <1>2. DOMAIN p = 1..Len(p) /\ DOMAIN Append(p, x) = 1..Len(p) + 1
        BY <1>1, LenProperties
    <1>3. QED BY <1>1, <1>2 DEF ToSet

LEMMA UpsertsSay ==
    ASSUME NEW kind \in {"own", "co"}, NEW I, IsFiniteSet(I), NEW f \in [I -> Value \cup {None}],
           \A i \in I : <<kind, i>> \in Key
    PROVE  /\ Upserts(kind, f) \in Seq(Delta)
           /\ ToSet(Upserts(kind, f)) = {Upsert(kind, i, f[i], TRUE) : i \in Present(f)}
    <1> DEFINE S == {Upsert(kind, i, f[i], TRUE) : i \in Present(f)}
    <1>1. IsFiniteSet(S)
        <2>1. Present(f) \subseteq I
            BY DEF Present
        <2>2. IsFiniteSet(Present(f))
            BY <2>1, FS_Subset
        <2> DEFINE g == [i \in Present(f) |-> Upsert(kind, i, f[i], TRUE)]
        <2>3. g \in Surjection(Present(f), S)
            BY DEF Surjection
        <2>4. QED BY <2>2, <2>3, FS_Surjection
    <1>2. S \subseteq Delta
        <2>1. ASSUME NEW i \in Present(f) PROVE Upsert(kind, i, f[i], TRUE) \in Delta
            <3>1. i \in I /\ f[i] # None /\ f[i] \in Value /\ <<kind, i>> \in Key /\ <<kind, i>>[1] # "dev"
                BY DEF Present
            <3>2. QED BY <3>1 DEF Upsert, Delta
        <2>2. QED BY <2>1
    <1>3. SetToSeq(S) \in Seq(S) /\ ToSet(SetToSeq(S)) = S
        BY <1>1, AllOfSet
    <1> HIDE DEF S
    <1>4. SetToSeq(S) \in Seq(Delta)
        BY <1>2, <1>3, SeqMonotonic
    <1>5. QED BY <1>3, <1>4 DEF Upserts, S

LEMMA SweepSays ==
    ASSUME NEW r \in Reading
    PROVE  /\ SweepDeltas(r) \in Seq(Delta)
           /\ \A d \in ToSet(SweepDeltas(r)) :
                 /\ d.full /\ d.val # None
                 /\ \/ \E i \in Id : d.key = <<"own", i>> /\ d.val = r.own[i]
                    \/ \E j \in CoId : d.key = <<"co", j>> /\ d.val = r.co[j]
           /\ \A i \in Id : r.own[i] # None => \E d \in ToSet(SweepDeltas(r)) : d.key = <<"own", i>>
           /\ \A j \in CoId : r.co[j] # None => \E d \in ToSet(SweepDeltas(r)) : d.key = <<"co", j>>
           /\ SweepKinds(SweepDeltas(r)) = {"own"} \cup {k \in {"co"} : Present(r.co) # {}}
    <1> DEFINE own == {Upsert("own", i, r.own[i], TRUE) : i \in Present(r.own)}
               co  == {Upsert("co", j, r.co[j], TRUE) : j \in Present(r.co)}
               ds  == SweepDeltas(r)
    <1>1. r.own \in [Id -> Value \cup {None}] /\ r.co \in [CoId -> Value \cup {None}]
        BY DEF Reading, Value
    <1>2. IsFiniteSet(Id) /\ IsFiniteSet(CoId)
        BY HostAssumption
    <1>3. /\ \A i \in Id : <<"own", i>> \in Key
          /\ \A j \in CoId : <<"co", j>> \in Key
        BY DEF Key
    <1>4. Upserts("own", r.own) \in Seq(Delta) /\ ToSet(Upserts("own", r.own)) = own
        BY <1>1, <1>2, <1>3, UpsertsSay
    <1>5. Upserts("co", r.co) \in Seq(Delta) /\ ToSet(Upserts("co", r.co)) = co
        BY <1>1, <1>2, <1>3, UpsertsSay
    <1>6. ds \in Seq(Delta) /\ ToSet(ds) = own \cup co
        <2> HIDE DEF own, co
        <2>1. QED BY <1>4, <1>5, SetOfBoth DEF SweepDeltas
    <1> HIDE DEF ds
    <1>7. Present(r.own) = {i \in Id : r.own[i] # None} /\ Present(r.co) = {j \in CoId : r.co[j] # None}
        BY <1>1 DEF Present
    <1>8. ASSUME NEW d \in ToSet(ds)
          PROVE  /\ d.full /\ d.val # None /\ d.key[1] \in {"own", "co"}
                 /\ \/ \E i \in Id : d.key = <<"own", i>> /\ d.val = r.own[i]
                    \/ \E j \in CoId : d.key = <<"co", j>> /\ d.val = r.co[j]
        BY <1>6, <1>7 DEF Upsert
    <1>9. ASSUME NEW i \in Id, r.own[i] # None
          PROVE  \E d \in ToSet(ds) : d.key = <<"own", i>> /\ d.key[1] = "own"
        <2>1. Upsert("own", i, r.own[i], TRUE) \in ToSet(ds)
            BY <1>6, <1>7, <1>9
        <2>2. QED BY <2>1 DEF Upsert
    <1>10. ASSUME NEW j \in CoId, r.co[j] # None
           PROVE  \E d \in ToSet(ds) : d.key = <<"co", j>> /\ d.key[1] = "co"
        <2>1. Upsert("co", j, r.co[j], TRUE) \in ToSet(ds)
            BY <1>6, <1>7, <1>10
        <2>2. QED BY <2>1 DEF Upsert
    <1>11. SweepKinds(ds) = {"own"} \cup {k \in {"co"} : Present(r.co) # {}}
        <2>1. ASSUME NEW d \in ToSet(ds)
              PROVE  d.key[1] \in {"own"} \cup {k \in {"co"} : Present(r.co) # {}}
            <3>1. CASE \E i \in Id : d.key = <<"own", i>>
                BY <3>1
            <3>2. CASE \E j \in CoId : d.key = <<"co", j>> /\ d.val = r.co[j]
                BY <1>7, <1>8, <3>2
            <3>3. QED BY <1>8, <3>1, <3>2
        <2>2. ASSUME Present(r.co) # {} PROVE \E d \in ToSet(ds) : d.key[1] = "co"
            BY <1>7, <1>10, <2>2
        <2>3. QED BY <2>1, <2>2 DEF SweepKinds
    <1>12. QED BY <1>6, <1>8, <1>9, <1>10, <1>11 DEF ds

-----------------------------------------------------------------------------
(***************************************************************************)
(* Deltas applied one after the other, and queued one after the other.     *)
(***************************************************************************)
Applying(after, rs, ds) ==
    /\ after[0] = rs
    /\ \A n \in 1..Len(ds) : after[n] = Applied(after[n - 1], ds[n])

LEMMA UpsertedSteps ==
    ASSUME NEW rs, NEW ds \in Seq(Delta)
    PROVE  \E after : Applying(after, rs, ds) /\ Upserted(rs, ds) = after[Len(ds)]
    <1> DEFINE G(g) == [n \in 0..Len(ds) |-> IF n = 0 THEN rs ELSE Applied(g[n - 1], ds[n])]
               g == CHOOSE g : g = G(g)
               T == {m \in Nat : \E f : f = [n \in 0..m |-> IF n = 0 THEN rs ELSE Applied(f[n - 1], ds[n])]}
    <1>0. Len(ds) \in Nat
        BY LenProperties
    <1>1. 0 \in T
        <2> DEFINE f == [n \in 0..0 |-> rs]
        <2>1. f = [n \in 0..0 |-> IF n = 0 THEN rs ELSE Applied(f[n - 1], ds[n])]
            OBVIOUS
        <2> HIDE DEF f
        <2>2. QED BY <2>1
    <1>2. ASSUME NEW m \in Nat, m \in T PROVE m + 1 \in T
        <2>1. PICK f : f = [n \in 0..m |-> IF n = 0 THEN rs ELSE Applied(f[n - 1], ds[n])]
            BY <1>2
        <2> DEFINE h == [n \in 0..(m + 1) |-> IF n = m + 1 THEN Applied(f[m], ds[n]) ELSE f[n]]
        <2>2. ASSUME NEW n \in 0..(m + 1)
              PROVE  h[n] = IF n = 0 THEN rs ELSE Applied(h[n - 1], ds[n])
            <3>1. CASE n = m + 1
                <4>1. n # 0 /\ n - 1 = m /\ h[m] = f[m]
                    BY <3>1
                <4>2. h[n] = Applied(f[m], ds[n])
                    BY <3>1
                <4> HIDE DEF h
                <4>3. QED BY <4>1, <4>2
            <3>2. CASE n \in 0..m
                <4>1. f[n] = IF n = 0 THEN rs ELSE Applied(f[n - 1], ds[n])
                    BY <2>1, <3>2
                <4>2. h[n] = f[n] /\ (n # 0 => h[n - 1] = f[n - 1])
                    BY <3>2
                <4> HIDE DEF h
                <4>3. QED BY <4>1, <4>2
            <3>3. QED BY <3>1, <3>2
        <2>3. h = [n \in 0..(m + 1) |-> IF n = 0 THEN rs ELSE Applied(h[n - 1], ds[n])]
            <3>1. h = [n \in 0..(m + 1) |-> h[n]]
                OBVIOUS
            <3> HIDE DEF h
            <3>2. QED BY <2>2, <3>1
        <2> HIDE DEF h
        <2>4. \E f1 : f1 = [n \in 0..(m + 1) |-> IF n = 0 THEN rs ELSE Applied(f1[n - 1], ds[n])]
            BY <2>3, Zenon
        <2>5. m + 1 \in Nat
            OBVIOUS
        <2>6. QED BY <2>4, <2>5, Zenon
    <1>3. Len(ds) \in T
        <2> HIDE DEF T
        <2>1. QED BY <1>0, <1>1, <1>2, Induction
    <1>4. g = G(g)
        <2>1. \E f : f = G(f)
            BY <1>3
        <2>2. QED BY <2>1
    <1>5. Upserted(rs, ds) = g[Len(ds)]
        BY DEF Upserted
    <1>6. Applying(g, rs, ds)
        <2> HIDE DEF g
        <2>1. \A n \in 0..Len(ds) : g[n] = IF n = 0 THEN rs ELSE Applied(g[n - 1], ds[n])
            BY <1>4
        <2>2. QED BY <1>0, <2>1 DEF Applying
    <1> HIDE DEF g
    <1>7. QED BY <1>5, <1>6

RowsOK(rs) ==
    /\ rs \in [Key -> Row \cup {None}]
    /\ \A k \in Key :
          rs[k] # None => rs[k].val \notin Malformed /\ (k[1] = "dev" => rs[k].val = Unknown)

\* A delta writes the row of its key: nothing is left of it after a delete, and an
\* upsert of something else makes its revision grow.
LEMMA AppliedSays ==
    ASSUME NEW rs, RowsOK(rs), NEW d \in Delta, d.val \notin Malformed
    PROVE  /\ RowsOK(Applied(rs, d))
           /\ \A k \in Key \ {d.key} : Applied(rs, d)[k] = rs[k]
           /\ d.key \in Key
           /\ d.val # None =>
                 /\ Applied(rs, d)[d.key] # None
                 /\ Applied(rs, d)[d.key].val = d.val /\ Applied(rs, d)[d.key].full = d.full
                 /\ rs[d.key] # None =>
                       \/ Applied(rs, d)[d.key] = rs[d.key]
                       \/ Applied(rs, d)[d.key].rev = rs[d.key].rev + 1
                 /\ rs[d.key] # None /\ rs[d.key].val = d.val /\ rs[d.key].full = d.full =>
                       Applied(rs, d)[d.key] = rs[d.key]
    <1> DEFINE key == d.key
               new == IF d.val = None THEN None
                      ELSE IF Same(rs[key], d) THEN rs[key]
                      ELSE [val |-> d.val, full |-> d.full,
                            rev |-> IF rs[key] = None THEN 1 ELSE rs[key].rev + 1]
    <1>1. /\ key \in Key /\ d.val \in Value \cup {None} /\ d.full \in BOOLEAN
          /\ IF key[1] = "dev" THEN d.val \in {Unknown, None} ELSE d.val # None
        BY DEF Delta
    <1>2. rs \in [Key -> Row \cup {None}] /\ rs[key] \in Row \cup {None}
        BY <1>1 DEF RowsOK
    <1>3. Applied(rs, d) = [rs EXCEPT ![key] = new]
        BY DEF Applied
    <1>4. Applied(rs, d)[key] = new /\ \A k \in Key \ {key} : Applied(rs, d)[k] = rs[k]
        BY <1>1, <1>2, <1>3
    <1>5. None \notin Row
        BY Nothing
    <1>6. new \in Row \cup {None}
        BY <1>1, <1>2 DEF Row
    <1>7. new # None => new.val = d.val /\ new.full = d.full
        BY <1>1, <1>2 DEF Same
    <1>8. d.val # None => new # None
        <2>1. CASE Same(rs[key], d)
            BY <2>1 DEF Same
        <2>2. CASE ~Same(rs[key], d) /\ d.val # None
            <3>1. new \in Row
                BY <1>1, <1>2, <2>2 DEF Row
            <3>2. QED BY <1>5, <3>1
        <2>3. QED BY <2>1, <2>2
    <1>9. /\ d.val # None /\ rs[key] # None => new = rs[key] \/ new.rev = rs[key].rev + 1
          /\ d.val # None /\ rs[key] # None /\ rs[key].val = d.val /\ rs[key].full = d.full => new = rs[key]
        BY DEF Same
    <1> HIDE DEF new
    <1>10. RowsOK(Applied(rs, d))
        <2>1. Applied(rs, d) \in [Key -> Row \cup {None}]
            BY <1>2, <1>3, <1>6
        <2>2. ASSUME NEW k \in Key, Applied(rs, d)[k] # None
              PROVE  /\ Applied(rs, d)[k].val \notin Malformed
                     /\ k[1] = "dev" => Applied(rs, d)[k].val = Unknown
            <3>1. CASE k = key
                <4>1. d.val # None => Applied(rs, d)[k].val = d.val
                    BY <1>4, <1>7, <1>8, <3>1
                <4>2. d.val # None
                    BY <1>4, <2>2, <3>1 DEF new
                <4>3. QED BY <1>1, <3>1, <4>1, <4>2
            <3>2. CASE k # key
                BY <1>4, <2>2, <3>2 DEF RowsOK
            <3>3. QED BY <3>1, <3>2
        <2>3. QED BY <2>1, <2>2 DEF RowsOK
    <1>11. QED BY <1>1, <1>4, <1>7, <1>8, <1>9, <1>10

LEMMA StepsAreRows ==
    ASSUME NEW rs, RowsOK(rs), NEW ds \in Seq(Delta), \A d \in ToSet(ds) : d.val \notin Malformed,
           NEW after, Applying(after, rs, ds)
    PROVE  /\ \A n \in 0..Len(ds) : RowsOK(after[n])
           /\ \A n \in 1..Len(ds) : ds[n] \in Delta /\ ds[n] \in ToSet(ds) /\ ds[n].val \notin Malformed
    <1> DEFINE T == {n \in Nat : n <= Len(ds) => RowsOK(after[n])}
    <1>0. Len(ds) \in Nat /\ \A n \in 1..Len(ds) : ds[n] \in Delta /\ ds[n] \in ToSet(ds)
        BY LenProperties, ElementOfSeq DEF ToSet
    <1>1. 0 \in T
        BY DEF Applying
    <1>2. ASSUME NEW n \in Nat, n \in T PROVE n + 1 \in T
        <2>1. ASSUME n + 1 <= Len(ds) PROVE RowsOK(after[n + 1])
            <3>1. RowsOK(after[n]) /\ n + 1 \in 1..Len(ds) /\ (n + 1) - 1 = n
                BY <1>0, <1>2, <2>1
            <3>2. after[n + 1] = Applied(after[n], ds[n + 1])
                BY <3>1 DEF Applying
            <3>3. QED BY <1>0, <3>1, <3>2, AppliedSays
        <2>2. QED BY <2>1
    <1>3. \A n \in Nat : n \in T
        <2> HIDE DEF T
        <2>1. QED BY <1>1, <1>2, Induction
    <1>4. QED BY <1>0, <1>3

LEMMA UpsertedRows ==
    ASSUME NEW rs, RowsOK(rs), NEW ds \in Seq(Delta), \A d \in ToSet(ds) : d.val \notin Malformed
    PROVE  RowsOK(Upserted(rs, ds))
    <1>1. PICK after : Applying(after, rs, ds) /\ Upserted(rs, ds) = after[Len(ds)]
        BY UpsertedSteps
    <1>2. Len(ds) \in 0..Len(ds)
        BY LenProperties
    <1>3. QED BY <1>1, <1>2, StepsAreRows

\* A row that no event of udev made stays, and its revision tells whether it changed.
LEMMA UpsertedMoves ==
    ASSUME NEW rs, RowsOK(rs), NEW ds \in Seq(Delta), \A d \in ToSet(ds) : d.val \notin Malformed,
           NEW k \in Key, k[1] # "dev", rs[k] # None
    PROVE  /\ Upserted(rs, ds)[k] # None
           /\ rs[k].rev <= Upserted(rs, ds)[k].rev
           /\ rs[k].rev = Upserted(rs, ds)[k].rev => rs[k].val = Upserted(rs, ds)[k].val
    <1>1. PICK after : Applying(after, rs, ds) /\ Upserted(rs, ds) = after[Len(ds)]
        BY UpsertedSteps
    <1>2. /\ \A n \in 0..Len(ds) : RowsOK(after[n])
          /\ \A n \in 1..Len(ds) : ds[n] \in Delta /\ ds[n] \in ToSet(ds) /\ ds[n].val \notin Malformed
        BY <1>1, StepsAreRows
    <1>3. Len(ds) \in Nat
        BY LenProperties
    <1> DEFINE Moved(row) == /\ row # None /\ rs[k].rev <= row.rev
                             /\ rs[k].rev = row.rev => rs[k].val = row.val
               T == {n \in Nat : n <= Len(ds) => Moved(after[n][k])}
    <1>4. rs[k] \in Row /\ rs[k].rev \in Nat
        BY DEF RowsOK, Row
    <1>5. 0 \in T
        BY <1>1, <1>4 DEF Applying
    <1>6. ASSUME NEW n \in Nat, n \in T PROVE n + 1 \in T
        <2>1. ASSUME n + 1 <= Len(ds) PROVE Moved(after[n + 1][k])
            <3> DEFINE d == ds[n + 1]
            <3>1. RowsOK(after[n]) /\ Moved(after[n][k]) /\ d \in Delta /\ d.val \notin Malformed
                BY <1>2, <1>3, <1>6, <2>1
            <3>2. after[n + 1] = Applied(after[n], d)
                BY <1>1, <1>3, <2>1 DEF Applying
            <3>3. after[n][k] \in Row /\ after[n][k].rev \in Nat
                BY <3>1 DEF RowsOK, Row
            <3>4. d.key = k => d.val # None
                BY <3>1 DEF Delta
            <3> HIDE DEF d
            <3>5. CASE d.key = k
                <4>1. /\ after[n + 1][k] # None
                      /\ after[n + 1][k] = after[n][k] \/ after[n + 1][k].rev = after[n][k].rev + 1
                    BY <3>1, <3>2, <3>4, <3>5, AppliedSays
                <4>2. QED BY <1>4, <3>1, <3>3, <4>1
            <3>6. CASE d.key # k
                <4>1. after[n + 1][k] = after[n][k]
                    BY <3>1, <3>2, <3>6, AppliedSays
                <4>2. QED BY <3>1, <4>1
            <3>7. QED BY <3>5, <3>6
        <2> HIDE DEF Moved
        <2>2. QED BY <2>1
    <1>7. Len(ds) \in T
        <2> HIDE DEF T
        <2>1. QED BY <1>3, <1>5, <1>6, Induction
    <1>8. QED BY <1>1, <1>3, <1>7

\* Where all deltas of a key say the same, its row comes to say it too; where there is
\* none, it stays.
LEMMA UpsertedSaid ==
    ASSUME NEW rs, RowsOK(rs), NEW ds \in Seq(Delta), \A d \in ToSet(ds) : d.val \notin Malformed,
           NEW k \in Key, NEW v, v # None, \A d \in ToSet(ds) : d.key = k => d.val = v /\ d.full
    PROVE  /\ (\E d \in ToSet(ds) : d.key = k) =>
                  Upserted(rs, ds)[k] # None /\ Upserted(rs, ds)[k].val = v /\ Upserted(rs, ds)[k].full
           /\ (\A d \in ToSet(ds) : d.key # k) => Upserted(rs, ds)[k] = rs[k]
           /\ rs[k] # None /\ rs[k].val = v /\ rs[k].full => Upserted(rs, ds)[k] = rs[k]
    <1>1. PICK after : Applying(after, rs, ds) /\ Upserted(rs, ds) = after[Len(ds)]
        BY UpsertedSteps
    <1>2. /\ \A n \in 0..Len(ds) : RowsOK(after[n])
          /\ \A n \in 1..Len(ds) : ds[n] \in Delta /\ ds[n] \in ToSet(ds) /\ ds[n].val \notin Malformed
        BY <1>1, StepsAreRows
    <1>3. Len(ds) \in Nat /\ DOMAIN ds = 1..Len(ds)
        BY LenProperties
    <1> DEFINE Says(n) ==
                 /\ (\E i \in 1..n : ds[i].key = k) =>
                        after[n][k] # None /\ after[n][k].val = v /\ after[n][k].full
                 /\ (\A i \in 1..n : ds[i].key # k) => after[n][k] = rs[k]
                 /\ rs[k] # None /\ rs[k].val = v /\ rs[k].full => after[n][k] = rs[k]
               T == {n \in Nat : n <= Len(ds) => Says(n)}
    <1>4. 0 \in T
        BY <1>1 DEF Applying
    <1>5. ASSUME NEW n \in Nat, n \in T PROVE n + 1 \in T
        <2>1. ASSUME n + 1 <= Len(ds) PROVE Says(n + 1)
            <3> DEFINE d == ds[n + 1]
            <3>1. RowsOK(after[n]) /\ Says(n) /\ d \in Delta /\ d.val \notin Malformed /\ d \in ToSet(ds)
                BY <1>2, <1>3, <1>5, <2>1
            <3>2. after[n + 1] = Applied(after[n], d)
                BY <1>1, <1>3, <2>1 DEF Applying
            <3>3. CASE d.key = k
                <4>1. d.val = v /\ d.full = TRUE
                    BY <3>1, <3>3 DEF Delta
                <4> HIDE DEF d
                <4>a. after[n][k] # None => after[n][k].full \in BOOLEAN
                    BY <3>1 DEF RowsOK, Row
                <4>b. /\ after[n + 1][k] # None /\ after[n + 1][k].val = v /\ after[n + 1][k].full = d.full
                      /\ after[n][k] # None /\ after[n][k].val = v /\ after[n][k].full = d.full =>
                            after[n + 1][k] = after[n][k]
                    <5> HIDE DEF Says
                    <5> DEFINE rn == after[n]
                    <5>1. RowsOK(rn) /\ d \in Delta /\ d.val \notin Malformed /\ d.val # None
                        BY <3>1, <4>1
                    <5>2. after[n + 1] = Applied(rn, d)
                        BY <3>2
                    <5> HIDE DEF rn
                    <5>3. QED BY <3>3, <4>1, <5>1, <5>2, AppliedSays DEF rn
                <4>2. /\ after[n + 1][k] # None /\ after[n + 1][k].val = v /\ after[n + 1][k].full
                      /\ (after[n][k] # None /\ after[n][k].val = v /\ after[n][k].full) =>
                            after[n + 1][k] = after[n][k]
                    BY <4>1, <4>a, <4>b
                <4>3. QED BY <3>1, <3>3, <4>2 DEF d
            <3>4. CASE d.key # k
                <4>1. after[n + 1][k] = after[n][k]
                    <5> HIDE DEF d
                    <5>1. QED BY <3>1, <3>2, <3>4, AppliedSays
                <4>2. \A i \in 1..(n + 1) : i \in 1..n \/ i = n + 1
                    OBVIOUS
                <4>3. QED BY <3>1, <3>4, <4>1, <4>2
            <3>5. QED BY <3>3, <3>4
        <2> HIDE DEF Says
        <2>2. QED BY <2>1
    <1>6. Len(ds) \in T
        <2> HIDE DEF T
        <2>1. QED BY <1>3, <1>4, <1>5, Induction
    <1>7. Says(Len(ds))
        BY <1>3, <1>6
    <1>8. /\ (\E d \in ToSet(ds) : d.key = k) => \E i \in 1..Len(ds) : ds[i].key = k
          /\ (\A d \in ToSet(ds) : d.key # k) => \A i \in 1..Len(ds) : ds[i].key # k
        BY <1>3 DEF ToSet
    <1>9. QED BY <1>1, <1>7, <1>8

-----------------------------------------------------------------------------
(***************************************************************************)
(* A batch in the rows.                                                    *)
(***************************************************************************)
Dropped(batch, k) ==
    KindOf(k) \in batch.complete /\ \A d \in ToSet(batch.deltas) : d.key = k => d.val = None

LEMMA StoredIs ==
    ASSUME NEW rs, RowsOK(rs), NEW batch \in Flight, ~Rejects(batch)
    PROVE  /\ \A d \in ToSet(batch.deltas) : d \in Delta /\ d.val \notin Malformed
           /\ RowsOK(Stored(rs, batch))
           /\ \A k \in Key :
                 Stored(rs, batch)[k] = IF Dropped(batch, k) THEN None ELSE Upserted(rs, batch.deltas)[k]
    <1> DEFINE U == Upserted(rs, batch.deltas)
    <1>1. batch.deltas \in Seq(Delta)
        BY DEF Flight
    <1>2. \A d \in ToSet(batch.deltas) : d \in Delta /\ d.val \notin Malformed
        BY <1>1, LenProperties, ElementOfSeq DEF Rejects, ToSet
    <1>3. RowsOK(U)
        BY <1>1, <1>2, UpsertedRows
    <1> HIDE DEF U
    <1>4. Stored(rs, batch) =
            [k \in Key |-> IF KindOf(k) \in batch.complete
                              /\ k \notin {d.key : d \in {d \in ToSet(batch.deltas) : d.val # None}}
                           THEN None ELSE U[k]]
        BY DEF Stored, Reconciled, U
    <1>5. Stored(rs, batch) = [k \in Key |-> IF Dropped(batch, k) THEN None ELSE U[k]]
        BY <1>4 DEF Dropped
    <1>6. RowsOK(Stored(rs, batch))
        BY <1>3, <1>5 DEF RowsOK
    <1>7. QED BY <1>2, <1>5, <1>6 DEF U

\* The row of a plan is gone, or says by its revision whether it changed.
LEMMA StoredPins ==
    ASSUME TypeOK, PinTrue, NEW batch \in Flight, ~Rejects(batch), Ingest(batch)
    PROVE  PinTrue'
    <1>1. RowsOK(rows)
        BY DEF TypeOK, RowsOK
    <1> DEFINE k == pin.key
               U == Upserted(rows, batch.deltas)
    <1>2. rows' = Stored(rows, batch)
          /\ pin' = IF pin.st = "open" /\ pin.val # None /\ rows'[k] = None
                    THEN [pin EXCEPT !.gone = TRUE] ELSE pin
        BY DEF Ingest
    <1>3. ASSUME pin'.st = "open"
          PROVE  PinnedRow'
        <2>1. pin.st = "open" /\ pin'.key = k /\ pin'.val = pin.val /\ pin'.rev = pin.rev /\ k \in Key
              /\ PinnedRow
            BY <1>2, <1>3 DEF TypeOK, PinState, PinTrue
        <2>2. CASE pin.val = None
            BY <2>1, <2>2 DEF PinnedRow
        <2>3. CASE pin.val # None /\ rows'[k] = None
            <3>1. pin'.gone
                BY <1>2, <2>1, <2>3 DEF TypeOK, PinState
            <3>2. QED BY <2>1, <2>3, <3>1 DEF PinnedRow
        <2>4. CASE pin.val # None /\ rows'[k] # None /\ pin.gone
            BY <1>2, <2>1, <2>4 DEF PinnedRow
        <2>5. CASE pin.val # None /\ rows'[k] # None /\ ~pin.gone
            <3>1. /\ rows[k] # None
                  /\ k[1] # "dev" => pin.rev <= rows[k].rev
                  /\ pin.rev = rows[k].rev \/ k[1] = "dev" => pin.val = rows[k].val
                BY <2>1, <2>5 DEF PinnedRow
            <3>2. RowsOK(rows') /\ rows'[k] = U[k]
                BY <1>1, <1>2, <2>1, <2>5, StoredIs
            <3>3. CASE k[1] = "dev"
                <4>1. rows[k].val = Unknown /\ rows'[k].val = Unknown
                    BY <1>1, <2>1, <2>5, <3>1, <3>2, <3>3 DEF RowsOK
                <4>2. QED BY <2>1, <2>5, <3>1, <3>3, <4>1 DEF PinnedRow
            <3>4. CASE k[1] # "dev"
                <4>1. batch.deltas \in Seq(Delta) /\ \A d \in ToSet(batch.deltas) : d.val \notin Malformed
                    BY <1>1, StoredIs DEF Flight
                <4>2. /\ rows[k].rev <= rows'[k].rev
                      /\ rows[k].rev = rows'[k].rev => rows[k].val = rows'[k].val
                    <5> HIDE DEF k
                    <5>1. QED BY <1>1, <2>1, <3>1, <3>2, <3>4, <4>1, UpsertedMoves
                <4>3. pin.rev \in Nat /\ rows[k].rev \in Nat /\ rows'[k].rev \in Nat
                    <5>1. rows[k] \in Row /\ rows'[k] \in Row
                        BY <1>1, <2>1, <2>5, <3>1, <3>2 DEF RowsOK
                    <5>2. QED BY <5>1 DEF Row, TypeOK, PinState
                <4>4. pin.rev <= rows'[k].rev /\ (pin.rev = rows'[k].rev => pin.val = rows'[k].val)
                    BY <3>1, <3>4, <4>2, <4>3
                <4>5. QED BY <2>1, <2>5, <3>4, <4>4 DEF PinnedRow
            <3>5. QED BY <3>3, <3>4
        <2>6. QED BY <2>2, <2>3, <2>4, <2>5
    <1>4. QED BY <1>3 DEF PinTrue

\* The row of what never changed is left alone, but for what one of them was not told.
LEMMA StoredQuiet ==
    ASSUME NEW rs, RowsOK(rs), NEW batch \in Flight, ~Rejects(batch), QuietBatch(batch),
           NEW k \in Quiet, rs[k] # None => Said(rs[k].val, k) /\ rs[k].full
    PROVE  LET row == Stored(rs, batch)[k]
           IN  /\ row # None => Said(row.val, k) /\ row.full
               /\ rs[k] # None => \/ row = rs[k]
                                  \/ row # None /\ Unknown \in {rs[k].val, row.val}
    <1> DEFINE ds == batch.deltas
               row == Stored(rs, batch)[k]
    <1>1. k \in Key /\ k[1] # "dev" /\ KindOf(k) = k[1]
        BY DEF Quiet, KindOf
    <1>2. PICK v \in Value : \A d \in ToSet(ds) : d.key = k => Said(v, k) /\ d.full /\ d.val = v
        BY DEF QuietBatch
    <1>3. v # None
        BY NoneIsNothing
    <1>4. ds \in Seq(Delta) /\ \A d \in ToSet(ds) : d.val \notin Malformed
        BY StoredIs DEF Flight
    <1>5. /\ row = IF Dropped(batch, k) THEN None ELSE Upserted(rs, ds)[k]
        BY <1>1, StoredIs
    <1>6. /\ (\E d \in ToSet(ds) : d.key = k) =>
                Upserted(rs, ds)[k] # None /\ Upserted(rs, ds)[k].val = v /\ Upserted(rs, ds)[k].full
          /\ (\A d \in ToSet(ds) : d.key # k) => Upserted(rs, ds)[k] = rs[k]
          /\ rs[k] # None /\ rs[k].val = v /\ rs[k].full => Upserted(rs, ds)[k] = rs[k]
        <2>1. \A d \in ToSet(ds) : d.key = k => d.val = v /\ d.full
            BY <1>2
        <2> HIDE DEF ds
        <2>2. k \in Key
            BY <1>1
        <2>3. QED BY <1>3, <1>4, <2>1, <2>2, UpsertedSaid
    <1> HIDE DEF row, ds
    <1>7. CASE \E d \in ToSet(ds) : d.key = k
        <2>1. ~Dropped(batch, k)
            BY <1>2, <1>3, <1>7 DEF Dropped, ds
        <2>2. row # None /\ row.val = v /\ row.full /\ Said(v, k)
            BY <1>2, <1>5, <1>6, <1>7, <2>1
        <2>3. ASSUME rs[k] # None PROVE row = rs[k] \/ Unknown \in {rs[k].val, row.val}
            <3>1. CASE rs[k].val = v
                BY <1>5, <1>6, <2>1, <2>3, <3>1
            <3>2. CASE rs[k].val # v
                BY <2>2, <2>3, <3>2 DEF Said
            <3>3. QED BY <3>1, <3>2
        <2>4. QED BY <2>2, <2>3 DEF row
    <1>8. CASE \A d \in ToSet(ds) : d.key # k
        <2>1. ~Dropped(batch, k) \/ HostVal(k) = None
            BY <1>1, <1>8 DEF Dropped, QuietBatch, ds
        <2>2. ASSUME rs[k] # None PROVE row = rs[k]
            <3>1. HostVal(k) # None
                BY <2>2 DEF Said
            <3>2. QED BY <1>5, <1>6, <1>8, <2>1, <3>1
        <2>3. row # None => rs[k] # None /\ row = rs[k]
            BY <1>5, <1>6, <1>8
        <2>4. QED BY <2>2, <2>3 DEF row
    <1>9. QED BY <1>7, <1>8

\* Where a batch is complete and says of a key what is on the host, so does its row.
LEMMA StoredShows ==
    ASSUME NEW rs, RowsOK(rs), NEW batch \in Flight, ~Rejects(batch), NEW k \in Key, k[1] # "dev",
           k[1] \in batch.complete, NEW v,
           \A d \in ToSet(batch.deltas) : d.key = k => d.val = v /\ d.full,
           v # None => \E d \in ToSet(batch.deltas) : d.key = k
    PROVE  IF v = None THEN Stored(rs, batch)[k] = None
           ELSE /\ Stored(rs, batch)[k] # None
                /\ Stored(rs, batch)[k].val = v /\ Stored(rs, batch)[k].full
    <1>1. KindOf(k) = k[1]
        BY DEF KindOf
    <1>2. Stored(rs, batch)[k] = IF Dropped(batch, k) THEN None ELSE Upserted(rs, batch.deltas)[k]
        BY StoredIs
    <1>3. CASE v = None
        BY <1>1, <1>2, <1>3 DEF Dropped
    <1>4. CASE v # None
        <2>1. batch.deltas \in Seq(Delta) /\ \A d \in ToSet(batch.deltas) : d.val \notin Malformed
            BY StoredIs DEF Flight
        <2> DEFINE ds == batch.deltas
        <2>2. \A d \in ToSet(ds) : d.key = k => d.val = v /\ d.full
            OBVIOUS
        <2>3. \E d \in ToSet(ds) : d.key = k
            BY <1>4
        <2>4. Upserted(rs, ds)[k] # None /\ Upserted(rs, ds)[k].val = v /\ Upserted(rs, ds)[k].full
            <3> HIDE DEF ds
            <3>0. ds \in Seq(Delta) /\ \A d \in ToSet(ds) : d.val \notin Malformed
                BY <2>1 DEF ds
            <3>1. QED BY <1>4, <2>2, <2>3, <3>0, UpsertedSaid
        <2>5. ~Dropped(batch, k)
            BY <1>4, <2>2, <2>3 DEF Dropped
        <2>6. QED BY <1>2, <1>4, <2>4, <2>5
    <1>5. QED BY <1>3, <1>4

-----------------------------------------------------------------------------
(***************************************************************************)
(* Deltas put in the queue: they all are in it or sent, and unless the     *)
(* ceiling was met the queue has them all, in their order.                 *)
(***************************************************************************)
Cuts(D) == {Batch(q, {}, "none") : q \in Seq(D)}
Queueing(D) == [queue : Seq(D), sent : Seq(Cuts(D))]

LEMMA EnqueueSays ==
    ASSUME NEW D, NEW st \in Queueing(D), NEW d \in D, MaxBatch \in Nat \ {0},
           phase = "up" => Len(st.queue) < MaxBatch
    PROVE  /\ Enqueue(st, d) \in Queueing(D)
           /\ phase = "up" => Len(Enqueue(st, d).queue) < MaxBatch
           /\ phase # "up" => Enqueue(st, d).sent = st.sent
           /\ Enqueue(st, d).sent = <<>> =>
                 Enqueue(st, d).queue = Append(st.queue, d) /\ st.sent = <<>>
    <1> DEFINE q == Append(st.queue, d)
    <1>1. st.queue \in Seq(D) /\ st.sent \in Seq(Cuts(D)) /\ Len(st.queue) \in Nat
        BY LenProperties DEF Queueing
    <1>2. q \in Seq(D) /\ Len(q) = Len(st.queue) + 1
        BY <1>1, AppendProperties
    <1> HIDE DEF q
    <1>3. CASE phase = "up" /\ Len(q) >= MaxBatch
        <2>1. Enqueue(st, d) = [queue |-> <<>>, sent |-> Append(st.sent, Batch(q, {}, "none"))]
            BY <1>3 DEF Enqueue, q
        <2>2. Batch(q, {}, "none") \in Cuts(D)
            BY <1>2 DEF Cuts
        <2>3. Append(st.sent, Batch(q, {}, "none")) \in Seq(Cuts(D))
              /\ Append(st.sent, Batch(q, {}, "none")) # <<>>
            BY <1>1, <2>2, AppendProperties
        <2>4. <<>> \in Seq(D) /\ Len(<<>>) = 0
            BY EmptySeq
        <2>5. QED BY <1>3, <2>1, <2>3, <2>4 DEF Queueing
    <1>4. CASE ~(phase = "up" /\ Len(q) >= MaxBatch)
        <2>1. Enqueue(st, d) = [st EXCEPT !.queue = q]
            BY <1>4 DEF Enqueue, q
        <2>2. Enqueue(st, d).queue = q /\ Enqueue(st, d).sent = st.sent /\ Enqueue(st, d) \in Queueing(D)
            BY <1>2, <2>1 DEF Queueing
        <2>3. QED BY <1>1, <1>2, <1>4, <2>2 DEF q
    <1>5. QED BY <1>3, <1>4

LEMMA QueuedSteps ==
    ASSUME NEW ds
    PROVE  \E st : /\ Queued(ds) = st[Len(ds)]
                   /\ Len(ds) \in Nat =>
                        /\ st[0] = [queue |-> queue, sent |-> <<>>]
                        /\ \A n \in 1..Len(ds) : st[n] = Enqueue(st[n - 1], ds[n])
    <1> DEFINE base == [queue |-> queue, sent |-> <<>>]
               G(g) == [n \in 0..Len(ds) |-> IF n = 0 THEN base ELSE Enqueue(g[n - 1], ds[n])]
               g == CHOOSE g : g = G(g)
               T == {m \in Nat : \E f : f = [n \in 0..m |-> IF n = 0 THEN base ELSE Enqueue(f[n - 1], ds[n])]}
    <1> HIDE DEF base
    <1>1. 0 \in T
        <2> DEFINE f == [n \in 0..0 |-> base]
        <2>1. f = [n \in 0..0 |-> IF n = 0 THEN base ELSE Enqueue(f[n - 1], ds[n])]
            OBVIOUS
        <2> HIDE DEF f
        <2>2. QED BY <2>1
    <1>2. ASSUME NEW m \in Nat, m \in T PROVE m + 1 \in T
        <2>1. PICK f : f = [n \in 0..m |-> IF n = 0 THEN base ELSE Enqueue(f[n - 1], ds[n])]
            BY <1>2
        <2> DEFINE h == [n \in 0..(m + 1) |-> IF n = m + 1 THEN Enqueue(f[m], ds[n]) ELSE f[n]]
        <2>2. ASSUME NEW n \in 0..(m + 1)
              PROVE  h[n] = IF n = 0 THEN base ELSE Enqueue(h[n - 1], ds[n])
            <3>1. CASE n = m + 1
                <4>1. n # 0 /\ n - 1 = m /\ h[m] = f[m]
                    BY <3>1
                <4>2. h[n] = Enqueue(f[m], ds[n])
                    BY <3>1
                <4> HIDE DEF h
                <4>3. QED BY <4>1, <4>2
            <3>2. CASE n \in 0..m
                <4>1. f[n] = IF n = 0 THEN base ELSE Enqueue(f[n - 1], ds[n])
                    BY <2>1, <3>2
                <4>2. h[n] = f[n] /\ (n # 0 => h[n - 1] = f[n - 1])
                    BY <3>2
                <4> HIDE DEF h
                <4>3. QED BY <4>1, <4>2
            <3>3. QED BY <3>1, <3>2
        <2>3. h = [n \in 0..(m + 1) |-> IF n = 0 THEN base ELSE Enqueue(h[n - 1], ds[n])]
            <3>1. h = [n \in 0..(m + 1) |-> h[n]]
                OBVIOUS
            <3> HIDE DEF h
            <3>2. QED BY <2>2, <3>1
        <2> HIDE DEF h
        <2>4. \E f1 : f1 = [n \in 0..(m + 1) |-> IF n = 0 THEN base ELSE Enqueue(f1[n - 1], ds[n])]
            BY <2>3, Zenon
        <2>5. m + 1 \in Nat
            OBVIOUS
        <2>6. QED BY <2>4, <2>5, Zenon
    <1>3. Len(ds) \in Nat => g = G(g)
        <2>1. ASSUME Len(ds) \in Nat PROVE \E f : f = G(f)
            <3>1. Len(ds) \in T
                <4> HIDE DEF T
                <4>1. QED BY <1>1, <1>2, <2>1, Induction
            <3>2. QED BY <3>1
        <2>2. QED BY <2>1
    <1>4. Queued(ds) = g[Len(ds)]
        BY DEF Queued, base
    <1>5. ASSUME Len(ds) \in Nat
          PROVE  g[0] = base /\ \A n \in 1..Len(ds) : g[n] = Enqueue(g[n - 1], ds[n])
        <2> HIDE DEF g
        <2>1. \A n \in 0..Len(ds) : g[n] = IF n = 0 THEN base ELSE Enqueue(g[n - 1], ds[n])
            BY <1>3, <1>5
        <2>2. QED BY <1>5, <2>1
    <1> HIDE DEF g
    <1>6. QED BY <1>4, <1>5 DEF base

LEMMA QueuedSays ==
    ASSUME NEW D, queue \in Seq(D), NEW ds \in Seq(D), MaxBatch \in Nat \ {0},
           phase = "up" => Len(queue) < MaxBatch
    PROVE  /\ Queued(ds) \in Queueing(D)
           /\ phase = "up" => Len(Queued(ds).queue) < MaxBatch
           /\ phase # "up" => Queued(ds).sent = <<>>
           /\ Queued(ds).sent = <<>> => Queued(ds).queue = queue \o ds
    <1>0. /\ Len(ds) \in Nat /\ Len(queue) \in Nat
          /\ \A n \in 1..Len(ds) : ds[n] \in D
        BY LenProperties, ElementOfSeq
    <1>1. PICK st : /\ Queued(ds) = st[Len(ds)]
                    /\ st[0] = [queue |-> queue, sent |-> <<>>]
                    /\ \A n \in 1..Len(ds) : st[n] = Enqueue(st[n - 1], ds[n])
        BY <1>0, QueuedSteps
    <1> DEFINE Holds(s, n) ==
                 /\ s \in Queueing(D)
                 /\ phase = "up" => Len(s.queue) < MaxBatch
                 /\ phase # "up" => s.sent = <<>>
                 /\ s.sent = <<>> => /\ Len(s.queue) = Len(queue) + n
                                     /\ \A i \in 1..Len(queue) : s.queue[i] = queue[i]
                                     /\ \A i \in 1..n : s.queue[Len(queue) + i] = ds[i]
               T == {n \in Nat : n <= Len(ds) => Holds(st[n], n)}
    <1>2. 0 \in T
        <2>1. <<>> \in Seq(Cuts(D))
            BY EmptySeq
        <2> DEFINE s == [queue |-> queue, sent |-> <<>>]
        <2>2. s \in Queueing(D) /\ s.queue = queue /\ s.sent = <<>>
            BY <2>1 DEF Queueing
        <2> HIDE DEF s
        <2>3. Holds(s, 0)
            BY <1>0, <2>2
        <2>4. st[0] = s
            BY <1>1 DEF s
        <2> HIDE DEF Holds
        <2>5. QED BY <2>3, <2>4
    <1>3. ASSUME NEW n \in Nat, n \in T PROVE n + 1 \in T
        <2>1. ASSUME n + 1 <= Len(ds) PROVE Holds(st[n + 1], n + 1)
            <3> DEFINE s == st[n]
                       t == st[n + 1]
                       d == ds[n + 1]
            <3>1. Holds(s, n) /\ d \in D /\ t = Enqueue(s, d)
                BY <1>0, <1>1, <1>3, <2>1
            <3>2. s.queue \in Seq(D) /\ Len(s.queue) \in Nat
                BY <3>1, LenProperties DEF Queueing
            <3> HIDE DEF s, t
            <3>3. /\ t \in Queueing(D)
                  /\ phase = "up" => Len(t.queue) < MaxBatch
                  /\ phase # "up" => t.sent = s.sent
                  /\ t.sent = <<>> => t.queue = Append(s.queue, d) /\ s.sent = <<>>
                BY <3>1, EnqueueSays
            <3>4. ASSUME t.sent = <<>>
                  PROVE  /\ Len(t.queue) = Len(queue) + (n + 1)
                         /\ \A i \in 1..Len(queue) : t.queue[i] = queue[i]
                         /\ \A i \in 1..(n + 1) : t.queue[Len(queue) + i] = ds[i]
                <4>1. /\ Len(s.queue) = Len(queue) + n
                      /\ \A i \in 1..Len(queue) : s.queue[i] = queue[i]
                      /\ \A i \in 1..n : s.queue[Len(queue) + i] = ds[i]
                      /\ t.queue = Append(s.queue, d)
                    BY <3>1, <3>3, <3>4
                <4>2. /\ Len(t.queue) = Len(s.queue) + 1
                      /\ \A i \in 1..Len(s.queue) : t.queue[i] = s.queue[i]
                      /\ t.queue[Len(s.queue) + 1] = d
                    BY <3>1, <3>2, <4>1, AppendProperties
                <4>3. Len(t.queue) = Len(queue) + (n + 1)
                    BY <1>0, <4>1, <4>2
                <4>4. ASSUME NEW i \in 1..Len(queue) PROVE t.queue[i] = queue[i]
                    <5>1. i \in 1..Len(s.queue)
                        BY <1>0, <4>1
                    <5>2. QED BY <4>1, <4>2, <5>1
                <4>5. ASSUME NEW i \in 1..(n + 1) PROVE t.queue[Len(queue) + i] = ds[i]
                    <5>1. CASE i = n + 1
                        <6>1. Len(queue) + i = Len(s.queue) + 1
                            BY <1>0, <4>1, <5>1
                        <6>2. QED BY <4>2, <5>1, <6>1
                    <5>2. CASE i \in 1..n
                        <6>1. Len(queue) + i \in 1..Len(s.queue)
                            BY <1>0, <4>1, <5>2
                        <6>2. QED BY <4>1, <4>2, <5>2, <6>1
                    <5>3. QED BY <5>1, <5>2
                <4>6. QED BY <4>3, <4>4, <4>5
            <3>5. Holds(t, n + 1)
                BY <3>1, <3>3, <3>4
            <3> HIDE DEF Holds
            <3>6. QED BY <3>5 DEF t
        <2> HIDE DEF Holds
        <2>2. QED BY <2>1
    <1>4. Len(ds) \in T
        <2> HIDE DEF T
        <2>1. QED BY <1>0, <1>2, <1>3, Induction
    <1> DEFINE q == Queued(ds)
    <1>5. Holds(q, Len(ds))
        BY <1>0, <1>1, <1>4
    <1> HIDE DEF q
    <1>6. ASSUME q.sent = <<>> PROVE q.queue = queue \o ds
        <2>1. /\ q.queue \in Seq(D) /\ Len(q.queue) = Len(queue) + Len(ds)
              /\ \A i \in 1..Len(queue) : q.queue[i] = queue[i]
              /\ \A i \in 1..Len(ds) : q.queue[Len(queue) + i] = ds[i]
            BY <1>5, <1>6 DEF Queueing
        <2>2. /\ queue \o ds \in Seq(D) /\ Len(queue \o ds) = Len(queue) + Len(ds)
              /\ \A i \in 1..Len(queue) + Len(ds) :
                    (queue \o ds)[i] = IF i <= Len(queue) THEN queue[i] ELSE ds[i - Len(queue)]
            BY ConcatProperties
        <2>3. ASSUME NEW i \in 1..Len(q.queue) PROVE q.queue[i] = (queue \o ds)[i]
            <3>1. CASE i <= Len(queue)
                BY <1>0, <2>1, <2>2, <3>1
            <3>2. CASE i > Len(queue)
                <4>1. i - Len(queue) \in 1..Len(ds) /\ Len(queue) + (i - Len(queue)) = i
                    BY <1>0, <2>1, <3>2
                <4>2. QED BY <1>0, <2>1, <2>2, <3>2, <4>1
            <3>3. QED BY <1>0, <2>1, <3>1, <3>2
        <2>4. QED BY <2>1, <2>2, <2>3, SeqEqual
    <1>7. QED BY <1>5, <1>6 DEF q

-----------------------------------------------------------------------------
(***************************************************************************)
(* The batches on their way.                                               *)
(***************************************************************************)
LEMMA Bounds ==
    MaxBatch \in Nat \ {0} /\ MaxRetries \in Nat \ {0} /\ MaxSpent \in Nat
    BY ObservationBounds

LEMMA BatchType ==
    ASSUME NEW ds \in Seq(Delta), NEW complete \in SUBSET {"own", "co"}, NEW who \in {"none", "boot", "settle"}
    PROVE  /\ Batch(ds, complete, who) \in Flight
           /\ Batch(ds, complete, who).deltas = ds /\ Batch(ds, complete, who).complete = complete
           /\ Batch(ds, complete, who).who = who /\ Batch(ds, complete, who).tries = 0
    BY DEF Batch, Flight

\* The parts that the ceiling cut off.
LEMMA CutsSay ==
    ASSUME NEW D \in SUBSET Delta
    PROVE  /\ Cuts(D) \subseteq Flight
           /\ \A b \in Cuts(D) : b.deltas \in Seq(D) /\ b.complete = {} /\ b.who = "none" /\ b.tries = 0
    <1>1. ASSUME NEW q \in Seq(D) PROVE q \in Seq(Delta)
        BY SeqMonotonic
    <1>2. QED BY <1>1, BatchType DEF Cuts

LEMMA FlushSays ==
    ASSUME TypeOK, NEW ds \in Seq(Delta), NEW complete \in SUBSET {"own", "co"},
           NEW who \in {"none", "boot", "settle"}, FlushSnapshot(ds, complete, who)
    PROVE  /\ queue' = <<>> /\ flights' \in Seq(Flight)
           /\ split' \in BOOLEAN /\ (split => split')
           /\ \A b \in ToSet(flights') :
                 \/ b \in ToSet(flights)
                 \/ split' /\ b.tries = 0 /\ b.who = "none" /\ b.complete = {}
                 \/ /\ b.tries = 0 /\ b.who = who /\ b.complete = complete
                    /\ ~split' => b.deltas = queue \o ds
    <1> DEFINE q == Queued(ds)
               last == Batch(q.queue, complete, who)
    <1>1. /\ q \in Queueing(Delta)
          /\ phase # "up" => q.sent = <<>>
          /\ q.sent = <<>> => q.queue = queue \o ds
        <2>1. queue \in Seq(Delta) /\ (phase = "up" => Len(queue) < MaxBatch)
            BY DEF TypeOK
        <2>2. QED BY <2>1, Bounds, QueuedSays
    <1>2. /\ queue' = <<>> /\ flights' = flights \o Append(q.sent, last)
          /\ split' = (split \/ (phase = "up" /\ q.sent # <<>>))
        BY DEF FlushSnapshot
    <1> HIDE DEF q
    <1>3. q.queue \in Seq(Delta) /\ q.sent \in Seq(Cuts(Delta))
        BY <1>1 DEF Queueing
    <1>4. last \in Flight /\ last.deltas = q.queue /\ last.complete = complete /\ last.who = who /\ last.tries = 0
        BY <1>3, BatchType
    <1>5. Cuts(Delta) \subseteq Flight
          /\ \A b \in Cuts(Delta) : b.complete = {} /\ b.who = "none" /\ b.tries = 0
        BY CutsSay
    <1> HIDE DEF last
    <1>6. q.sent \in Seq(Flight)
        BY <1>3, <1>5, SeqMonotonic
    <1>7. Append(q.sent, last) \in Seq(Flight) /\ ToSet(Append(q.sent, last)) = ToSet(q.sent) \cup {last}
        BY <1>4, <1>6, SetOfAppend
    <1>8. flights' \in Seq(Flight) /\ ToSet(flights') = ToSet(flights) \cup ToSet(q.sent) \cup {last}
        <2>1. flights \in Seq(Flight)
            BY DEF TypeOK
        <2> DEFINE more == Append(q.sent, last)
        <2>2. more \in Seq(Flight) /\ ToSet(more) = ToSet(q.sent) \cup {last} /\ flights' = flights \o more
            BY <1>2, <1>7
        <2> HIDE DEF more
        <2>3. flights \o more \in Seq(Flight) /\ ToSet(flights \o more) = ToSet(flights) \cup ToSet(more)
            BY <2>1, <2>2, SetOfBoth
        <2>4. QED BY <2>2, <2>3
    <1>9. split \in BOOLEAN
        BY DEF TypeOK
    <1>10. \A b \in ToSet(q.sent) : b \in Cuts(Delta) /\ q.sent # <<>>
        <2>1. ToSet(q.sent) \subseteq Cuts(Delta)
            BY <1>3, LenProperties, ElementOfSeq DEF ToSet
        <2>2. ToSet(<<>>) = {}
            BY DEF ToSet
        <2>3. QED BY <2>1, <2>2
    <1>11. split' \in BOOLEAN /\ (split => split') /\ (q.sent # <<>> => split') /\ (~split' => q.sent = <<>>)
        BY <1>1, <1>2, <1>9
    <1>12. QED BY <1>1, <1>2, <1>4, <1>5, <1>8, <1>10, <1>11

LEMMA TakenAway ==
    ASSUME NEW S, NEW s \in Seq(S), NEW n \in 1..Len(s)
    PROVE  RemoveAt(s, n) \in Seq(S) /\ ToSet(RemoveAt(s, n)) \subseteq ToSet(s)
    <1> DEFINE a == SubSeq(s, 1, n - 1)
               z == SubSeq(s, n + 1, Len(s))
    <1>1. Len(s) \in Nat /\ DOMAIN s = 1..Len(s)
        BY LenProperties
    <1>2. /\ a \in Seq(S) /\ Len(a) = n - 1 /\ \A i \in 1..(n - 1) : a[i] = s[i]
        BY <1>1, SubSeqProperties
    <1>3. /\ z \in Seq(S) /\ Len(z) = Len(s) - n
          /\ \A i \in 1..(Len(s) - n) : z[i] = s[n + i]
        <2>1. \A i \in (n + 1)..Len(s) : s[i] \in S
            BY <1>1, ElementOfSeq
        <2>2. /\ z \in Seq(S) /\ Len(z) = IF n + 1 <= Len(s) THEN Len(s) - (n + 1) + 1 ELSE 0
              /\ \A i \in 1..(Len(s) - (n + 1) + 1) : z[i] = s[(n + 1) + i - 1]
            BY <1>1, <2>1, SubSeqProperties
        <2> HIDE DEF z
        <2>3. ASSUME NEW i \in 1..(Len(s) - n) PROVE z[i] = s[n + i]
            <3>1. i \in 1..(Len(s) - (n + 1) + 1) /\ (n + 1) + i - 1 = n + i
                BY <1>1
            <3>2. QED BY <2>2, <3>1
        <2>4. Len(z) = Len(s) - n
            <3>1. n + 1 <= Len(s) => Len(s) - (n + 1) + 1 = Len(s) - n
                BY <1>1
            <3>2. ~(n + 1 <= Len(s)) => Len(s) - n = 0
                <4> DEFINE l == Len(s)
                <4>1. l \in Nat /\ n \in Int /\ n <= l
                    BY <1>1
                <4> HIDE DEF l
                <4>2. ~(n + 1 <= l) => l - n = 0
                    BY <4>1
                <4>3. QED BY <4>2 DEF l
            <3>3. QED BY <2>2, <3>1, <3>2, Zenon
        <2>5. QED BY <2>2, <2>3, <2>4, Zenon
    <1> HIDE DEF a, z
    <1>4. ToSet(a) \subseteq ToSet(s)
        BY <1>1, <1>2, LenProperties DEF ToSet
    <1>5. ToSet(z) \subseteq ToSet(s)
        <2>1. DOMAIN z = 1..(Len(s) - n)
            BY <1>3, LenProperties
        <2>2. ASSUME NEW i \in 1..(Len(s) - n) PROVE z[i] \in ToSet(s)
            <3>1. n + i \in DOMAIN s
                BY <1>1
            <3>2. QED BY <1>3, <3>1 DEF ToSet
        <2>3. QED BY <2>1, <2>2 DEF ToSet
    <1>6. RemoveAt(s, n) = a \o z
        BY DEF RemoveAt, a, z
    <1>7. QED BY <1>2, <1>3, <1>4, <1>5, <1>6, SetOfBoth

-----------------------------------------------------------------------------
(***************************************************************************)
(* What a sweep says of the entities that never changed.                   *)
(***************************************************************************)
LEMMA KeysAre ==
    ASSUME NEW k \in Quiet
    PROVE  \/ \E i \in Id : k = <<"own", i>> /\ k[1] = "own" /\ HostVal(k) = host.own[i]
           \/ \E j \in CoId : k = <<"co", j>> /\ k[1] = "co" /\ HostVal(k) = host.co[j]
    BY DEF Quiet, Key, HostVal

LEMMA SweepIsQuiet ==
    ASSUME TypeOK, EventsOfChanged, NEW r \in Reading, TrueReading(r),
           NEW batch, batch.deltas = queue \o SweepDeltas(r), "co" \in batch.complete => TrueSecond(r)
    PROVE  QuietBatch(batch)
    <1> DEFINE ds == SweepDeltas(r)
    <1>1. /\ ds \in Seq(Delta)
          /\ \A d \in ToSet(ds) :
                /\ d.full /\ d.val # None
                /\ \/ \E i \in Id : d.key = <<"own", i>> /\ d.val = r.own[i]
                   \/ \E j \in CoId : d.key = <<"co", j>> /\ d.val = r.co[j]
          /\ \A i \in Id : r.own[i] # None => \E d \in ToSet(ds) : d.key = <<"own", i>>
          /\ \A j \in CoId : r.co[j] # None => \E d \in ToSet(ds) : d.key = <<"co", j>>
        BY SweepSays
    <1> HIDE DEF ds
    <1>2. ToSet(batch.deltas) = ToSet(queue) \cup ToSet(ds)
        BY <1>1, SetOfBoth DEF TypeOK, ds
    <1>3. Unknown \in Value /\ Unknown # None
        BY Nothing DEF Value
    <1>4. /\ r.own \in [Id -> Value \cup {None}] /\ r.co \in [CoId -> Value \cup {None}]
          /\ host.own \in [Id -> Content \cup {None}] /\ host.co \in [CoId -> Content \cup {None}]
        BY DEF Reading, Value, TypeOK, Host
    <1>5. ASSUME NEW i \in Id, <<"own", i>> \in Quiet
          PROVE  LET k == <<"own", i>>
                 IN  /\ \E v \in Value :
                          \A d \in ToSet(batch.deltas) : d.key = k => Said(v, k) /\ d.full /\ d.val = v
                     /\ HostVal(k) # None => \E d \in ToSet(batch.deltas) : d.key = k
        <2> DEFINE k == <<"own", i>>
        <2>0. HostVal(k) = host.own[i]
            BY DEF HostVal
        <2>1. IF host.own[i] = None THEN r.own[i] = None ELSE r.own[i] \in {host.own[i], Unknown}
            BY <1>5 DEF TrueReading
        <2>2. ASSUME NEW d \in ToSet(batch.deltas), d.key = k
              PROVE  d \in ToSet(ds) /\ d.full /\ d.val # None /\ d.val = r.own[i]
            <3>1. d \in ToSet(ds)
                BY <1>2, <1>5, <2>2 DEF EventsOfChanged
            <3>2. QED BY <1>1, <2>2, <3>1
        <2>3. CASE r.own[i] = None
            <3>1. \A d \in ToSet(batch.deltas) : d.key # k
                BY <2>2, <2>3
            <3>2. HostVal(k) = None
                BY <1>3, <2>0, <2>1, <2>3
            <3>3. QED BY <1>3, <3>1, <3>2
        <2>4. CASE r.own[i] # None
            <3>1. Said(r.own[i], k) /\ r.own[i] \in Value
                BY <1>4, <2>0, <2>1, <2>4 DEF Said
            <3>2. \E d \in ToSet(batch.deltas) : d.key = k
                BY <1>1, <1>2, <2>4
            <3>3. QED BY <2>2, <3>1, <3>2
        <2>5. QED BY <2>3, <2>4
    <1>6. ASSUME NEW j \in CoId, <<"co", j>> \in Quiet
          PROVE  LET k == <<"co", j>>
                 IN  /\ \E v \in Value :
                          \A d \in ToSet(batch.deltas) : d.key = k => Said(v, k) /\ d.full /\ d.val = v
                     /\ "co" \in batch.complete /\ HostVal(k) # None =>
                            \E d \in ToSet(batch.deltas) : d.key = k
        <2> DEFINE k == <<"co", j>>
        <2>0. HostVal(k) = host.co[j]
            BY DEF HostVal
        <2>2. ASSUME NEW d \in ToSet(batch.deltas), d.key = k
              PROVE  d \in ToSet(ds) /\ d.full /\ d.val # None /\ d.val = r.co[j]
            <3>1. d \in ToSet(ds)
                BY <1>2, <1>6, <2>2 DEF EventsOfChanged
            <3>2. QED BY <1>1, <2>2, <3>1
        <2>3. CASE r.co[j] = None
            <3>1. \A d \in ToSet(batch.deltas) : d.key # k
                BY <2>2, <2>3
            <3>2. "co" \in batch.complete => HostVal(k) = None
                BY <1>6, <2>0, <2>3 DEF TrueSecond
            <3>3. QED BY <1>3, <3>1, <3>2
        <2>4. CASE r.co[j] # None
            <3>0. Present(r.co) # {}
                BY <1>4, <2>4 DEF Present
            <3>1. r.co[j] = host.co[j] /\ r.co[j] \in Value
                BY <1>4, <1>6, <2>4, <3>0 DEF TrueReading, TrueSecond
            <3>2. Said(r.co[j], k)
                BY <2>0, <2>4, <3>1 DEF Said
            <3>3. \E d \in ToSet(batch.deltas) : d.key = k
                BY <1>1, <1>2, <2>4
            <3>4. QED BY <2>2, <3>1, <3>2, <3>3
        <2>5. QED BY <2>3, <2>4
    <1>7. ASSUME NEW k \in Quiet
          PROVE  /\ \E v \in Value :
                       \A d \in ToSet(batch.deltas) : d.key = k => Said(v, k) /\ d.full /\ d.val = v
                 /\ k[1] \in batch.complete /\ HostVal(k) # None =>
                       \E d \in ToSet(batch.deltas) : d.key = k
        <2>1. ASSUME NEW i \in Id, k = <<"own", i>>
              PROVE  /\ \E v \in Value :
                           \A d \in ToSet(batch.deltas) : d.key = k => Said(v, k) /\ d.full /\ d.val = v
                     /\ HostVal(k) # None => \E d \in ToSet(batch.deltas) : d.key = k
            <3> HIDE DEF ds
            <3>1. <<"own", i>> \in Quiet
                BY <2>1
            <3>2. QED BY <1>5, <2>1, <3>1, Zenon
        <2>2. ASSUME NEW j \in CoId, k = <<"co", j>>
              PROVE  /\ \E v \in Value :
                           \A d \in ToSet(batch.deltas) : d.key = k => Said(v, k) /\ d.full /\ d.val = v
                     /\ "co" \in batch.complete /\ HostVal(k) # None =>
                            \E d \in ToSet(batch.deltas) : d.key = k
            <3>1. <<"co", j>> \in Quiet
                BY <2>2
            <3>2. QED BY <1>6, <2>2, <3>1, Zenon
        <2>3. QED BY <2>1, <2>2, KeysAre
    <1>8. QED BY <1>7 DEF QuietBatch

-----------------------------------------------------------------------------
(***************************************************************************)
(* What a step leaves alone.                                               *)
(***************************************************************************)
LEMMA PinFrame ==
    ASSUME PinTrue, UNCHANGED <<pin, rows>>
    PROVE  PinTrue'
    BY DEF PinTrue, PinnedRow

LEMMA EventsFrame ==
    ASSUME EventsOfChanged, UNCHANGED <<events, queue, c, changed>>
    PROVE  EventsOfChanged'
    BY DEF EventsOfChanged, Quiet

LEMMA ReadingFrame ==
    ASSUME UNCHANGED <<host, changed>>
    PROVE  \A r : (TrueReading(r) => TrueReading(r)') /\ (TrueSecond(r) => TrueSecond(r)')
    BY DEF TrueReading, TrueSecond, Quiet

LEMMA SweepsFrame ==
    ASSUME SweepsTrue, UNCHANGED <<sweep, settle, c, host, changed>>
    PROVE  SweepsTrue'
    BY DEF SweepsTrue, TrueReading, TrueSecond, Quiet, SettleKinds

LEMMA QuietFrame ==
    ASSUME UNCHANGED <<host, changed>>
    PROVE  /\ Quiet' = Quiet
           /\ \A k, v : Said(v, k)' <=> Said(v, k)
           /\ \A b : QuietBatch(b) => QuietBatch(b)'
    <1>1. Quiet' = Quiet
        BY DEF Quiet
    <1>2. \A k : HostVal(k)' = HostVal(k)
        BY DEF HostVal
    <1>3. \A k, v : Said(v, k)' <=> Said(v, k)
        BY <1>2 DEF Said
    <1>4. ASSUME NEW b, QuietBatch(b) PROVE QuietBatch(b)'
        BY <1>1, <1>2, <1>3, <1>4 DEF QuietBatch
    <1>5. QED BY <1>1, <1>3, <1>4

LEMMA QuietComes ==
    ASSUME UNCHANGED <<host, changed>>, \A b \in ToSet(flights') : QuietBatch(b),
           \A k \in Quiet : rows'[k] # None => Said(rows'[k].val, k) /\ rows'[k].full
    PROVE  QuietTrue'
    <1>1. \A b : b \in ToSet(flights)' => QuietBatch(b)'
        BY QuietFrame DEF ToSet
    <1>2. \A k, v : (Said(v, k)' <=> Said(v, k)) /\ Quiet' = Quiet
        BY QuietFrame
    <1>3. (\A k \in Quiet : rows[k] # None => Said(rows[k].val, k) /\ rows[k].full)'
        BY <1>2
    <1>4. QED BY <1>1, <1>3 DEF QuietTrue

LEMMA QuietKept ==
    ASSUME QuietTrue, UNCHANGED <<host, changed, rows>>,
           \A b \in ToSet(flights') : b \in ToSet(flights) \/ QuietBatch(b)
    PROVE  QuietTrue'
    <1>1. \A b \in ToSet(flights') : QuietBatch(b)
        BY DEF QuietTrue
    <1>2. \A k \in Quiet : rows'[k] # None => Said(rows'[k].val, k) /\ rows'[k].full
        BY DEF QuietTrue
    <1>3. QED BY <1>1, <1>2, QuietComes

\* No settle is on its way but the one that waits for it.
LEMMA SettleFrame ==
    ASSUME SettleOn, UNCHANGED <<c, settle>>,
           \A b \in ToSet(flights') : b \in ToSet(flights) \/ b.who # "settle"
    PROVE  SettleOn' /\ (SettleWhole => SettleWhole')
    <1>1. SettleBatches' \subseteq SettleBatches
        BY DEF SettleBatches, ToSet
    <1>2. SettleOn'
        BY <1>1 DEF SettleOn
    <1>3. SettleKinds' = SettleKinds
        BY DEF SettleKinds
    <1>4. QED BY <1>1, <1>2, <1>3 DEF SettleWhole

LEMMA FlightTypes ==
    ASSUME TypeOK
    PROVE  /\ \A b \in ToSet(flights) : b \in Flight /\ b.tries < MaxRetries
           /\ \A n \in 1..Len(flights) : flights[n] \in ToSet(flights)
    BY LenProperties, ElementOfSeq DEF TypeOK, ToSet

LEMMA SpentType ==
    ASSUME TypeOK, Spend \/ UNCHANGED spent
    PROVE  spent' \in 0..MaxSpent
    BY Bounds DEF TypeOK, Spend

-----------------------------------------------------------------------------
(***************************************************************************)
(* Delivery keeps the invariant.                                           *)
(***************************************************************************)
LEMMA IngestSays ==
    ASSUME TypeOK, PinTrue, NEW batch \in Flight, ~Rejects(batch), Ingest(batch)
    PROVE  /\ RowsOK(rows') /\ payloads' \subseteq Id
           /\ pin' \in PinState /\ (pin'.st = "open" => pin'.key \in Key)
           /\ PinTrue'
    <1>1. RowsOK(rows) /\ rows' = Stored(rows, batch)
        BY DEF TypeOK, RowsOK, Ingest
    <1>2. RowsOK(rows')
        BY <1>1, StoredIs
    <1>3. payloads' \subseteq Id
        BY DEF Ingest, GcSnapshotDesired, TypeOK
    <1>4. pin' \in PinState /\ (pin'.st = "open" => pin'.key \in Key)
        BY DEF Ingest, TypeOK, PinState
    <1>5. QED BY <1>2, <1>3, <1>4, StoredPins

LEMMA DeliverKeeps ==
    ASSUME IInv, NEW n \in 1..Len(flights), NEW ok \in BOOLEAN,
           (~Rejects(flights[n]) /\ Ingest(flights[n])) \/ UNCHANGED <<rows, payloads, pin>>,
           Ended(flights[n], ok) \/ UNCHANGED <<phase, settle>>,
           flights' \in Seq(Flight),
           \A b \in ToSet(flights') :
              /\ b.tries < MaxRetries
              /\ \E a \in ToSet(flights) : b.deltas = a.deltas /\ b.complete = a.complete /\ b.who = a.who,
           spent' \in 0..MaxSpent,
           UNCHANGED <<c, host, sweep, summary, queue, events, changed, split>>
    PROVE  IInv'
    <1> DEFINE batch == flights[n]
    <1>1. TypeOK /\ PinTrue /\ EventsOfChanged /\ SweepsTrue /\ SettleOn /\ (~split => QuietTrue /\ SettleWhole)
        BY DEF IInv
    <1>2. batch \in Flight /\ batch \in ToSet(flights)
        BY <1>1, FlightTypes
    <1> HIDE DEF batch
    <1>3. (~Rejects(batch) /\ Ingest(batch)) \/ UNCHANGED <<rows, payloads, pin>>
        BY DEF batch
    <1>4. Ended(batch, ok) \/ UNCHANGED <<phase, settle>>
        BY DEF batch
    <1>5. /\ RowsOK(rows') /\ payloads' \subseteq Id
          /\ pin' \in PinState /\ (pin'.st = "open" => pin'.key \in Key)
          /\ PinTrue'
        <2>1. CASE ~Rejects(batch) /\ Ingest(batch)
            BY <1>1, <1>2, <2>1, IngestSays
        <2>2. CASE UNCHANGED <<rows, payloads, pin>>
            BY <1>1, <2>2, PinFrame DEF TypeOK, RowsOK
        <2>3. QED BY <1>3, <2>1, <2>2
    <1>6. /\ phase' \in {phase, "up"}
          /\ \/ settle' = settle
             \/ batch.who = "settle" /\ settle' = [settle EXCEPT !.st = "done", !.ok = ok]
        BY <1>4 DEF Ended
    <1>7. batch.who = "settle" => settle.st \in {"sent", "done"}
        BY <1>1, <1>2 DEF SettleOn, SettleBatches
    <1>8. /\ settle' \in SettleState /\ settle'.read = settle.read
          /\ settle'.st # settle.st => settle.st = "sent" /\ settle'.st = "done"
        BY <1>1, <1>6, <1>7 DEF TypeOK, SettleState
    <1>9. TypeOK'
        <2>1. settle'.st # "idle" => settle'.read \in Reading
            BY <1>1, <1>8 DEF TypeOK
        <2>2. \A b \in ToSet(flights') : b.tries < MaxRetries
            OBVIOUS
        <2>3. IF phase' = "up" THEN Len(queue) < MaxBatch ELSE queue = <<>> /\ events = {}
            <3>1. Len(<<>>) = 0
                BY EmptySeq
            <3>2. QED BY <1>1, <1>6, <3>1, Bounds DEF TypeOK
        <2>4. phase' \in {"boot", "booting", "up"}
            BY <1>1, <1>6 DEF TypeOK
        <2>5. QED BY <1>1, <1>5, <1>8, <2>1, <2>2, <2>3, <2>4 DEF TypeOK, RowsOK, ToSet
    <1>10. EventsOfChanged'
        BY <1>1, EventsFrame
    <1>11. SweepsTrue'
        <2>1. settle'.st = "read" => settle.st = "read" /\ settle'.read = settle.read
            BY <1>8
        <2>2. SettleKinds' = SettleKinds
            BY DEF SettleKinds
        <2>3. QED BY <1>1, <2>1, <2>2, ReadingFrame DEF SweepsTrue
    <1>12. /\ SettleOn'
           /\ SettleWhole => SettleWhole'
        <2>1. \A b \in SettleBatches' :
                 \E a \in SettleBatches : b.deltas = a.deltas /\ b.complete = a.complete
            BY DEF SettleBatches, ToSet
        <2>2. SettleKinds' = SettleKinds
            BY DEF SettleKinds
        <2>3. SettleOn'
            BY <1>1, <1>8, <2>1 DEF SettleOn
        <2>4. ASSUME SettleWhole PROVE SettleWhole'
            BY <1>8, <2>1, <2>2, <2>4 DEF SettleWhole
        <2>5. QED BY <2>3, <2>4
    <1>13. ASSUME ~split PROVE QuietTrue'
        <2>1. QuietTrue
            BY <1>1, <1>13
        <2>2. ASSUME NEW b \in ToSet(flights') PROVE QuietBatch(b)
            <3>1. PICK a \in ToSet(flights) : b.deltas = a.deltas /\ b.complete = a.complete
                OBVIOUS
            <3>2. QuietBatch(a)
                BY <2>1 DEF QuietTrue
            <3>3. QED BY <3>1, <3>2 DEF QuietBatch
        <2>3. ASSUME NEW k \in Quiet, rows'[k] # None
              PROVE  Said(rows'[k].val, k) /\ rows'[k].full
            <3>1. CASE ~Rejects(batch) /\ Ingest(batch)
                <4>1. rows' = Stored(rows, batch) /\ RowsOK(rows)
                    BY <1>1, <3>1 DEF Ingest, TypeOK, RowsOK
                <4>2. QuietBatch(batch) /\ (rows[k] # None => Said(rows[k].val, k) /\ rows[k].full)
                    BY <1>2, <2>1 DEF QuietTrue
                <4>3. QED BY <1>2, <2>3, <3>1, <4>1, <4>2, StoredQuiet
            <3>2. CASE UNCHANGED rows
                BY <2>1, <2>3, <3>2 DEF QuietTrue
            <3>3. QED BY <1>3, <3>1, <3>2
        <2>4. QED BY <2>2, <2>3, QuietComes
    <1>14. QED BY <1>1, <1>5, <1>9, <1>10, <1>11, <1>12, <1>13 DEF IInv

LEMMA Parts ==
    ASSUME IInv
    PROVE  /\ TypeOK /\ PinTrue /\ EventsOfChanged /\ SweepsTrue /\ SettleOn
           /\ ~split => QuietTrue /\ SettleWhole
    BY DEF IInv

LEMMA AcceptedKeeps ==
    ASSUME IInv, NEW n \in 1..Len(flights), Accepted(n) \/ Rejected(n)
    PROVE  IInv'
    <1>1. TypeOK /\ flights \in Seq(Flight) /\ \A b \in ToSet(flights) : b.tries < MaxRetries
        BY FlightTypes DEF IInv, TypeOK
    <1>2. flights' = RemoveAt(flights, n)
        BY DEF Accepted, Rejected
    <1>3. flights' \in Seq(Flight) /\ ToSet(flights') \subseteq ToSet(flights)
        BY <1>1, <1>2, TakenAway
    <1>4. spent' \in 0..MaxSpent
        BY <1>1, SpentType DEF Accepted, Rejected
    <1>5. Ended(flights[n], TRUE) \/ Ended(flights[n], FALSE)
        BY DEF Accepted, Rejected
    <1>6. /\ (~Rejects(flights[n]) /\ Ingest(flights[n])) \/ UNCHANGED <<rows, payloads, pin>>
          /\ UNCHANGED <<c, host, sweep, summary, queue, events, changed, split>>
        BY DEF Accepted, Rejected
    <1>7. \A b \in ToSet(flights') :
              /\ b.tries < MaxRetries
              /\ \E a \in ToSet(flights) : b.deltas = a.deltas /\ b.complete = a.complete /\ b.who = a.who
        BY <1>1, <1>3
    <1>8. QED BY <1>3, <1>4, <1>5, <1>6, <1>7, DeliverKeeps

LEMMA CallLostKeeps ==
    ASSUME IInv, NEW n \in 1..Len(flights), CallLost(n)
    PROVE  IInv'
    <1>1. /\ TypeOK /\ flights \in Seq(Flight)
          /\ \A b \in ToSet(flights) : b \in Flight /\ b.tries < MaxRetries
          /\ flights[n] \in ToSet(flights)
        BY FlightTypes DEF IInv, TypeOK
    <1>2. spent' \in 0..MaxSpent
        BY <1>1, SpentType DEF CallLost
    <1>3. Ended(flights[n], FALSE) \/ UNCHANGED <<phase, settle>>
        BY DEF CallLost
    <1>4. /\ (~Rejects(flights[n]) /\ Ingest(flights[n])) \/ UNCHANGED <<rows, payloads, pin>>
          /\ UNCHANGED <<c, host, sweep, summary, queue, events, changed, split>>
        BY DEF CallLost
    <1>5. /\ flights' \in Seq(Flight)
          /\ \A b \in ToSet(flights') :
                /\ b.tries < MaxRetries
                /\ \E a \in ToSet(flights) :
                      b.deltas = a.deltas /\ b.complete = a.complete /\ b.who = a.who
        <2>1. CASE flights' = RemoveAt(flights, n)
            BY <1>1, <2>1, TakenAway
        <2>2. CASE flights[n].tries + 1 < MaxRetries /\ flights' = [flights EXCEPT ![n].tries = @ + 1]
            <3> DEFINE b == [flights[n] EXCEPT !.tries = flights[n].tries + 1]
            <3>1. /\ b \in Flight /\ b.tries < MaxRetries
                  /\ b.deltas = flights[n].deltas /\ b.complete = flights[n].complete /\ b.who = flights[n].who
                <4> DEFINE f == flights[n]
                <4>1. f \in Flight /\ f.tries + 1 < MaxRetries
                    BY <1>1, <2>2
                <4> HIDE DEF f
                <4>2. [f EXCEPT !.tries = f.tries + 1] \in Flight
                    BY <4>1 DEF Flight
                <4>3. f.tries \in Nat
                    BY <4>1 DEF Flight
                <4> DEFINE g == [f EXCEPT !.tries = f.tries + 1]
                <4>4. g.deltas = f.deltas /\ g.complete = f.complete /\ g.who = f.who /\ g.tries = f.tries + 1
                    BY <4>1, <4>3 DEF Flight
                <4>5. QED BY <4>1, <4>2, <4>4 DEF f
            <3>2. flights' = [flights EXCEPT ![n] = b]
                BY <2>2
            <3> HIDE DEF b
            <3>3. flights' \in Seq(Flight) /\ Len(flights') = Len(flights)
                  /\ \A m \in 1..Len(flights) : flights'[m] = IF m = n THEN b ELSE flights[m]
                <4>1. flights \in [1..Len(flights) -> Flight] /\ Len(flights) \in Nat
                    BY <1>1, LenProperties
                <4>2. flights' \in [1..Len(flights) -> Flight]
                    BY <3>1, <3>2, <4>1
                <4>3. flights' \in Seq(Flight)
                    BY <4>1, <4>2, SeqDef
                <4>4. QED BY <3>2, <4>1, <4>2, <4>3, LenProperties
            <3>4. DOMAIN flights' = 1..Len(flights) /\ DOMAIN flights = 1..Len(flights)
                BY <1>1, <3>3, LenProperties
            <3>5. ToSet(flights') \subseteq ToSet(flights) \cup {b}
                BY <3>3, <3>4 DEF ToSet
            <3>6. QED BY <1>1, <3>1, <3>3, <3>5
        <2>3. QED BY <2>1, <2>2 DEF CallLost
    <1>6. QED BY <1>2, <1>3, <1>4, <1>5, DeliverKeeps

-----------------------------------------------------------------------------
(***************************************************************************)
(* Sweeps and settles keep the invariant.                                  *)
(***************************************************************************)
\* What a look at the host yields.
LEMMA Looks ==
    ASSUME TypeOK, NEW r \in {host} \cup Faulty(c, host)
    PROVE  /\ r \in Reading /\ TrueReading(r)
           /\ c.own = "NfsSession" => r = host
           /\ TrueSecond(host)
    <1>1. /\ host \in Host /\ host \in [own : [Id -> Content \cup {None}], co : [CoId -> Content \cup {None}]]
          /\ host.own \in [Id -> Content \cup {None}] /\ host.co \in [CoId -> Content \cup {None}]
        BY DEF TypeOK, Host
    <1>2. TrueSecond(host)
        BY DEF TrueSecond
    <1>3. CASE r = host
        <2>1. r \in Reading
            BY <1>1, <1>3 DEF Reading
        <2>2. TrueReading(r)
            BY <1>2, <1>3 DEF TrueReading
        <2>3. QED BY <1>2, <1>3, <2>1, <2>2
    <1>4. CASE r = [host EXCEPT !.own = Blurred(host.own)] /\ "blurs" \in c.probe
        <2>1. r.own = Blurred(host.own) /\ r.co = host.co
            BY <1>1, <1>4
        <2>2. Blurred(host.own) = [i \in Id |-> IF host.own[i] = None THEN None ELSE Unknown]
            BY <1>1 DEF Blurred
        <2>3. r \in Reading
            <3>1. Blurred(host.own) \in [Id -> Content \cup {None, Unknown}]
                BY <2>2
            <3> HIDE DEF Blurred
            <3>2. QED BY <1>1, <1>4, <3>1 DEF Reading
        <2>4. TrueSecond(r)
            BY <2>1 DEF TrueSecond
        <2>5. \A i \in Id : IF host.own[i] = None THEN r.own[i] = None ELSE r.own[i] \in {host.own[i], Unknown}
            BY <2>1, <2>2
        <2>6. TrueReading(r)
            BY <2>4, <2>5 DEF TrueReading
        <2>7. c.own # "NfsSession"
            BY <1>4, CollectorFacts, HostAssumption DEF TypeOK
        <2>8. QED BY <1>2, <2>3, <2>6, <2>7
    <1>5. CASE r = [host EXCEPT !.co = [i \in CoId |-> None]] /\ "coLost" \in c.probe
        <2>1. r.own = host.own /\ r.co = [i \in CoId |-> None]
            BY <1>1, <1>5
        <2>2. r \in Reading
            BY <1>1, <1>5 DEF Reading
        <2>3. Present(r.co) = {}
            BY <2>1 DEF Present
        <2>4. TrueReading(r)
            BY <2>1, <2>3 DEF TrueReading
        <2>5. c.own # "NfsSession"
            BY <1>5, CollectorFacts, HostAssumption DEF TypeOK
        <2>6. QED BY <1>2, <2>2, <2>4, <2>5
    <1>6. QED BY <1>3, <1>4, <1>5 DEF Faulty

LEMMA StartSweepKeeps ==
    ASSUME IInv, StartSweep
    PROVE  IInv'
    <1>1. /\ TypeOK /\ PinTrue /\ EventsOfChanged /\ SweepsTrue /\ SettleOn
          /\ ~split => QuietTrue /\ SettleWhole
        BY Parts
    <1>2. PICK r \in {host} \cup Faulty(c, host) :
              Reads(r) /\ sweep' = Emitted(r) /\ summary' = Remember(r)
        BY DEF StartSweep
    <1>3. UNCHANGED <<c, host, phase, settle, queue, flights, rows, payloads, events, pin, changed, split>>
        BY DEF StartSweep
    <1>4. r \in Reading /\ TrueReading(r)
        BY <1>1, Looks
    <1> DEFINE bare == [r EXCEPT !.co = [i \in CoId |-> None]]
    <1>5. bare \in Reading /\ bare.own = r.own /\ Present(bare.co) = {}
        BY <1>4 DEF Reading, Present
    <1>6. sweep' \in {r, bare}
        BY <1>2 DEF Emitted
    <1> HIDE DEF bare
    <1>7. TrueReading(bare)
        BY <1>4, <1>5 DEF TrueReading
    <1>8. sweep' \in Reading /\ TrueReading(sweep')
        BY <1>4, <1>5, <1>6, <1>7
    <1>9. summary' \in [CoId -> Value \cup {None}] \cup {None}
        BY <1>1, <1>2, <1>4 DEF Remember, Reading, Value, TypeOK
    <1>10. spent' \in 0..MaxSpent
        BY <1>1, <1>2, SpentType DEF Reads
    <1>11. TypeOK'
        BY <1>1, <1>3, <1>8, <1>9, <1>10 DEF TypeOK
    <1>12. PinTrue' /\ EventsOfChanged'
        BY <1>1, <1>3, PinFrame, EventsFrame
    <1>13. SweepsTrue'
        <2>1. SettleKinds' = SettleKinds
            BY <1>3 DEF SettleKinds
        <2>2. QED BY <1>1, <1>3, <1>8, <2>1, ReadingFrame DEF SweepsTrue
    <1>14. SettleOn' /\ (~split => SettleWhole')
        BY <1>1, <1>3, SettleFrame
    <1>15. ~split => QuietTrue'
        BY <1>1, <1>3, QuietKept
    <1>16. QED BY <1>3, <1>11, <1>12, <1>13, <1>14, <1>15 DEF IInv

LEMMA SweepFailsKeeps ==
    ASSUME IInv, SweepFails
    PROVE  IInv'
    <1>1. /\ TypeOK /\ PinTrue /\ EventsOfChanged /\ SweepsTrue /\ SettleOn
          /\ ~split => QuietTrue /\ SettleWhole
        BY Parts
    <1>2. /\ phase' = "up" /\ Spend
          /\ UNCHANGED <<c, host, sweep, settle, summary, queue, flights, rows, payloads, events, pin,
                         changed, split>>
        BY DEF SweepFails
    <1>3. TypeOK'
        <2>1. Len(queue) < MaxBatch
            BY <1>1, Bounds, EmptySeq DEF TypeOK
        <2>2. spent' \in 0..MaxSpent
            BY <1>1, <1>2, SpentType
        <2>3. QED BY <1>1, <1>2, <2>1, <2>2 DEF TypeOK
    <1>4. PinTrue' /\ EventsOfChanged' /\ SweepsTrue'
        BY <1>1, <1>2, PinFrame, EventsFrame, SweepsFrame
    <1>5. SettleOn' /\ (~split => SettleWhole')
        BY <1>1, <1>2, SettleFrame
    <1>6. ~split => QuietTrue'
        BY <1>1, <1>2, QuietKept
    <1>7. QED BY <1>2, <1>3, <1>4, <1>5, <1>6 DEF IInv

LEMMA EmptyQueue ==
    /\ <<>> \in Seq(Delta) /\ Len(<<>>) < MaxBatch /\ ToSet(<<>>) = {}
    BY EmptySeq, Bounds DEF ToSet

LEMMA FlushSweepKeeps ==
    ASSUME IInv, FlushSweep
    PROVE  IInv'
    <1>1. /\ TypeOK /\ PinTrue /\ EventsOfChanged /\ SweepsTrue /\ SettleOn
          /\ ~split => QuietTrue /\ SettleWhole
        BY Parts
    <1> DEFINE ds == SweepDeltas(sweep)
               complete == SweepKinds(ds)
               who == IF phase = "boot" THEN "boot" ELSE "none"
    <1>2. /\ sweep # None /\ phase # "booting"
          /\ FlushSnapshot(ds, complete, who)
          /\ sweep' = None /\ phase' = IF phase = "boot" THEN "booting" ELSE phase
          /\ UNCHANGED <<c, host, settle, summary, rows, payloads, events, pin, changed, spent>>
        BY DEF FlushSweep
    <1>3. sweep \in Reading /\ TrueReading(sweep)
        BY <1>1, <1>2 DEF TypeOK, SweepsTrue
    <1>4. /\ ds \in Seq(Delta) /\ complete \in SUBSET {"own", "co"}
          /\ "co" \in complete => Present(sweep.co) # {}
        BY <1>3, SweepSays
    <1>5. who \in {"none", "boot", "settle"} /\ who # "settle"
        OBVIOUS
    <1> HIDE DEF ds, complete, who
    <1>6. /\ queue' = <<>> /\ flights' \in Seq(Flight)
          /\ split' \in BOOLEAN /\ (split => split')
          /\ \A b \in ToSet(flights') :
                \/ b \in ToSet(flights)
                \/ split' /\ b.tries = 0 /\ b.who = "none" /\ b.complete = {}
                \/ /\ b.tries = 0 /\ b.who = who /\ b.complete = complete
                   /\ ~split' => b.deltas = queue \o ds
        BY <1>1, <1>2, <1>4, <1>5, FlushSays
    <1>7. TypeOK'
        <2>1. \A b \in ToSet(flights') : b.tries < MaxRetries
            BY <1>1, <1>6, Bounds DEF TypeOK
        <2>2. queue' \in Seq(Delta)
              /\ IF phase' = "up" THEN Len(queue') < MaxBatch ELSE queue' = <<>> /\ events' = {}
            BY <1>1, <1>2, <1>6, EmptyQueue DEF TypeOK
        <2>3. phase' \in {"boot", "booting", "up"}
            BY <1>1, <1>2 DEF TypeOK
        <2>4. QED BY <1>1, <1>2, <1>6, <2>1, <2>2, <2>3 DEF TypeOK, ToSet
    <1>8. PinTrue'
        BY <1>1, <1>2, PinFrame
    <1>9. EventsOfChanged'
        BY <1>1, <1>2, <1>6, EmptyQueue DEF EventsOfChanged, ToSet
    <1>10. SweepsTrue'
        <2>1. SettleKinds' = SettleKinds
            BY <1>2 DEF SettleKinds
        <2>2. QED BY <1>1, <1>2, <2>1, ReadingFrame DEF SweepsTrue
    <1>11. SettleOn' /\ (~split' => SettleWhole')
        <2>1. \A b \in ToSet(flights') : b \in ToSet(flights) \/ b.who # "settle"
            BY <1>5, <1>6
        <2>2. QED BY <1>1, <1>2, <1>6, <2>1, SettleFrame
    <1>12. ASSUME ~split' PROVE QuietTrue'
        <2>1. "co" \in complete => TrueSecond(sweep)
            BY <1>3, <1>4 DEF TrueReading
        <2>2. \A b \in ToSet(flights') : b \in ToSet(flights) \/ QuietBatch(b)
            <3>1. ASSUME NEW b \in ToSet(flights'), b \notin ToSet(flights)
                  PROVE  QuietBatch(b)
                <4>1. b.deltas = queue \o SweepDeltas(sweep) /\ b.complete = complete
                    BY <1>6, <1>12, <3>1 DEF ds
                <4>2. QED BY <1>1, <1>3, <2>1, <4>1, SweepIsQuiet
            <3>2. QED BY <3>1
        <2>3. QED BY <1>1, <1>2, <1>6, <1>12, <2>2, QuietKept
    <1>13. QED BY <1>7, <1>8, <1>9, <1>10, <1>11, <1>12 DEF IInv

LEMMA SettleKindsAre ==
    ASSUME c.own \in DOMAIN ReobserveKinds
    PROVE  /\ SettleKinds \in SUBSET {"own", "co"} /\ "own" \in SettleKinds
           /\ "co" \in SettleKinds => c.own = "NfsSession"
    BY DEF SettleKinds, ReobserveKinds

LEMMA StartSettleKeeps ==
    ASSUME IInv, StartSettle
    PROVE  IInv'
    <1>1. /\ TypeOK /\ PinTrue /\ EventsOfChanged /\ SweepsTrue /\ SettleOn
          /\ ~split => QuietTrue /\ SettleWhole
        BY Parts
    <1>2. PICK r \in {host} \cup Faulty(c, host) : settle' = [NoSettle EXCEPT !.st = "read", !.read = r]
        BY DEF StartSettle
    <1>3. /\ c.own \in DOMAIN ReobserveKinds /\ settle.st = "idle" /\ Spend
          /\ UNCHANGED <<c, host, phase, sweep, summary, queue, flights, rows, payloads, events, pin,
                         changed, split>>
        BY DEF StartSettle
    <1>4. r \in Reading /\ TrueReading(r) /\ (c.own = "NfsSession" => r = host) /\ TrueSecond(host)
        BY <1>1, Looks
    <1>5. settle'.st = "read" /\ settle'.read = r /\ settle' \in SettleState
        BY <1>2, <1>4 DEF NoSettle, SettleState
    <1>6. TypeOK'
        <2>1. spent' \in 0..MaxSpent
            BY <1>1, <1>3, SpentType
        <2>2. QED BY <1>1, <1>3, <1>4, <1>5, <2>1 DEF TypeOK
    <1>7. PinTrue' /\ EventsOfChanged'
        BY <1>1, <1>3, PinFrame, EventsFrame
    <1>8. SettleKinds' = SettleKinds
        BY <1>3 DEF SettleKinds
    <1>9. SweepsTrue'
        <2>1. "co" \in SettleKinds => TrueSecond(r)
            BY <1>3, <1>4, SettleKindsAre
        <2>2. QED BY <1>1, <1>3, <1>4, <1>5, <1>8, <2>1, ReadingFrame DEF SweepsTrue
    <1>10. SettleBatches' = {}
        BY <1>1, <1>3 DEF SettleOn, SettleBatches
    <1>11. SettleOn' /\ SettleWhole'
        BY <1>3, <1>10 DEF SettleOn, SettleWhole
    <1>12. ~split => QuietTrue'
        BY <1>1, <1>3, QuietKept
    <1>13. QED BY <1>3, <1>6, <1>7, <1>9, <1>11, <1>12 DEF IInv

LEMMA FlushSettleKeeps ==
    ASSUME IInv, FlushSettle
    PROVE  IInv'
    <1>1. /\ TypeOK /\ PinTrue /\ EventsOfChanged /\ SweepsTrue /\ SettleOn
          /\ ~split => QuietTrue /\ SettleWhole
        BY Parts
    <1> DEFINE ds == SweepDeltas(settle.read)
    <1>2. /\ settle.st = "read" /\ FlushSnapshot(ds, SettleKinds, "settle")
          /\ settle' = [settle EXCEPT !.st = "sent"]
          /\ UNCHANGED <<c, host, phase, sweep, summary, rows, payloads, events, pin, changed, spent>>
        BY DEF FlushSettle
    <1>3. /\ settle.read \in Reading /\ TrueReading(settle.read)
          /\ "co" \in SettleKinds => TrueSecond(settle.read)
          /\ c.own \in DOMAIN ReobserveKinds
        BY <1>1, <1>2 DEF TypeOK, SweepsTrue, SettleOn
    <1>4. ds \in Seq(Delta)
        BY <1>3, SweepSays
    <1>5. SettleKinds \in SUBSET {"own", "co"}
        BY <1>3, SettleKindsAre
    <1>6. settle'.st = "sent" /\ settle'.read = settle.read /\ settle' \in SettleState
        BY <1>1, <1>2 DEF TypeOK, SettleState
    <1>7. queue \o ds = ds
        <2>1. c.events = "none"
            BY <1>1, <1>3, CollectorFacts, HostAssumption DEF TypeOK
        <2>2. queue = <<>>
            BY <1>1, <2>1 DEF EventsOfChanged
        <2>3. QED BY <1>4, <2>2, ConcatEmptySeq
    <1>8. /\ queue' = <<>> /\ flights' \in Seq(Flight)
          /\ split' \in BOOLEAN /\ (split => split')
          /\ \A b \in ToSet(flights') :
                \/ b \in ToSet(flights)
                \/ split' /\ b.tries = 0 /\ b.who = "none" /\ b.complete = {}
                \/ /\ b.tries = 0 /\ b.who = "settle" /\ b.complete = SettleKinds
                   /\ ~split' => b.deltas = queue \o ds
        <2> HIDE DEF ds
        <2>1. QED BY <1>1, <1>2, <1>4, <1>5, FlushSays
    <1>9. TypeOK'
        <2>1. \A b \in ToSet(flights') : b.tries < MaxRetries
            BY <1>1, <1>8, Bounds DEF TypeOK
        <2>2. queue' \in Seq(Delta)
              /\ IF phase' = "up" THEN Len(queue') < MaxBatch ELSE queue' = <<>> /\ events' = {}
            BY <1>1, <1>2, <1>8, EmptyQueue DEF TypeOK
        <2>3. QED BY <1>1, <1>2, <1>3, <1>6, <1>8, <2>1, <2>2 DEF TypeOK, ToSet
    <1>10. PinTrue'
        BY <1>1, <1>2, PinFrame
    <1>11. EventsOfChanged'
        BY <1>1, <1>2, <1>8, EmptyQueue DEF EventsOfChanged, ToSet
    <1>12. SettleKinds' = SettleKinds
        BY <1>2 DEF SettleKinds
    <1>13. SweepsTrue'
        BY <1>1, <1>2, <1>6, ReadingFrame DEF SweepsTrue
    <1>14. SettleBatches = {}
        BY <1>1, <1>2 DEF SettleOn
    <1>15. SettleOn'
        BY <1>2, <1>3, <1>6 DEF SettleOn
    <1>16. ASSUME ~split' PROVE SettleWhole'
        <2>1. \A b \in ToSet(flights') :
                 b.who = "settle" => b.deltas = ds /\ b.complete = SettleKinds
            BY <1>7, <1>8, <1>14, <1>16 DEF SettleBatches
        <2>2. SweepDeltas(settle.read)' = ds
            BY <1>6
        <2> HIDE DEF ds
        <2>3. QED BY <1>12, <2>1, <2>2 DEF SettleWhole, SettleBatches, ToSet
    <1>17. ASSUME ~split' PROVE QuietTrue'
        <2>1. \A b \in ToSet(flights') : b \in ToSet(flights) \/ QuietBatch(b)
            <3>1. ASSUME NEW b \in ToSet(flights'), b \notin ToSet(flights)
                  PROVE  QuietBatch(b)
                <4>1. b.deltas = queue \o SweepDeltas(settle.read) /\ b.complete = SettleKinds
                    BY <1>8, <1>17, <3>1
                <4>2. QED BY <1>1, <1>3, <4>1, SweepIsQuiet
            <3>2. QED BY <3>1
        <2>2. QED BY <1>1, <1>2, <1>8, <1>17, <2>1, QuietKept
    <1>18. QED BY <1>9, <1>10, <1>11, <1>13, <1>15, <1>16, <1>17 DEF IInv

-----------------------------------------------------------------------------
(***************************************************************************)
(* The queue, the host and its events keep the invariant.                  *)
(***************************************************************************)
\* What is of changed entities only says nothing of the others.
LEMMA OthersAreQuiet ==
    ASSUME NEW b, b.complete = {}, \A d \in ToSet(b.deltas) : d.key \notin Quiet
    PROVE  QuietBatch(b)
    <1>1. Unknown \in Value
        BY DEF Value
    <1>2. QED BY <1>1 DEF QuietBatch

LEMMA FlushKeeps ==
    ASSUME IInv, Flush
    PROVE  IInv'
    <1>1. /\ TypeOK /\ PinTrue /\ EventsOfChanged /\ SweepsTrue /\ SettleOn
          /\ ~split => QuietTrue /\ SettleWhole
        BY Parts
    <1> DEFINE new == Batch(queue, {}, "none")
    <1>2. /\ queue' = <<>> /\ flights' = Append(flights, new) /\ phase = "up"
          /\ UNCHANGED <<c, host, phase, sweep, settle, summary, rows, payloads, events, pin, changed,
                         split, spent>>
        BY DEF Flush
    <1>3. /\ new \in Flight /\ new.deltas = queue /\ new.complete = {} /\ new.who = "none" /\ new.tries = 0
        BY <1>1, BatchType DEF TypeOK
    <1> HIDE DEF new
    <1>4. flights' \in Seq(Flight) /\ ToSet(flights') = ToSet(flights) \cup {new}
        BY <1>1, <1>2, <1>3, SetOfAppend DEF TypeOK
    <1>5. TypeOK'
        <2>1. \A b \in ToSet(flights') : b.tries < MaxRetries
            BY <1>1, <1>3, <1>4, Bounds DEF TypeOK
        <2>2. QED BY <1>1, <1>2, <1>4, <2>1, EmptyQueue DEF TypeOK, ToSet
    <1>6. PinTrue' /\ SweepsTrue'
        BY <1>1, <1>2, PinFrame, SweepsFrame
    <1>7. EventsOfChanged'
        BY <1>1, <1>2, EmptyQueue DEF EventsOfChanged, ToSet
    <1>8. SettleOn' /\ (~split => SettleWhole')
        <2>1. \A b \in ToSet(flights') : b \in ToSet(flights) \/ b.who # "settle"
            BY <1>3, <1>4
        <2>2. QED BY <1>1, <1>2, <2>1, SettleFrame
    <1>9. ASSUME ~split PROVE QuietTrue'
        <2>1. QuietBatch(new)
            BY <1>1, <1>3, OthersAreQuiet DEF EventsOfChanged
        <2>2. QED BY <1>1, <1>2, <1>4, <1>9, <2>1, QuietKept
    <1>10. QED BY <1>2, <1>5, <1>6, <1>7, <1>8, <1>9 DEF IInv

LEMMA KernelEventKeeps ==
    ASSUME IInv, KernelEvent
    PROVE  IInv'
    <1>1. /\ TypeOK /\ PinTrue /\ EventsOfChanged /\ SweepsTrue /\ SettleOn
          /\ ~split => QuietTrue /\ SettleWhole
        BY Parts
    <1>2. PICK e \in events :
            /\ events' = events \ {e}
            /\ \/ /\ queue' = Queued(<<EventDelta(c, e)>>).queue
                  /\ flights' = flights \o Queued(<<EventDelta(c, e)>>).sent
                  /\ UNCHANGED spent
               \/ Spend /\ UNCHANGED <<queue, flights>>
        BY DEF KernelEvent
    <1>3. UNCHANGED <<c, host, phase, sweep, settle, summary, rows, payloads, pin, changed, split>>
        BY DEF KernelEvent
    <1>4. /\ e \in Event /\ <<"own", e.id>> \in changed /\ c.events # "none" /\ phase = "up"
          /\ Len(queue) < MaxBatch
        BY <1>1, <1>2 DEF TypeOK, EventsOfChanged
    <1> DEFINE D == {d \in Delta : d.key \notin Quiet}
               d == EventDelta(c, e)
               q == Queued(<<d>>)
    <1>5. d \in D
        <2>0. /\ e.id \in Id /\ e.val \in Content /\ Unknown \in Value /\ e.val \in Value /\ e.val # None
              /\ <<"own", e.id>> \in Key /\ <<"dev", e.id>> \in Key
            BY <1>4, Nothing DEF Event, Value, Key
        <2>1. CASE c.events = "reread"
            <3>1. /\ d \in {Upsert("dev", e.id, None, FALSE), Upsert("dev", e.id, Unknown, FALSE)}
                BY <2>1 DEF EventDelta, DiskEvent
            <3> HIDE DEF d
            <3>2. d.key = <<"dev", e.id>> /\ d.key[1] = "dev" /\ d \in Delta
                <4>1. PICK val \in {Unknown, None} : d = Upsert("dev", e.id, val, FALSE)
                    BY <3>1
                <4>2. d.key = <<"dev", e.id>> /\ d.val = val /\ d.full = FALSE /\ d.key[1] = "dev"
                      /\ d = [key |-> <<"dev", e.id>>, val |-> val, full |-> FALSE]
                    BY <4>1 DEF Upsert
                <4>3. d \in [key : Key, val : Value \cup {None}, full : BOOLEAN]
                    BY <2>0, <4>2
                <4>4. QED BY <4>2, <4>3 DEF Delta
            <3>3. QED BY <3>2 DEF Quiet
        <2>2. CASE c.events # "reread"
            <3>1. d = Upsert("own", e.id, e.val, FALSE)
                BY <2>2 DEF EventDelta, NetworkDelta
            <3> HIDE DEF d
            <3>2. d.key = <<"own", e.id>> /\ d \in Delta
                BY <2>0, <3>1 DEF Upsert, Delta
            <3>3. QED BY <1>4, <3>2 DEF Quiet
        <2>3. QED BY <2>1, <2>2
    <1> HIDE DEF d
    <1>6. queue \in Seq(D)
        <2>1. queue \in Seq(Delta) /\ \A n \in 1..Len(queue) : queue[n] \in D
            BY <1>1, LenProperties, ElementOfSeq DEF TypeOK, EventsOfChanged, ToSet
        <2>2. queue \in [1..Len(queue) -> D] /\ Len(queue) \in Nat
            BY <2>1, LenProperties
        <2>3. QED BY <2>2, SeqDef
    <1>7. <<d>> \in Seq(D)
        BY <1>5
    <1>8. D \subseteq Delta
        OBVIOUS
    <1> HIDE DEF D
    <1>9. q \in Queueing(D) /\ Len(q.queue) < MaxBatch
        BY <1>4, <1>6, <1>7, Bounds, QueuedSays
    <1>10. q.queue \in Seq(D) /\ q.sent \in Seq(Cuts(D))
        BY <1>9 DEF Queueing
    <1> HIDE DEF q
    <1>11. /\ Cuts(D) \subseteq Flight
           /\ \A b \in Cuts(D) : b.deltas \in Seq(D) /\ b.complete = {} /\ b.who = "none" /\ b.tries = 0
        BY <1>8, CutsSay
    <1>12. q.sent \in Seq(Flight) /\ ToSet(q.sent) \subseteq Cuts(D)
        <2>1. q.sent \in Seq(Flight)
            BY <1>10, <1>11, SeqMonotonic
        <2>2. ToSet(q.sent) \subseteq Cuts(D)
            BY <1>10, LenProperties, ElementOfSeq DEF ToSet
        <2>3. QED BY <2>1, <2>2
    <1>13. /\ flights' \in Seq(Flight)
           /\ ToSet(flights') \subseteq ToSet(flights) \cup Cuts(D)
           /\ queue' \in Seq(D) /\ Len(queue') < MaxBatch
           /\ spent' \in 0..MaxSpent
        <2>0. flights \in Seq(Flight)
            BY <1>1 DEF TypeOK
        <2>1. CASE queue' = q.queue /\ flights' = flights \o q.sent /\ UNCHANGED spent
            <3>1. /\ flights \o q.sent \in Seq(Flight)
                  /\ ToSet(flights \o q.sent) = ToSet(flights) \cup ToSet(q.sent)
                BY <1>12, <2>0, SetOfBoth
            <3>2. QED BY <1>1, <1>9, <1>10, <1>12, <2>1, <3>1, SpentType
        <2>2. CASE Spend /\ UNCHANGED <<queue, flights>>
            BY <1>1, <1>4, <1>6, <2>0, <2>2, SpentType
        <2>3. QED BY <1>2, <2>1, <2>2 DEF q, d
    <1>14. queue' \in Seq(Delta) /\ ToSet(queue') \subseteq D
        <2>1. queue' \in Seq(Delta)
            BY <1>8, <1>13, SeqMonotonic
        <2>2. ToSet(queue') \subseteq D
            BY <1>13, LenProperties, ElementOfSeq DEF ToSet
        <2>3. QED BY <2>1, <2>2
    <1>15. TypeOK'
        <2>1. \A b \in ToSet(flights') : b.tries < MaxRetries
            BY <1>1, <1>11, <1>13, Bounds DEF TypeOK
        <2>2. QED BY <1>1, <1>2, <1>3, <1>4, <1>13, <1>14, <2>1 DEF TypeOK, ToSet
    <1>16. PinTrue' /\ SweepsTrue'
        BY <1>1, <1>3, PinFrame, SweepsFrame
    <1>17. EventsOfChanged'
        <2>1. \A x \in ToSet(queue)' : x.key \notin Quiet'
            BY <1>3, <1>14 DEF D, Quiet, ToSet
        <2>2. QED BY <1>1, <1>2, <1>3, <1>4, <2>1 DEF EventsOfChanged
    <1>18. SettleOn' /\ (~split => SettleWhole')
        <2>1. \A b \in ToSet(flights') : b \in ToSet(flights) \/ b.who # "settle"
            BY <1>11, <1>13
        <2>2. QED BY <1>1, <1>3, <2>1, SettleFrame
    <1>19. ASSUME ~split PROVE QuietTrue'
        <2>1. ASSUME NEW b \in Cuts(D) PROVE QuietBatch(b)
            <3>1. b.deltas \in Seq(D) /\ b.complete = {}
                BY <1>11
            <3>2. \A x \in ToSet(b.deltas) : x \in D
                BY <3>1, LenProperties, ElementOfSeq DEF ToSet
            <3>3. QED BY <3>1, <3>2, OthersAreQuiet DEF D
        <2>2. QED BY <1>1, <1>3, <1>13, <1>19, <2>1, QuietKept
    <1>20. QED BY <1>3, <1>15, <1>16, <1>17, <1>18, <1>19 DEF IInv

LEMMA ChangeSays ==
    ASSUME TypeOK, HostChanges
    PROVE  /\ host' \in Host /\ changed' \subseteq Key /\ changed \subseteq changed'
           /\ \A k \in Quiet' : k \in Quiet /\ HostVal(k)' = HostVal(k)
           /\ events' \subseteq Event /\ (phase # "up" => events' = events)
           /\ c.events = "none" => events' = events
           /\ \A e \in events' : e \in events \/ <<"own", e.id>> \in changed'
    <1>1. /\ host \in [own : [Id -> Content \cup {None}], co : [CoId -> Content \cup {None}]]
          /\ host.own \in [Id -> Content \cup {None}] /\ host.co \in [CoId -> Content \cup {None}]
          /\ changed \subseteq Key /\ events \subseteq Event
        BY DEF TypeOK, Host
    <1>2. ASSUME NEW i \in Id, NEW val \in Content \cup {None}, val # host.own[i],
                 host' = [host EXCEPT !.own[i] = val], changed' = changed \cup {<<"own", i>>},
                 events' = IF c.events # "none" /\ phase = "up" THEN events \cup {Announced(i, val)}
                           ELSE events
          PROVE  /\ host' \in Host /\ changed' \subseteq Key /\ changed \subseteq changed'
                 /\ \A k \in Quiet' : k \in Quiet /\ HostVal(k)' = HostVal(k)
                 /\ events' \subseteq Event /\ (phase # "up" => events' = events)
                 /\ c.events = "none" => events' = events
                 /\ \A e \in events' : e \in events \/ <<"own", e.id>> \in changed'
        <2>1. /\ host'.own = [host.own EXCEPT ![i] = val] /\ host'.co = host.co /\ host' \in Host
            BY <1>1, <1>2 DEF Host
        <2>2. <<"own", i>> \in Key
            BY DEF Key
        <2>3. Announced(i, val) \in Event /\ Announced(i, val).id = i
            <3>1. (IF val = None THEN host.own[i] ELSE val) \in Content
                BY <1>1, <1>2
            <3>2. QED BY <3>1 DEF Announced, Event
        <2>4. ASSUME NEW k \in Quiet' PROVE k \in Quiet /\ HostVal(k)' = HostVal(k)
            <3>1. k \in Quiet /\ k # <<"own", i>>
                BY <1>2 DEF Quiet
            <3>2. CASE \E j \in Id : k = <<"own", j>>
                <4>1. PICK j \in Id : k = <<"own", j>>
                    BY <3>2
                <4>2. j # i /\ host'.own[j] = host.own[j]
                    BY <1>1, <2>1, <3>1, <4>1
                <4>3. QED BY <3>1, <4>1, <4>2 DEF HostVal
            <3>3. CASE k[1] = "co"
                BY <2>1, <3>1, <3>3 DEF HostVal
            <3>4. QED BY <3>1, <3>2, <3>3, KeysAre
        <2>5. QED BY <1>1, <1>2, <2>1, <2>2, <2>3, <2>4
    <1>3. ASSUME NEW i \in CoId, NEW val \in Content \cup {None},
                 host' = [host EXCEPT !.co[i] = val], changed' = changed \cup {<<"co", i>>},
                 UNCHANGED events
          PROVE  /\ host' \in Host /\ changed' \subseteq Key /\ changed \subseteq changed'
                 /\ \A k \in Quiet' : k \in Quiet /\ HostVal(k)' = HostVal(k)
        <2>1. /\ host'.co = [host.co EXCEPT ![i] = val] /\ host'.own = host.own /\ host' \in Host
            BY <1>1, <1>3 DEF Host
        <2>2. <<"co", i>> \in Key
            BY DEF Key
        <2>3. ASSUME NEW k \in Quiet' PROVE k \in Quiet /\ HostVal(k)' = HostVal(k)
            <3>1. k \in Quiet /\ k # <<"co", i>>
                BY <1>3 DEF Quiet
            <3>2. CASE \E j \in CoId : k = <<"co", j>>
                <4>1. PICK j \in CoId : k = <<"co", j>>
                    BY <3>2
                <4>2. j # i /\ host'.co[j] = host.co[j]
                    BY <1>1, <2>1, <3>1, <4>1
                <4>3. QED BY <3>1, <4>1, <4>2 DEF HostVal
            <3>3. CASE k[1] = "own"
                BY <2>1, <3>1, <3>3 DEF HostVal
            <3>4. QED BY <3>1, <3>2, <3>3, KeysAre
        <2>4. QED BY <1>1, <1>3, <2>1, <2>2, <2>3
    <1>4. CASE \E i \in Id, val \in Content \cup {None} :
                  /\ val # host.own[i]
                  /\ host' = [host EXCEPT !.own[i] = val] /\ changed' = changed \cup {<<"own", i>>}
                  /\ events' = IF c.events # "none" /\ phase = "up" THEN events \cup {Announced(i, val)}
                               ELSE events
        BY <1>2, <1>4
    <1>5. CASE \E i \in CoId, val \in Content \cup {None} :
                  /\ host' = [host EXCEPT !.co[i] = val] /\ changed' = changed \cup {<<"co", i>>}
                  /\ UNCHANGED events
        BY <1>1, <1>3, <1>5
    <1>6. QED BY <1>4, <1>5 DEF HostChanges

LEMMA HostChangesKeeps ==
    ASSUME IInv, HostChanges
    PROVE  IInv'
    <1>1. /\ TypeOK /\ PinTrue /\ EventsOfChanged /\ SweepsTrue /\ SettleOn
          /\ ~split => QuietTrue /\ SettleWhole
        BY Parts
    <1>2. /\ Spend
          /\ UNCHANGED <<c, phase, sweep, settle, summary, queue, flights, rows, payloads, pin, split>>
        BY DEF HostChanges
    <1>3. /\ host' \in Host /\ changed' \subseteq Key /\ changed \subseteq changed'
          /\ \A k \in Quiet' : k \in Quiet /\ HostVal(k)' = HostVal(k)
          /\ events' \subseteq Event /\ (phase # "up" => events' = events)
          /\ c.events = "none" => events' = events
          /\ \A e \in events' : e \in events \/ <<"own", e.id>> \in changed'
        BY <1>1, ChangeSays
    <1>4. TypeOK'
        <2>1. spent' \in 0..MaxSpent
            BY <1>1, <1>2, SpentType
        <2>2. QED BY <1>1, <1>2, <1>3, <2>1 DEF TypeOK
    <1>5. PinTrue'
        BY <1>1, <1>2, PinFrame
    <1>6. EventsOfChanged'
        BY <1>1, <1>2, <1>3 DEF EventsOfChanged
    <1>7. /\ \A i \in Id : <<"own", i>> \in Quiet' => <<"own", i>> \in Quiet /\ host'.own[i] = host.own[i]
          /\ \A j \in CoId : <<"co", j>> \in Quiet' => <<"co", j>> \in Quiet /\ host'.co[j] = host.co[j]
        BY <1>3 DEF HostVal
    <1>8. \A r : (TrueReading(r) => TrueReading(r)') /\ (TrueSecond(r) => TrueSecond(r)')
        BY <1>7 DEF TrueReading, TrueSecond
    <1>9. SweepsTrue'
        <2>1. SettleKinds' = SettleKinds
            BY <1>2 DEF SettleKinds
        <2>2. QED BY <1>1, <1>2, <1>8, <2>1 DEF SweepsTrue
    <1>10. SettleOn' /\ (~split => SettleWhole')
        BY <1>1, <1>2, SettleFrame
    <1>11. ASSUME ~split PROVE QuietTrue'
        <2>1. \A k \in Quiet' : k \in Quiet /\ \A v : Said(v, k)' <=> Said(v, k)
            BY <1>3 DEF Said
        <2>2. ASSUME NEW b, QuietBatch(b) PROVE QuietBatch(b)'
            BY <1>3, <2>1, <2>2 DEF QuietBatch
        <2>3. QED BY <1>1, <1>2, <1>11, <2>1, <2>2 DEF QuietTrue
    <1>12. QED BY <1>2, <1>4, <1>5, <1>6, <1>9, <1>10, <1>11 DEF IInv

LEMMA AgentCrashKeeps ==
    ASSUME IInv, AgentCrash
    PROVE  IInv'
    <1>1. /\ TypeOK /\ PinTrue /\ EventsOfChanged /\ SweepsTrue /\ SettleOn
          /\ ~split => QuietTrue /\ SettleWhole
        BY Parts
    <1>2. /\ Spend /\ phase' = "boot" /\ sweep' = None /\ summary' = None
          /\ settle' = NoSettle /\ queue' = <<>> /\ flights' = <<>> /\ events' = {}
          /\ UNCHANGED <<c, host, rows, payloads, pin, changed, split>>
        BY DEF AgentCrash
    <1>3. settle'.st = "idle" /\ settle' \in SettleState
        BY <1>2 DEF NoSettle, SettleState
    <1>4. flights' \in Seq(Flight) /\ ToSet(flights') = {} /\ ToSet(flights)' = {} /\ ToSet(queue)' = {}
        BY <1>2, EmptySeq DEF ToSet
    <1>5. TypeOK'
        <2>1. spent' \in 0..MaxSpent
            BY <1>1, <1>2, SpentType
        <2>2. QED BY <1>1, <1>2, <1>3, <1>4, <2>1, EmptyQueue DEF TypeOK
    <1>6. PinTrue'
        BY <1>1, <1>2, PinFrame
    <1>7. EventsOfChanged' /\ SweepsTrue' /\ SettleOn' /\ SettleWhole'
        BY <1>2, <1>3, <1>4 DEF EventsOfChanged, SweepsTrue, SettleOn, SettleWhole, SettleBatches
    <1>8. ~split => QuietTrue'
        BY <1>1, <1>2, <1>4, QuietKept
    <1>9. QED BY <1>2, <1>5, <1>6, <1>7, <1>8 DEF IInv

LEMMA PlanKeeps ==
    ASSUME IInv, PlanPins \/ PlanApplies \/ CaptureSnapshotDesired
    PROVE  IInv'
    <1>1. /\ TypeOK /\ PinTrue /\ EventsOfChanged /\ SweepsTrue /\ SettleOn
          /\ ~split => QuietTrue /\ SettleWhole
        BY Parts
    <1>2. /\ UNCHANGED <<c, host, phase, sweep, settle, summary, queue, flights, rows, events, changed, split>>
          /\ Spend \/ UNCHANGED spent
        BY DEF PlanPins, PlanApplies, CaptureSnapshotDesired
    <1>3. pin' \in PinState /\ (pin'.st = "open" => pin'.key \in Key) /\ payloads' \subseteq Id /\ PinTrue'
        <2>1. CASE PlanPins
            <3>1. PICK k \in Key :
                     pin' = [st |-> "open", key |-> k, val |-> ValueOf(k), rev |-> Revision(k), gone |-> FALSE]
                BY <2>1 DEF PlanPins
            <3>2. payloads' = payloads
                BY <2>1 DEF PlanPins
            <3>3. rows[k] # None => rows[k] \in Row /\ rows[k].val \in Value /\ rows[k].rev \in Nat
                BY <1>1 DEF TypeOK, Row
            <3>4. /\ ValueOf(k) \in Value \cup {None} /\ Revision(k) \in Nat
                  /\ IF rows[k] = None THEN ValueOf(k) = None /\ Revision(k) = 0
                     ELSE ValueOf(k) = rows[k].val /\ Revision(k) = rows[k].rev /\ ValueOf(k) # None
                BY <3>3, NoneIsNothing DEF ValueOf, Revision
            <3>5. pin' \in PinState
                BY <3>1, <3>4 DEF PinState
            <3>6. PinnedRow'
                <4>1. pin'.key = k /\ pin'.val = ValueOf(k) /\ pin'.rev = Revision(k) /\ rows'[k] = rows[k]
                    BY <1>2, <3>1
                <4>2. CASE rows[k] = None
                    BY <3>4, <4>1, <4>2 DEF PinnedRow
                <4>3. CASE rows[k] # None
                    BY <3>3, <3>4, <4>1, <4>3 DEF PinnedRow
                <4>4. QED BY <4>2, <4>3
            <3>7. QED BY <1>1, <3>1, <3>2, <3>5, <3>6 DEF TypeOK, PinTrue
        <2>2. CASE PlanApplies
            <3>1. pin' = [pin EXCEPT !.st = IF Fresh THEN "applied" ELSE "stale"] /\ payloads' = payloads
                BY <2>2 DEF PlanApplies
            <3>2. pin' \in PinState /\ pin'.st # "open"
                BY <1>1, <3>1 DEF TypeOK, PinState
            <3>3. QED BY <1>1, <3>1, <3>2 DEF TypeOK, PinTrue
        <2>3. CASE CaptureSnapshotDesired
            <3>1. pin' = pin /\ rows' = rows
                BY <2>3 DEF CaptureSnapshotDesired
            <3>2. payloads' \subseteq Id
                <4>1. host.own \in [Id -> Content \cup {None}]
                    BY <1>1 DEF TypeOK, Host
                <4>2. QED BY <1>1, <2>3, <4>1 DEF CaptureSnapshotDesired, Present, TypeOK
            <3>3. QED BY <1>1, <3>1, <3>2, PinFrame DEF TypeOK
        <2>4. QED BY <2>1, <2>2, <2>3
    <1>4. TypeOK'
        <2>1. spent' \in 0..MaxSpent
            BY <1>1, <1>2, SpentType
        <2>2. QED BY <1>1, <1>2, <1>3, <2>1 DEF TypeOK
    <1>5. EventsOfChanged' /\ SweepsTrue'
        BY <1>1, <1>2, EventsFrame, SweepsFrame
    <1>6. SettleOn' /\ (~split => SettleWhole')
        BY <1>1, <1>2, SettleFrame
    <1>7. ~split => QuietTrue'
        BY <1>1, <1>2, QuietKept
    <1>8. QED BY <1>2, <1>3, <1>4, <1>5, <1>6, <1>7 DEF IInv

-----------------------------------------------------------------------------
(***************************************************************************)
(* The invariant.                                                          *)
(***************************************************************************)
LEMMA InitHolds ==
    Init => IInv
    <1> SUFFICES ASSUME Init PROVE IInv
        OBVIOUS
    <1>1. /\ c \in Studied
          /\ phase = "boot" /\ sweep = None /\ settle = NoSettle /\ summary = None
          /\ queue = <<>> /\ flights = <<>> /\ payloads = {} /\ events = {}
          /\ pin = NoPin /\ split = FALSE /\ spent = 0
        BY DEF Init
    <1>2. PICK s \in Starts : /\ host = s.now /\ rows = RowsOf(s.before)
                              /\ changed = {k \in Key : rows[k] # RowsOf(host)[k]}
        BY DEF Init
    <1>3. host \in Host /\ s.before \in Host
        BY <1>2, HostAssumption
    <1>4. \A h \in Host : /\ \A i \in Id : h.own[i] \in Content \cup {None}
                          /\ \A j \in CoId : h.co[j] \in Content \cup {None}
        BY DEF Host
    <1>5. ASSUME NEW h \in Host
          PROVE  /\ RowsOf(h) \in [Key -> Row \cup {None}]
                 /\ \A k \in Key : RowsOf(h)[k] # None =>
                       /\ k[1] # "dev" /\ RowsOf(h)[k].val \notin Malformed /\ RowsOf(h)[k].full
                       /\ RowsOf(h)[k].val = IF k[1] = "own" THEN h.own[k[2]] ELSE h.co[k[2]]
        <2> DEFINE val(k) == CASE k[1] = "own" -> h.own[k[2]] [] k[1] = "co" -> h.co[k[2]] [] OTHER -> None
        <2>1. ASSUME NEW k \in Key
              PROVE  /\ val(k) \in Content \cup {None}
                     /\ k[1] = "own" => val(k) = h.own[k[2]]
                     /\ k[1] = "co" => val(k) = h.co[k[2]]
                     /\ k[1] = "dev" => val(k) = None
            <3>1. \/ k[1] = "own" /\ k[2] \in Id
                  \/ k[1] = "co" /\ k[2] \in CoId
                  \/ k[1] = "dev"
                BY DEF Key
            <3>2. QED BY <1>4, <3>1
        <2>2. \A k \in Key : k[1] \in {"own", "co", "dev"}
            BY DEF Key
        <2> HIDE DEF val
        <2>3. RowsOf(h) = [k \in Key |-> IF val(k) = None \/ val(k) \in Malformed THEN None
                                         ELSE [val |-> val(k), full |-> TRUE, rev |-> 1]]
            BY DEF RowsOf, val
        <2>4. ASSUME NEW k \in Key, val(k) # None
              PROVE  [val |-> val(k), full |-> TRUE, rev |-> 1] \in Row
            BY <2>1, <2>4 DEF Row, Value
        <2>5. QED BY <2>1, <2>2, <2>3, <2>4, NoneIsNothing
    <1>6. ToSet(queue) = {} /\ ToSet(flights) = {} /\ flights \in Seq(Flight) /\ queue \in Seq(Delta)
        BY <1>1, EmptySeq DEF ToSet
    <1>7. TypeOK
        <2>1. settle \in SettleState /\ settle.st = "idle"
            BY <1>1 DEF NoSettle, SettleState
        <2>2. pin \in PinState /\ pin.st = "none"
            BY <1>1 DEF NoPin, PinState
        <2>3. spent \in 0..MaxSpent
            BY <1>1, Bounds
        <2>4. changed \subseteq Key
            BY <1>2
        <2>5. QED BY <1>1, <1>2, <1>3, <1>5, <1>6, <2>1, <2>2, <2>3, <2>4 DEF TypeOK
    <1>8. PinTrue /\ EventsOfChanged /\ SweepsTrue /\ SettleOn /\ SettleWhole
        <2>1. settle.st = "idle" /\ pin.st = "none" /\ SettleBatches = {}
            BY <1>1, <1>6 DEF NoSettle, NoPin, SettleBatches
        <2>2. QED BY <1>1, <1>6, <2>1 DEF PinTrue, EventsOfChanged, SweepsTrue, SettleOn, SettleWhole
    <1>9. QuietTrue
        <2>1. ASSUME NEW k \in Quiet, rows[k] # None
              PROVE  Said(rows[k].val, k) /\ rows[k].full
            <3>1. k \in Key /\ rows[k] = RowsOf(host)[k]
                BY <1>2 DEF Quiet
            <3>2. RowsOf(host)[k] \in Row
                BY <1>3, <1>5, <2>1, <3>1
            <3>3. rows[k].full /\ rows[k].val = HostVal(k) /\ rows[k].val # None
                BY <1>3, <1>5, <2>1, <3>1, <3>2, NoneIsNothing DEF HostVal, Row
            <3>4. QED BY <3>3 DEF Said
        <2>2. QED BY <1>6, <2>1 DEF QuietTrue
    <1>10. QED BY <1>7, <1>8, <1>9 DEF IInv

LEMMA StutterKeeps ==
    ASSUME IInv, UNCHANGED vars
    PROVE  IInv'
    <1>1. /\ TypeOK /\ PinTrue /\ EventsOfChanged /\ SweepsTrue /\ SettleOn
          /\ ~split => QuietTrue /\ SettleWhole
        BY Parts
    <1>2. UNCHANGED <<c, host, phase, sweep, settle, summary, queue, flights, rows, payloads,
                      events, pin, changed, split, spent>>
        BY DEF vars
    <1>3. TypeOK'
        BY <1>1, <1>2 DEF TypeOK
    <1>4. PinTrue' /\ EventsOfChanged' /\ SweepsTrue'
        BY <1>1, <1>2, PinFrame, EventsFrame, SweepsFrame
    <1>5. SettleOn' /\ (~split => SettleWhole')
        BY <1>1, <1>2, SettleFrame
    <1>6. ~split => QuietTrue'
        BY <1>1, <1>2, QuietKept
    <1>7. QED BY <1>2, <1>3, <1>4, <1>5, <1>6 DEF IInv

LEMMA NextKeeps ==
    IInv /\ [Next]_vars => IInv'
    <1> SUFFICES ASSUME IInv, [Next]_vars PROVE IInv'
        OBVIOUS
    <1>1. CASE StartSweep \/ SweepFails \/ FlushSweep
        BY <1>1, StartSweepKeeps, SweepFailsKeeps, FlushSweepKeeps
    <1>2. CASE StartSettle \/ FlushSettle \/ Flush
        BY <1>2, StartSettleKeeps, FlushSettleKeeps, FlushKeeps
    <1>3. CASE \E n \in 1..Len(flights) : Accepted(n) \/ Rejected(n) \/ CallLost(n)
        BY <1>3, AcceptedKeeps, CallLostKeeps
    <1>4. CASE HostChanges \/ KernelEvent \/ AgentCrash
        BY <1>4, HostChangesKeeps, KernelEventKeeps, AgentCrashKeeps
    <1>5. CASE PlanPins \/ PlanApplies \/ CaptureSnapshotDesired
        BY <1>5, PlanKeeps
    <1>6. CASE UNCHANGED vars
        BY <1>6, StutterKeeps
    <1>7. QED BY <1>1, <1>2, <1>3, <1>4, <1>5, <1>6 DEF Next

\* In every behaviour, whatever is on its way of an entity that never changed (a sweep's
\* reading, a batch, its row) says the same of it; what is on its way for a settle is
\* all the settle read; and a planned row has moved on or holds what the plan saw.
\* (boot.ts, publisher.ts doFlush, observed.ts observedHandler, reobserve.ts)
THEOREM Inductive == Spec => []IInv
    BY InitHolds, NextKeeps, PTL DEF Spec

\* The queue stays below the ceiling and no row holds what the schema rejects.
\* (publisher.ts enqueue, observed.ts observedHandler)
THEOREM TypeCorrect == Spec => []TypeOK
    <1>1. IInv => TypeOK
        BY DEF IInv
    <1>2. QED BY <1>1, Inductive, PTL

-----------------------------------------------------------------------------
(***************************************************************************)
(* What a step may never do.                                               *)
(***************************************************************************)
\* Rows are written by a batch that is applied, and by nothing else.
LEMMA RowsMove ==
    ASSUME Next, rows' # rows
    PROVE  /\ \E n \in 1..Len(flights) : ~Rejects(flights[n]) /\ Ingest(flights[n])
           /\ UNCHANGED <<c, host, changed, split>>
    BY DEF Next, StartSweep, SweepFails, FlushSweep, StartSettle, FlushSettle, Flush, Accepted,
           Rejected, CallLost, HostChanges, KernelEvent, AgentCrash, PlanPins, PlanApplies,
           CaptureSnapshotDesired

LEMMA QuietStep ==
    ASSUME IInv, [Next]_vars, NEW k \in Quiet', rows[k] # None, ~split'
    PROVE  rows'[k] = rows[k] \/ (rows'[k] # None /\ Unknown \in {rows[k].val, rows'[k].val})
    <1>1. CASE rows' = rows
        BY <1>1
    <1>2. CASE rows' # rows
        <2>1. Next
            BY <1>2 DEF vars
        <2>2. PICK n \in 1..Len(flights) : ~Rejects(flights[n]) /\ Ingest(flights[n])
            BY <1>2, <2>1, RowsMove
        <2>3. UNCHANGED <<c, host, changed, split>>
            BY <1>2, <2>1, RowsMove
        <2>4. k \in Quiet
            BY <2>3 DEF Quiet
        <2>5. TypeOK /\ QuietTrue
            BY <2>3 DEF IInv
        <2> DEFINE batch == flights[n]
        <2>6. batch \in Flight /\ QuietBatch(batch)
            BY <2>5, FlightTypes DEF QuietTrue
        <2>7. ~Rejects(batch) /\ RowsOK(rows) /\ rows' = Stored(rows, batch)
            BY <2>2, <2>5 DEF Ingest, TypeOK, RowsOK
        <2>8. Said(rows[k].val, k) /\ rows[k].full
            BY <2>4, <2>5 DEF QuietTrue
        <2> HIDE DEF batch
        <2>9. QED BY <2>4, <2>6, <2>7, <2>8, StoredQuiet
    <1>3. QED BY <1>1, <1>2

\* A settle comes to a good end when its batch is applied.
LEMMA SettleMoves ==
    ASSUME TypeOK, [Next]_vars, settle.st = "sent", settle'.st = "done", settle'.ok
    PROVE  /\ \E n \in 1..Len(flights) :
                 flights[n].who = "settle" /\ ~Rejects(flights[n]) /\ Ingest(flights[n])
           /\ UNCHANGED <<c, host, changed, split>>
    <1>1. settle' # settle
        OBVIOUS
    <1>2. Next
        BY <1>1 DEF vars
    <1>3. \E n \in 1..Len(flights) : Accepted(n) \/ Rejected(n) \/ CallLost(n)
        <2>1. ~StartSettle /\ ~FlushSettle
            BY DEF StartSettle, FlushSettle
        <2>2. ~AgentCrash
            BY DEF AgentCrash, NoSettle
        <2>3. QED BY <1>1, <1>2, <2>1, <2>2
                DEF Next, StartSweep, SweepFails, FlushSweep, Flush, HostChanges, KernelEvent,
                    PlanPins, PlanApplies, CaptureSnapshotDesired
    <1>4. PICK n \in 1..Len(flights) : Accepted(n) \/ Rejected(n) \/ CallLost(n)
        BY <1>3
    <1>5. ~Ended(flights[n], FALSE)
        BY <1>1 DEF Ended, TypeOK, SettleState
    <1>6. Accepted(n)
        BY <1>1, <1>4, <1>5 DEF Rejected, CallLost
    <1>7. flights[n].who = "settle"
        BY <1>1, <1>6 DEF Accepted, Ended
    <1>8. QED BY <1>6, <1>7 DEF Accepted

LEMMA SettleStep ==
    ASSUME IInv, [Next]_vars, settle.st = "sent", settle'.st = "done", settle'.ok,
           settle.read = host, ~split',
           NEW k \in ReobserveKinds[c.own] \X Id, k \in Key
    PROVE  Shown(k)'
    <1>1. TypeOK
        BY DEF IInv
    <1>2. PICK n \in 1..Len(flights) :
             flights[n].who = "settle" /\ ~Rejects(flights[n]) /\ Ingest(flights[n])
        BY <1>1, SettleMoves
    <1>3. UNCHANGED <<c, host, changed, split>>
        BY <1>1, SettleMoves
    <1> DEFINE batch == flights[n]
    <1>4. batch \in Flight /\ batch \in ToSet(flights)
        BY <1>1, FlightTypes
    <1>5. /\ ~Rejects(batch) /\ RowsOK(rows) /\ rows' = Stored(rows, batch)
        BY <1>1, <1>2 DEF Ingest, TypeOK, RowsOK
    <1>6. batch.deltas = SweepDeltas(host) /\ batch.complete = ReobserveKinds[c.own]
        BY <1>2, <1>3, <1>4 DEF IInv, SettleWhole, SettleBatches, SettleKinds
    <1> HIDE DEF batch
    <1>7. k[1] \in ReobserveKinds[c.own] /\ k[1] \in batch.complete /\ k[1] # "dev"
        BY <1>4, <1>6 DEF Flight
    <1>8. host \in Reading
        BY <1>1 DEF TypeOK, Host, Reading
    <1>9. /\ \A d \in ToSet(batch.deltas) : d.key = k => d.val = HostVal(k) /\ d.full
          /\ HostVal(k) # None => \E d \in ToSet(batch.deltas) : d.key = k
        <2>1. \/ \E i \in Id : k = <<"own", i>>
              \/ \E j \in CoId : k = <<"co", j>>
            BY <1>7 DEF Key
        <2>2. CASE \E i \in Id : k = <<"own", i>>
            <3>1. PICK i \in Id : k = <<"own", i>>
                BY <2>2
            <3>2. HostVal(k) = host.own[i]
                BY <3>1 DEF HostVal
            <3>3. QED BY <1>6, <1>8, <3>1, <3>2, SweepSays
        <2>3. CASE \E j \in CoId : k = <<"co", j>>
            <3>1. PICK j \in CoId : k = <<"co", j>>
                BY <2>3
            <3>2. HostVal(k) = host.co[j]
                BY <3>1 DEF HostVal
            <3>3. QED BY <1>6, <1>8, <3>1, <3>2, SweepSays
        <2>4. QED BY <2>1, <2>2, <2>3
    <1>10. IF HostVal(k) = None THEN rows'[k] = None
           ELSE rows'[k] # None /\ rows'[k].val = HostVal(k) /\ rows'[k].full
        BY <1>4, <1>5, <1>7, <1>9, StoredShows
    <1>11. HostVal(k)' = HostVal(k)
        BY <1>3 DEF HostVal
    <1>12. QED BY <1>10, <1>11 DEF Shown

LEMMA PinStep ==
    ASSUME IInv, [Next]_vars, pin.st = "open", pin'.st = "applied", ~pin.gone
    PROVE  ValueOf(pin.key) = pin.val
    <1>1. TypeOK /\ PinnedRow
        BY DEF IInv, PinTrue
    <1>2. PlanApplies
        <2>1. \A n : ~Ingest(flights[n])
            BY <1>1 DEF Ingest, TypeOK, PinState
        <2>2. ~PlanPins
            BY DEF PlanPins
        <2>3. pin' # pin
            OBVIOUS
        <2>4. QED BY <2>1, <2>2, <2>3
                DEF Next, vars, StartSweep, SweepFails, FlushSweep, StartSettle, FlushSettle, Flush, Accepted,
                    Rejected, CallLost, HostChanges, KernelEvent, AgentCrash, CaptureSnapshotDesired
    <1>3. Fresh
        BY <1>1, <1>2 DEF PlanApplies, TypeOK, PinState
    <1>4. pin.key \in Key
        BY <1>1 DEF TypeOK
    <1>5. rows[pin.key] # None => rows[pin.key].rev \in Nat \ {0}
        BY <1>1, <1>4 DEF TypeOK, Row
    <1>6. CASE pin.val = None
        BY <1>1, <1>3, <1>5, <1>6 DEF PinnedRow, Fresh, Revision, ValueOf
    <1>7. CASE pin.val # None
        BY <1>1, <1>3, <1>7 DEF PinnedRow, Fresh, Revision, ValueOf
    <1>8. QED BY <1>6, <1>7

\* Whatever sweeps, failed reads, lost calls, retries, crashes and settles go on, the
\* row of an entity that never changed stays as it is, revision included.
\* (publisher.ts doFlush, boot.ts, observed.ts observedHandler)
THEOREM QuietStays == Spec => QuietRow
    <1>1. IInv /\ [Next]_vars =>
            [\A k \in Quiet' :
               (rows[k] # None /\ ~split') =>
                  \/ rows'[k] = rows[k]
                  \/ rows'[k] # None /\ Unknown \in {rows[k].val, rows'[k].val}]_vars
        BY QuietStep
    <1>2. QED BY <1>1, Inductive, PTL DEF Spec, QuietRow

\* A settle that got through leaves in the rows of its kinds what is on the host,
\* the absence of what went away included.  (reobserve.ts makeReobserve)
THEOREM SettleTells == Spec => SettleShows
    <1>1. IInv /\ [Next]_vars =>
            [(settle.st = "sent" /\ settle'.st = "done" /\ settle'.ok /\ settle.read = host /\ ~split') =>
               \A k \in ReobserveKinds[c.own] \X Id : k \in Key => Shown(k)']_vars
        BY SettleStep
    <1>2. QED BY <1>1, Inductive, PTL DEF Spec, SettleShows

\* An apply acts on what its plan saw, unless the planned row was deleted meanwhile.
\* (engine.ts apply, backend-sqlite.ts put)
THEOREM PinsRefuse == Spec => PinRefuses
    <1>1. IInv /\ [Next]_vars =>
            [(pin.st = "open" /\ pin'.st = "applied" /\ ~pin.gone) => ValueOf(pin.key) = pin.val]_vars
        BY PinStep
    <1>2. QED BY <1>1, Inductive, PTL DEF Spec, PinRefuses
=============================================================================
