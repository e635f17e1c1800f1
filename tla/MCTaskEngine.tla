---------------------------- MODULE MCTaskEngine ----------------------------
EXTENDS TaskEngineClaims, TLC
CONSTANTS t1, t2, r1, r2

OneOf(kinds) == [k \in FaultKind |-> IF k \in kinds THEN 1 ELSE 0]

Mixed  == [t \in Task |-> {{r1}, {r2}, {r1, r2}}]
Single == [t \in Task |-> {{r1}, {r2}}]

WireFaults  == OneOf({"drop", "dup", "agentCrash"})
CrashFaults == OneOf({"timeout", "expiry", "apiCrash"})

FullySymmetric == Permutations(Task) \cup Permutations(Resource)
=============================================================================
