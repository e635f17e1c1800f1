------------------------- MODULE MCTaskEngineClaims -------------------------
EXTENDS TaskEngineClaims, TLC
CONSTANTS t1, t2, r1, r2

OneOf(kinds) == [k \in FaultKind |-> IF k \in kinds THEN 1 ELSE 0]

OneFree == [t \in Task |-> IF t = t1 THEN {{r1}} ELSE {{}}]

LivenessFaults   == OneOf({"apiCrash", "expiry"})
=============================================================================
