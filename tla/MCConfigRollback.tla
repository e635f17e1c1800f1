--------------------------- MODULE MCConfigRollback ---------------------------
EXTENDS ConfigRollback, TLC

CONSTANTS s1, p1, i1, t1, t2

Known(s, p, i) == [r \in Row |-> CASE r = s1 -> s [] r = p1 -> p [] r = i1 -> i]

\* With and without the share, its profile and the netplan file.
MCPast    == {Known(1, None, None), Known(None, 1, 1), Known(1, 1, 1)}
MCPresent == {Known(2, 2, 2), Known(None, 1, None)}

TaskSymmetry == Permutations(Task)
===============================================================================
