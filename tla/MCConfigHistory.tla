-------------------------- MODULE MCConfigHistory --------------------------
EXTENDS ConfigHistory, TLC

CONSTANTS p1, p2, exports, netplan, old, new

\* The exports file is missing in it.
OneSnapshot  == <<[f \in File |-> IF f = exports THEN Absent ELSE old]>>

\* A baseline whose playbook renders one file.
Renders == [f \in {exports} |-> new]

NoneAged == {}

Symmetry == Permutations(Proc)

=============================================================================
