--------------------------- MODULE AppendOnlyTrail ---------------------------
(***************************************************************************)
(* What the audit trail promises its readers: an entry that was accepted   *)
(* joins the log after all that were accepted before it; the log only      *)
(* grows, and nothing is lost but, when the machine stops, the last of     *)
(* those that wait.                                                        *)
(***************************************************************************)
EXTENDS Sequences, Naturals

CONSTANT Entry

VARIABLES
    log,      \* what is on disk for good, in the order it is read
    waiting   \* what was accepted and is not yet in the log
vars == <<log, waiting>>

Init == log = <<>> /\ waiting = <<>>

Accept(e) ==
    /\ waiting' = Append(waiting, e)
    /\ UNCHANGED log

\* The first n join the log and those after the m-th are gone.
Settle(n, m) ==
    /\ log' = log \o SubSeq(waiting, 1, n)
    /\ waiting' = SubSeq(waiting, n + 1, m)

Persist(n) == Settle(n, Len(waiting))

Grow ==
    \/ \E e \in Entry : Accept(e)
    \/ \E n \in 1..Len(waiting) : Persist(n)

PowerLoss == \E m \in 0..Len(waiting) : \E n \in 0..m : Settle(n, m)

Next == Grow \/ PowerLoss

Spec == Init /\ [][Next]_vars
=============================================================================
