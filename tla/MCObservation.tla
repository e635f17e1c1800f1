---------------------------- MODULE MCObservation ----------------------------
\* One collector of each shape, on a host with two entities.
EXTENDS Observation, TLC

Shapes == {DiskCollector, NetworkCollector, FilesystemCollector, NfsCollector, TuningCollector,
           SnapshotCollector}
Has(own, co) == [own |-> own, co |-> <<co>>]
\* A host observed as it is; one that lost an entity while the agent was down; one
\* never observed; one whose entities changed.
Starts1 ==
    {[now |-> Has(<<1, 1>>, 1), before |-> Has(<<1, 1>>, 1)],
     [now |-> Has(<<1, None>>, None), before |-> Has(<<1, 1>>, None)],
     [now |-> Has(<<1, 1>>, None), before |-> Has(<<None, None>>, None)],
     [now |-> Has(<<1, 1>>, 1), before |-> Has(<<2, 2>>, 1)]}
=============================================================================
