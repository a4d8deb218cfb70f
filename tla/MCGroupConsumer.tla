--------------------------- MODULE MCGroupConsumer ---------------------------
(* GroupConsumer for TLC: the configurations and APIs the runs start from. *)
EXTENDS GroupConsumer, TLC

Cfg(commit, auto, block) ==
    [disableCommit |-> ~commit, disableAutoCommit |-> ~auto, blockRebalance |-> block]

Start(cfgs, apis) == [cfg : cfgs, api : apis]

\* Synchronous commits with each API; auto-commit with the two that handle a batch
\* before they commit it; no commits, and a rebalance that does not wait.
GroupStarts ==
    Start({Cfg(TRUE, FALSE, TRUE)}, {"subscribe", "batch", "poll"})
    \cup Start({Cfg(TRUE, TRUE, TRUE)}, {"subscribe", "batch"})
    \cup Start({Cfg(FALSE, FALSE, TRUE)}, {"subscribe", "poll"})
    \cup Start({Cfg(TRUE, FALSE, FALSE), Cfg(TRUE, TRUE, FALSE)}, {"subscribe", "batch"})

SkippingStarts == Start({Cfg(TRUE, TRUE, TRUE)}, {"batch"})

PartitionSymmetry == Permutations(Partitions)
=============================================================================
