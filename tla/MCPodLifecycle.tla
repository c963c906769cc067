--------------------------- MODULE MCPodLifecycle ---------------------------
(* Instances of PodLifecycle for TLC. *)
EXTENDS PodLifecycle

WorkerAndLeader == {<<TRUE, FALSE>>, <<FALSE, FALSE>>}
HeldOnWorker == {<<TRUE, TRUE>>, <<FALSE, FALSE>>}

Alike == [r \in BOOLEAN |-> {"fault", "restart", "command", "deadletter"}]

\* What a worker's Pod is not made up for: see DeletedPodsGo.
Recoverable == [r \in BOOLEAN |-> IF r THEN {"fault", "restart", "cri"}
                                       ELSE {"fault", "restart", "cri", "command"}]
==============================================================================
