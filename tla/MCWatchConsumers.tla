--------------------------- MODULE MCWatchConsumers ---------------------------
(* Instance of WatchConsumers for TLC.                                       *)
EXTENDS WatchConsumers

\* A batch of the two keys; of a scoped watch, the second is its own.
Pair == {<<2, 1>>}
==============================================================================
