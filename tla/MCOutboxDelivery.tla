--------------------------- MODULE MCOutboxDelivery ---------------------------
(* Small instances of OutboxDelivery.                                        *)
EXTENDS OutboxDelivery, TLC

Symmetric == Permutations(Calls) \cup Permutations(Servers) \cup Permutations(Admins)
==============================================================================
