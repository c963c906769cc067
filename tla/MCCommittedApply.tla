--------------------------- MODULE MCCommittedApply ---------------------------
(* Small instances of CommittedApply.                                        *)
EXTENDS CommittedApply, TLC

Symmetric == Permutations(Servers) \cup Permutations(Bodies) \cup Permutations(Uids)
==============================================================================
