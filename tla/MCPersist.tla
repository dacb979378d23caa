----------------------------- MODULE MCPersist -----------------------------
(* Two data keys and the schema key compete for a buffer of two entries.   *)
EXTENDS PersistTarget, TLC

Symmetry == Permutations(DataKeys) \union Permutations(Values)

(* Bound: on the target either one key at a time is at risk or given up,   *)
(* or NVS has been given one value.                                        *)
FewAtRisk == Cardinality(risky \union hurt) <= 1
OneValue  == Cardinality(UNION {survives[k] : k \in Keys} \ {Absent}) <= 1

TargetBound == build = "target" => FewAtRisk \/ OneValue

=============================================================================
