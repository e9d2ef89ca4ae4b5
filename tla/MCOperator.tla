----------------------------- MODULE MCOperator -----------------------------
EXTENDS Operator, TLC
CONSTANTS r1, r2, rel1, rel2, rel3

ReplacedKind == [x \in Artifacts |-> IF x = rel3 THEN "versioned" ELSE "ordinary"]
MixedKind == [x \in Artifacts |-> CASE x = rel1 -> "ordinary"
                                    [] x = rel2 -> "bootstrap"
                                    [] OTHER -> "invalid"]

\* One operator that stops and starts; replicas that take over from each other
\* and lose their volumes.
McScenes ==
    { [arts |-> Artifacts, faults |-> {"crash", "apply", "lapse"}],
      [arts |-> {rel1, rel2}, faults |-> {"save", "crash", "lapse"}],
      [arts |-> {rel1}, faults |-> {"crash", "handover", "lose store", "lose audit", "apply"}] }
McOutages == {[arts |-> {rel1, rel3}, faults |-> {"save", "crash", "dependency", "apply"}]}
ReplicaSymmetry == Permutations(Replicas)
=============================================================================
