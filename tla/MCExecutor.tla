---------------------------- MODULE MCExecutor ----------------------------
EXTENDS Executor, TLC
CONSTANTS w1, w2

MCArtifacts == {"up", "next"}
MCSteps == {"s1", "s3", "t1", "n1", "n2"}
MCPhases == [a \in MCArtifacts |->
    CASE a = "up" ->
           << [mode |-> "required", steps |-> <<"s1", "t1">>],
              [mode |-> "prohibited", steps |-> <<"s3">>] >>
      [] a = "next" -> << [mode |-> "prohibited", steps |-> <<"n1", "n2">>] >>]
MCAdds == [s \in MCSteps |-> IF s = "t1" THEN {} ELSE {s}]
MCDrops == [s \in MCSteps |-> IF s = "n1" THEN {"s1"} ELSE {}]
\* "next" starts from what "up" makes
MCFrom == [a \in MCArtifacts |-> IF a = "next" THEN {"s1", "s3"} ELSE {}]
\* The plans satisfy what SingleLineage is proved from.
ASSUME MCPlans ==
    /\ SeparateSteps /\ Initial \in {From[a] : a \in Artifacts}
    /\ \E rank \in [Artifacts -> 0 .. 1] : Onward(rank)
WorkerSymmetry == Permutations(Workers)
===========================================================================
