---------------------------- MODULE MCCompletion ----------------------------
EXTENDS Completion, TLC
CONSTANTS w1, w2, o1

\* "up" has a phase of each mode; "down" leads back to its source.
MCArtifacts == {"up", "down"}
MCSteps == {"s1", "s2", "d1"}
MCPhases == [a \in MCArtifacts |->
    IF a = "up"
    THEN << [mode |-> "required", steps |-> <<"s1">>],
            [mode |-> "prohibited", steps |-> <<"s2">>] >>
    ELSE << [mode |-> "prohibited", steps |-> <<"d1">>] >>]
MCObjects == {"x", "y"}
MCAdds == [s \in MCSteps |-> IF s = "s1" THEN {"x"} ELSE IF s = "s2" THEN {"y"} ELSE {}]
MCDrops == [s \in MCSteps |-> IF s = "d1" THEN {"x", "y"} ELSE {}]
MCFrom == [a \in MCArtifacts |-> IF a = "up" THEN {} ELSE {"x", "y"}]
WorkerSymmetry == Permutations(Workers)

=============================================================================
