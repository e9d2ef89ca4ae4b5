------------------------------ MODULE MCFleet ------------------------------
(* Instances of Fleet for TLC. *)
EXTENDS Fleet

Group0(targets, deps) ==
    [targets |-> targets, dependsOn |-> deps, canary |-> 0, size |-> 2,
     parallel |-> 1, policy |-> "fail_fast", delay |-> FALSE]
Req(rollout, artifact, targets, groups) ==
    [rollout |-> rollout, artifact |-> artifact, targets |-> targets, groups |-> groups]

MCTargets == 1..3

\* A canary, then the others two at a time
Staged == (1 :> [Group0({1, 2, 3}, {}) EXCEPT !.canary = 1, !.parallel = 2,
                                        !.delay = TRUE])
\* A group that waits for another, and pauses between its batches
Chained == (1 :> [Group0({1}, {2}) EXCEPT !.policy = "continue", !.delay = TRUE])
           @@ (2 :> Group0({2}, {}))
Grown == (1 :> Group0({2, 3}, {}))
Lone == (1 :> [Group0({2}, {}) EXCEPT !.policy = "continue"])

Assign(p, q) == ("c1" :> p) @@ ("c2" :> q)

\* Plans only: all dependency structures of three groups, named and unknown,
\* and all canary and batch sizes of a group of three and one that may overlap it.
Shapes ==
    {Req("r", "a", {}, [g \in 1..3 |-> Group0({}, deps[g])]) : deps \in [1..3 -> SUBSET (1..4)]}
Sizes ==
    {Req("r", "a", {}, (1 :> [Group0(1..3, {}) EXCEPT !.canary = n, !.size = k])
                  @@ (2 :> Group0(ts, {}))) :
        n \in 0..4, k \in 1..4, ts \in SUBSET (3..4)}

MCFilters ==
    {[rollout |-> "r", targets |-> MCTargets, states |-> s] :
        s \in {{"failed", "canceled"}, {"succeeded", "running", "failed"}}}

\* A staged rollout; a chain that is resumed; a rollout resumed with a target
\* more; one beside another that shares a target; one resumed with
\* another artifact; one that is executed by two calls at once.
MCAssignments ==
    {Assign(q, None) : q \in Shapes \cup Sizes}
    \cup {Assign(Req("r", "a", 1..3, Staged), None),
          Assign(Req("r", "a", 1..2, Chained), Req("r", "a", 1..2, Chained)),
          Assign(Req("r", "a", {2}, Lone), Req("r", "a", 2..3, Grown)),
          Assign(Req("r", "a", {2}, Lone), Req("s", "a", {2}, Lone)),
          Assign(Req("r", "a", {2}, Lone), Req("r", "b", {2}, Lone)),
          Assign(Req("o", "a", {2}, Lone), Req("o", "a", {2}, Lone))}

=============================================================================
