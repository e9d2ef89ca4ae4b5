----------------------------- MODULE PlanBuild ------------------------------
(* plan.Build with schema.Diff and the PostgreSQL renderer.  The digests of  *)
(* plans and steps are abstracted to the values they cover.                 *)
EXTENDS Rendering

Step(change, statement, needs, nth) ==
    [change |-> change, st |-> statement, needs |-> needs, nth |-> nth,
     mode |-> IF statement.tx THEN "required" ELSE "prohibited"]

RefusedPlan == <<Step(Refused[1], Topology[1], {}, 0)>>

(* Steps in the order of the statements.  A change whose dependencies have   *)
(* no earlier step is refused, and so is a change without a statement.      *)
bindSteps(ordered, rendered) ==
    LET changes == ToSet(ordered)
        before(k) == {ordered[j] : j \in 1..(k - 1)}
        steps(k) == [n \in 1..Len(rendered[k]) |->
                        Step(ordered[k], rendered[k][n], DependsOn(changes, ordered[k]), n)]
    IN  IF \/ \E k \in 1..Len(rendered) : rendered[k] = NoStatement
           \/ \E k \in 1..Len(ordered) : ~(DependsOn(changes, ordered[k]) \subseteq before(k))
        THEN RefusedPlan
        ELSE FlattenSeq([k \in 1..Len(ordered) |-> steps(k)])

BuildPlan(c) ==
    LET ordered == Diff(c.current, c.desired, c.options, c.options.order)
    IN  IF ordered = Refused THEN RefusedPlan
        ELSE bindSteps(ordered, Render(c.current, c.desired, ordered, c.options))
=============================================================================
