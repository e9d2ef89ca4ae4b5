------------------------------ MODULE Planning ------------------------------
(***************************************************************************)
(* A database is inspected, a plan is built from the document and a desired *)
(* one, and its steps run, one by one, on the catalogue.                    *)
(***************************************************************************)
EXTENDS PlanBuild, Inspection

CONSTANT Worlds     \* records of sets: [rows: catalogues, desired: documents,
                    \*   inspect, options: of inspection and of the plan]

VARIABLES case,     \* the documents and options at hand
          plan,     \* the steps of the plan; RefusedPlan; <<>> when not yet built
          live,     \* the catalogue
          pos,      \* steps already run
          status    \* "asked", "built", "refused", "failed" or "done"

planningVars == <<case, plan, live, pos, status>>

-----------------------------------------------------------------------------
PlanningInit ==
    /\ \E w \in Worlds :
          \E rows \in w.rows, desired \in w.desired, inspect \in w.inspect, options \in w.options :
             /\ live = rows
             /\ case = [current |-> inspectSnapshot(rows, inspect), desired |-> desired,
                        inspect |-> inspect, options |-> options, rows |-> rows]
    /\ plan = <<>> /\ pos = 0 /\ status = "asked"

Build ==
    /\ status = "asked"
    /\ plan' = BuildPlan(case)
    /\ status' = IF plan' = RefusedPlan THEN "refused" ELSE "built"
    /\ UNCHANGED <<case, live, pos>>

RunStep ==
    /\ status = "built" /\ pos < Len(plan)
    /\ LET after == Run(live, plan[pos + 1].st)
       IN  IF after = Failed THEN status' = "failed" /\ UNCHANGED <<live, pos>>
           ELSE live' = after /\ pos' = pos + 1 /\ UNCHANGED status
    /\ UNCHANGED <<case, plan>>

Finish == status = "built" /\ pos = Len(plan) /\ status' = "done" /\ UNCHANGED <<case, plan, live, pos>>

PlanningNext == Build \/ RunStep \/ Finish

-----------------------------------------------------------------------------
(* Rows of schemas that inspection left out.                                *)
Elsewhere(rows, inspect) ==
    {x \in rows : inspect.schemas # {} /\ x.parent # <<>> /\ Namespace(x) \notin inspect.schemas}

(* A plan that ran to its end made the database such that inspecting it      *)
(* again gives the desired document, and left other schemas as they were     *)
(* (plan.Build, Render, inspectSnapshot).                                   *)
PlanConverges ==
    status = "done" =>
        /\ inspectSnapshot(live, case.inspect) = case.desired
        /\ Elsewhere(live, case.inspect) = Elsewhere(case.rows, case.inspect)

(* Columns that views read: a document does not say which.                   *)
Unrecorded(rows) == UNION {{i \in Named(x) : i[1] = "column"} : x \in Of(rows, Projections)}

(* Changes whose order the dependencies of a document do not settle: of a    *)
(* view or a column below one, and of a key while foreign keys rest on it.   *)
Unsettled(c) ==
    \/ c.op # "create" /\ {StableID(c.before), StableID(c.after)}
                            \cap (Unrecorded(case.rows) \cup Unrecorded(case.desired)) # {}
    \/ c.op = "alter" /\ c.after.kind \in Projections \cup {"unique_constraint"}

(* PostgreSQL refuses no step of a plan, unless the plan has an unsettled    *)
(* change: what a step needs was made before it, and what stands in the way  *)
(* of a drop went before (orderChanges, Render; docs/semantic-diff.md:       *)
(* "Creates follow dependency order and drops reverse it").                 *)
PlanExecutes == status = "failed" => \E k \in 1..Len(plan) : Unsettled(plan[k].change)

(* What needs an authorization has it.                                       *)
Authorized(doc, options) ==
    \A r \in doc : /\ r.kind = "extension" => validateExtensionOptions(r, options)
                   /\ r.kind = "function" /\ r.def[2] = "" => r.def[1] \in options.reviewed
                   /\ r.kind = "membership" /\ r.def[3] = "admin" => options.admin

(* Building an inspected database from nothing is never refused.            *)
Reproducible == status = "refused" => case.rows # {} \/ ~Authorized(case.desired, case.options)
=============================================================================
