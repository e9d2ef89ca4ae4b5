----------------------------- MODULE ExpandPlan -----------------------------
(* The plan of the expand phase of a zero-downtime migration                 *)
(* (pkg/zdm/expandplan/plan.go) and the format of the migration it is made   *)
(* from (pkg/zerodowntime/format.go).                                        *)
(*                                                                           *)
(* A name is a sequence of strings: one element for a name an application    *)
(* chose, more for the physical names the planner makes up.  An expression   *)
(* is the name of the column it reads, or Const.  A catalogue is             *)
(*   [tables : name -> [cols : name -> [type, null], alter, part, rows,      *)
(*                      bytes, indexes : name -> [unique, constraints,       *)
(*                      sound, columns], checks : set of names],             *)
(*    create : BOOLEAN]                                                      *)
(* with, for an index, the number of constraints that use it, and sound for  *)
(* valid, ready, whole-table and expression-free.                            *)
EXTENDS Integers, Sequences, FiniteSets, SequencesExt

None  == <<>>
Const == <<"", "constant">>

-----------------------------------------------------------------------------
(* The signed migration.                                                     *)

\* The fields of an operation that a caller can leave out, and those it gave.
Given(op) ==
    {f \in {"column", "new", "index", "expr", "ordering"} : op[f] # None}
        \cup {f \in {"type", "sync", "mode"} : op[f] # ""}

\* The fields each kind of operation must have; it may have no others.
Fields(op) ==
    CASE op.kind \in {"add_table", "drop_table"} -> {}
      [] op.kind = "add_column" ->
            {"column", "type", "sync"} \cup (IF op.sync = "backfill" THEN {"expr", "ordering"} ELSE {})
      [] op.kind = "alter_column_type" -> {"column", "type", "expr", "ordering"}
      [] op.kind = "rename_column" -> {"column", "new", "expr", "ordering"}
      [] op.kind = "set_not_null" -> {"column", "expr", "ordering"}
      [] op.kind = "drop_column" -> {"column"}
      [] op.kind = "create_index" -> {"index", "expr", "mode"}
      [] OTHER -> {"index", "mode"}

\* How an operation of this kind says it is undone.
validateReversal(op) ==
    op.reversal = CASE op.kind \in {"drop_column", "drop_table"} -> "backup"
                    [] op.kind = "alter_column_type" -> "lossless"
                    [] OTHER -> "automatic"

\* A backfill has an order, which is a unique key, and a batch size.
validateBackfill(op) == op.key # <<>> /\ op.proof \in {"constraint", "unique_index"} /\ op.batch > 0

\* The phases that the signed operation says it takes part in.
Effects(op) == IF op.kind = "add_column" /\ op.sync = "none" THEN "no_backfill" ELSE op.kind

validateOperation(op) ==
    /\ op.effects = Effects(op)
    /\ validateReversal(op)
    /\ Given(op) = Fields(op)
    /\ op.sync \in {"", "none", "backfill"}
    /\ op.mode \in {"", "concurrent"}
    /\ op.unique => op.kind = "create_index"
    /\ IF "ordering" \in Fields(op) THEN validateBackfill(op) ELSE op.batch = 0

\* The versions with a capability matrix; it has every kind of operation.
capability(major) == major \in 14 .. 18

\* Migration.Validate and ValidateForPostgres, for a server of this version.
Validate(m, major) ==
    /\ capability(m.minimum) /\ m.lock > 0 /\ m.statement > 0
    /\ m.operations # <<>>
    /\ \A i \in 2 .. Len(m.operations) : m.operations[i - 1].id < m.operations[i].id
    /\ \A i \in DOMAIN m.operations : validateOperation(m.operations[i])
    /\ m.minimum <= major /\ capability(major)

-----------------------------------------------------------------------------
(* What the planner knows of the database: the snapshot s has a catalogue    *)
(* and the rows of object_mappings.                                          *)

Columns(cat) == UNION {DOMAIN cat.tables[t].cols : t \in DOMAIN cat.tables}
Indexes(cat) == UNION {DOMAIN cat.tables[t].indexes : t \in DOMAIN cat.tables}
Checks(cat)  == UNION {cat.tables[t].checks : t \in DOMAIN cat.tables}

\* Snapshot.ExistingObjects: every name in the schema, whatever it names.
ExistingObjects(s) ==
    DOMAIN s.cat.tables \cup Columns(s.cat) \cup Indexes(s.cat) \cup Checks(s.cat)
        \cup {x.name : x \in s.mappings}

\* What the logical object of an operation is and what it is called.
Logical(op) ==
    CASE op.kind = "add_table" -> <<"table">> \o op.table
      [] op.kind = "create_index" -> <<"index">> \o op.index
      [] op.kind = "set_not_null" -> <<"constraint">> \o op.column \o <<"_not_null">>
      [] op.kind = "rename_column" -> <<"column">> \o op.new
      [] OTHER -> <<"column">> \o op.column \o <<"_shadow">>

\* The digest in the name tells any two of these apart; the artifact's own digest is not in it.
physicalName(m, op) == <<m.name, ToString(op.id)>> \o Logical(op)

Mapping(m, op) ==
    [scope |-> m.digest, op |-> op.id, logical |-> Logical(op), name |-> physicalName(m, op)]

\* An operation may use its physical name: no object and no other operation has it.
physical(s, m, op) ==
    LET want   == Mapping(m, op)
        stored == {x \in s.mappings : x.scope = m.digest}
        same   == {x \in stored : x.op = op.id /\ x.logical = want.logical}
    IN  /\ same \subseteq {want}
        /\ want.name \in ExistingObjects(s) => want \in same
        /\ \A x \in stored : x.name = want.name => x.op = op.id /\ x.logical = want.logical

\* The declared order of a backfill is a unique key of the table that can serve as one.
validateUnique(op, table) ==
    /\ op.ordering \in DOMAIN table.indexes
    /\ LET e == table.indexes[op.ordering]
       IN  /\ e.unique /\ e.sound
           /\ op.proof = "constraint" => e.constraints > 0
           /\ e.columns = op.key

\* Every column that an expression reads is in the table.
validateExpressionColumns(expr, table) == expr = Const \/ expr \in DOMAIN table.cols

-----------------------------------------------------------------------------
(* The steps.                                                                *)

Shadow == {"rename_column", "alter_column_type"}
Backfilled(op) == op.kind \in Shadow \cup {"set_not_null"} \/ op.sync = "backfill"

\* translate: what makes an operation refused.
translates(s, m, op, allow) ==
    LET exists == op.table \in DOMAIN s.cat.tables
        table  == s.cat.tables[op.table]
    IN  /\ exists <=> op.kind # "add_table"
        /\ exists =>
             /\ table.alter
             /\ op.expr # None => validateExpressionColumns(op.expr, table)
             /\ op.ordering # None => validateUnique(op, table)
        /\ op.kind = "add_table" => s.cat.create /\ physical(s, m, op)
        /\ op.kind = "add_column" => op.column \notin DOMAIN table.cols
        /\ op.kind = "create_index" =>
             /\ op.index \notin Indexes(s.cat) /\ ~table.part /\ s.cat.create
             /\ physical(s, m, op)
             /\ {"nontransactional", "scan"} \subseteq allow
        /\ op.kind = "set_not_null" =>
             /\ op.column \in DOMAIN table.cols /\ table.cols[op.column].null
             /\ physical(s, m, op)
             /\ "validation" \in allow
        /\ op.kind \in Shadow => op.column \in DOMAIN table.cols /\ physical(s, m, op)
        /\ Backfilled(op) => "scan" \in allow

\* The statement of a step: which object it adds, under which name.
translate(s, m, op) ==
    [op |-> op.id, table |-> op.table, column |-> op.column,
     sql |-> CASE op.kind = "add_table" -> "create_table"
               [] op.kind \in Shadow \cup {"add_column"} -> "add_column"
               [] op.kind = "set_not_null" -> "add_check"
               [] op.kind = "create_index" -> "create_index"
               [] OTHER -> "",
     name |-> CASE op.kind = "add_column" -> op.column
                [] op.kind \in {"drop_column", "drop_table", "drop_index"} -> None
                [] OTHER -> physicalName(m, op),
     type |-> CASE op.type # "" -> op.type
                [] op.kind = "rename_column" -> s.cat.tables[op.table].cols[op.column].type
                [] OTHER -> "",
     source |-> IF Backfilled(op) THEN op.expr ELSE None,
     order |-> IF Backfilled(op) THEN op.key ELSE <<>>]

\* finalizeStep: the time a step, and what it leaves for later, may take.
Estimate(amount, unit) == 1000 + (amount \div unit) * 100
Megabytes == 1048576
hardMaximum(s, op) ==
    IF op.kind = "create_index" THEN 2 * Estimate(s.cat.tables[op.table].bytes, 10 * Megabytes) ELSE 500
deferredMaximums(s, op) ==
    (IF Backfilled(op) THEN {2 * Estimate(s.cat.tables[op.table].rows, 10000)} ELSE {})
        \cup (IF op.kind = "set_not_null"
              THEN {2 * Estimate(s.cat.tables[op.table].bytes, 10 * Megabytes)} ELSE {})

finalizeStep(s, m, op, policy) ==
    /\ hardMaximum(s, op) <= policy.hold /\ hardMaximum(s, op) <= m.statement
    /\ op.kind # "create_index" => hardMaximum(s, op) <= policy.transaction
    /\ \A d \in deferredMaximums(s, op) :
          d <= policy.hold /\ d <= policy.statement /\ d <= policy.transaction

\* Build accepts the migration on this snapshot.
builds(s, m, major, policy) ==
    /\ Validate(m, major)
    /\ policy.lock > 0 /\ policy.hold > 0 /\ policy.statement > 0 /\ policy.transaction > 0
    /\ m.lock <= policy.lock /\ m.statement <= policy.statement /\ m.statement <= policy.transaction
    /\ \A x, y \in {z \in s.mappings : z.scope = m.digest} :
          x.name = y.name => x.op = y.op /\ x.logical = y.logical
    /\ \A i \in DOMAIN m.operations :
          /\ translates(s, m, m.operations[i], policy.allow)
          /\ finalizeStep(s, m, m.operations[i], policy)

Build(s, m) == [i \in DOMAIN m.operations |-> translate(s, m, m.operations[i])]

\* A statement is parsed and classified; CREATE INDEX with a schema before the name of the
\* index does not parse.
validateExpandSQL(step) == step.sql # "create_index"

\* Plan.Validate: nothing but the statements can be wrong with a plan that Build made.
ValidatePlan(steps) == \A i \in DOMAIN steps : validateExpandSQL(steps[i])

\* The plan is derived again from the snapshot and the migration, with the same result.
VerifyTrusted(s, m, steps) == ValidatePlan(steps) /\ steps = Build(s, m)
=============================================================================
