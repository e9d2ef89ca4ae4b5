------------------------------ MODULE Expansion ------------------------------
(* The control schema of zero-downtime migrations (pkg/zdm/metadata.go,      *)
(* manifest.go), the trusted baseline recorded in it, and the command that   *)
(* plans an expand phase against a live database                             *)
(* (pkg/zdm/expandplan/live.go, internal/cli/migrate_expand_plan.go), beside *)
(* a session of somebody else who changes tables.                            *)
(*                                                                           *)
(* The planner reads one repeatable-read snapshot, locks the tables it saw   *)
(* in ACCESS SHARE mode, and compares what it read with the baseline and     *)
(* with fresh snapshots before and after it releases the locks.  The         *)
(* recorder of a baseline reads with READ COMMITTED, under the same kind of  *)
(* locks.  A change of a table that exists needs ACCESS EXCLUSIVE on it.     *)
EXTENDS ExpandPlan, TLC

CONSTANTS Catalogs,    \* the application schemas the database may have
          Stores,      \* the control schemas it may start with
          Migrations,  \* the signed artifacts
          Policies,    \* the availability budgets of a call
          Major,       \* the server's major version
          MaxChanges   \* bound: changes made by the other session

VARIABLES live,      \* the application schema
          store,     \* the control schema: its version (0: there is none), whether its layout is the
                     \* trusted one, whether an operation is unfinished, baselines and mappings
          ddl,       \* the other session: [pc, to], and how many changes it made
          recorder,  \* a call of Store.Baseline: [pc, id, names, doc]
          planner,   \* a call of migrate expand-plan: [pc, view, steps]
          locks      \* the tables each of the two holds in ACCESS SHARE mode

expansionVars == <<live, store, ddl, recorder, planner, locks>>

CurrentSchemaVersion == 3

Idle == [pc |-> "idle"]

ExpansionInit ==
    /\ live \in Catalogs
    /\ store \in Stores
    /\ ddl = [pc |-> "idle", to |-> live, made |-> 0]
    /\ recorder = Idle /\ planner = Idle
    /\ locks = [c \in {"recorder", "planner"} |-> {}]

-----------------------------------------------------------------------------
(* The other session.                                                        *)

\* The tables that exist and that a change to the schema alters or drops.
Altered(from, to) ==
    {t \in DOMAIN from.tables : t \notin DOMAIN to.tables \/ to.tables[t] # from.tables[t]}
Wanted == IF ddl.pc = "idle" THEN {} ELSE Altered(live, ddl.to)

RequestChange ==
    /\ ddl.pc = "idle" /\ ddl.made < MaxChanges
    /\ \E c \in Catalogs \ {live} : ddl' = [pc |-> "waits", to |-> c, made |-> ddl.made + 1]
    /\ UNCHANGED <<live, store, recorder, planner, locks>>

GrantChange ==
    /\ ddl.pc = "waits" /\ \A c \in DOMAIN locks : Wanted \cap locks[c] = {}
    /\ ddl' = [ddl EXCEPT !.pc = "holds"]
    /\ UNCHANGED <<live, store, recorder, planner, locks>>

CommitChange ==
    /\ ddl.pc = "holds" /\ live' = ddl.to
    /\ ddl' = [ddl EXCEPT !.pc = "idle"]
    /\ UNCHANGED <<store, recorder, planner, locks>>

AbandonChange ==
    /\ ddl.pc # "idle" /\ ddl' = [ddl EXCEPT !.pc = "idle", !.to = live]
    /\ UNCHANGED <<live, store, recorder, planner, locks>>

\* LOCK TABLE ... IN ACCESS SHARE MODE waits behind a change that waits or is not committed.
LockTable(c, t) ==
    /\ t \notin locks[c] /\ t \notin Wanted
    /\ t \in DOMAIN live.tables
    /\ locks' = [locks EXCEPT ![c] = @ \cup {t}]

-----------------------------------------------------------------------------
(* Store.Init: one transaction under the metadata lock, which a recorder     *)
(* holds too.  The upgrade to version 3 casts the stored document from jsonb *)
(* to text: the text is the server's, not the canonical one.                 *)

upgrade(s) ==
    [s EXCEPT !.version = CurrentSchemaVersion,
              !.baselines = {[b EXCEPT !.canonical = FALSE] : b \in @}]

validateLayout(s) == s.exact

InitStore ==
    /\ recorder.pc = "idle"
    /\ store.version < CurrentSchemaVersion /\ validateLayout(store)
    /\ store' = upgrade(store)
    /\ UNCHANGED <<live, ddl, recorder, planner, locks>>

-----------------------------------------------------------------------------
(* Store.Baseline.                                                           *)

ReturnBaseline == recorder' = Idle /\ locks' = [locks EXCEPT !["recorder"] = {}]

\* The relations to lock are listed once the control schema is found in order.
BeginBaseline(id) ==
    /\ recorder.pc = "idle"
    /\ store.version = CurrentSchemaVersion /\ validateLayout(store) /\ ~store.busy
    /\ recorder' = [pc |-> "lock", id |-> id, names |-> DOMAIN live.tables, doc |-> live]
    /\ UNCHANGED <<live, store, ddl, planner, locks>>

lockApplicationRelations ==
    /\ recorder.pc = "lock"
    /\ \E t \in recorder.names : LockTable("recorder", t)
    /\ UNCHANGED <<live, store, ddl, recorder, planner>>

\* The schema is inspected under the locks; a baseline that exists is returned, or in conflict.
InspectBaseline ==
    /\ recorder.pc = "lock" /\ locks["recorder"] = recorder.names
    /\ IF store.baselines = {}
       THEN recorder' = [recorder EXCEPT !.pc = "final", !.doc = live] /\ UNCHANGED locks
       ELSE ReturnBaseline
    /\ UNCHANGED <<live, store, ddl, planner>>

FinalInspection ==
    /\ recorder.pc = "final"
    /\ IF live = recorder.doc THEN recorder' = [recorder EXCEPT !.pc = "record"] /\ UNCHANGED locks
                              ELSE ReturnBaseline
    /\ UNCHANGED <<live, store, ddl, planner>>

\* The baseline and the audit event about it, in one transaction.
RecordBaseline ==
    /\ recorder.pc = "record"
    /\ store' = [store EXCEPT !.baselines = {[id |-> recorder.id, cat |-> recorder.doc, canonical |-> TRUE]}]
    /\ ReturnBaseline
    /\ UNCHANGED <<live, ddl, planner>>

\* A lock timeout, a relation that is gone, a lost connection: the transaction rolls back.
AbandonBaseline ==
    /\ recorder.pc # "idle" /\ ReturnBaseline
    /\ UNCHANGED <<live, store, ddl, planner>>

-----------------------------------------------------------------------------
(* runMigrateExpandPlan.                                                     *)

At(pc) == planner.pc = pc
Goto(pc) == planner' = [planner EXCEPT !.pc = pc]
Refuse == planner' = Idle /\ locks' = [locks EXCEPT !["planner"] = {}]

\* The first query of the transaction fixes what all its queries see.
BeginInspection ==
    /\ At("idle")
    /\ planner' = [pc |-> "lock", view |-> [cat |-> live, store |-> store]]
    /\ UNCHANGED <<live, store, ddl, recorder, locks>>

LockRelations ==
    /\ At("lock")
    /\ \E t \in DOMAIN planner.view.cat.tables : LockTable("planner", t)
    /\ UNCHANGED <<live, store, ddl, recorder, planner>>

\* The catalogue queries that fill the snapshot: the one for unique keys fails on a key that is
\* not a constraint's, and a key that a foreign key refers to has several rows.
readsCatalog(cat) ==
    \A t \in DOMAIN cat.tables : \A i \in DOMAIN cat.tables[t].indexes :
        LET index == cat.tables[t].indexes[i]
        IN  index.constraints <= 1 /\ (index.unique => index.constraints = 1)

\* The trusted baseline says, in the same bytes, what the transaction sees.
trustedBaseline(view) ==
    \E b \in view.store.baselines : b.cat = view.cat /\ b.canonical

CompareBaseline ==
    /\ At("lock") /\ DOMAIN planner.view.cat.tables = locks["planner"]
    /\ IF readsCatalog(planner.view.cat) /\ trustedBaseline(planner.view)
          /\ \A x \in planner.view.store.mappings : x.scope # ""
       THEN Goto("queued") /\ UNCHANGED locks
       ELSE Refuse
    /\ UNCHANGED <<live, store, ddl, recorder>>

\* Somebody waits for ACCESS EXCLUSIVE on a table that is locked for the plan.
rejectQueuedPlanningChange(next) ==
    /\ IF ddl.pc = "waits" /\ Wanted \cap locks["planner"] # {}
       THEN Refuse ELSE Goto(next) /\ UNCHANGED locks
    /\ UNCHANGED <<live, store, ddl, recorder>>

FirstQueued  == At("queued") /\ rejectQueuedPlanningChange("fresh")
SecondQueued == At("again") /\ rejectQueuedPlanningChange("commit")

compareFreshPlanningSchema ==
    /\ At("fresh")
    /\ IF live = planner.view.cat THEN Goto("again") /\ UNCHANGED locks ELSE Refuse
    /\ UNCHANGED <<live, store, ddl, recorder>>

CommitInspection ==
    /\ At("commit") /\ Goto("last")
    /\ locks' = [locks EXCEPT !["planner"] = {}]
    /\ UNCHANGED <<live, store, ddl, recorder>>

\* Mutant: the comparison after the locks are released is left out.
IssuePlanStale(m, policy) ==
    LET s == [cat |-> planner.view.cat, mappings |-> planner.view.store.mappings]
    IN  /\ At("last")
        /\ IF builds(s, m, Major, policy) /\ VerifyTrusted(s, m, Build(s, m))
           THEN planner' = [pc |-> "issued", steps |-> Build(s, m)]
           ELSE planner' = Idle
        /\ UNCHANGED <<live, store, ddl, recorder, locks>>

\* The last comparison, and the plan that is built, verified and printed.
IssuePlan(m, policy) ==
    LET s == [cat |-> planner.view.cat, mappings |-> planner.view.store.mappings]
    IN  /\ At("last")
        /\ IF live = s.cat /\ builds(s, m, Major, policy) /\ VerifyTrusted(s, m, Build(s, m))
           THEN planner' = [pc |-> "issued", steps |-> Build(s, m)]
           ELSE planner' = Idle
        /\ UNCHANGED <<live, store, ddl, recorder, locks>>

\* A timeout, the hold deadline, a cancelled context.
AbandonInspection ==
    /\ planner.pc \notin {"idle", "issued"} /\ Refuse
    /\ UNCHANGED <<live, store, ddl, recorder>>

-----------------------------------------------------------------------------
ExpansionNext ==
    \/ RequestChange \/ GrantChange \/ CommitChange \/ AbandonChange
    \/ InitStore
    \/ \E id \in {"b1", "b2"} : BeginBaseline(id)
    \/ lockApplicationRelations \/ InspectBaseline \/ FinalInspection \/ RecordBaseline
    \/ AbandonBaseline
    \/ BeginInspection \/ LockRelations \/ CompareBaseline \/ FirstQueued
    \/ compareFreshPlanningSchema \/ SecondQueued \/ CommitInspection \/ AbandonInspection
    \/ \E m \in Migrations, policy \in Policies : IssuePlan(m, policy)

ExpansionSpec == ExpansionInit /\ [][ExpansionNext]_expansionVars

-----------------------------------------------------------------------------
(* What PostgreSQL does with the statements of a plan.                       *)

Accepts(cat, step) ==
    CASE step.sql = "" -> TRUE
      [] step.sql = "create_table" -> cat.create /\ step.name \notin DOMAIN cat.tables
      [] step.sql = "add_column" ->
            /\ step.table \in DOMAIN cat.tables /\ cat.tables[step.table].alter
            /\ step.name \notin DOMAIN cat.tables[step.table].cols
      [] step.sql = "add_check" ->
            /\ step.table \in DOMAIN cat.tables /\ cat.tables[step.table].alter
            /\ step.column \in DOMAIN cat.tables[step.table].cols
            /\ step.name \notin cat.tables[step.table].checks

NewTable == [cols |-> <<>>, alter |-> TRUE, part |-> FALSE, rows |-> 0, bytes |-> 0,
             indexes |-> <<>>, checks |-> {}]

Applied(cat, step) ==
    CASE step.sql = "" -> cat
      [] step.sql = "create_table" -> [cat EXCEPT !.tables = @ @@ (step.name :> NewTable)]
      [] step.sql = "add_column" ->
            [cat EXCEPT !.tables[step.table].cols = @ @@ (step.name :> [type |-> step.type, null |-> TRUE])]
      [] step.sql = "add_check" -> [cat EXCEPT !.tables[step.table].checks = @ \cup {step.name}]

\* The catalogues before the first step, after it, and so on.
RECURSIVE Expanded(_, _)
Expanded(cat, steps) ==
    IF steps = <<>> THEN <<cat>>
    ELSE <<cat>> \o (IF Accepts(cat, Head(steps)) THEN Expanded(Applied(cat, Head(steps)), Tail(steps)) ELSE <<>>)

\* What a step promises of the schema it leads to, and what its backfill will need there.
Kept(cat, step) ==
    /\ step.sql = "create_table" => step.name \in DOMAIN cat.tables
    /\ step.sql = "add_column" =>
          /\ step.name \in DOMAIN cat.tables[step.table].cols
          /\ cat.tables[step.table].cols[step.name].type = step.type
    /\ step.sql = "add_check" => step.name \in cat.tables[step.table].checks
    /\ step.source # None => validateExpressionColumns(step.source, cat.tables[step.table])
    /\ step.order # <<>> =>
          \E i \in DOMAIN cat.tables[step.table].indexes :
              LET index == cat.tables[step.table].indexes[i]
              IN  index.unique /\ index.sound /\ index.columns = step.order

\* Everything the previous version of the application uses is still there, unchanged.
Preserves(from, to) ==
    \A t \in DOMAIN from.tables :
        /\ t \in DOMAIN to.tables
        /\ \A c \in DOMAIN from.tables[t].cols :
              c \in DOMAIN to.tables[t].cols /\ to.tables[t].cols[c] = from.tables[t].cols[c]
        /\ to.tables[t].indexes = from.tables[t].indexes

\* When a plan is issued (IssuePlan; plan.go Build and VerifyTrusted after live.go's last
\* comparison), PostgreSQL would accept every step on the schema the database has, each step
\* makes what it promises, every backfill it hands over has its source column and its unique
\* key, and nothing the previous version uses is touched.
\* (Two operations that add one column each pass on their own and are left out.)
Separate(steps) ==
    \A i, j \in DOMAIN steps : i # j /\ steps[i].sql = "add_column" =>
        <<steps[i].table, steps[i].name>> # <<steps[j].table, steps[j].name>>
PlanFits ==
    planner.pc # "issued" /\ planner'.pc = "issued" /\ Separate(planner'.steps) =>
        LET cats == Expanded(live, planner'.steps)
        IN  /\ Len(cats) = Len(planner'.steps) + 1
            /\ \A i \in DOMAIN planner'.steps : Kept(Last(cats), planner'.steps[i])
            /\ Preserves(live, Last(cats))

\* When a baseline is recorded (metadata.go BaselineWithHooks), it shows every table that was
\* there when the call listed the relations as it is at that moment, and no call replaces one.
BaselineTrue ==
    store'.baselines # store.baselines /\ store'.version = store.version =>
        /\ store.baselines = {}
        /\ \A t \in recorder.names, b \in store'.baselines :
              /\ t \in DOMAIN live.tables
              /\ b.cat.tables[t] = live.tables[t]

ExpandFits == [][PlanFits /\ BaselineTrue]_expansionVars
=============================================================================
