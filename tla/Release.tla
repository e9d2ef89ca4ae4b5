------------------------------ MODULE Release -------------------------------
(***************************************************************************)
(* Releases of a declared schema: "operator artifact publish" plans the     *)
(* way from the production database to a document and signs it; the         *)
(* operator, which has the document in a resource, makes the plan again and *)
(* lets the executor run the signed one if the two agree, or adopts a       *)
(* database that needs no plan.  Each of the three inspects the database on *)
(* its own; meanwhile others may change it.  Digests are the values they    *)
(* cover.                                                                   *)
(*                                                                         *)
(* Releases that create a database are planned in Authorization.            *)
(***************************************************************************)
EXTENDS PlanBuild, Inspection

CONSTANTS Catalogues,   \* what others may make of the database
          Documents,    \* the documents a source may hold
          Configs,      \* [schemas, suppressed, concurrent] of a publisher
          Blank,        \* the options of a plan that authorize nothing
          MaxDrift

VARIABLES live,         \* the catalogue of the production database
          release,      \* the release bundle; NoRelease
          spec,         \* the resource: [desired, concurrent, adopt]; Undeclared
          work,         \* what the operator is at: [status, pos, seen]
          locks,        \* relations locked by the transaction of an adoption
          drift         \* changes by others since the release

releaseVars == <<live, release, spec, work, locks, drift>>

-----------------------------------------------------------------------------
AdvancedKinds == {"role", "grant", "membership", "default_privilege"}

RoleTargets(r) == {i \in Targets(r) : i[1] = "role"}

managedAdvancedResourceIDs(doc) ==
    {StableID(r) : r \in {x \in doc : x.kind \in AdvancedKinds \/ RoleTargets(x) # {}}}

managedRoleDependencies(r, ids) == RoleTargets(r) \subseteq ids

mergeManagedAdvancedResources(base, advanced, ids) ==
    LET chosen == {r \in advanced : StableID(r) \in ids /\ managedRoleDependencies(r, ids)}
    IN  {r \in base : StableID(r) \notin Ids(chosen)} \cup chosen

Scope(schemas, advanced) ==
    [roles |-> advanced, policies |-> TRUE, grants |-> advanced, schemas |-> schemas, only |-> {}, omit |-> {}]

(* Without anything advanced to manage, roles are not read.                 *)
InspectManaged(rows, schemas, managed) ==
    LET ids == managedAdvancedResourceIDs(managed)
        base == inspectSnapshot(rows, Scope(schemas, FALSE))
    IN  IF ids = {} THEN base
        ELSE mergeManagedAdvancedResources(base, inspectSnapshot(rows, Scope(schemas, TRUE)), ids)

BookkeepingTableName == "history"

\* Mutant: what the executor keeps in the database counts.
ExcludeBookkeepingNot(doc) == doc

ExcludeBookkeeping(doc) ==
    LET tables == {StableID(r) : r \in {x \in doc : x.kind = "table" /\ x.name = BookkeepingTableName}}
        removed == Closure(tables, {<<r.parent, StableID(r)>> : r \in doc})
    IN  {r \in doc : StableID(r) \notin removed}

(* The schemas a document names.                                            *)
adoptionSchemas(doc) ==
    {StableID(r) : r \in Of(doc, {"schema"})} \cup {Namespace(r) : r \in {x \in doc : x.parent # <<>>}}

-----------------------------------------------------------------------------
operatorBootstrapRenderOptions(concurrent) == [Blank EXCEPT !.concurrent = concurrent]

OperatorDeclarativeArtifactRender(doc, base) ==
    [base EXCEPT !.reviewed = {r.def[1] : r \in Of(doc, {"function"})},
                 !.extensions = {r.name : r \in Of(doc, {"extension"})}]

(* Columns whose removal was excused by a suppression.                      *)
approvedOperatorDroppedColumns(current, desired, suppressed) ==
    {i \in suppressed : i \in Ids(Of(current, {"column"})) \ Ids(desired)}

Approving(options, drops) == [options EXCEPT !.approved = drops]

(* What the digest of a plan covers.                                        *)
PlanOf(current, desired, options) ==
    [from |-> current, to |-> desired,
     steps |-> BuildPlan([current |-> current, desired |-> desired, options |-> options])]

IsPlan(p) == p.steps # RefusedPlan

RunAll(rows, steps) ==
    FoldLeft(LAMBDA acc, s : IF acc = Failed THEN Failed ELSE Run(acc, s.st), rows, steps)

operatorRequiredOwnerRoles(desired) ==
    {r.owner : r \in desired} \ ({""} \cup {r.name : r \in Of(desired, {"role"})})

(* The scratch database of a simulation, with the current document made in   *)
(* it.  A schema "public" is there before.                                  *)
materializeOperatorCurrent(current, desired, options) ==
    LET public == {[r EXCEPT !.def = <<>>, !.owner = "", !.deps = {}] :
                      r \in {x \in current : x.kind = "schema" /\ x.name = "public"}}
        roles == {[NoResource EXCEPT !.kind = "role", !.name = n, !.def = <<"plain", "">>] :
                      n \in operatorRequiredOwnerRoles(desired)}
        p == PlanOf(public, current, options)
    IN  IF IsPlan(p) THEN RunAll(public \cup roles, p.steps) ELSE Failed

(* The plan is tried on a copy, and must lead to the document.              *)
Simulated(p, options) ==
    \E render \in {OperatorDeclarativeArtifactRender(p.from, options)} :
    \E start \in {materializeOperatorCurrent(p.from, p.to, render)} \ {Failed} :
    \E end \in {RunAll(start, p.steps)} \ {Failed} :
        InspectManaged(end, adoptionSchemas(p.to), p.to) = p.to

NoRelease == [mode |-> "none"]

(* An adoption is planned without the database: from the document to itself. *)
BuildOperatorArtifact(mode, config, current, desired) ==
    \E from \in {IF mode = "adopt" THEN desired ELSE current} :
    \E drops \in {approvedOperatorDroppedColumns(from, desired, config.suppressed)} :
    \E options \in {Approving(OperatorDeclarativeArtifactRender(desired,
                                   operatorBootstrapRenderOptions(config.concurrent)), drops)} :
    \E p \in {PlanOf(from, desired, options)} :
        /\ IsPlan(p) /\ Simulated(p, options)
        /\ release' = [mode |-> mode, plan |-> p, drops |-> drops, schemas |-> config.schemas]

validateOperatorPublishConfig(config, desired) == Ids(Of(desired, {"schema"})) \subseteq config.schemas

(* One release is published in a behaviour.                                 *)
runOperatorArtifactPublish(mode, config, desired) ==
    /\ release = NoRelease
    /\ validateOperatorPublishConfig(config, desired)
    /\ \E found \in {InspectManaged(live, config.schemas, desired)} :
       \E current \in {ExcludeBookkeeping(found)} :
          BuildOperatorArtifact(mode, config, current, desired)
    /\ drift' = 0
    /\ UNCHANGED <<live, spec, work, locks>>

-----------------------------------------------------------------------------
Undeclared == [adopt |-> FALSE]

(* External: a user makes the resource that refers to the release, with a    *)
(* document that need not be the one it was made from.                      *)
Declare ==
    /\ release # NoRelease /\ spec = Undeclared
    /\ spec' \in [desired: Documents, concurrent: BOOLEAN, adopt: BOOLEAN]
    /\ UNCHANGED <<live, release, work, locks, drift>>

Idle == [status |-> "idle", pos |-> 0, seen |-> {}]

Now(status) == work' = [work EXCEPT !.status = status]

End(status) == work' = [status |-> status, pos |-> 0, seen |-> live']

(* The plan the operator makes of the database and the resource.            *)
Regenerated(drops) ==
    {PlanOf(current, spec.desired, options) :
        current \in {ExcludeBookkeeping(InspectManaged(live, adoptionSchemas(spec.desired), spec.desired))},
        options \in {Approving(OperatorDeclarativeArtifactRender(spec.desired,
                                   operatorBootstrapRenderOptions(spec.concurrent)), drops)}}

declarativeTargetMatchesSignedGoal(target, desired, approved) == target = approved.to /\ desired = approved.to

verifyDeclarativeResource ==
    /\ spec # Undeclared /\ ~spec.adopt /\ work.status = "idle"
    /\ UNCHANGED <<live, release, spec, locks, drift>>
    /\ \E p \in Regenerated(release.drops) :
          IF \/ IsPlan(p) /\ p = release.plan
             \/ declarativeTargetMatchesSignedGoal(p.from, spec.desired, release.plan)
          THEN Now("verified") ELSE End("unmatched")

(* The executor's own look at the database, in its lock.                    *)
StateOf(rows) == ExcludeBookkeeping(InspectManaged(rows, release.schemas, release.plan.to))

(* What the executor writes about itself.                                   *)
History == [NoResource EXCEPT !.kind = "table", !.name = BookkeepingTableName, !.parent = <<"schema", <<>>, "s">>,
                              !.def = <<"off", "off">>]

\* Mutant: the executor goes by the verification before.
CheckStateTrusting ==
    /\ work.status = "verified"
    /\ IF release.plan.steps = <<>> \/ StateOf(live) = release.plan.to
       THEN live' = live /\ End("no_op")
       ELSE live' = live \cup {History} /\ Now("running")
    /\ UNCHANGED <<release, spec, locks, drift>>

CheckState ==
    /\ work.status = "verified"
    /\ CASE StateOf(live) = release.plan.to   -> live' = live /\ End("no_op")
         [] StateOf(live) = release.plan.from -> live' = live \cup {History} /\ Now("running")
         [] OTHER                             -> live' = live /\ End("changed")
    /\ UNCHANGED <<release, spec, locks, drift>>

(* The steps of the phase that begins at "pos": those to run in one          *)
(* transaction, or one that must run outside.                               *)
PhaseEnd(steps, pos) ==
    IF steps[pos + 1].mode = "prohibited" THEN pos + 1
    ELSE CHOOSE e \in (pos + 1)..Len(steps) :
            /\ \A k \in (pos + 1)..e : steps[k].mode # "prohibited"
            /\ e < Len(steps) => steps[e + 1].mode = "prohibited"

(* The last step is confirmed by the state it leaves.  A transaction that    *)
(* fails leaves nothing, a statement outside one does.                      *)
RunPhase ==
    /\ work.status = "running"
    /\ LET steps == release.plan.steps
           e == PhaseEnd(steps, work.pos)
       IN  \E after \in {RunAll(live, SubSeq(steps, work.pos + 1, e))} :
           \E good \in {after # Failed /\ (e = Len(steps) => StateOf(after) = release.plan.to)} :
           /\ live' = IF good \/ (after # Failed /\ steps[e].mode = "prohibited") THEN after ELSE live
           /\ IF ~good THEN End("failed")
              ELSE IF e = Len(steps) THEN End("applied")
              ELSE work' = [work EXCEPT !.pos = e]
    /\ UNCHANGED <<release, spec, locks, drift>>

-----------------------------------------------------------------------------
requireNoOpAdoptionPlan(p) == p.from = p.to /\ p.steps = <<>>

(* LOCK TABLE takes no materialized views.                                  *)
lockAdoptionRelations(rows, schemas) ==
    {StableID(x) : x \in {r \in Of(rows, {"table", "view"}) : r.parent \in schemas}}

BeginAdoption ==
    /\ spec # Undeclared /\ spec.adopt /\ work.status = "idle"
    /\ UNCHANGED <<live, release, spec, drift>>
    /\ IF requireNoOpAdoptionPlan(release.plan)
       THEN locks' = lockAdoptionRelations(live, adoptionSchemas(spec.desired)) /\ Now("locked")
       ELSE End("unmatched") /\ UNCHANGED locks

(* buildAdoptionPlan, twice in one transaction.                             *)
InspectAdoption(before, next) ==
    /\ work.status = before
    /\ UNCHANGED <<live, release, spec, drift>>
    /\ \E p \in Regenerated({}) :
          IF IsPlan(p) /\ p = release.plan /\ requireNoOpAdoptionPlan(p) THEN Now(next) /\ UNCHANGED locks
          ELSE End("unmatched") /\ locks' = {}

CommitAdoption ==
    /\ work.status = "inspected"
    /\ UNCHANGED <<live, release, spec, drift>>
    /\ End("adopted") /\ locks' = {}

verifyAdoptionResource ==
    \/ BeginAdoption \/ InspectAdoption("locked", "compared") \/ InspectAdoption("compared", "inspected")
    \/ CommitAdoption

-----------------------------------------------------------------------------
(* A relation is locked against what needs it for itself; indexes, triggers, *)
(* foreign keys and grants are made beside readers.                         *)
Unlocked(rows) ==
    \A i \in locks : LET part(s) == {x \in s : StableID(x) = i \/ x.parent = i}
                     IN  /\ part(live) \subseteq part(rows)
                         /\ \A x \in part(rows) \ part(live) : x.kind \in {"index", "trigger", "foreign_key", "grant"}

Drift ==
    /\ release # NoRelease /\ drift < MaxDrift
    /\ \E rows \in Catalogues :
          LET all == rows \cup (live \cap {History})
          IN  Unlocked(all) /\ all # live /\ live' = all
    /\ drift' = drift + 1
    /\ UNCHANGED <<release, spec, work, locks>>

(* The outcome is recorded; the resource may be reconciled again.           *)
Settle ==
    /\ work.status \in {"unmatched", "no_op", "changed", "failed", "applied", "adopted"}
    /\ work' = Idle
    /\ UNCHANGED <<live, release, spec, locks, drift>>

ReleaseInit ==
    /\ live \in Catalogues \cup {rows \cup {History} : rows \in Catalogues}
    /\ release = NoRelease /\ work = Idle /\ locks = {} /\ drift = 0
    /\ spec = Undeclared

ReleaseNext ==
    \/ \E mode \in {"transition", "adopt"}, config \in Configs, desired \in Documents :
          runOperatorArtifactPublish(mode, config, desired)
    \/ Declare \/ verifyDeclarativeResource \/ CheckState \/ RunPhase
    \/ verifyAdoptionResource \/ Drift \/ Settle

-----------------------------------------------------------------------------
(* A release is good for what it was made from: the operator, with the same   *)
(* document and schemas, refuses it only when someone changed the database   *)
(* after it was published, and its steps then run to their end.  The         *)
(* publisher, the operator and the executor inspect and plan on their own    *)
(* and must come to the same plan (BuildOperatorArtifact,                    *)
(* verifyDeclarativeResource, ExcludeBookkeeping; operator_artifact.go: "the *)
(* plan digest stops matching what the operator recomputes at apply time").  *)
ReleaseApplies ==
    work.status \in {"unmatched", "changed", "failed"} /\ ~spec.adopt /\ release.mode = "transition" =>
        \/ drift > 0
        \/ spec.desired # release.plan.to
        \/ release.schemas # adoptionSchemas(spec.desired)
        \/ \E s \in ToSet(release.plan.steps) :
              Subject(s.change).kind = "index" /\ (s.mode = "prohibited") # spec.concurrent

(* What the operator reports is so: after "applied" or "no_op" the database   *)
(* is as the resource says, whoever changed it in between, and after         *)
(* "adopted" no relation of the document was touched up to the commit        *)
(* (CheckState, RunPhase; apply.go: "ACCESS SHARE locks fence DDL against     *)
(* every existing selected relation through the final catalog inspection     *)
(* and transaction commit").                                                *)
ReportTrue ==
    LET found == ExcludeBookkeeping(InspectManaged(work.seen, adoptionSchemas(spec.desired), spec.desired))
    IN  /\ work.status \in {"applied", "no_op"} => found = spec.desired
        /\ work.status = "adopted" =>
              {r \in spec.desired : r.kind \in {"table", "view"} \/ (r.kind = "column" /\ r.parent[1] # "materialized_view")}
                  \subseteq found
=============================================================================
