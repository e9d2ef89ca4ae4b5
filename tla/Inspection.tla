----------------------------- MODULE Inspection ------------------------------
(***************************************************************************)
(* How inspect.go makes a document of the catalogue: one step per kind, in  *)
(* the order of inspectSnapshot, each seeing the resources of the steps     *)
(* before it, since a dependency is recorded only on a resource that is     *)
(* known already.  Rows are read in one snapshot.                           *)
(***************************************************************************)
EXTENDS Catalogue

(* Dependencies of one type on those of the identities that are known.      *)
Known(doc, type, ids) == {<<type, i>> : i \in ids \cap Ids(doc)}

Resource(x, deps) == [x EXCEPT !.deps = deps]

(* Rows of a kind whose container was recorded.                             *)
Within(rows, doc, kinds) == {x \in Of(rows, kinds) : x.parent \in Ids(doc)}

Contained(x) == {<<"contains", x.parent>>}

(* Owners are read when roles are.                                          *)
Owned(x, advanced) == IF advanced THEN x ELSE [x EXCEPT !.owner = ""]

appendDependency(doc, edges) ==
    {Resource(r, r.deps \cup {e[2] : e \in {x \in edges : x[1] = StableID(r)}}) : r \in doc}

(* The identities named at positions of a definition.                       *)
At(x, positions) == {n[2] : n \in {m \in Names(x) : m[1] \in positions}}

-----------------------------------------------------------------------------
inspectSchemas(rows, doc, advanced) == doc \cup {Owned(x, advanced) : x \in Of(rows, {"schema"})}

inspectExtensions(rows, doc, advanced) ==
    doc \cup {Resource(Owned(x, advanced), Contained(x)) : x \in Within(rows, doc, {"extension"})}

inspectTypes(rows, doc, advanced) ==
    doc \cup {Resource(Owned(x, advanced), Contained(x)) : x \in Within(rows, doc, {"enum"})}

inspectSequences(rows, doc, advanced) ==
    doc \cup {Resource(Owned(x, advanced), Contained(x)) : x \in Within(rows, doc, {"sequence"})}

inspectRelations(rows, doc, advanced) ==
    doc \cup {Resource(Owned(x, advanced), Contained(x)) : x \in Within(rows, doc, {"table"} \cup Projections)}

(* Views reference relations; the columns they read are not recorded.       *)
inspectRelationDependencies(rows, doc) ==
    appendDependency(doc, UNION {{<<StableID(x), d>> : d \in Known(doc, "references", At(x, {1}))}
                                    : x \in Of(rows, Projections)})

(* Ordinals count the columns that are there.                               *)
inspectColumns(rows, doc) ==
    doc \cup {[x EXCEPT !.ord = Cardinality({c \in Of(rows, {"column"}) : c.parent = x.parent /\ c.ord <= x.ord}),
                        !.deps = Contained(x) \cup Known(doc, "uses", At(x, {1}))]
                : x \in Within(rows, doc, {"column"})}

\* Mutant: the sequence behind a default is not looked up.
inspectColumnDefaultDependenciesNone(rows, doc) == doc

inspectColumnDefaultDependencies(rows, doc) ==
    appendDependency(doc, UNION {{<<StableID(x), d>> : d \in Known(doc, "references", At(x, {2}))}
                                    : x \in Of(rows, {"column"})})

(* A foreign key references its columns, the table with its columns and the  *)
(* key behind them.                                                         *)
inspectConstraints(rows, doc) ==
    LET constraints == Within(rows, doc, {"unique_constraint", "foreign_key"})
        keys(x) == IF x.kind = "foreign_key" THEN {CHOOSE k \in Keys(rows, x) : TRUE} \cap Ids(constraints) ELSE {}
    IN  doc \cup {Resource(x, Contained(x) \cup Known(doc, "references", At(x, 1..3))
                              \cup {<<"references", k>> : k \in keys(x)}) : x \in constraints}

inspectIndexes(rows, doc) ==
    doc \cup {Resource(x, Contained(x) \cup Known(doc, "references", At(x, {1}))) : x \in Within(rows, doc, {"index"})}

(* The owner of a routine is read in any case.                              *)
inspectRoutines(rows, doc) ==
    doc \cup {Resource(x, Contained(x)) : x \in Within(rows, doc, {"function"})}

inspectTriggers(rows, doc) ==
    doc \cup {Resource(x, Contained(x) \cup Known(doc, "references", At(x, {1}))) : x \in Within(rows, doc, {"trigger"})}

inspectRoles(rows, doc) == doc \cup Of(rows, {"role"})

inspectMemberships(rows, doc) ==
    doc \cup {Resource(x, Known(doc, "references", Named(x))) :
                x \in {m \in Of(rows, {"membership"}) : Named(m) \subseteq Ids(doc)}}

(* A policy that parsePolicy cannot resolve keeps its containment only.     *)
inspectPolicies(rows, doc) ==
    doc \cup {Resource(x, Contained(x) \cup
                  IF Named(x) \subseteq Ids(doc) THEN Known(doc, "references", At(x, {2, 3})) ELSE {})
                : x \in Within(rows, doc, {"policy"})}

inspectGrants(rows, doc) ==
    doc \cup {Resource(x, Known(doc, "references", Named(x))) : x \in Within(rows, doc, {"grant"})}

inspectDefaultPrivileges(rows, doc) ==
    doc \cup {Resource(x, Known(doc, "references", Named(x))) : x \in Of(rows, {"default_privilege"})}

-----------------------------------------------------------------------------
(* Members of an extension are left out, unless something else depends on   *)
(* them; then they stay with an edge to the extension, and what depends on  *)
(* them has one too.                                                        *)
inspectExtensionOwnership(rows, doc) ==
    LET extension(x) == {StableID(e) : e \in {y \in Of(doc, {"extension"}) :
                            x.kind = "function" /\ y.name = x.def[2] /\ y.parent = x.parent}}
        direct == {x \in doc : extension(x) # {}}
        members == Closure(Ids(direct), {<<r.parent, StableID(r)>> : r \in doc})
        lifted == UNION {{<<StableID(r), <<"references", e>>>> :
                            e \in UNION {extension(x) : x \in {y \in direct : StableID(y) \in Targets(r)}}}
                            : r \in {x \in doc : StableID(x) \notin members /\ x.kind = "trigger"}}
        keep == UNION {Targets(r) \cap members : r \in {x \in doc : StableID(x) \notin members}}
        owned == UNION {{<<StableID(x), <<"owns", e>>>> : e \in extension(x)} : x \in direct}
    IN  {r \in appendDependency(doc, lifted \cup owned) : StableID(r) \notin members \ keep}

attachOwnerDependencies(doc, advanced) ==
    appendDependency(doc, {<<StableID(r), <<"owns", RoleOf(r.owner)>>>> :
                                r \in {x \in doc : advanced /\ x.owner # "" /\ RoleOf(x.owner) \in Ids(doc)}})

(* What is eligible, matches and hangs together is kept; edges to what is    *)
(* not are dropped.  Patterns are the identities they match; an empty set   *)
(* of schemas or of includes selects everything.                            *)
filterDocument(doc, o) ==
    LET space(r) == IF r.kind = "schema" THEN StableID(r) ELSE IF r.parent = <<>> THEN <<>> ELSE Namespace(r)
        eligible == {StableID(r) : r \in {x \in doc :
                        /\ StableID(x) \notin o.omit
                        /\ o.schemas # {} /\ space(x) # <<>> => space(x) \in o.schemas}}
        seeds == IF o.only = {} THEN eligible ELSE eligible \cap o.only
        children == {<<r.parent, StableID(r)>> : r \in {x \in doc : StableID(x) \in eligible}}
        needs == UNION {{<<StableID(r), d>> : d \in Needs(r) \cap eligible} : r \in doc}
        keep == Closure(Closure(seeds, children), needs)
    IN  {Resource(r, {d \in r.deps : d[2] \in keep}) :
            r \in {x \in doc : StableID(x) \in keep /\ (x.parent # <<>> => x.parent \in keep)}}

(* o: [roles, policies, grants, schemas, only, omit]; what is not asked for   *)
(* is not read.                                                             *)
inspectSnapshot(rows, o) ==
    LET read(asked) == IF asked THEN rows ELSE {}
        s1 == inspectSchemas(rows, {}, o.roles)
        s2 == inspectTypes(rows, inspectExtensions(rows, s1, o.roles), o.roles)
        s3 == inspectRelations(rows, inspectSequences(rows, s2, o.roles), o.roles)
        s4 == inspectColumns(rows, inspectRelationDependencies(rows, s3))
        s5 == inspectConstraints(rows, inspectColumnDefaultDependencies(rows, s4))
        s6 == inspectTriggers(rows, inspectRoutines(rows, inspectIndexes(rows, s5)))
        s7 == inspectMemberships(read(o.roles), inspectRoles(read(o.roles), s6))
        s8 == inspectPolicies(read(o.policies), s7)
        s9 == inspectDefaultPrivileges(read(o.grants), inspectGrants(read(o.grants), s8))
    IN  filterDocument(attachOwnerDependencies(inspectExtensionOwnership(rows, s9), o.roles), o)
=============================================================================
