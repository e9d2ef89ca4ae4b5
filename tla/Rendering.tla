------------------------------ MODULE Rendering ------------------------------
(***************************************************************************)
(* The statements that render.go makes of a change set, and the transitions *)
(* it refuses.  "def" holds what the rows of Catalogue hold.  A column      *)
(* below a view is one of its output columns.  SQL text is left out: a      *)
(* statement is a verb with the resource before and after.                  *)
(*                                                                         *)
(* options: [include, exclude, hints, order: of the difference;             *)
(*   approved: columns whose drop is approved;  rebuild, concurrent: of     *)
(*   indexes, views, constraints and triggers;  escalate: roles may be      *)
(*   superusers;  admin: memberships may have the admin option;  reassign:  *)
(*   pairs of a role to drop and its heir;  extensions: what may be         *)
(*   installed, and untrusted: also without being trusted;  uninstall:      *)
(*   extensions may be dropped;  reviewed: bodies of routines that were     *)
(*   reviewed]                                                             *)
(***************************************************************************)
EXTENDS SchemaDiff

IsView(kind) == kind \in {"view", "materialized_view"}

Columns(doc, parent) == {r \in doc : r.kind = "column" /\ r.parent = parent}

(* Columns of a parent in the order of their ordinals.                     *)
Ordered(doc, parent) == SetToSortSeq(Columns(doc, parent), LAMBDA a, b : a.ord < b.ord)

SchemaOf(r) == IF r.parent = <<>> THEN <<>> ELSE IF r.parent[1] = "schema" THEN r.parent ELSE r.parent[2]

(* The identity a name in the definition of r stands for.                   *)
SchemaObject(r, kind, name) == <<kind, SchemaOf(r), name>>

roleOwnerDependency(name) == <<"role", <<>>, name>>

protectedRole(name) == name \in {"postgres", "public"}

-----------------------------------------------------------------------------
(* What the parsed definition of a resource depends on.  A lookup that fails *)
(* in the code gives an identity that is not in the document here.          *)
viewExpectedDependencies(r) == {SchemaObject(r, "table", r.def[1])}

(* A key is looked up by its columns; of several, the declared one counts.   *)
ReferencedKey(r, doc) ==
    LET keys == {k \in doc : /\ k.kind = "unique_constraint" /\ k.parent = SchemaObject(r, "table", r.def[2])
                              /\ k.def[1] = r.def[3]}
        declared == Ids(keys) \cap Targets(r)
    IN  IF declared # {} THEN CHOOSE i \in declared : TRUE
        ELSE IF Cardinality(keys) = 1 THEN CHOOSE i \in Ids(keys) : TRUE ELSE <<>>

constraintIndexExpectedDependencies(r, doc) ==
    {r.parent, <<"column", r.parent, r.def[1]>>} \cup
    IF r.kind # "foreign_key" THEN {}
    ELSE LET table == SchemaObject(r, "table", r.def[2])
         IN  {table, <<"column", table, r.def[3]>>, ReferencedKey(r, doc)}

triggerExpectedDependencies(r) == {r.parent, SchemaObject(r, "function", r.def[1])}

policyExpectedDependencies(r) ==
    {r.parent, <<"column", r.parent, r.def[3]>>}
    \cup (IF r.def[2] = "public" THEN {} ELSE {roleOwnerDependency(r.def[2])})

(* Dependencies on extensions are not looked at.                            *)
Declared(r, types) == {d[2] : d \in {x \in r.deps : x[1] \in types /\ x[2][1] # "extension"}}

Exactly(r, types, expected, doc) == expected \subseteq Ids(doc) /\ Declared(r, types) = expected

validateSemanticDependencies(r, doc) ==
    CASE IsView(r.kind) -> Exactly(r, {"references", "uses"}, viewExpectedDependencies(r), doc)
      [] r.kind = "function" -> Declared(r, {"uses"}) = {}
      [] r.kind = "column" /\ r.parent[1] = "table" ->
            Declared(r, {"uses"}) = {SchemaObject(r, "enum", r.def[1])} \cap Ids(doc)
      [] r.kind \in {"unique_constraint", "foreign_key", "index"} ->
            Exactly(r, {"contains", "references"}, constraintIndexExpectedDependencies(r, doc), doc)
      [] r.kind = "trigger" -> Exactly(r, {"contains", "references"}, triggerExpectedDependencies(r), doc)
      [] r.kind = "policy" -> Exactly(r, {"contains", "references"}, policyExpectedDependencies(r), doc)
      [] OTHER -> TRUE

validateOwnerDependency(r) ==
    LET owners == {i \in Declared(r, {"owns"}) : i[1] = "role"}
    IN  CASE r.kind = "default_privilege" -> TRUE
          [] r.owner = "" -> owners = {}
          [] r.kind = "function" /\ owners = {} -> TRUE
          [] OTHER -> owners = {roleOwnerDependency(r.owner)}

(* Where a resource may be, and what it may depend on.                      *)
validateCanonicalIdentity(r) ==
    LET types(t) == {d \in r.deps : d[1] = t /\ d[2][1] # "extension"}
    IN  CASE r.kind = "schema" -> r.parent = <<>> /\ types("owns") = r.deps
          [] r.kind = "role" -> r.parent = <<>> /\ r.deps = {}
          [] r.kind = "membership" -> r.parent = <<>>
          [] r.kind = "grant" -> r.parent # <<>>
          [] r.kind \in {"extension", "table", "view", "materialized_view", "enum", "sequence"} ->
                /\ r.parent[1] = "schema" /\ types("contains") = {<<"contains", r.parent>>}
                /\ ~IsView(r.kind) => types("references") = {} /\ types("uses") = {}
          [] r.kind = "column" ->
                /\ r.parent[1] = "table" \/ IsView(r.parent[1])
                /\ types("contains") = {<<"contains", r.parent>>} /\ types("owns") = {}
                /\ \A d \in types("references") : d[2][1] = "sequence"
          [] r.kind = "policy" -> r.parent[1] = "table"
          [] OTHER -> TRUE

-----------------------------------------------------------------------------
(* A view's output columns are the columns it reads, in that order.        *)
validateProjectionShape(view, doc) ==
    LET outputs == Ordered(doc, StableID(view))
        table == SchemaObject(view, "table", view.def[1])
    IN  /\ table \in Ids(doc) /\ outputs # <<>> /\ Len(outputs) = Len(view.def) - 1
        /\ \A k \in 1..Len(outputs) :
              /\ outputs[k].name = view.def[k + 1] /\ outputs[k].ord = k /\ outputs[k].def[3] = "null"
              /\ \E c \in Columns(doc, table) : c.name = outputs[k].name /\ c.def[1] = outputs[k].def[1]

validateCoreColumnOrdinals(doc) ==
    \A t \in {r \in doc : r.kind = "table"} :
        {c.ord : c \in Columns(doc, StableID(t))} = 1..Cardinality(Columns(doc, StableID(t)))

(* A type that is not declared is one of the core.                          *)
validateCoreColumnType(r) ==
    (\A d \in r.deps : d[1] # "uses") => r.def[1] \in {"smallint", "integer", "bigint"}

(* A default that draws from a sequence needs the edge to it, on a core type. *)
validateColumnDefault(r) ==
    r.def[2] # "" => /\ <<"references", SchemaObject(r, "sequence", r.def[2])>> \in r.deps
                     /\ \A d \in r.deps : d[1] # "uses"

validateRoleSpec(r, options) ==
    ~protectedRole(r.name) /\ (r.def[1] = "superuser" => options.escalate)

(* Access resources reference exactly their target and the declared roles.   *)
RolesIn(names) == {roleOwnerDependency(n) : n \in {x \in names : ~protectedRole(x)}}

References(r, expected, doc) == expected \subseteq Ids(doc) /\ r.deps = {<<"references", i>> : i \in expected}

validateMembershipSpec(r, doc, options) ==
    /\ r.def[1] # r.def[2] /\ ~protectedRole(r.def[1]) /\ ~protectedRole(r.def[2])
    /\ r.def[3] = "admin" => options.admin
    /\ References(r, RolesIn({r.def[1], r.def[2]}), doc)

parseGrant(r, doc) == References(r, {r.parent} \cup RolesIn({r.def[1]}), doc)

parseDefaultPrivilege(r, doc) == References(r, RolesIn({r.def[1], r.def[2]}), doc)

validateMembershipCycles(doc) ==
    LET edges == {<<m.def[2], m.def[1]>> : m \in {r \in doc : r.kind = "membership"}}
    IN  \A e \in edges : e[1] \notin Closure({e[2]}, edges)

(* Only extensions on the list are installed or updated.                    *)
validateExtensionOptions(r, options) ==
    r.name \in options.extensions /\ (r.def[2] = "untrusted" => options.untrusted)

validateSpec(r, doc, options) ==
    CASE r.kind = "extension"         -> validateExtensionOptions(r, options)
      [] r.kind = "enum"              -> r.def # <<>>
      [] r.kind = "column"            -> validateCoreColumnType(r) /\ validateColumnDefault(r)
      [] r.kind = "role"              -> validateRoleSpec(r, options)
      [] r.kind = "membership"        -> validateMembershipSpec(r, doc, options)
      [] r.kind = "grant"             -> parseGrant(r, doc)
      [] r.kind = "default_privilege" -> parseDefaultPrivilege(r, doc)
      [] OTHER                        -> TRUE

(* What a change touches, along references and uses in both directions.     *)
defaultRenderScope(current, desired, changes) ==
    LET edges == UNION {{<<StableID(r), d[2]>> : d \in {x \in r.deps : x[1] \in {"uses", "references"}}}
                            : r \in current \cup desired}
    IN  Closure(UNION {{StableID(r) : r \in {c.before, c.after} \ {NoResource}} : c \in changes},
                edges \cup {<<e[2], e[1]>> : e \in edges})

validateManagedDocuments(current, desired, changes, options) ==
    LET scope == defaultRenderScope(current, desired, changes)
    IN  /\ \A doc \in {current, desired} :
              /\ validateCoreColumnOrdinals(doc)
              /\ \A r \in doc :
                    /\ StableID(r) \in scope =>
                          /\ validateCanonicalIdentity(r)
                          /\ validateSemanticDependencies(r, doc)
                          /\ validateOwnerDependency(r)
                    /\ IsView(r.kind) => validateProjectionShape(r, doc)
        /\ \A r \in desired : StableID(r) \in scope => validateSpec(r, desired, options)
        /\ validateMembershipCycles(desired)

-----------------------------------------------------------------------------
Renames(changes, kind) ==
    {<<StableID(c.before), StableID(c.after)>> :
        c \in {x \in changes : x.op = "rename" /\ x.before.kind = kind}}

SameBut(a, b) == [a EXCEPT !.ord = 0, !.name = "", !.parent = <<>>, !.deps = {}]
                 = [b EXCEPT !.ord = 0, !.name = "", !.parent = <<>>, !.deps = {}]

columnOrdinalOnly(before, after) == before.ord # after.ord /\ SameBut(before, after)

(* PostgreSQL appends new columns: retained columns must keep their order    *)
(* and come before new ones.                                                *)
validateColumnOrdinalTransitions(current, desired, changes) ==
    LET renames == Renames(changes, "column")
        tables == Renames(changes, "table")
        want == resourceMap(desired)
        parents == {c.parent : c \in {r \in current \cup desired : r.kind = "column"}}
        target(c) == Follow(renames, StableID(c))
        achievable(p) ==
            LET kept == SelectSeq(Ordered(current, p), LAMBDA c : target(c) \in Ids(desired))
                new == SelectSeq(Ordered(desired, Follow(tables, p)),
                          LAMBDA c : StableID(c) \notin Ids(current) \cup {x[2] : x \in renames})
            IN  [k \in 1..Len(kept) |-> target(kept[k])] \o [k \in 1..Len(new) |-> StableID(new[k])]
        actual(p) == LET o == Ordered(desired, Follow(tables, p)) IN [k \in 1..Len(o) |-> StableID(o[k])]
    IN  \A p \in {x \in parents : x[1] = "table"} \ {x[2] : x \in tables} :
            /\ achievable(p) = actual(p)
            /\ \A c \in Columns(current, p) : target(c) \in Ids(desired) =>
                  /\ target(c) # StableID(c) => SameBut(c, want[target(c)])
                  /\ c.ord # want[target(c)].ord => columnOrdinalOnly(c, want[target(c)])

(* An object that is kept must not depend on a column that goes or changes   *)
(* its name.  Keys and indexes name their columns; of other objects below or *)
(* over the table it is assumed that they use the column, unless its drop is *)
(* approved.                                                                *)
MayDepend(dependent, column) ==
    LET references == {d[2] : d \in {x \in dependent.deps : x[1] = "references"}}
        exact == /\ dependent.kind \in {"unique_constraint", "foreign_key", "index"}
                 /\ \E i \in references : i[1] = "column"
    IN  \/ StableID(column) \in references
        \/ (dependent.parent = column.parent \/ column.parent \in references) /\ ~exact

validateColumnDependentTransitions(current, desired, changes, approved) ==
    \A c \in {x \in changes : x.op \in {"drop", "rename"} /\ x.before.kind = "column"} :
        \A d \in {r \in current : r.kind # "column" /\ StableID(r) \in Ids(desired)} :
            MayDepend(d, c.before) =>
                /\ c.op = "drop" /\ StableID(c.before) \in approved
                /\ <<"references", StableID(c.before)>> \notin d.deps

(* What refers to a renamed relation, or is below it and not a column, must  *)
(* be dropped.                                                              *)
validateParentRenameDependents(current, changes) ==
    LET dropped == {StableID(c.before) : c \in {x \in changes : x.op = "drop"}}
        roots == {StableID(c.before) : c \in {x \in changes :
                    x.op = "rename" /\ x.before.kind \in {"table", "schema", "view", "materialized_view"}}}
    IN  \A root \in roots :
            LET below == Closure({root}, {<<r.parent, StableID(r)>> : r \in {x \in current : x.parent # <<>>}})
            IN  \A r \in {x \in current : StableID(x) \notin dropped} :
                    /\ StableID(r) \in below \ {root} => r.kind \in {"table", "column"}
                    /\ \A d \in r.deps : d[1] = "references" => d[2] \notin below

-----------------------------------------------------------------------------
projectionSignature(doc, i) ==
    LET o == Ordered(doc, i) IN [k \in 1..Len(o) |-> <<o[k].name, o[k].def>>]

(* Alterations of views whose output changes, and of materialized views.    *)
Rebuilds(current, desired, changes) ==
    {c \in changes : c.op = "alter" /\ IsView(c.after.kind) /\
        (c.after.kind = "view" =>
            projectionSignature(current, StableID(c.before)) # projectionSignature(desired, StableID(c.after)))}

\* Mutant: grants on a view are not looked at.
validateRebuildDependentsNoGrant(current, i) ==
    \A r \in current : r.kind \in {"column", "grant"} \/ (r.parent # i /\ <<"references", i>> \notin r.deps)

(* A view is rebuilt only when nothing but its columns hangs on it, since a  *)
(* change set never drops and creates one identity.                         *)
validateRebuildDependents(current, i) ==
    \A r \in current :
        (r.kind = "column" /\ r.parent = i) \/ (r.parent # i /\ {<<"references", i>>, <<"owns", i>>} \cap r.deps = {})

(* What may happen to an output column follows from what happens to its view. *)
ChildAllowed(c, parent, rebuild) ==
    CASE c.op = "rename" -> parent.op = "rename" /\ c.before.name = c.after.name /\ SameBut(c.before, c.after)
      [] c.op = "alter"  -> parent.op = "alter" /\ rebuild
      [] OTHER           -> parent.op = c.op \/ (parent.op = "alter" /\ rebuild)

validateProjectionTopology(current, desired, changes, rebuild) ==
    /\ \A c \in Rebuilds(current, desired, changes) :
          rebuild /\ validateRebuildDependents(current, StableID(c.before))
    /\ \A c \in {x \in changes : Subject(x).kind = "column" /\ IsView(Subject(x).parent[1])} :
          LET parents == {p \in changes : Touches(p, c.before.parent) \/ Touches(p, c.after.parent)}
          IN  parents # {} /\ \E p \in parents : ChildAllowed(c, p, rebuild)

-----------------------------------------------------------------------------
extensionTransitionIDs(changes) ==
    {StableID(r) : r \in {x \in UNION {{c.before, c.after} : c \in changes} : x.kind = "extension"}}

extensionOwnerID(r) == {d[2] : d \in {x \in r.deps : x[1] = "owns" /\ x[2][1] = "extension"}}

(* Members change only together with their extension.                       *)
validateExtensionMemberChanges(changes) ==
    \A c \in changes : extensionOwnerID(Subject(c)) \subseteq extensionTransitionIDs(changes)

Renderable(current, desired, changes, options) ==
    /\ validateExtensionMemberChanges(changes)
    /\ validateManagedDocuments(current, desired, changes, options)
    /\ validateColumnOrdinalTransitions(current, desired, changes)
    /\ validateColumnDependentTransitions(current, desired, changes, options.approved)
    /\ validateParentRenameDependents(current, changes)
    /\ validateProjectionTopology(current, desired, changes, options.rebuild)

-----------------------------------------------------------------------------
Statement(verb, before, after, tx) == [verb |-> verb, before |-> before, after |-> after, tx |-> tx]

Sql(verb, before, after) == <<Statement(verb, before, after, TRUE)>>

(* What the renderer refuses has no statement.                              *)
NoStatement == <<>>

Topology == Sql("topology", NoResource, NoResource)

(* One statement for every position at which the definitions differ.        *)
Stepwise(before, after) ==
    LET upTo(k) == SubSeq(after.def, 1, k) \o SubSeq(before.def, k + 1, Len(before.def))
        changed == SelectSeq([k \in DOMAIN after.def |-> k], LAMBDA k : before.def[k] # after.def[k])
    IN  [n \in DOMAIN changed |-> Statement("set", before, [after EXCEPT !.def = upTo(changed[n])], TRUE)]

ownerAlterKeyword(kind) == kind \in {"schema", "enum", "sequence", "table", "view", "materialized_view"}

ownerOnlyChange(before, after) == before.owner # after.owner /\ before.def = after.def /\ before.ord = after.ord

appendOwnerCreate(r) ==
    IF r.owner # "" /\ r.kind # "schema" /\ (r.kind = "function" \/ ownerAlterKeyword(r.kind))
    THEN Sql("owner", NoResource, r) ELSE <<>>

safeAssignmentCast(before, after) ==
    <<before, after>> \in {<<"smallint", "integer">>, <<"integer", "bigint">>, <<"smallint", "bigint">>}

(* The body was reviewed and belongs to no extension.                       *)
validateRoutineSource(r, options) == r.def[2] = "" /\ r.def[1] \in options.reviewed

(* Current and desired resources together, the desired ones first.          *)
Merged(current, desired) == desired \cup {r \in current : StableID(r) \notin Ids(desired)}

-----------------------------------------------------------------------------
(* What CREATE itself sets; the rest follows in statements of its own.      *)
Fresh(r) ==
    CASE r.kind = "table"   -> <<"off", "off">>
      [] r.kind = "trigger" -> <<r.def[1], "O">>
      [] r.kind = "role"    -> <<r.def[1], "">>
      [] OTHER              -> r.def

renderCreate(r, resources, options) ==
    LET fresh == [r EXCEPT !.def = Fresh(r), !.owner = IF r.kind = "schema" THEN @ ELSE ""]
        refused == \/ r.kind = "function" /\ ~validateRoutineSource(r, options)
                   \/ IsView(r.kind) /\ ~validateProjectionShape(r, resources)
    IN  IF refused THEN NoStatement
        ELSE <<Statement("create", NoResource, fresh, ~(r.kind = "index" /\ options.concurrent))>>
             \o Stepwise(fresh, r) \o appendOwnerCreate(r)

(* What a role owns goes to its declared heir, what it was granted goes.     *)
renderRoleDrop(r, resources, options) ==
    LET heirs == {h \in {x \in resources : x.kind = "role"} : <<r.name, h.name>> \in options.reassign}
    IN  IF heirs = {} \/ protectedRole(r.name) \/ \E h \in heirs : h.name = r.name \/ protectedRole(h.name)
        THEN NoStatement
        ELSE Sql("reassign", r, CHOOSE h \in heirs : TRUE)
             \o Sql("disown", r, NoResource) \o Sql("drop", r, NoResource)

renderDrop(r, resources, options) ==
    CASE r.kind = "role"      -> renderRoleDrop(r, resources, options)
      [] r.kind = "extension" -> IF options.uninstall THEN Sql("drop", r, NoResource) ELSE NoStatement
      [] OTHER -> <<Statement("drop", r, NoResource, ~(r.kind = "index" /\ options.concurrent))>>

(* What is below a relation is renamed under the new name of the relation.   *)
(* Grants and default privileges have no rename; an extension only moves.   *)
renderRename(before, after) ==
    IF \/ after.kind \in {"grant", "default_privilege"}
       \/ after.kind = "extension" /\ before.name # after.name
       \/ after.kind = "role" /\ (protectedRole(before.name) \/ protectedRole(after.name))
    THEN NoStatement
    ELSE Sql("rename", IF SchemaOf(before) = before.parent THEN before ELSE [before EXCEPT !.parent = after.parent], after)

Rebuild(before, after, resources, options) ==
    LET create == renderCreate(after, resources, options)
    IN  IF create = NoStatement THEN NoStatement ELSE renderDrop(before, resources, options) \o create

(* A new index under a shadow name, then the old one goes, then the rename.  *)
renderConcurrentIndexRebuild(before, after) ==
    LET shadow == [after EXCEPT !.name = "autosql_rebuild"]
    IN  <<Statement("create", NoResource, shadow, FALSE), Statement("drop", before, NoResource, FALSE),
          Statement("rename", shadow, after, TRUE)>>

triggerEnableOnly(before, after) == before.def[1] = after.def[1] /\ before.def[2] # after.def[2]

constraintValidationOnly(before, after) ==
    after.kind = "foreign_key" /\ before.def[4] = "pending" /\ after.def = [before.def EXCEPT ![4] = "valid"]

renderColumnAlter(before, after) ==
    IF before.def[1] # after.def[1] /\ ~safeAssignmentCast(before.def[1], after.def[1]) THEN NoStatement
    ELSE Stepwise(before, after)

(* Attributes in one statement, then the setting.                           *)
renderRoleAlter(before, after) == Stepwise(before, after)

(* Values are only appended, one by one.                                    *)
renderEnumAlter(before, after) ==
    IF ~IsPrefix(before.def, after.def) THEN NoStatement
    ELSE [n \in 1..(Len(after.def) - Len(before.def)) |->
            Statement("set", before, [after EXCEPT !.def = SubSeq(@, 1, Len(before.def) + n)], TRUE)]

renderTableAlter(before, after) ==
    IF before.owner = after.owner THEN Stepwise(before, after)
    ELSE IF after.owner = "" THEN NoStatement
    ELSE Stepwise(before, after) \o Sql("owner", before, after)

renderFunctionAlter(before, after, options) ==
    IF ~validateRoutineSource(after, options) \/ (before.owner # after.owner /\ after.owner = "") THEN NoStatement
    ELSE Sql("replace", before, after)
         \o (IF before.owner = after.owner THEN <<>> ELSE Sql("owner", before, after))

(* A view with an owner has a key that the alteration does not know.        *)
renderViewAlter(before, after, resources, options, rebuilt) ==
    IF \/ before.owner # "" \/ after.owner # "" \/ ~validateProjectionShape(after, resources) THEN NoStatement
    ELSE IF rebuilt THEN Rebuild(before, after, resources, options)
    ELSE Sql("replace", before, after)

(* Only the grant option of a grant or a default privilege is altered.      *)
renderGrantAlter(before, after) ==
    LET last == Len(after.def)
    IN  IF after.def # before.def /\ after.def = [before.def EXCEPT ![last] = after.def[last]]
        THEN Sql("set", before, after) ELSE NoStatement

renderAlter(before, after, resources, options, rebuilt) ==
    LET kind == after.kind
        whenAllowed(s) == IF options.rebuild THEN s ELSE NoStatement
    IN  CASE ownerOnlyChange(before, after) ->
                IF ownerAlterKeyword(kind) /\ after.owner # "" THEN Sql("owner", before, after) ELSE NoStatement
          [] kind = "column"                          -> renderColumnAlter(before, after)
          [] kind = "enum"                            -> renderEnumAlter(before, after)
          [] kind = "view"                            -> renderViewAlter(before, after, resources, options, rebuilt)
          [] kind = "table"                           -> renderTableAlter(before, after)
          [] kind = "function"                        -> renderFunctionAlter(before, after, options)
          [] kind \in {"grant", "default_privilege"}  -> renderGrantAlter(before, after)
          [] kind = "role"                            -> renderRoleAlter(before, after)
          [] kind = "extension" /\ before.def[1] # after.def[1] -> Sql("set", before, after)
          [] kind = "sequence"                        -> Stepwise(before, after)
          [] kind \in {"policy", "membership"}        -> Rebuild(before, after, resources, options)
          [] kind = "index" /\ options.concurrent     -> whenAllowed(renderConcurrentIndexRebuild(before, after))
          [] kind = "trigger" /\ triggerEnableOnly(before, after)     -> Sql("set", before, after)
          [] constraintValidationOnly(before, after)  -> Sql("set", before, after)
          [] kind \in {"index", "trigger", "unique_constraint", "foreign_key", "materialized_view"} ->
                whenAllowed(Rebuild(before, after, resources, options))
          [] OTHER                                    -> NoStatement

(* Changes that need no statement: another change brings them about.        *)
Consequence(c, changes) ==
    LET r == Subject(c)
        roleRenamed == \E x \in changes : x.op = "rename" /\ x.after.kind = "role"
    IN  \/ extensionOwnerID(r) # {}
        \/ c.op = "rename" /\ c.before.name = c.after.name /\ r.kind # "extension"
        \/ c.op = "rename" /\ r.kind = "membership"
        \/ c.op = "alter" /\ r.kind = "membership" /\ roleRenamed /\ c.before.def[3] = c.after.def[3]
        \/ r.kind = "column" /\ IsView(r.parent[1])
        \/ c.op = "alter" /\ r.kind = "column" /\ columnOrdinalOnly(c.before, c.after)

renderChange(c, changes, resources, options, rebuilds) ==
    IF Consequence(c, changes) THEN Topology
    ELSE CASE c.op = "create" -> renderCreate(c.after, resources, options)
           [] c.op = "drop"   -> renderDrop(c.before, resources, options)
           [] c.op = "rename" -> renderRename(c.before, c.after)
           [] c.op = "alter"  -> renderAlter(c.before, c.after, resources, options, c \in rebuilds)

(* The statements of each change, in the order of the changes.              *)
Render(current, desired, ordered, options) ==
    LET changes == ToSet(ordered)
        rebuilds == Rebuilds(current, desired, changes)
    IN  IF ordered # <<>> /\ ~Renderable(current, desired, changes, options) THEN <<NoStatement>>
        ELSE [k \in DOMAIN ordered |->
                renderChange(ordered[k], changes, Merged(current, desired), options, rebuilds)]
=============================================================================
