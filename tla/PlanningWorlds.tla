-------------------------- MODULE PlanningWorlds ---------------------------
(* The catalogues and options MCAuthoring plans with: small databases, before  *)
(* and after; and those MCDurable publishes releases for.                      *)
EXTENDS Rendering, Inspection

S == <<"schema", <<>>, "s">>
T == <<"table", S, "t">>
U == <<"table", S, "u">>
V == <<"view", S, "v">>

Row(kind, name, parent, def) ==
    [NoResource EXCEPT !.kind = kind, !.name = name, !.parent = parent, !.def = def]

By(owner, rows) == {IF x.kind = "column" THEN x ELSE [x EXCEPT !.owner = owner] : x \in rows}

(* columns: tuples of a name, a type, a sequence and a nullability           *)
TableRows(name, columns, flags) ==
    LET i == <<"table", S, name>>
    IN  {Row("table", name, S, flags)}
        \cup {[Row("column", columns[k][1], i, Tail(columns[k])) EXCEPT !.ord = k] : k \in 1..Len(columns)}

Column(name, type) == <<name, type, "", "null">>

ViewRows(kind, name, table, columns) ==
    LET i == <<kind, S, name>>
    IN  {Row(kind, name, S, <<table>> \o [k \in 1..Len(columns) |-> columns[k][1]])}
        \cup {[Row("column", columns[k][1], i, <<columns[k][2], "", "null">>) EXCEPT !.ord = k] : k \in 1..Len(columns)}

Off == <<"off", "off">>

Base == {Row("schema", "s", <<>>, <<>>)}

A == Column("a", "integer")
B == Column("b", "integer")
C == Column("c", "integer")

(* What PostgreSQL can hold.                                                *)
Sound(rows) ==
    /\ \A x \in rows : Named(x) \subseteq Ids(rows)
    /\ \A x \in Of(rows, {"foreign_key"}) : Keys(rows, x) # {}
    /\ \A x \in Of(rows, Projections) : {y \in rows : y.parent = StableID(x) /\ y.kind = "column"} = Outputs(rows, x)

Good(catalogues) == {rows \in catalogues : Sound(rows)}

-----------------------------------------------------------------------------
(* One table, changed in place with its index, its view and a grant.        *)
Plain ==
    Good({Base} \cup
         {Base \cup TableRows("t", l, Off) \cup x \cup v \cup g :
            l \in {<<A>>, <<A, B>>, <<B, A>>, <<Column("a", "bigint"), B>>},
            x \in {{}, {Row("index", "x", T, <<"a">>)}, {Row("index", "x", T, <<"b">>)}},
            v \in {{}, ViewRows("view", "v", "t", <<A>>), ViewRows("view", "v", "t", <<A, B>>),
                   ViewRows("view", "v", "t", <<B>>)},
            g \in {{}, {Row("grant", "public", V, <<"public", "no">>)}}})

(* One table that is renamed, or whose first column is.                     *)
Old == Good({Base \cup TableRows("t", l, Off) \cup x \cup v : l \in {<<A>>, <<A, B>>},
               x \in {{}, {Row("index", "x", T, <<"a">>)}, {Row("index", "x", T, <<"b">>)}},
               v \in {{}, ViewRows("view", "v", "t", <<A>>)}})

New == Good({Base \cup TableRows(t, l, r) \cup x \cup v : t \in {"t", "u"}, r \in {Off, <<"on", "off">>},
               l \in {<<A, B>>, <<C>>, <<C, B>>, <<B, C>>},
               x \in {{}, {Row("index", "x", T, <<"b">>)}, {Row("index", "x", U, <<"b">>)}, {Row("index", "x", T, <<"c">>)}},
               v \in {{}, ViewRows("view", "v", "u", <<C>>), ViewRows("view", "v", "t", <<C>>)}})

RenameHints == {{}, {<<T, U>>}, {<<<<"column", T, "a">>, <<"column", T, "c">>>>},
                {<<T, U>>, <<<<"column", T, "a">>, <<"column", U, "c">>>>}}

(* Two tables, and views that move between them.                            *)
Pairs == Good({Base \cup t \cup u \cup v \cup w :
             t \in {{}, TableRows("t", <<A>>, Off), TableRows("t", <<A>>, <<"on", "on">>)},
             u \in {{}, TableRows("u", <<A>>, Off)},
             v \in {{}, ViewRows("view", "v", "t", <<A>>), ViewRows("view", "v", "u", <<A>>)},
             w \in {{}, ViewRows("materialized_view", "w", "t", <<A>>), ViewRows("materialized_view", "w", "u", <<A>>)}})

(* Types, sequences and the columns that use them.                          *)
Types == Good({Base \cup e \cup q \cup t :
             e \in {{}, {Row("enum", "e", S, <<"one">>)}, {Row("enum", "e", S, <<"one", "two">>)}},
             q \in {{}, {Row("sequence", "q", S, <<"1">>)}, {Row("sequence", "q", S, <<"2">>)}},
             t \in {{}} \cup {TableRows("t", l, Off) : l \in
                    {<<A>>, <<Column("a", "e")>>, <<<<"a", "integer", "q", "null">>>>, <<<<"a", "bigint", "q", "not_null">>>>,
                     <<A, Column("b", "e")>>}}})

(* Keys and the foreign keys that rest on them.                             *)
Foreign == Good({Base \cup TableRows("t", <<A, B>>, Off) \cup u \cup k \cup f :
             u \in {{}, TableRows("u", <<A>>, Off), TableRows("u", <<A, C>>, Off)},
             k \in {{}, {Row("unique_constraint", "k", T, <<"a">>)}, {Row("unique_constraint", "k", T, <<"b">>)}},
             f \in {{}, {Row("foreign_key", "y", U, <<"a", "t", "a", "valid">>)},
                    {Row("foreign_key", "y", U, <<"a", "t", "a", "pending">>)},
                    {Row("foreign_key", "y", U, <<"c", "t", "b", "valid">>)}}})

(* Routines, triggers and an extension with a member.                       *)
Extension(version) == LET x == Row("extension", "ext", S, <<version, "trusted">>) IN {x, Member(x)}

Routines == Good({Base \cup TableRows("t", <<A>>, Off) \cup f \cup x \cup t :
             f \in {{}, {Row("function", "f", S, <<"one", "">>)}, {Row("function", "f", S, <<"two", "">>)}},
             x \in {{}, Extension("1"), Extension("2")},
             t \in {{}} \cup {{Row("trigger", "z", T, <<g, m>>)} : g \in {"f", "ext_fn"}, m \in {"O", "D"}}})

(* Roles with what they own and what they were granted.                     *)
Role(name, attributes, setting) == Row("role", name, <<>>, <<attributes, setting>>)

Belongs(parent, member, admin) == Row("membership", member \o ">" \o parent, <<>>, <<parent, member, admin>>)

Access ==
    Good({Base \cup r \cup m \cup By(o, TableRows("t", <<A>>, Off)) :
             r \in {{Role("r", "plain", "")}, {Role("r", "plain", ""), Role("w", "plain", "fast")},
                    {Role("r", "login", "fast"), Role("w", "plain", "")}, {Role("w", "plain", "")}},
             m \in {{}, {Belongs("r", "w", "no")}, {Belongs("r", "w", "admin")}},
             o \in {"", "r", "w"}}) \cup
    Good({Base \cup r \cup g \cup By(o, TableRows("t", <<A>>, Off)) :
             r \in {{Role("r", "plain", ""), Role("w", "plain", "")}, {Role("w", "plain", "")}},
             g \in {{Row("grant", n, T, <<n, y>>)} : n \in {"r", "w"}, y \in {"no", "yes"}} \cup
                   {{Row("default_privilege", "r:w", <<>>, <<"r", "w", y>>)} : y \in {"no", "yes"}} \cup
                   {{Row("policy", "p", T, <<"select", "r", "a">>)}, {Row("policy", "p", T, <<"update", "public", "a">>)}},
             o \in {"", "r"}})

(* A role that gets another name, or gives way to another one.               *)
Renamed(r) == Good({Base \cup {Role(r, "plain", ""), Role("m", "plain", "")} \cup m \cup g
                    \cup By(o, TableRows("t", <<A>>, Off)) :
             m \in {{}, {Belongs(r, "m", "no")}, {Belongs(r, "m", "admin")}},
             g \in {{}, {Row("grant", r, T, <<r, "no">>)}, {Row("policy", "p", T, <<"select", r, "a">>)}},
             o \in {r, "m"}})

RoleHints ==
    LET role == <<RoleOf("r"), RoleOf("w")>>
    IN  {{}, {role}, {role, <<<<"membership", <<>>, "m>r">>, <<"membership", <<>>, "m>w">>>>}}

(* One object of each kind, with different owners; what is altered is either  *)
(* the owner or, for tables and functions, also the rest.                   *)
Owners == Good({Base \cup {Role("r", "plain", ""), Role("w", "plain", "")} \cup TableRows("u", <<A>>, Off) \cup By(o, x) :
             o \in {"", "r", "w"},
             x \in {{Row("enum", "e", S, <<"one">>)}, {Row("sequence", "q", S, <<"1">>)},
                    TableRows("t", <<A>>, Off), TableRows("t", <<A>>, <<"on", "off">>),
                    ViewRows("view", "v", "u", <<A>>), ViewRows("materialized_view", "w", "u", <<A>>),
                    {Row("function", "f", S, <<"one", "">>)}, {Row("function", "f", S, <<"two", "">>)}}})

(* Two schemas, of which one is managed.                                    *)
N == <<"schema", <<>>, "n">>

Both == {Base \cup {Row("schema", "n", <<>>, <<>>), Row("enum", "e", N, v)} \cup t :
             v \in {<<"one">>, <<"two">>}, t \in {{}, TableRows("t", <<A>>, Off), TableRows("t", <<A, B>>, Off)}}

(* Documents written by hand: with a dependency too few, or with roles that   *)
(* are members of each other.                                               *)
Trimmed(doc) == UNION {{(doc \ {r}) \cup {[r EXCEPT !.deps = @ \ {d}]} : d \in r.deps} : r \in doc}

Circle == Base \cup {Role("r", "plain", ""), Role("w", "plain", ""), Belongs("r", "w", "no"), Belongs("w", "r", "no")}

-----------------------------------------------------------------------------
Order == <<"a", "b", "c", "e", "ext", "ext_fn", "f", "k", "m", "m>r", "m>w", "n", "p", "public", "q", "r", "r:w", "r>w",
           "s", "t", "u", "v", "w", "w>r", "x", "y", "z">>

Plainly == [include |-> {}, exclude |-> {}, hints |-> {}, order |-> Order, approved |-> {}, rebuild |-> FALSE,
            concurrent |-> FALSE, escalate |-> FALSE, admin |-> FALSE, reassign |-> {}, extensions |-> {}, untrusted |-> FALSE,
            uninstall |-> FALSE, reviewed |-> {}]

Freely == [Plainly EXCEPT !.rebuild = TRUE, !.admin = TRUE, !.extensions = {"ext"}, !.uninstall = TRUE,
                          !.reviewed = {"one", "two"}, !.reassign = {<<"r", "w">>}]

Everything == [roles |-> TRUE, policies |-> TRUE, grants |-> TRUE, schemas |-> {}, only |-> {}, omit |-> {}]

World(rows, desired, options) ==
    [rows |-> rows, desired |-> {inspectSnapshot(r, Everything) : r \in desired}, inspect |-> {Everything}, options |-> options]

MCWorlds ==
    {World(Plain \cup {{}}, Plain,
           {[Freely EXCEPT !.concurrent = TRUE], [Plainly EXCEPT !.approved = {<<"column", T, "b">>}]}),
     World(Old, New, {[Plainly EXCEPT !.hints = h] : h \in RenameHints}),
     World(Pairs, Pairs, {Freely, [Freely EXCEPT !.order = Reverse(Order)]}),
     World(Types \cup {{}}, Types, {Freely}),
     [World({Base, Base \cup TableRows("t", <<A>>, Off)}, {}, {Freely}) EXCEPT !.desired = UNION {Trimmed(inspectSnapshot(r, Everything)) : r \in Types}],
     World(Foreign \cup {{}}, Foreign, {Freely, Plainly}),
     World(Routines \cup {{}}, Routines, {Freely, Plainly}),
     World(Access \cup {{}}, Access, {Freely}),
     World({Base}, {Circle}, {Freely}),
     World(Renamed("r"), Renamed("w"), {[Freely EXCEPT !.hints = h] : h \in RoleHints}),
     World(Owners \cup {{}}, Owners, {Freely}),
     World({{Row("schema", "n", <<>>, <<>>)}, {Row("schema", "n", <<>>, <<>>), Row("table", "t", N, Off)}},
           {Base, Base \cup {Row("table", "t", S, Off)}}, {Freely, [Freely EXCEPT !.hints = {<<N, S>>}]}),
     LET one == [Everything EXCEPT !.schemas = {S}]
     IN  [rows |-> Both, desired |-> {inspectSnapshot(r, one) : r \in Both}, inspect |-> {one}, options |-> {Plainly}]}

-----------------------------------------------------------------------------
(* The databases and documents of releases.                                 *)
RoleR == Role("r", "plain", "")

Database(owner, columns, more) == Base \cup {RoleR} \cup By(owner, TableRows("t", columns, Off)) \cup more
MCCatalogues ==
    Good({Database("", <<A>>, {}), Database("", <<A, B>>, {}),
          Database("", <<A, B>>, {Row("index", "x", T, <<"b">>)}),
          Database("r", <<A, B>>, {Row("function", "f", S, <<"one", "">>)}),
          Database("", <<A>>, ViewRows("materialized_view", "w", "t", <<A>>))})

(* A document may leave roles and owners to others.                         *)
Unowned(doc) == {[r EXCEPT !.owner = "", !.deps = {d \in @ : d[2][1] # "role"}] : r \in {x \in doc : x.kind # "role"}}

MCDocuments ==
    LET docs == {inspectSnapshot(r, Everything) : r \in MCCatalogues}
    IN  {d \in docs : \E r \in d : r.owner # ""}
            \cup {Unowned(d) : d \in {x \in docs : \E r \in x : r.kind \in {"function", "index", "materialized_view"}}}

Config(schemas, suppressed, concurrent) ==
    [schemas |-> schemas, suppressed |-> suppressed, concurrent |-> concurrent]
MCConfigs ==
    {Config({S}, {}, FALSE), Config({S}, {<<"column", T, "b">>}, FALSE),
     Config({S}, {<<"column", T, "b">>}, TRUE), Config({S, N}, {}, FALSE)}
=============================================================================
