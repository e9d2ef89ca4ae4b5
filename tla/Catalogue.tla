------------------------------ MODULE Catalogue ------------------------------
(***************************************************************************)
(* External: the catalogue of a PostgreSQL database, as far as the          *)
(* statements of a plan change it and inspection reads it.                  *)
(*                                                                         *)
(* A row is a resource without dependencies: what it depends on is in its   *)
(* definition.  "ord" of a column is its attnum, with gaps where columns     *)
(* were dropped; "owner" is "" for the role of the session.  "def" holds:   *)
(*   column       <<type, sequence of the default or "", nullability>>      *)
(*   table        <<row security, forced row security>>                     *)
(*   enum         its values             sequence   <<increment>>           *)
(*   index, unique_constraint <<column>> function   <<body, extension>>     *)
(*   foreign_key  <<column, table, its column, "valid" or "pending">>       *)
(*   trigger      <<function, "O" or "D">>                                  *)
(*   policy       <<command, role or "public", column>>                     *)
(*   view, materialized_view  <<table, column, ...>>                        *)
(*   role         <<attributes, setting>>                                   *)
(*   membership   <<parent, member, admin>>                                 *)
(*   grant        <<grantee, grantable>>                                    *)
(*   default_privilege <<owner, grantee, grantable>>                        *)
(*   extension    <<version>>                                               *)
(* Grants an owner has on its own objects are left out.                     *)
(***************************************************************************)
EXTENDS SchemaDiff

Builtin == {"smallint", "integer", "bigint"}

Projections == {"view", "materialized_view"}

Of(rows, kinds) == {x \in rows : x.kind \in kinds}

Namespace(x) == IF x.parent[1] = "schema" THEN x.parent ELSE x.parent[2]

Sibling(x, kind, name) == <<kind, Namespace(x), name>>

ColumnOf(i, name) == <<"column", i, name>>

RoleOf(name) == <<"role", <<>>, name>>

(* The identities a row names, with the position of the name in "def"; the   *)
(* owner has position 0.                                                    *)
Names(x) ==
    LET role(k) == IF x.def[k] = "public" THEN {} ELSE {<<k, RoleOf(x.def[k])>>}
        table(k) == Sibling(x, "table", x.def[k])
    IN  (IF x.owner = "" THEN {} ELSE {<<0, RoleOf(x.owner)>>}) \cup
        CASE x.kind = "column" ->
                (IF x.def[1] \in Builtin THEN {} ELSE {<<1, Sibling(x, "enum", x.def[1])>>})
                \cup (IF x.def[2] = "" THEN {} ELSE {<<2, Sibling(x, "sequence", x.def[2])>>})
          [] x.kind \in {"index", "unique_constraint"} -> {<<1, ColumnOf(x.parent, x.def[1])>>}
          [] x.kind = "foreign_key" ->
                {<<1, ColumnOf(x.parent, x.def[1])>>, <<2, table(2)>>, <<3, ColumnOf(table(2), x.def[3])>>}
          [] x.kind = "trigger" -> {<<1, Sibling(x, "function", x.def[1])>>}
          [] x.kind = "policy" -> role(2) \cup {<<3, ColumnOf(x.parent, x.def[3])>>}
          [] x.kind \in Projections ->
                {<<1, table(1)>>} \cup {<<k, ColumnOf(table(1), x.def[k])>> : k \in 2..Len(x.def)}
          [] x.kind \in {"membership", "default_privilege"} -> role(1) \cup role(2)
          [] x.kind = "grant" -> role(1)
          [] OTHER -> {}

Named(x) == {n[2] : n \in Names(x)} \cup (IF x.parent = <<>> THEN {} ELSE {x.parent})

(* The key a foreign key rests on.                                          *)
Keys(rows, x) ==
    {StableID(u) : u \in {y \in Of(rows, {"unique_constraint"}) :
        y.parent = Sibling(x, "table", x.def[2]) /\ y.def[1] = x.def[3]}}

Memberships(rows) == {<<m.def[2], m.def[1]>> : m \in Of(rows, {"membership"})}

Below(rows, i) == Closure({i}, {<<r.parent, StableID(r)>> : r \in {x \in rows : x.parent # <<>>}})

(* Objects whose name is made of the names in their definition.             *)
NameOf(x) ==
    CASE x.kind = "membership"        -> x.def[2] \o ">" \o x.def[1]
      [] x.kind = "grant"             -> x.def[1]
      [] x.kind = "default_privilege" -> x.def[1] \o ":" \o x.def[2]
      [] OTHER                        -> x.name

(* What no statement leaves: the outcome of one PostgreSQL refuses.         *)
Failed == {NoResource}

-----------------------------------------------------------------------------
TypeIn(rows, i) == (CHOOSE c \in rows : StableID(c) = i).def[1]

(* The output columns of a view.                                            *)
Outputs(rows, view) ==
    {[NoResource EXCEPT !.kind = "column", !.name = view.def[k], !.parent = StableID(view), !.ord = k - 1,
        !.def = <<TypeIn(rows, ColumnOf(Sibling(view, "table", view.def[1]), view.def[k])), "", "null">>]
        : k \in 2..Len(view.def)}

Member(extension) ==
    [NoResource EXCEPT !.kind = "function", !.name = extension.name \o "_fn", !.parent = extension.parent,
        !.def = <<extension.def[1], extension.name>>]

SqlCreate(rows, x) ==
    IF \/ StableID(x) \in Ids(rows)
       \/ ~(Named(x) \subseteq Ids(rows))
       \/ x.kind = "foreign_key" /\ Keys(rows, x) = {}
       \/ x.kind = "membership" /\ x.def[2] \in Closure({x.def[1]}, Memberships(rows))
    THEN Failed
    ELSE CASE x.kind \in Projections -> rows \cup {x} \cup Outputs(rows, x)
           [] x.kind = "column" -> rows \cup {[x EXCEPT !.ord = 1 + Max({0} \cup {c.ord : c \in Of(rows, {"column"})})]}
           [] x.kind = "extension" -> rows \cup {x, Member(x)}
           [] OTHER -> rows \cup {x}

(* DROP takes along what is below the object and the keys and indexes of a   *)
(* column; anything else that depends on it makes the statement fail.       *)
SqlDrop(rows, x) ==
    LET i == StableID(x)
        parts == CASE x.kind = "column" ->
                        {y \in Of(rows, {"index", "unique_constraint", "foreign_key"}) :
                            y.parent = x.parent /\ <<1, i>> \in Names(y)}
                   [] x.kind = "extension" -> {y \in Of(rows, {"function"}) : y.def[2] = x.name}
                   [] x.kind = "role" -> {y \in Of(rows, {"membership"}) : i \in Named(y)}
                   [] OTHER -> {}
        gone == Below(rows, i) \cup Ids(parts)
        left == {y \in rows : StableID(y) \notin gone}
    IN  IF \/ i \notin Ids(rows)
           \/ x.kind = "schema" /\ gone # {i}
           \/ x.kind = "function" /\ x.def[2] # ""
           \/ \E y \in left : Named(y) \cap gone # {}
           \/ \E y \in Of(left, {"foreign_key"}) : Keys(left, y) = {}
        THEN Failed ELSE left

RECURSIVE Rekey(_, _, _)
Rekey(i, old, new) ==
    CASE i = old -> new [] i = <<>> -> i [] OTHER -> <<i[1], Rekey(i[2], old, new), i[3]>>

(* Everything follows a rename, definitions too.                            *)
SqlRename(rows, before, after) ==
    LET old == StableID(before)
        new == StableID(after)
        at(x, k) == {Rekey(n[2], old, new)[3] : n \in {m \in Names(x) : m[1] = k}}
        name(x, k, given) == IF at(x, k) = {} THEN given ELSE CHOOSE s \in at(x, k) : TRUE
        follow(x) == [x EXCEPT !.parent = Rekey(@, old, new), !.owner = name(x, 0, @),
                               !.def = [k \in DOMAIN @ |-> name(x, k, @[k])],
                               !.name = IF StableID(x) = old THEN after.name ELSE @]
        named(x) == [x EXCEPT !.name = NameOf(x)]
    IN  IF old \notin Ids(rows) \/ new \in Ids(rows) THEN Failed ELSE {named(follow(x)) : x \in rows}

(* ALTER TYPE of a column fails below a view or a policy.                   *)
SqlSet(rows, after) ==
    LET i == StableID(after)
        old == CHOOSE x \in rows : StableID(x) = i
    IN  IF i \notin Ids(rows) THEN Failed
        ELSE IF \/ ~(Named([after EXCEPT !.owner = ""]) \subseteq Ids(rows))
                \/ /\ after.kind = "column" /\ old.def[1] # after.def[1]
                   /\ \E y \in Of(rows, Projections \cup {"policy"}) : i \in Named(y)
        THEN Failed
        ELSE {CASE StableID(x) = i -> [x EXCEPT !.def = after.def]
                [] after.kind = "extension" /\ x.kind = "function" /\ x.def[2] = after.name -> Member(after)
                [] OTHER -> x : x \in rows}

SqlOwner(rows, after) ==
    IF StableID(after) \notin Ids(rows) \/ RoleOf(after.owner) \notin Ids(rows) THEN Failed
    ELSE {IF StableID(x) = StableID(after) THEN [x EXCEPT !.owner = after.owner] ELSE x : x \in rows}

(* CREATE OR REPLACE VIEW only adds output columns at the end.               *)
SqlReplace(rows, after) ==
    LET i == StableID(after)
        shape(s) == {<<c.ord, c.name, c.def>> : c \in {x \in s : x.parent = i /\ x.kind = "column"}}
        kept == {x \in rows : ~(x.kind = "column" /\ x.parent = i)}
        set(s) == {IF StableID(x) = i THEN [x EXCEPT !.def = after.def] ELSE x : x \in s}
    IN  IF i \notin Ids(rows) \/ ~(Named([after EXCEPT !.owner = ""]) \subseteq Ids(rows)) THEN Failed
        ELSE IF after.kind = "function" THEN set(rows)
        ELSE IF ~(shape(rows) \subseteq shape(Outputs(kept, after))) THEN Failed
        ELSE set(kept) \cup Outputs(kept, after)

(* REASSIGN OWNED: "after" is the role the objects go to.                   *)
SqlReassign(rows, before, after) ==
    IF ~({StableID(before), StableID(after)} \subseteq Ids(rows)) THEN Failed
    ELSE {IF x.owner = before.name THEN [x EXCEPT !.owner = after.name] ELSE x : x \in rows}

(* DROP OWNED also takes the role out of grants and policies.               *)
SqlDisown(rows, role) ==
    LET i == StableID(role)
    IN  IF i \notin Ids(rows) THEN Failed
        ELSE {x \in rows : ~(x.kind \in {"grant", "default_privilege", "policy"} /\ i \in Named(x))}

Run(rows, st) ==
    LET before == [st.before EXCEPT !.deps = {}]
        after == [st.after EXCEPT !.deps = {}]
    IN  CASE st.verb = "topology" -> rows
          [] st.verb = "create"   -> SqlCreate(rows, after)
          [] st.verb = "drop"     -> SqlDrop(rows, before)
          [] st.verb = "rename"   -> SqlRename(rows, before, after)
          [] st.verb = "set"      -> SqlSet(rows, after)
          [] st.verb = "owner"    -> SqlOwner(rows, after)
          [] st.verb = "replace"  -> SqlReplace(rows, after)
          [] st.verb = "reassign" -> SqlReassign(rows, before, after)
          [] st.verb = "disown"   -> SqlDisown(rows, before)
=============================================================================
