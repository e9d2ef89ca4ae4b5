---------------------------- MODULE ExpandWorlds ----------------------------
(* Schemas, migrations and budgets for the instances of Expansion.           *)
EXTENDS ExpandPlan, TLC

users == <<"users">>
id    == <<"id">>
email == <<"email">>
mail  == <<"mail">>
log   == <<"log">>
pkey  == <<"users_pkey">>

Column(type, null) == [type |-> type, null |-> null]
Key(constraints) == [unique |-> TRUE, constraints |-> constraints, sound |-> TRUE, columns |-> <<id>>]
Table(cols, indexes, alter, rows) ==
    [cols |-> cols, alter |-> alter, part |-> FALSE, rows |-> rows, bytes |-> 0,
     indexes |-> indexes, checks |-> {}]
Ids == id :> Column("int", FALSE)
Users(cols, indexes) == users :> Table(Ids @@ cols, indexes, TRUE, 0)
Log(cols, alter) == log :> Table(cols, <<>>, alter, 200000)
Catalog(tables) == [tables |-> tables, create |-> TRUE]

Mails == email :> Column("text", TRUE)
Pkey  == pkey :> Key(1)

-----------------------------------------------------------------------------
(* An operation has the fields its kind needs, unless it is told otherwise.  *)
Op(n, kind, table) ==
    [id |-> n, kind |-> kind, table |-> table, column |-> None, new |-> None, type |-> "",
     index |-> None, expr |-> None, ordering |-> None, key |-> <<>>, proof |-> "", batch |-> 0,
     sync |-> "", mode |-> "", unique |-> FALSE, effects |-> kind, reversal |-> "automatic"]
Batched(op, expr) ==
    [op EXCEPT !.expr = expr, !.ordering = pkey, !.key = <<id>>, !.proof = "constraint", !.batch = 2]

Rename(n, expr) == Batched([Op(n, "rename_column", users) EXCEPT !.column = email, !.new = mail], expr)
Retype(n) == Batched([Op(n, "alter_column_type", users) EXCEPT !.column = email, !.type = "int", !.reversal = "lossless"], email)
NotNull(n, c) == Batched([Op(n, "set_not_null", users) EXCEPT !.column = c], Const)
Add(n, t, c) == [Op(n, "add_column", t) EXCEPT !.column = c, !.type = "text", !.sync = "none", !.effects = "no_backfill"]
Fill(n, t) == [Batched(Add(n, t, mail), email) EXCEPT !.sync = "backfill", !.effects = "add_column"]
Create(n, t) == Op(n, "add_table", t)
Drop(n) == [Op(n, "drop_column", users) EXCEPT !.column = email, !.reversal = "backup"]
Index(n) == [Op(n, "create_index", users) EXCEPT !.index = <<"by_mail">>, !.expr = email, !.mode = "concurrent"]
Unindex(n) == [Op(n, "drop_index", users) EXCEPT !.index = pkey, !.mode = "concurrent"]

Ops(n) ==
    {Rename(n, email), Rename(n, mail), Retype(n), NotNull(n, email), NotNull(n, id), Fill(n, users),
     Add(n, users, email), Add(n, log, mail), Create(n, users), Create(n, mail), Drop(n), Index(n), Unindex(n)}
Malformed ==
    {[Rename(1, email) EXCEPT !.batch = 0], [Rename(1, email) EXCEPT !.type = "int"],
     [Rename(1, email) EXCEPT !.key = <<email>>], [Rename(1, email) EXCEPT !.proof = "index"],
     [Drop(1) EXCEPT !.reversal = "automatic"], [Fill(1, users) EXCEPT !.expr = None],
     [Add(1, users, mail) EXCEPT !.effects = "add_column"], [Create(1, mail) EXCEPT !.unique = TRUE]}

Migration(digest, ops) ==
    [name |-> "m", digest |-> digest, minimum |-> 14, lock |-> 100, statement |-> 1000, operations |-> ops]
MCMigrations ==
    {Migration("d", ops) : ops \in {<<o>> : o \in Ops(1) \cup Malformed}
                                       \cup {<<Rename(1, email), Fill(2, users)>>, <<Create(1, mail), Add(2, log, mail)>>,
                                             <<NotNull(1, email), Retype(2)>>, <<Drop(1), Unindex(2)>>,
                                             <<Fill(1, users), Rename(2, mail)>>, <<Rename(1, email), Index(2)>>,
                                             <<Drop(2), Drop(1)>>, <<>>}}
        \cup {Migration("e", <<Rename(1, email)>>)}

Policy(hold, allow) ==
    [lock |-> 100, hold |-> hold, statement |-> 9000, transaction |-> 9000, allow |-> allow]
MCPolicies == {Policy(9000, {"scan", "validation", "nontransactional"}), Policy(5000, {"scan"}), Policy(400, {})}

-----------------------------------------------------------------------------
Renamed == physicalName(Migration("d", <<>>), Rename(1, email))
MCCatalogs ==
    {Catalog(Users(Mails, Pkey)), Catalog(Users(Mails @@ mail :> Column("text", TRUE), Pkey)),
     Catalog(Users(Mails @@ Renamed :> Column("text", TRUE), Pkey)),
     Catalog(Users(<<>>, Pkey) @@ Log(Mails, TRUE)), Catalog(Users(Mails, pkey :> Key(0)))}

\* Control schemas: none, an old one, one that was altered, one in use, and ones with rows of object_mappings.
First == [id |-> "b1", cat |-> Catalog(Users(Mails, Pkey)), canonical |-> TRUE]
Row(scope, op, name) == [scope |-> scope, op |-> op, logical |-> <<"column">> \o mail, name |-> name]
Control(version, exact, busy, baselines, mappings) ==
    [version |-> version, exact |-> exact, busy |-> busy, baselines |-> baselines, mappings |-> mappings]
MCStores ==
    {Control(0, TRUE, FALSE, {}, {}), Control(2, TRUE, FALSE, {First}, {}), Control(3, TRUE, FALSE, {First}, {Row("d", 1, Renamed)}),
     Control(3, TRUE, FALSE, {First}, {Row("e", 1, Renamed)}), Control(3, FALSE, FALSE, {}, {}), Control(3, TRUE, TRUE, {}, {}),
     Control(3, TRUE, FALSE, {First}, {Row("d", 1, mail)}),
     Control(3, TRUE, FALSE, {First}, {Row("", 1, mail)})}
=============================================================================
