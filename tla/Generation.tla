----------------------------- MODULE Generation -----------------------------
(***************************************************************************)
(* How migrations are made: migrate generate and migrate checkpoint create   *)
(* (pkg/migrate/generate.go, checkpoint.go).  An author reads a snapshot of  *)
(* the directory, replays it in a disposable database, plans, simulates,     *)
(* passes the controls, signs, and publishes with the digest that was read   *)
(* as the condition.  The directory itself is module Directory; here it is   *)
(* the sequence of its entries, and one update is one step.                  *)
(*                                                                          *)
(* A database maps each table to 0 (absent) or 1 + its number of rows; the   *)
(* schema fingerprint is the set of its tables.                              *)
(***************************************************************************)
EXTENDS Naturals, Sequences, FiniteSets, SequencesExt, FiniteSetsExt

CONSTANTS Authors,      \* concurrent commands
          Tables,       \* tables, as numbers
          Documents,    \* desired documents: the schemas they name and the tables
          Writable,     \* statements of hand-written migrations
          Rewrites,     \* statements that replace one of them later
          MaxEntries    \* entries of the directory

VARIABLES manifest,     \* the published entries, in version order
          author        \* the command each author is running

generationVars == <<manifest, author>>

-----------------------------------------------------------------------------
(* PostgreSQL: what a statement does to a database, or that it fails.        *)
Stmt(op, t) == [op |-> op, table |-> t]
Empty == [ok |-> TRUE, rows |-> [t \in Tables |-> 0]]
Absent(op) == op \in {"create", "create_as"}
Exec(s, db) ==
    IF ~db.ok \/ (db.rows[s.table] = 0) # Absent(s.op) THEN [db EXCEPT !.ok = FALSE]
    ELSE [db EXCEPT !.rows[s.table] =
            CASE s.op \in {"create", "delete"} -> 1 [] s.op = "create_as" -> 2
              [] s.op = "drop" -> 0 [] OTHER -> @ + 1]
ExecAll(db, stmts) == FoldLeft(LAMBDA d, s : Exec(s, d), db, stmts)

(* The schema of every namespace, and the rows of every table of them.       *)
SchemaOf(db) == {t \in Tables : db.rows[t] > 0}
checkpointDataFingerprint(db) == [t \in SchemaOf(db) |-> db.rows[t]]
Within(tables, scope) == tables \cap UNION scope

-----------------------------------------------------------------------------
(* An entry of the manifest.  Its chain digest stands for the entries up to  *)
(* it; a checkpoint and its signed artifact keep the one of the covered head.*)
NoHead == <<>>
Entry(version, stmts, branch, kind, from, to, head, policy) ==
    [version |-> version, stmts |-> stmts, branch |-> branch, kind |-> kind,
     from |-> from, to |-> to, head |-> head, policy |-> policy]
Statements(entries) == FlattenSeq([i \in 1..Len(entries) |-> entries[i].stmts])

(* build: versions are unique and sorted; an entry in front of others would   *)
(* take the parent edge of its successor, which is refused, so it is last.   *)
Builds(entries, e) == entries # <<>> => Last(entries).version < e.version

IsCheckpoint(e) == e.kind = "checkpoint"

(* replaySnapshot: from the latest checkpoint on.                            *)
ReplayStart(entries) ==
    Max({1} \cup {i \in 1..Len(entries) : IsCheckpoint(entries[i])})
replaySnapshot(entries) ==
    ExecAll(Empty, Statements(SubSeq(entries, ReplayStart(entries), Len(entries))))

linearHead(entries) == entries # <<>> => ~Last(entries).branch

(* plan.Build between two schemas, and from empty for a checkpoint.          *)
Ascending(set) == SetToSortSeq(set, <)
Each(op, set) == [i \in 1..Cardinality(set) |-> Stmt(op, Ascending(set)[i])]
Plan(from, to) == Each("drop", from \ to) \o Each("create", to \ from)

(* checkpointSideEffects: CREATE TABLE AS is not among the statements that    *)
(* astSideEffect looks for.                                                  *)
SideEffect(s) == s.op \in {"insert", "delete"}
HasSideEffect(e) == \E i \in 1..Len(e.stmts) : SideEffect(e.stmts[i])

validateCheckpointData(entries, policy, declared) ==
    /\ declared # {} <=> policy = "declared_replay"
    /\ declared \subseteq {entries[i].version : i \in 1..Len(entries)}
    /\ \A i \in 1..Len(entries) : HasSideEffect(entries[i]) => entries[i].version \in declared

declaredReplaySQL(entries, declared) ==
    SelectSeq(Statements(SelectSeq(entries, LAMBDA e : e.version \in declared)), SideEffect)

-----------------------------------------------------------------------------
Idle == [pc |-> "idle", cmd |-> "none", snap |-> <<>>, scope |-> {}, desired |-> {},
         declared |-> {}, version |-> 0, out |-> <<>>]
At(a, pc) == author[a].pc = pc
Return(a) == author' = [author EXCEPT ![a] = Idle]

(* The request and the snapshot it works on.                                *)
Generate(a, version, scope, desired) ==
    /\ At(a, "idle") /\ Len(manifest) < MaxEntries
    /\ linearHead(manifest)
    /\ author' = [author EXCEPT ![a] = [Idle EXCEPT !.pc = "replay", !.cmd = "generate", !.snap = manifest,
                    !.scope = scope, !.desired = desired, !.version = version]]
    /\ UNCHANGED manifest

CreateCheckpoint(a, version, policy, declared) ==
    /\ At(a, "idle") /\ Len(manifest) < MaxEntries
    /\ manifest # <<>> /\ linearHead(manifest)
    /\ validateCheckpointData(manifest, policy, declared)
    /\ author' = [author EXCEPT ![a] = [Idle EXCEPT !.pc = "replay", !.cmd = policy, !.snap = manifest,
                    !.declared = declared, !.version = version]]
    /\ UNCHANGED manifest

(* Replay, no-op test, plan, simulation and the controls of                  *)
(* buildGeneratedArtifact; the artifact binds source and target.  Only the    *)
(* schemas of the desired document are inspected.                            *)
BuildGenerated(a) ==
    LET db   == replaySnapshot(author[a].snap)
        from == Within(SchemaOf(db), author[a].scope)
        to   == author[a].desired
    IN  /\ At(a, "replay") /\ author[a].cmd = "generate"
        /\ IF ~db.ok \/ from = to THEN Return(a)
           ELSE author' = [author EXCEPT ![a].pc = "publish",
                    ![a].out = <<Entry(author[a].version, Plan(from, to), FALSE, "generated",
                                       from, to, NoHead, "none")>>]
        /\ UNCHANGED manifest

(* Trials in an empty database: of the schema alone, and of schema and data. *)
simulateCheckpoint(stmts) ==
    LET db == ExecAll(Empty, stmts) IN IF db.ok THEN {SchemaOf(db)} ELSE {}
simulateCheckpointPlan(stmts) ==
    LET db == ExecAll(Empty, stmts) IN IF db.ok THEN {<<SchemaOf(db), checkpointDataFingerprint(db)>>} ELSE {}

\* Mutant: the data of the trial is not compared with the data of the replay.
DataEvidenceBlind(db, policy, stmts) ==
    policy = "declared_replay" => simulateCheckpointPlan(stmts) # {}

DataEvidence(db, policy, stmts) ==
    policy = "declared_replay" => simulateCheckpointPlan(stmts) = {<<SchemaOf(db), checkpointDataFingerprint(db)>>}

(* The checkpoint: the whole schema from empty, then the declared data.       *)
BuildCheckpoint(a) ==
    LET snap   == author[a].snap
        db     == replaySnapshot(snap)
        schema == Plan({}, SchemaOf(db))
        stmts  == schema \o declaredReplaySQL(snap, author[a].declared)
    IN  /\ At(a, "replay") /\ author[a].cmd \in {"schema_only", "declared_replay"}
        /\ IF db.ok /\ simulateCheckpoint(schema) = {SchemaOf(db)} /\ DataEvidence(db, author[a].cmd, stmts)
           THEN author' = [author EXCEPT ![a].pc = "publish",
                    ![a].out = <<Entry(author[a].version, stmts, FALSE, "checkpoint", {}, SchemaOf(db),
                                       snap, author[a].cmd)>>]
           ELSE Return(a)
        /\ UNCHANGED manifest

(* UpdateWithOps with ExpectedManifestDigest: the snapshot must still be the  *)
(* published one.                                                           *)
publishGeneration(a) ==
    /\ At(a, "publish")
    /\ manifest' = IF manifest = author[a].snap /\ Builds(manifest, author[a].out[1])
                   THEN manifest \o author[a].out ELSE manifest
    /\ Return(a)

(* Any stage may refuse or fail; the deferred cleanup removes the databases   *)
(* and nothing is published.                                                *)
StageFails(a) == author[a].pc \in {"replay", "publish"} /\ Return(a) /\ UNCHANGED manifest

-----------------------------------------------------------------------------
(* migrate.Update by a caller of the library: a hand-written migration is     *)
(* added, or the SQL of an earlier hand-written one is changed.              *)
AddMigration(version, s, branch) ==
    LET e == Entry(version, <<s>>, branch /\ Len(manifest) > 1, "migration", {}, {}, NoHead, "none")
    IN  /\ Builds(manifest, e) /\ Len(manifest) < MaxEntries
        /\ manifest' = Append(manifest, e) /\ UNCHANGED author

RewriteMigration(i, s) ==
    /\ i \in 1..Len(manifest) /\ manifest[i].kind = "migration" /\ manifest[i].stmts # <<s>>
    /\ manifest' = [manifest EXCEPT ![i].stmts = <<s>>] /\ UNCHANGED author

-----------------------------------------------------------------------------
(* VerifyCheckpoints: range, and the chain digest of the covered head, which   *)
(* covers everything before it.                                             *)
VerifyCheckpoints(entries) ==
    \A i \in 1..Len(entries) : IsCheckpoint(entries[i]) =>
        /\ Len(entries[i].head) < i
        /\ entries[i].head = SubSeq(entries, 1, Len(entries[i].head))

GenerationInit == manifest = <<>> /\ author = [a \in Authors |-> Idle]

(* A version above the head; two authors may choose different ones.          *)
NextVersion(skip) == (IF manifest = <<>> THEN 0 ELSE Last(manifest).version) + 1 + skip
Versions == {manifest[i].version : i \in 1..Len(manifest)}

GenerationNext ==
    \/ \E a \in Authors :
         \/ \E skip \in {0, 1} :
              \/ \E d \in Documents : Generate(a, NextVersion(skip), d.scope, d.tables)
              \/ \E policy \in {"schema_only", "declared_replay"} : \E declared \in SUBSET Versions :
                    CreateCheckpoint(a, NextVersion(skip), policy, declared)
         \/ BuildGenerated(a) \/ BuildCheckpoint(a) \/ publishGeneration(a) \/ StageFails(a)
    \/ \E s \in Writable, branch \in BOOLEAN : AddMigration(NextVersion(0), s, branch)
    \/ \E s \in Rewrites, i \in 1..MaxEntries : RewriteMigration(i, s)

-----------------------------------------------------------------------------
(* A checkpoint stands for what it covers: as long as the checkpoints of a    *)
(* directory verify, a fresh database that starts at the latest one gets the  *)
(* same schema as one that runs every migration, and the same rows unless a   *)
(* covered migration filled a table with CREATE TABLE AS.                    *)
Uncompacted == ExecAll(Empty, Statements(SelectSeq(manifest, LAMBDA e : ~IsCheckpoint(e))))
FilledByCreate ==
    \E i \in 1..Len(manifest) : \E k \in 1..Len(manifest[i].stmts) : manifest[i].stmts[k].op = "create_as"
CheckpointFaithful ==
    VerifyCheckpoints(manifest) /\ Uncompacted.ok =>
        LET short == replaySnapshot(manifest)
        IN  /\ short.ok /\ SchemaOf(short) = SchemaOf(Uncompacted)
            /\ FilledByCreate \/ short = Uncompacted
=============================================================================
