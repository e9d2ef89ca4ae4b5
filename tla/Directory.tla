----------------------------- MODULE Directory -----------------------------
(***************************************************************************)
(* The migration directory of pkg/migrate: one manifest file that names an *)
(* immutable generation, replaced by a journalled, compare-and-swapped     *)
(* update (updateLocked), finished after a crash by Recover, and converted *)
(* from the v0 format by MigrateManifest.  Its writers are the generator   *)
(* and the checkpoint builder, which take a snapshot, work for a long time *)
(* without the lock, and publish against the digest they read.             *)
(*                                                                         *)
(* A manifest is the sequence of its entries; two manifests have the same  *)
(* digest exactly when they are equal.  A file is a name of the root with  *)
(* a content; what a crash may undo is every directory operation that no   *)
(* fsync of its directory followed.                                        *)
(***************************************************************************)
EXTENDS Naturals, Sequences, FiniteSets, SequencesExt, FiniteSetsExt, TLC

CONSTANTS
    Writers,       \* processes that generate, checkpoint, migrate or recover
    Versions,      \* versions a new file may carry, a set of naturals
    MaxFile,       \* maxFile and maxManifest in entries: a manifest of n
    MaxManifest,   \* entries has size n, its journal n + 1
    Starts,        \* names of the directories a history starts from
    MaxFaults      \* how many crashes, failed calls and power losses may happen

VARIABLES
    synced,        \* durable content of each name
    pending,       \* directory operations no fsync has made durable
    locked,        \* writer holding the exclusive flock, or None
    writer,        \* per process: pc, the request, and what it captured
    published,     \* history: manifests in the order they were renamed in
    acked,         \* history: Len(published) when a writer last returned
    wins,          \* history: the updates that returned success
    dirFaults      \* crashes, failed calls and power losses so far

dirVars == <<synced, pending, locked, writer, published, acked, wins, dirFaults>>

NoWriter == "none"

\* The content of a name: no file, a file cut short by a crash, a generation
\* that lacks files, or the whole of what its writer meant to write.
Absent == <<"absent", <<>>>>
Torn == <<"torn", <<>>>>
Part == <<"part", <<>>>>
Whole(x) == <<"whole", x>>

-----------------------------------------------------------------------------
\* build: sort the files by version, default each parent to the entry
\* before it, and refuse duplicates, gaps and undeclared forks.

\* A file as the generator hands it to build: parents are explicit for a file
\* taken from a snapshot (snapshotFiles) and empty for a new one.
SnapshotFiles(man) ==
    {[v |-> man[i].v, kind |-> man[i].kind, from |-> man[i].from, to |-> man[i].to,
      parents |-> man[i].parents] : i \in DOMAIN man}

NewFile(v) == [v |-> v, kind |-> "sql", from |-> 0, to |-> 0, parents |-> {}]

\* CreateCheckpoint covers the whole history it captured.
CheckpointFile(v, man) ==
    [v |-> v, kind |-> "checkpoint", from |-> man[1].v, to |-> Last(man).v, parents |-> {}]

SortedVersions(files) == SetToSortSeq({f.v : f \in files}, <)

Entries(files) ==
    LET vs == SortedVersions(files)
        File(i) == CHOOSE f \in files : f.v = vs[i]
    IN  [i \in DOMAIN vs |->
            [File(i) EXCEPT !.parents = IF i > 1 /\ @ = {} THEN {vs[i - 1]} ELSE @]]

\* Every file of this model is linear: an entry whose parent is not its
\* predecessor is the nonlinear_chain conflict.
Builds(files) ==
    LET es == Entries(files)
        At(v) == {i \in DOMAIN es : es[i].v = v}
    IN  /\ Cardinality({f.v : f \in files}) = Cardinality(files)
        /\ es[1].parents = {}
        /\ \A i \in DOMAIN es :
              /\ i > 1 => es[i].parents = {es[i - 1].v}
              /\ es[i].kind = "checkpoint" =>
                    \E f \in At(es[i].from), t \in At(es[i].to) : f <= t /\ t < i

-----------------------------------------------------------------------------
\* The root directory.

\* The names of the root: the manifest, the journal, the loose SQL files of a
\* v0 directory and the copy kept of its manifest, a staged manifest per
\* candidate and a generation per manifest.
ManifestFile == <<"manifest", <<>>>>
JournalFile == <<"journal", <<>>>>
RootSQL == <<"sql", <<>>>>
Fixture == <<"fixture", <<>>>>
Staged(man) == <<"staged", man>>
Gen(man) == <<"gen", man>>
Content(dir, name) == IF name \in DOMAIN dir THEN dir[name] ELSE Absent

AfterOps(dir, ops) == FoldLeft(LAMBDA d, o : o @@ d, dir, ops)
root == AfterOps(synced, pending)
Has(name) == Content(root, name)

NoIO == UNCHANGED <<synced, pending>>

\* A directory operation happens at once for every process and is durable only
\* after the next fsync of the root.
DirOp(op) == pending' = Append(pending, op) /\ UNCHANGED synced
\* Mutant: the fsync is skipped.
FsyncSkipped == NoIO

Fsync == synced' = root /\ pending' = <<>>

Manifest(man) == <<"v1", man>>
Legacy(man) == <<"v0", man>>

\* loadAt: the manifest file parses as a v1 manifest.
Loads == Has(ManifestFile)[1] = "v1"
Current == Has(ManifestFile)[2]

\* verifyGenerationAt: exactly the manifest's files, byte for byte.
GenerationVerifies(man) == Has(Gen(man)) = Whole(man)

\* snapshotAt: a v1 manifest, its whole generation, no SQL file in the root.
SnapshotReadable == Loads /\ GenerationVerifies(Current) /\ Has(RootSQL) = Absent

-----------------------------------------------------------------------------
\* Processes.

IdleWriter == [pc |-> "idle", kind |-> NoWriter, man |-> <<>>, expected |-> Absent]
AtRest == {"idle", "done"}

\* Leaving the locked section: the deferred closeLock, on every return.
Leave(p, pc) ==
    /\ writer' = [writer EXCEPT ![p].pc = pc]
    /\ locked' = NoWriter

Proceed(p, pc) == writer' = [writer EXCEPT ![p].pc = pc] /\ UNCHANGED locked

Ask(p, kind, man, expected) ==
    /\ writer' = [writer EXCEPT ![p] =
          [pc |-> "ready", kind |-> kind, man |-> man, expected |-> expected]]
    /\ UNCHANGED <<synced, pending, locked, published, acked, wins, dirFaults>>

\* The file a writer adds: a migration or a checkpoint of what it read.
NewEntry(kind, v) == IF kind = "checkpoint" THEN CheckpointFile(v, Current) ELSE NewFile(v)

\* A writer's file on top of the snapshot it read under the shared lock.
Publication(p, kind) ==
    /\ writer[p].pc \in AtRest
    /\ locked = NoWriter
    /\ SnapshotReadable
    /\ \E v \in Versions :
          LET files == SnapshotFiles(Current) \union {NewEntry(kind, v)}
          IN  /\ v \notin {Current[i].v : i \in DOMAIN Current}
              /\ Builds(files)
              /\ Len(Entries(files)) <= MaxManifest
              /\ Ask(p, "update", Entries(files), Has(ManifestFile))

\* Generate up to its publish stage: LoadSnapshot, linearHead, replay and
\* planning (which may end the call: then nothing was written and the process
\* stays idle), and the candidate.
GenerateMigration(p) == Publication(p, "migration")

\* CreateCheckpoint up to its publish stage, in the same way.
CreateCheckpoint(p) == Publication(p, "checkpoint")

\* The first publication of an empty directory: the create form of the CAS.
CreateDirectory(p) ==
    /\ writer[p].pc \in AtRest
    /\ Has(ManifestFile) = Absent
    /\ \E v \in Versions : Ask(p, "update", Entries({NewFile(v)}), Absent)

\* MigrateManifest of a v0 directory.
MigrateManifest(p) ==
    /\ writer[p].pc \in AtRest
    /\ Has(ManifestFile)[1] = "v0"
    /\ Ask(p, "v0-migration", Current, Has(ManifestFile))

\* Recover, run by an operator who finds a journal.
RecoverDirectory(p) ==
    /\ writer[p].pc \in AtRest \union {"failed"}
    /\ Has(JournalFile) # Absent
    /\ Ask(p, "recover", <<>>, Absent)

\* The repetition of a failed call with the same candidate and precondition.
RetryUpdate(p) ==
    /\ writer[p].pc = "failed"
    /\ writer[p].kind # "recover"
    /\ Ask(p, writer[p].kind, writer[p].man, writer[p].expected)

\* openLock(root, true): flock blocks until no other writer holds it.
LockDirectory(p) ==
    /\ writer[p].pc = "ready"
    /\ locked = NoWriter
    /\ locked' = p
    /\ writer' = [writer EXCEPT ![p].pc = "check"]
    /\ UNCHANGED <<synced, pending, published, acked, wins, dirFaults>>

\* parseJournal succeeds within a size limit.
JournalParses(limit) == Has(JournalFile)[1] = "whole" /\ Len(Has(JournalFile)[2].man) < limit
Journal == Has(JournalFile)[2]

\* updateLocked and MigrateManifestWithOps up to their first write: a pending
\* journal is resumed by its own request only, the current snapshot must be
\* trusted, and its digest must be the one the caller read.
CheckUpdate(p) ==
    LET c == writer[p]
        mine == /\ JournalParses(MaxManifest)
                /\ Journal.man = c.man /\ Journal.expected = c.expected
                /\ Journal.kind = c.kind
    IN  /\ c.pc = "check"
        /\ UNCHANGED <<synced, pending, published, acked, wins, dirFaults>>
        /\ CASE c.kind = "recover" -> Proceed(p, "recover")
             [] c.kind = "update" ->
                  IF Has(JournalFile) # Absent
                  THEN IF mine THEN Proceed(p, "recover") ELSE Leave(p, "failed")
                  ELSE IF /\ Loads => SnapshotReadable
                          /\ Has(ManifestFile)[1] # "v0"
                          /\ Has(ManifestFile) = c.expected
                       THEN Proceed(p, "generation") ELSE Leave(p, "failed")
             [] c.kind = "v0-migration" ->
                  IF Has(JournalFile) # Absent THEN Proceed(p, "recover")
                  ELSE IF Loads
                  THEN Leave(p, IF SnapshotReadable THEN "done" ELSE "failed")
                  ELSE Has(ManifestFile) = c.expected /\ Proceed(p, "fixture")

\* recoverLockedWithOps up to its first write: the journal is the authority to
\* finish its own rename, or its cleanup when the rename is already there.
RecoveryVerdict ==
    IF ~JournalParses(MaxFile) \/ ~GenerationVerifies(Journal.man) THEN "failed"
    ELSE IF Has(ManifestFile) = Manifest(Journal.man) THEN "clean"
    ELSE IF /\ Has(ManifestFile) = Journal.expected
            /\ Loads => SnapshotReadable
            /\ Has(Staged(Journal.man)) = Manifest(Journal.man)
         THEN "rename" ELSE "failed"

RecoverLocked(p) ==
    /\ writer[p].pc = "recover"
    /\ IF Has(JournalFile) = Absent THEN Leave(p, "done")
       ELSE IF RecoveryVerdict = "failed" THEN Leave(p, "failed")
       ELSE /\ writer' = [writer EXCEPT ![p].pc = RecoveryVerdict, ![p].man = Journal.man]
            /\ UNCHANGED locked
    /\ UNCHANGED <<synced, pending, published, acked, wins, dirFaults>>

-----------------------------------------------------------------------------
\* The writes of updateLocked, in order; recovery enters at the rename.

WriteFile(p, pc, name, content, next) ==
    /\ writer[p].pc = pc
    /\ Has(name) \in {Absent, Part, content}
    /\ IF Has(name) = content THEN NoIO ELSE DirOp(name :> content)
    /\ Proceed(p, next)
    /\ UNCHANGED <<published, acked, wins, dirFaults>>

\* A file left torn by a crash is foreign bytes to every later writer.
RefuseTorn(p, pc, name) ==
    /\ writer[p].pc = pc
    /\ Has(name) = Torn
    /\ Leave(p, "failed")
    /\ UNCHANGED <<synced, pending, published, acked, wins, dirFaults>>

SyncRoot(p, pc, next) ==
    /\ writer[p].pc = pc
    /\ Fsync
    /\ Proceed(p, next)
    /\ UNCHANGED <<published, acked, wins, dirFaults>>

JournalOf(c) == [kind |-> c.kind, expected |-> c.expected, man |-> c.man]

WriteFixture(p) ==
    \/ WriteFile(p, "fixture", Fixture, writer[p].expected, "generation")
    \/ RefuseTorn(p, "fixture", Fixture)

WriteGeneration(p) ==
    \/ WriteFile(p, "generation", Gen(writer[p].man), Whole(writer[p].man), "gensync")
    \/ RefuseTorn(p, "generation", Gen(writer[p].man))

SyncGeneration(p) ==
    LET g == Gen(writer[p].man)
    IN  /\ writer[p].pc = "gensync"
        /\ synced' = (g :> Has(g)) @@ synced
        /\ pending' = SelectSeq(pending, LAMBDA o : DOMAIN o # {g})
        /\ Proceed(p, "stage")
        /\ UNCHANGED <<published, acked, wins, dirFaults>>

StageManifest(p) ==
    \/ WriteFile(p, "stage", Staged(writer[p].man), Manifest(writer[p].man), "journal")
    \/ RefuseTorn(p, "stage", Staged(writer[p].man))

WriteJournal(p) ==
    /\ writer[p].pc = "journal"
    /\ Has(JournalFile) = Absent
    /\ DirOp(JournalFile :> Whole(JournalOf(writer[p])))
    /\ Proceed(p, "presync")
    /\ UNCHANGED <<published, acked, wins, dirFaults>>

SyncJournal(p) == SyncRoot(p, "presync", "rename")

RenameManifest(p) ==
    /\ writer[p].pc = "rename"
    /\ DirOp((ManifestFile :> Manifest(writer[p].man)) @@ (Staged(writer[p].man) :> Absent))
    /\ published' = Append(published, writer[p].man)
    /\ Proceed(p, "postsync")
    /\ UNCHANGED <<acked, wins, dirFaults>>

SyncManifest(p) == SyncRoot(p, "postsync", "clean")

\* Mutant: the v0 files are not removed.
CleanupNothing(p) ==
    /\ writer[p].pc = "clean"
    /\ NoIO
    /\ Proceed(p, "cleansync")
    /\ UNCHANGED <<published, acked, wins, dirFaults>>

Cleanup(p) ==
    /\ writer[p].pc = "clean"
    /\ IF Journal.kind = "v0-migration" THEN DirOp(RootSQL :> Absent) ELSE NoIO
    /\ Proceed(p, "cleansync")
    /\ UNCHANGED <<published, acked, wins, dirFaults>>

SyncCleanup(p) == SyncRoot(p, "cleansync", "retire")

RetireJournal(p) ==
    /\ writer[p].pc = "retire"
    /\ DirOp(JournalFile :> Absent)
    /\ Proceed(p, "lastsync")
    /\ UNCHANGED <<published, acked, wins, dirFaults>>

\* The last fsync and the successful return.
Finish(p) ==
    /\ writer[p].pc = "lastsync"
    /\ Fsync
    /\ Leave(p, "done")
    /\ acked' = Len(published)
    /\ wins' = IF writer[p].kind = "update"
               THEN wins \union {[from |-> writer[p].expected, to |-> writer[p].man]}
               ELSE wins
    /\ UNCHANGED <<published, dirFaults>>

-----------------------------------------------------------------------------
\* Faults.

\* The name a step is writing, for the steps that write a file.
WriteTarget(c) ==
    CASE c.pc = "fixture" -> {Fixture}
      [] c.pc = "generation" -> {Gen(c.man)}
      [] c.pc = "stage" -> {Staged(c.man)}
      [] c.pc = "journal" -> {JournalFile}
      [] OTHER -> {}

DirFault == dirFaults < MaxFaults /\ dirFaults' = dirFaults + 1

\* A system call fails: the error returns, the lock is released, a file being
\* written is unlinked again (writeAt), files already in a generation stay.
CallFails(p) ==
    /\ writer[p].pc \notin AtRest \union {"failed", "ready", "check", "recover"}
    /\ DirFault
    /\ IF writer[p].pc = "generation" /\ Has(Gen(writer[p].man)) = Absent
       THEN DirOp(Gen(writer[p].man) :> Part) ELSE NoIO
    /\ Leave(p, "failed")
    /\ UNCHANGED <<published, acked, wins>>

\* The process dies: the kernel drops its lock, and a file it was writing may
\* stay cut short.
WriterCrash(p) ==
    /\ writer[p].pc \notin AtRest
    /\ DirFault
    /\ \/ NoIO
       \/ \E name \in WriteTarget(writer[p]) :
             Has(name) \in {Absent, Part} /\ DirOp(name :> Torn)
    /\ writer' = [writer EXCEPT ![p] = IdleWriter]
    /\ locked' = IF locked = p THEN NoWriter ELSE locked
    /\ UNCHANGED <<published, acked, wins>>

\* The machine stops: the file system keeps some prefix of the operations that
\* no fsync covered.
PowerLoss ==
    /\ DirFault
    /\ \E n \in 0 .. Len(pending) : synced' = AfterOps(synced, SubSeq(pending, 1, n))
    /\ pending' = <<>>
    /\ writer' = [p \in Writers |-> IdleWriter]
    /\ locked' = NoWriter
    /\ UNCHANGED <<published, acked, wins>>

-----------------------------------------------------------------------------
\* An empty directory, a published one, and an untouched v0 directory.
Entry(v, parents) == [v |-> v, kind |-> "sql", from |-> 0, to |-> 0, parents |-> parents]
StartOf(name) ==
    CASE name = "empty"     -> ManifestFile :> Absent
      [] name = "published" -> (ManifestFile :> Manifest(<<Entry(2, {})>>))
                               @@ (Gen(<<Entry(2, {})>>) :> Whole(<<Entry(2, {})>>))
      [] name = "v0"        -> (ManifestFile :> Legacy(<<Entry(2, {}), Entry(3, {2})>>))
                               @@ (RootSQL :> Whole(<<>>))

DirInit ==
    /\ synced \in {StartOf(name) : name \in Starts}
    /\ pending = <<>>
    /\ locked = NoWriter
    /\ writer = [p \in Writers |-> IdleWriter]
    /\ published = IF Loads THEN <<Current>> ELSE <<>>
    /\ acked = Len(published)
    /\ wins = {}
    /\ dirFaults = 0

DirStep(p) ==
    \/ LockDirectory(p) \/ CheckUpdate(p) \/ RecoverLocked(p)
    \/ WriteFixture(p) \/ WriteGeneration(p) \/ SyncGeneration(p)
    \/ StageManifest(p) \/ WriteJournal(p) \/ SyncJournal(p)
    \/ RenameManifest(p) \/ SyncManifest(p) \/ Cleanup(p) \/ SyncCleanup(p)
    \/ RetireJournal(p) \/ Finish(p)

DirNext ==
    \/ \E p \in Writers :
          \/ GenerateMigration(p) \/ CreateCheckpoint(p)
          \/ CreateDirectory(p) \/ MigrateManifest(p)
          \/ RecoverDirectory(p) \/ RetryUpdate(p)
          \/ DirStep(p)
          \/ CallFails(p) \/ WriterCrash(p)
    \/ PowerLoss

DirSpec == DirInit /\ [][DirNext]_dirVars

-----------------------------------------------------------------------------
\* Type invariant: exactly the writer in a locked step holds the flock.
DirTypeOK ==
    /\ locked \in Writers \union {NoWriter}
    /\ acked \in 0 .. Len(published)
    /\ dirFaults \in 0 .. MaxFaults
    /\ \A p \in Writers :
          locked = p <=> writer[p].pc \notin AtRest \union {"failed", "ready"}

\* The manifest an update has returned survives every later crash: what the
\* directory shows is that manifest or one published after it.
Durable ==
    acked > 0 => \E i \in acked .. Len(published) : Has(ManifestFile) = Manifest(published[i])

\* Whenever no writer is at work, a whole journal can be carried to its end by
\* Recover, and without one the directory is readable, not yet created, or an
\* untouched v0 directory: no order of crashes leaves a half-published history.
\* (A journal that does not fit maxFile is the subject of RecoverFinishes.)
Recoverable ==
    locked = NoWriter =>
        IF JournalParses(MaxFile) THEN RecoveryVerdict # "failed"
        ELSE \/ SnapshotReadable
             \/ Has(ManifestFile) = Absent
             \/ Has(ManifestFile)[1] = "v0" /\ Has(RootSQL) # Absent

\* Of the updates that raced from one manifest, one returns success.
OneWinner == \A a, b \in wins : a.from = b.from => a.to = b.to

\* README: Recover can finish the exact transition of any journal.
RecoverFinishes ==
    locked = NoWriter /\ Has(JournalFile)[1] = "whole" => RecoveryVerdict # "failed"

\* docs/migration-generation.md: a failed publication leaves the published
\* snapshot as it was.
FailureLeavesSnapshot ==
    \A p \in Writers :
        writer[p].pc = "failed" /\ writer[p].kind = "update" =>
            Has(ManifestFile) # Manifest(writer[p].man)
=============================================================================
