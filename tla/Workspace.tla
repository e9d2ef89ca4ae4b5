----------------------------- MODULE Workspace -----------------------------
(***************************************************************************)
(* Isolated PostgreSQL workspaces: simulate.Run with PostgresFactory.  A run *)
(* leases the cluster-wide roles that the schema refers to, creates a        *)
(* database of its own, materialises a schema in it, executes a plan and     *)
(* removes everything again.  Several runs share one server, and hold        *)
(* advisory locks per role, shared while they use it and exclusive while     *)
(* they make or remove it.  A statement may fail, and a process may be       *)
(* killed, which closes its sessions and so frees its locks.                 *)
(***************************************************************************)
EXTENDS Naturals, Sequences, FiniteSets

CONSTANTS Runs,         \* concurrent simulations
          Nobody,       \* no run
          Required,     \* the roles each run requires, as given (numbers stand for names)
          Managed,      \* the roles that the documents of each run create
          MaxAttempts,  \* attempts to drop the database (12 in the code)
          Outside,      \* roles that existed before and belong to others
          WorkspaceFaults \* statements that may fail and runs that may be killed

VARIABLES roles,        \* roles on the server: name |-> marked as temporary
          shared,       \* runs that hold the shared lock of a role
          exclusive,    \* run that holds the exclusive lock of a role
          databases,    \* runs whose database exists
          ws,           \* the state of each run
          mishaps       \* failures and kills so far

workspaceVars == <<roles, shared, exclusive, databases, ws, mishaps>>

-----------------------------------------------------------------------------
(* The roles as given, each once, in ascending order.                       *)
normalizedRequiredRoles(p) ==
    LET given == {Required[p][k] : k \in 1..Len(Required[p])}
    IN  CHOOSE s \in [1..Cardinality(given) -> given] : \A i, j \in DOMAIN s : i < j => s[i] < s[j]

Names == UNION {{Required[p][k] : k \in 1..Len(Required[p])} : p \in Runs}

Fresh == [pc |-> "start", at |-> 1, lease |-> <<>>, tracked |-> {}, tries |-> 1, failed |-> FALSE]
NewLease(r) == [name |-> r, managed |-> FALSE, created |-> FALSE]

Exists(r) == r \in DOMAIN roles
Marked(r) == Exists(r) /\ roles[r]
With(r, marked) == [x \in DOMAIN roles \cup {r} |-> IF x = r THEN marked ELSE roles[x]]
Without(r) == [x \in DOMAIN roles \ {r} |-> roles[x]]

At(p, pc) == ws[p].pc = pc
Role(p) == normalizedRequiredRoles(p)[ws[p].at]
Go(p, pc) == ws' = [ws EXCEPT ![p].pc = pc]

(* The lease entry of the role at hand is the last one.                     *)
Entry(p, managed) == [ws[p].lease EXCEPT ![Len(ws[p].lease)].managed = managed]
CreatedEntry(p) == [ws[p].lease EXCEPT ![Len(ws[p].lease)] = [@ EXCEPT !.managed = TRUE, !.created = TRUE]]

(* On to the next role, or to CREATE DATABASE.                              *)
NextRole(p, lease) ==
    ws' = [ws EXCEPT ![p] = [@ EXCEPT !.lease = lease, !.at = ws[p].at + 1,
                !.pc = IF ws[p].at = Len(normalizedRequiredRoles(p)) THEN "create_database" ELSE "lock_shared"]]

-----------------------------------------------------------------------------
CreateWorkspace(p) ==
    /\ At(p, "start")
    /\ Go(p, IF Required[p] = <<>> THEN "create_database" ELSE "lock_shared")
    /\ UNCHANGED <<roles, shared, exclusive, databases, mishaps>>

(* acquirePostgresRoleLease, one statement at a time.                       *)
LockShared(p) ==
    /\ At(p, "lock_shared") /\ exclusive[Role(p)] \in {Nobody, p}
    /\ shared' = [shared EXCEPT ![Role(p)] = @ \cup {p}]
    /\ ws' = [ws EXCEPT ![p].lease = Append(@, NewLease(Role(p))), ![p].pc = "look"]
    /\ UNCHANGED <<roles, exclusive, databases, mishaps>>

Look(p) ==
    /\ At(p, "look") /\ Go(p, IF Exists(Role(p)) THEN "marker" ELSE "unlock_shared")
    /\ UNCHANGED <<roles, shared, exclusive, databases, mishaps>>

ReadMarker(p) ==
    /\ At(p, "marker") /\ NextRole(p, Entry(p, Marked(Role(p))))
    /\ UNCHANGED <<roles, shared, exclusive, databases, mishaps>>

\* Mutant: the shared lock is kept while the exclusive one is awaited.
UpgradeShared(p) ==
    /\ At(p, "unlock_shared") /\ Go(p, "lock")
    /\ UNCHANGED <<roles, shared, exclusive, databases, mishaps>>

UnlockShared(p) ==
    /\ At(p, "unlock_shared")
    /\ shared' = [shared EXCEPT ![Role(p)] = @ \ {p}] /\ Go(p, "lock")
    /\ UNCHANGED <<roles, exclusive, databases, mishaps>>

Lock(p) ==
    /\ At(p, "lock") /\ exclusive[Role(p)] = Nobody /\ shared[Role(p)] \subseteq {p}
    /\ exclusive' = [exclusive EXCEPT ![Role(p)] = p] /\ Go(p, "recheck")
    /\ UNCHANGED <<roles, shared, databases, mishaps>>

Recheck(p) ==
    /\ At(p, "recheck")
    /\ IF Exists(Role(p))
       THEN ws' = [ws EXCEPT ![p].lease = Entry(p, Marked(Role(p))), ![p].pc = "share_again"]
       ELSE Go(p, "create_role")
    /\ UNCHANGED <<roles, shared, exclusive, databases, mishaps>>

CreateRole(p) ==
    /\ At(p, "create_role")
    /\ IF Exists(Role(p))
       THEN ws' = [ws EXCEPT ![p].failed = TRUE, ![p].pc = "unlock"] /\ UNCHANGED roles
       ELSE /\ roles' = With(Role(p), FALSE)
            /\ ws' = [ws EXCEPT ![p].pc = "comment", ![p].lease = CreatedEntry(p)]
    /\ UNCHANGED <<shared, exclusive, databases, mishaps>>

(* COMMENT ON ROLE and GRANT.                                               *)
MarkRole(p) ==
    /\ At(p, "comment")
    /\ roles' = [r \in DOMAIN roles |-> IF r = Role(p) THEN TRUE ELSE roles[r]]
    /\ Go(p, "share_again")
    /\ UNCHANGED <<shared, exclusive, databases, mishaps>>

ShareAgain(p) ==
    /\ At(p, "share_again")
    /\ shared' = [shared EXCEPT ![Role(p)] = @ \cup {p}] /\ Go(p, "unlock")
    /\ UNCHANGED <<roles, exclusive, databases, mishaps>>

Unlock(p) ==
    /\ At(p, "unlock")
    /\ exclusive' = [exclusive EXCEPT ![Role(p)] = Nobody]
    /\ IF ws[p].failed THEN Go(p, "close") ELSE NextRole(p, ws[p].lease)
    /\ UNCHANGED <<roles, shared, databases, mishaps>>

-----------------------------------------------------------------------------
(* CREATE DATABASE and preparePostgresDatabase.                             *)
CreateDatabase(p) ==
    /\ At(p, "create_database") /\ databases' = databases \cup {p} /\ Go(p, "track")
    /\ UNCHANGED <<roles, shared, exclusive, mishaps>>

trackCreatedRoles(p) ==
    /\ At(p, "track")
    /\ ws' = [ws EXCEPT ![p].tracked = {r \in Managed[p] : ~Exists(r)}, ![p].pc = "use"]
    /\ UNCHANGED <<roles, shared, exclusive, databases, mishaps>>

(* Materialize, Execute and Inspect: the schema refers to the leased roles   *)
(* and creates the managed ones; a managed role that exists makes the        *)
(* statement fail.  Whatever comes of it, Run cleans up.                     *)
Use(p) ==
    /\ At(p, "use") /\ Go(p, "drop_database")
    /\ roles' = IF \E r \in Managed[p] : Exists(r) THEN roles
                ELSE [r \in DOMAIN roles \cup Managed[p] |-> IF r \in DOMAIN roles THEN roles[r] ELSE FALSE]
    /\ UNCHANGED <<shared, exclusive, databases, mishaps>>

cleanupDatabase(p) ==
    /\ At(p, "drop_database") /\ databases' = databases \ {p} /\ Go(p, "drop_tracked")
    /\ UNCHANGED <<roles, shared, exclusive, mishaps>>

cleanupCreatedRoles(p) ==
    /\ At(p, "drop_tracked") /\ Go(p, "close")
    /\ roles' = [r \in DOMAIN roles \ ws[p].tracked |-> roles[r]]
    /\ UNCHANGED <<shared, exclusive, databases, mishaps>>

(* postgresRoleLease.Close, from the last role back to the first.           *)
LastEntry(p) == ws[p].lease[Len(ws[p].lease)]
Shorter(p) == SubSeq(ws[p].lease, 1, Len(ws[p].lease) - 1)

CloseNext(p) ==
    /\ At(p, "close")
    /\ IF ws[p].lease = <<>> THEN ws' = [ws EXCEPT ![p] = [Fresh EXCEPT !.pc = "done"]] /\ UNCHANGED shared
       ELSE /\ shared' = [shared EXCEPT ![LastEntry(p).name] = @ \ {p}]
            /\ IF LastEntry(p).managed THEN Go(p, "try_lock")
               ELSE ws' = [ws EXCEPT ![p].lease = Shorter(p)]
    /\ UNCHANGED <<roles, exclusive, databases, mishaps>>

\* Mutant: the role is dropped whether or not the lock was granted.
TryLockAnyway(p) ==
    /\ At(p, "try_lock") /\ Go(p, "drop_role")
    /\ UNCHANGED <<roles, shared, exclusive, databases, mishaps>>

TryLock(p) ==
    /\ At(p, "try_lock")
    /\ LET r == LastEntry(p).name
       IN  IF shared[r] \subseteq {p} /\ exclusive[r] = Nobody
           THEN exclusive' = [exclusive EXCEPT ![r] = p] /\ Go(p, "drop_role")
           ELSE ws' = [ws EXCEPT ![p].lease = Shorter(p), ![p].pc = "close"] /\ UNCHANGED exclusive
    /\ UNCHANGED <<roles, shared, databases, mishaps>>

DropRole(p) ==
    /\ At(p, "drop_role")
    /\ LET e == LastEntry(p)
       IN  roles' = IF e.created \/ Marked(e.name) THEN Without(e.name) ELSE roles
    /\ Go(p, "close_unlock")
    /\ UNCHANGED <<shared, exclusive, databases, mishaps>>

CloseUnlock(p) ==
    /\ At(p, "close_unlock")
    /\ exclusive' = [exclusive EXCEPT ![LastEntry(p).name] = Nobody]
    /\ ws' = [ws EXCEPT ![p].lease = Shorter(p), ![p].pc = "close"]
    /\ UNCHANGED <<roles, shared, databases, mishaps>>

-----------------------------------------------------------------------------
(* A statement fails, before the server did it or after.                    *)
Mishap(p) == mishaps < WorkspaceFaults /\ mishaps' = mishaps + 1

AcquireFails(p) ==
    /\ ws[p].pc \in {"lock_shared", "look", "marker", "unlock_shared", "lock"} /\ Mishap(p)
    /\ ws' = [ws EXCEPT ![p].failed = TRUE, ![p].pc = "close"]
    /\ UNCHANGED <<roles, shared, exclusive, databases>>

(* Under the exclusive lock an error is kept until the lock is released.    *)
CreateFails(p) ==
    /\ ws[p].pc \in {"recheck", "create_role", "comment", "share_again"} /\ Mishap(p)
    /\ ws' = [ws EXCEPT ![p].failed = TRUE, ![p].pc = "unlock"]
    /\ roles' \in {roles} \cup (IF At(p, "create_role") /\ ~Exists(Role(p)) THEN {With(Role(p), FALSE)}
                                ELSE IF At(p, "comment") THEN {With(Role(p), TRUE)} ELSE {})
    /\ UNCHANGED <<shared, exclusive, databases>>

(* Each error after the lease leads to the cleanup: of CreateWorkspace, or   *)
(* of Run.                                                                  *)
UseFails(p) ==
    /\ ws[p].pc \in {"create_database", "track", "use"} /\ Mishap(p)
    /\ databases' \in {databases, databases \cup {p}} /\ Go(p, "drop_database")
    /\ UNCHANGED <<roles, shared, exclusive>>

(* cleanupDatabaseCycles: a transient error is tried again, up to the limit; *)
(* with any other the next part of the cleanup goes ahead.                  *)
cleanupAttemptFails(p, transient) ==
    /\ At(p, "drop_database") /\ Mishap(p)
    /\ IF transient /\ ws[p].tries < MaxAttempts THEN ws' = [ws EXCEPT ![p].tries = @ + 1]
       ELSE Go(p, "drop_tracked")
    /\ UNCHANGED <<roles, shared, exclusive, databases>>

CleanupFails(p) ==
    /\ ws[p].pc \in {"drop_tracked", "drop_role"} /\ Mishap(p)
    /\ Go(p, IF At(p, "drop_role") THEN "close_unlock" ELSE "close")
    /\ UNCHANGED <<roles, shared, exclusive, databases>>

Kill(p) ==
    /\ ws[p].pc \notin {"start", "done"} /\ Mishap(p)
    /\ shared' = [r \in Names |-> shared[r] \ {p}]
    /\ exclusive' = [r \in Names |-> IF exclusive[r] = p THEN Nobody ELSE exclusive[r]]
    /\ Go(p, "done") /\ UNCHANGED <<roles, databases>>

-----------------------------------------------------------------------------
WorkspaceInit ==
    /\ roles = [r \in Outside |-> FALSE]
    /\ shared = [r \in Names |-> {}] /\ exclusive = [r \in Names |-> Nobody]
    /\ databases = {} /\ ws = [p \in Runs |-> Fresh] /\ mishaps = 0

WorkspaceStep(p) ==
    \/ CreateWorkspace(p) \/ LockShared(p) \/ Look(p) \/ ReadMarker(p) \/ UnlockShared(p)
    \/ Lock(p) \/ Recheck(p) \/ CreateRole(p) \/ MarkRole(p) \/ ShareAgain(p) \/ Unlock(p)
    \/ CreateDatabase(p) \/ trackCreatedRoles(p) \/ Use(p) \/ cleanupDatabase(p) \/ cleanupCreatedRoles(p)
    \/ CloseNext(p) \/ TryLock(p) \/ DropRole(p) \/ CloseUnlock(p)

WorkspaceNext ==
    \E p \in Runs : \/ WorkspaceStep(p) \/ AcquireFails(p) \/ CreateFails(p) \/ UseFails(p)
                    \/ (\E transient \in BOOLEAN : cleanupAttemptFails(p, transient))
                    \/ CleanupFails(p) \/ Kill(p)

WorkspaceSpec == WorkspaceInit /\ [][WorkspaceNext]_workspaceVars

-----------------------------------------------------------------------------
(* What normalizedRequiredRoles returns: the roles as given, each once, in    *)
(* ascending order.                                                          *)
Normalized ==
    \A p \in Runs :
        /\ Required[p] \in Seq(Nat) /\ normalizedRequiredRoles(p) \in Seq(Nat)
        /\ \A i, j \in 1..Len(normalizedRequiredRoles(p)) :
              i < j => normalizedRequiredRoles(p)[i] < normalizedRequiredRoles(p)[j]
        /\ {normalizedRequiredRoles(p)[i] : i \in 1..Len(normalizedRequiredRoles(p))}
              = {Required[p][k] : k \in 1..Len(Required[p])}

(* The roles that the documents of one run create are not leased by another.  *)
Apart ==
    \A p, q \in Runs : p # q => \A k \in 1..Len(Required[q]) : Required[q][k] \notin Managed[p]

-----------------------------------------------------------------------------
(* A role that a run has leased is there until the run closes the lease,     *)
(* whatever other runs do (acquirePostgresRoleLease, Close).                 *)
LeasedStays ==
    \A p \in Runs : ws[p].pc \in {"create_database", "track", "use", "drop_database", "drop_tracked"} =>
        \A k \in 1..Len(Required[p]) : Exists(Required[p][k])

(* Runs never wait for each other in a circle: while one is not over, one of *)
(* them can go on (the shared lock is given up before the exclusive).      *)
Blocked(p) ==
    \/ At(p, "lock_shared") /\ exclusive[Role(p)] \notin {Nobody, p}
    \/ At(p, "lock") /\ (exclusive[Role(p)] # Nobody \/ ~(shared[Role(p)] \subseteq {p}))
NoCircularWait == (\A p \in Runs : At(p, "done")) \/ \E p \in Runs : ~At(p, "done") /\ ~Blocked(p)
=============================================================================
