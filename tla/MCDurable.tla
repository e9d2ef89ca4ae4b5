----------------------------- MODULE MCDurable ------------------------------
(* One instance for the components whose work outlives the process that did  *)
(* it: objects on servers (MCPlatform), files on disks (MCStores), the roles  *)
(* of scratch databases (Workspace) and the production database of a release  *)
(* (Release).  A behaviour is about one component; the variables of the       *)
(* others are Unused.                                                         *)
EXTENDS Naturals, TLC

CONSTANTS Processes, Nobody, None, Unused,
          d1, d2, w1, w2, a1, a2, a3, a4, c1, c2, ann, bob, cat, dan,
          r1, r2

VARIABLES part, scene, flock,
          late, faults, disk, credential, live, registry, session, run,
          db, objects, exec, steps, busy, proc,
          now, file, acked, synced, pending, locked, writer, published, wins, dirFaults,
          key, inputs, lock, tags, backup, manifest, worker, eol, migration, rows, call,
          roles, shared, exclusive, databases, ws, mishaps,
          release, spec, work, locks, drift

leaseVars    == <<late, faults, disk, credential, registry, session, run>>
platformOnly == <<leaseVars, db, objects, exec, steps, busy, proc>>
fileVars     == <<now, file, acked, synced, pending, locked, writer, published, wins, dirFaults>>
storesOnly   == <<fileVars, key, inputs, lock, tags, backup, manifest, worker,
                  eol, migration, rows, call>>
leasedVars   == <<roles, shared, exclusive, databases, ws, mishaps>>
releaseVars  == <<release, spec, work, locks, drift>>
durableVars  == <<part, scene, flock, live, platformOnly, storesOnly, leasedVars, releaseVars>>

P == INSTANCE MCPlatform
S == INSTANCE MCStores

\* What the theorem about authorized mutations takes for granted.
ASSUME GateAssumption == S!G!WellFormed

(* Two runs that need roles 1 and 2, named in different orders; one manages   *)
(* role 4, the other role 3, which somebody else made.                        *)
W == INSTANCE Workspace WITH
    Runs <- {r1, r2},
    Required <- [p \in {r1, r2} |-> IF p = r1 THEN <<1, 2>> ELSE <<2, 1>>],
    Managed <- [p \in {r1, r2} |-> IF p = r1 THEN {4} ELSE {3}],
    Outside <- {3}, MaxAttempts <- 2, WorkspaceFaults <- 2

\* What the theorems about the leases take for granted.
ASSUME LeaseAssumption == W!Normalized /\ W!Apart /\ Nobody \notin {r1, r2}

(* One release of five databases, with one change by somebody else.           *)
V == INSTANCE PlanningWorlds
R == INSTANCE Release WITH
    Catalogues <- V!MCCatalogues, Documents <- V!MCDocuments, Configs <- V!MCConfigs,
    Blank <- V!Plainly, MaxDrift <- 1

-----------------------------------------------------------------------------

NoPlatform ==
    /\ late = Unused /\ faults = Unused /\ disk = Unused /\ credential = Unused
    /\ registry = Unused /\ session = Unused /\ run = Unused
    /\ db = Unused /\ objects = Unused /\ exec = Unused /\ steps = Unused
    /\ busy = Unused /\ proc = Unused

NoStores ==
    /\ now = Unused /\ file = Unused /\ acked = Unused
    /\ synced = Unused /\ pending = Unused /\ locked = Unused /\ writer = Unused
    /\ published = Unused /\ wins = Unused /\ dirFaults = Unused
    /\ key = Unused /\ inputs = Unused /\ lock = Unused /\ tags = Unused
    /\ backup = Unused /\ manifest = Unused /\ worker = Unused
    /\ eol = Unused /\ migration = Unused /\ rows = Unused /\ call = Unused

NoWorkspace ==
    /\ roles = Unused /\ shared = Unused /\ exclusive = Unused /\ databases = Unused
    /\ ws = Unused /\ mishaps = Unused

NoRelease ==
    release = Unused /\ spec = Unused /\ work = Unused /\ locks = Unused /\ drift = Unused

DurableInit ==
    \/ P!PlatformInit /\ NoStores /\ NoWorkspace /\ NoRelease
    \/ S!StoresInit /\ live = Unused /\ NoPlatform /\ NoWorkspace /\ NoRelease
    \/ /\ part = "workspace" /\ W!WorkspaceInit /\ NoPlatform /\ NoStores /\ NoRelease
       /\ scene = Unused /\ flock = Unused /\ live = Unused
    \/ /\ part = "release" /\ R!ReleaseInit /\ NoPlatform /\ NoStores /\ NoWorkspace
       /\ scene = Unused /\ flock = Unused

PlatformStep == P!PlatformNext /\ UNCHANGED <<storesOnly, leasedVars, releaseVars>>
StoresStep   == S!StoresNext /\ UNCHANGED <<live, platformOnly, leasedVars, releaseVars>>
WorkspaceStep ==
    /\ part = "workspace" /\ W!WorkspaceNext
    /\ UNCHANGED <<part, scene, flock, live, platformOnly, storesOnly, releaseVars>>
ReleaseStep ==
    /\ part = "release" /\ R!ReleaseNext
    /\ UNCHANGED <<part, scene, flock, platformOnly, storesOnly, leasedVars>>

DurableNext == PlatformStep \/ StoresStep \/ WorkspaceStep \/ ReleaseStep

DurableSpec == DurableInit /\ [][DurableNext]_durableVars

\* The writers of the directory are interchangeable; nothing else is.
DurableSymmetry == Permutations({d1, d2})

-----------------------------------------------------------------------------
(* The properties of the components, each in the behaviours about it.         *)

\* Lease: what the allocation created and is still there is named by lease.json,
\* and a cleanup in which no call fails complains only of what is still there.
NothingLost == P!NothingLost

\* Lease: a cleanup removes no object that somebody else put under the name.
\* Bootstrap: nothing removes an object that was there before the bootstrap.
OnlyOwned == P!OnlyOwned

\* Bootstrap: a confirmed step and all it depends on are in the database, and a
\* statement that stands alone is not sent when its object is there.
ConfirmedIsTrue == P!ConfirmedIsTrue

\* Directory: the manifest an update has returned survives every later crash, and
\* of the updates that raced from one manifest, one returns success.
Durable == S!Durable

\* Directory: when no writer is at work, Recover can carry a whole journal to its
\* end, and without one the directory is readable.
Recoverable == S!Recoverable

\* Registry: what a Put reported as stored is read back whole, and the records of
\* a tag are one chain of artifacts that can still be read.
AckedReadable == S!AckedReadable

\* Guardrail: a mutation begins only with the approvals its findings call for.
MutationAuthorized == S!MutationAuthorized

\* Workspace: a role stays for as long as a run that needs it works.
LeasedStays == part = "workspace" => W!LeasedStays

\* Workspace: runs never wait for each other's role locks in a circle.
NoCircularWait == part = "workspace" => W!NoCircularWait

\* Release: the operator carries out a release on the database it was made for.
ReleaseApplies == part = "release" => R!ReleaseApplies

\* Release: the database is as the operator reports it.
ReportTrue == part = "release" => R!ReportTrue
=============================================================================
