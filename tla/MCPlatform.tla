----------------------------- MODULE MCPlatform -----------------------------
(* Instances of the components that make and remove objects on a server that *)
(* others use as well: leases of disposable databases (Lease) and creation of *)
(* whole databases (Bootstrap).  A behaviour is about one of them; the        *)
(* variables of the others are Unused in it.                                  *)
EXTENDS Naturals, Sequences, FiniteSets

CONSTANTS Processes, Nobody, Unused

VARIABLES part, scene, late, faults,
          disk, credential, flock, live, registry, session, run,
          db, objects, exec, steps, busy, proc

leaseVars     == <<disk, credential, flock, live, registry, session, run>>
bootstrapVars == <<db, objects, exec, steps, busy, proc>>
shared        == <<scene, late, faults>>
platformVars  == <<part, shared, leaseVars, bootstrapVars>>

-----------------------------------------------------------------------------
(* Leases: on a server whose answers come late; with somebody else on the     *)
(* server; with a credential cut short; and the same in a container.          *)
LeaseScene(mode, delayed, torn, outsider, failing) ==
    [mode |-> mode, late |-> delayed, torn |-> torn, outsider |-> outsider, faults |-> failing]
LeaseScenes == {LeaseScene("existing_admin", {"role", "database"}, FALSE, FALSE, 3),
                LeaseScene("existing_admin", {}, FALSE, TRUE, 3),
                LeaseScene("existing_admin", {}, TRUE, FALSE, 2),
                LeaseScene("container", {"role"}, FALSE, FALSE, 2),
                LeaseScene("container", {}, FALSE, TRUE, 2)}

L == INSTANCE Lease WITH Scenes <- LeaseScenes

-----------------------------------------------------------------------------
(* Bootstraps: a role, a table owned by it and two indexes; a small plan with *)
(* an abort, on a target closed to connections and beside a role that was     *)
(* there before; and a second plan on an external target.                     *)
T(id, stage, tx, deps) == [id |-> id, stage |-> stage, tx |-> tx, deps |-> deps]
First  == <<T("role", "roles", TRUE, {}), T("table", "storage", TRUE, {"role"}),
            T("index", "indexes", FALSE, {"table"}), T("unique", "indexes", FALSE, {"table"})>>
Second == <<T("later", "indexes", FALSE, {"index"})>>
Small  == <<T("role", "roles", TRUE, {}), T("index", "indexes", FALSE, {"role"})>>

BootstrapScene(plans, mode, closed, foreign, abort, failing) ==
    [plans |-> plans, mode |-> mode, closed |-> closed, foreign |-> foreign,
     abort |-> abort, faults |-> failing]
BootstrapScenes ==
    {BootstrapScene([a |-> First], "managed", FALSE, {}, FALSE, 2),
     BootstrapScene([a |-> Small], "managed", TRUE, {}, TRUE, 2),
     BootstrapScene([a |-> Small], "managed", FALSE, {"role"}, TRUE, 1),
     BootstrapScene([a |-> Small, b |-> Second], "external", FALSE, {}, FALSE, 1)}

B == INSTANCE Bootstrap WITH Scenes <- BootstrapScenes

-----------------------------------------------------------------------------
NoLease ==
    /\ disk = Unused /\ credential = Unused /\ flock = Unused /\ live = Unused
    /\ registry = Unused /\ session = Unused /\ run = Unused
NoBootstrap ==
    /\ db = Unused /\ objects = Unused /\ exec = Unused /\ steps = Unused
    /\ busy = Unused /\ proc = Unused

PlatformInit ==
    \/ part = "lease" /\ L!LInit /\ NoBootstrap
    \/ part = "bootstrap" /\ B!BInit /\ NoLease

LeaseStep == part = "lease" /\ L!LNext /\ UNCHANGED <<part, bootstrapVars>>
BootstrapStep == part = "bootstrap" /\ B!BNext /\ UNCHANGED <<part, leaseVars>>

PlatformNext == LeaseStep \/ BootstrapStep

PlatformSpec == PlatformInit /\ [][PlatformNext]_platformVars

-----------------------------------------------------------------------------
(* The properties of the components, each in the behaviours about it.         *)

\* Lease: what the allocation created and is still there is named by lease.json,
\* and a cleanup in which no call fails complains only of what is still there.
NothingLost == part = "lease" => L!NothingLost /\ L!FailureHasCause

\* Lease: a cleanup removes no object that somebody else put under the name.
\* Bootstrap: nothing removes an object that was there before the bootstrap.
OnlyOwned ==
    [][/\ part = "lease" => L!KeepsOwned
       /\ part = "bootstrap" => B!ForeignStays]_platformVars

\* Bootstrap: a confirmed step and all it depends on are in the database, and a
\* statement that stands alone is not sent when its object is there.
ConfirmedIsTrue == part = "bootstrap" => B!ConfirmedIsTrue /\ B!SentOnce

=============================================================================
