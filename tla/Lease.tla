------------------------------- MODULE Lease -------------------------------
(***************************************************************************)
(* One disposable development database (pkg/dbtest): the lease file that   *)
(* names what was allocated, the provisioning of a role and a database on  *)
(* an existing server or in a container of its own, its use, and the       *)
(* cleanup that the creating process, Close or `database dev cleanup` run. *)
(* A process may die at any step, a call may fail, and a call that timed   *)
(* out may still take effect on the server afterwards (`late`).            *)
(***************************************************************************)
EXTENDS Naturals, Sequences

CONSTANTS
    Processes,  \* processes that create, use or clean the allocation
    Nobody,     \* no process: the free state of a lock
    Scenes      \* what a behaviour is about: records with the fields
                \*   mode     - "existing_admin" or "container"
                \*   late     - kinds whose creation may take effect late
                \*   torn     - a process may die while it writes the secret
                \*   outsider - somebody else drops or replaces the objects
                \*   faults   - bound on failures, deaths and foreign steps

VARIABLES
    scene,       \* the member of Scenes this behaviour is about
    disk,        \* lease.json: the record last renamed into place
    credential,  \* connection.url: "none", "torn" or "whole"
    flock,       \* holder of the exclusive lock on the lease directory
    live,        \* kind -> the object of the allocation's name on the server
    registry,    \* kind -> row of autosql_development_leases.resources
    session,     \* holder of the advisory lock of the allocation's marker
    late,        \* creations still under way after their caller gave up
    run,         \* process -> its program counter and local state
    faults       \* failures so far

server == <<live, registry, session, late>>
lvars  == <<scene, disk, credential, flock, server, run, faults>>

Kinds == {"container", "role", "database"}

(* Two identities are enough: an object is the one this allocation created  *)
(* or another one that somebody else made under the same name.              *)
Ours    == 1
Foreign == 2

NoObject   == [id |-> 0, marked |-> FALSE]
NoResource == [state |-> "none", oid |-> 0]
NoLease    == [state |-> "none", res |-> [k \in Kinds |-> NoResource],
               cred |-> FALSE, errs |-> {}]
Fresh      == [NoLease EXCEPT !.state = "allocating"]
Idle       == [pc |-> "idle", kind |-> "role", mem |-> NoLease, errs |-> {}, since |-> 0]

Listed(record) == {k \in Kinds : record.res[k].state # "none"}

(* The order of provisioning; cleanup goes through it backwards.            *)
Order == IF scene.mode = "container" THEN <<"container", "role", "database">>
                                     ELSE <<"role", "database">>

(***************************************************************************)
(* The record: what save accepts.                                          *)
(***************************************************************************)
leaseTransitions ==
    [none           |-> {},
     allocating     |-> {"allocating", "ready", "cleaning"},
     ready          |-> {"running", "cleaning"},
     running        |-> {"cleaning"},
     cleaning       |-> {"cleaning", "cleaned", "cleanup_failed"},
     cleanup_failed |-> {"cleaning"},
     cleaned        |-> {}]

leaseResourceAdvances(old, next) ==
    CASE old.state = "planned"  -> TRUE
      [] old.state = "acquired" -> next.state # "planned" /\ next.oid = old.oid
      [] old.state = "released" -> next = old
      [] OTHER                  -> FALSE

leaseResourcesAdvance(old, next) ==
    /\ Listed(old) \subseteq Listed(next)
    /\ Listed(old) # Listed(next) => {old.state, next.state} = {"allocating"}
    /\ \A k \in Listed(old) : leaseResourceAdvances(old.res[k], next.res[k])

validateResources(record) ==
    /\ \A k \in Listed(record) :
          record.res[k].state = "acquired" => record.res[k].oid # 0
    /\ (scene.mode = "container" /\ Listed(record) # {}) => "container" \in Listed(record)
    /\ record.errs \subseteq Listed(record) \cup {"credentials"}

validateState(record) ==
    /\ record.state = "cleanup_failed" => record.errs # {}
    /\ record.state \in {"ready", "running"} =>
          /\ record.cred /\ record.errs = {}
          /\ {"role", "database"} \subseteq Listed(record)
          /\ \A k \in Listed(record) : record.res[k].state = "acquired"
    /\ record.state = "cleaned" =>
          /\ ~record.cred /\ record.errs = {}
          /\ \A k \in Listed(record) : record.res[k].state = "released"

validate(record) == validateResources(record) /\ validateState(record)

Accepts(current, next) ==
    /\ next.state \in leaseTransitions[current.state]
    /\ leaseResourcesAdvance(current, next)
    /\ validate(next)

(* Bound on failures.                                                       *)
Fault == faults < scene.faults /\ faults' = faults + 1

(* save: re-read, compare with the copy in memory, check, write a new file,  *)
(* rename it, sync the directory.  A failing sync leaves the new record on   *)
(* disk and the old one in memory.  `then` and `else` are where the caller   *)
(* continues.                                                               *)
Save(p, next, then, else) ==
    LET good == disk = run[p].mem /\ Accepts(disk, next)
    IN  \/ /\ good
           /\ disk' = next
           /\ run' = [run EXCEPT ![p] = [then EXCEPT !.mem = next]]
           /\ UNCHANGED faults
        \/ ~good /\ run' = [run EXCEPT ![p] = else] /\ UNCHANGED <<disk, faults>>
        \/ /\ good /\ Fault
           /\ disk' \in {disk, next}
           /\ run' = [run EXCEPT ![p] = else]

At(p, where) == [run[p] EXCEPT !.pc = where]
Goto(p, where) == run' = [run EXCEPT ![p].pc = where]

(* A backend that is still at work keeps its session, and the lock with it.  *)
Release(p) == session' = IF session = p /\ late \subseteq {"container"} THEN Nobody ELSE session

(***************************************************************************)
(* Provisioning (Create of either factory).                                *)
(***************************************************************************)
(* The lease is written and locked before anything is allocated.            *)
Create(p) ==
    /\ disk = NoLease /\ run[p].pc = "idle" /\ flock = Nobody
    /\ disk' = Fresh /\ flock' = p
    /\ run' = [run EXCEPT ![p] = [Idle EXCEPT !.mem = Fresh, !.kind = Order[1],
                 !.pc = IF scene.mode = "container" THEN "plan" ELSE "lock"]]
    /\ UNCHANGED <<scene, credential, server, faults>>

(* As if the advisory lock were not tried.                                  *)
lockNothing(p) == session' = p

lockAdminAllocation(p) == session = Nobody /\ session' = p

(* A container is up (or not) when the role and the database are asked for.  *)
Connect(p) ==
    /\ run[p].pc = "lock"
    /\ \/ lockAdminAllocation(p) /\ Goto(p, "plan") /\ UNCHANGED faults
       \/ Fault /\ Goto(p, "begin") /\ UNCHANGED session
    /\ UNCHANGED <<scene, disk, credential, flock, live, registry, late>>

(* The resource is on record as planned before it is created; a database is  *)
(* also registered on the server.                                           *)
Plan(p) ==
    LET k == run[p].kind IN
    /\ run[p].pc = "plan"
    /\ Save(p, [run[p].mem EXCEPT !.res[k].state = "planned"],
            At(p, IF k = "database" THEN "register" ELSE "create"), At(p, "begin"))
    /\ UNCHANGED <<scene, credential, flock, server>>

RegisterDatabase(p) ==
    /\ run[p].pc = "register"
    /\ \/ /\ registry' = [registry EXCEPT !["database"] = [state |-> "planned", oid |-> 0]]
          /\ Goto(p, "create") /\ UNCHANGED faults
       \/ Fault /\ Goto(p, "begin") /\ UNCHANGED registry
    /\ UNCHANGED <<scene, disk, credential, flock, live, session, late>>

(* A role is created, marked and registered in one transaction; a container   *)
(* carries its label from the start; CREATE DATABASE stands alone.           *)
Created(k) ==
    /\ live' = [live EXCEPT ![k] = [id |-> Ours, marked |-> k # "database"]]
    /\ registry' = IF k = "role"
                   THEN [registry EXCEPT ![k] = [state |-> "acquired", oid |-> Ours]]
                   ELSE registry

CreateResource(p) ==
    LET k == run[p].kind IN
    /\ run[p].pc = "create"
    /\ \/ /\ Created(k)
          /\ Goto(p, IF k = "database" THEN "mark" ELSE "record")
          /\ UNCHANGED <<late, session, faults>>
       \/ /\ Fault /\ Goto(p, "begin")
          /\ UNCHANGED <<live, registry, late, session>>
       \/ /\ k \in scene.late /\ Fault /\ Goto(p, "begin")
          /\ late' = {k}
          /\ UNCHANGED <<live, registry, session>>
    /\ UNCHANGED <<scene, disk, credential, flock>>

(* The server finishes a creation whose caller has given up, unless the      *)
(* container it runs in is gone.                                            *)
Late(k) ==
    /\ k \in late /\ late' = {}
    /\ IF live["container"] = NoObject /\ scene.mode = "container" /\ k # "container"
       THEN UNCHANGED <<live, registry>> ELSE Created(k)
    /\ session' = Nobody
    /\ UNCHANGED <<scene, disk, credential, flock, run, faults>>

MarkDatabase(p) ==
    /\ run[p].pc = "mark"
    /\ \/ /\ live["database"].id = Ours
          /\ live' = [live EXCEPT !["database"].marked = TRUE]
          /\ registry' = [registry EXCEPT !["database"] = [state |-> "acquired", oid |-> Ours]]
          /\ Goto(p, "record") /\ UNCHANGED faults
       \/ Fault /\ Goto(p, "begin") /\ UNCHANGED <<live, registry>>
    /\ UNCHANGED <<scene, disk, credential, flock, session, late>>

(* The identity is recorded; the next resource, or the secret, follows.       *)
Record(p) ==
    LET k == run[p].kind
        i == CHOOSE n \in 1..Len(Order) : Order[n] = k
        next == IF i = Len(Order) THEN At(p, "credential")
                ELSE [run[p] EXCEPT !.kind = Order[i + 1],
                                    !.pc = IF k = "container" THEN "lock" ELSE "plan"]
    IN  /\ run[p].pc = "record"
        /\ Save(p, [run[p].mem EXCEPT !.res[k] = [state |-> "acquired", oid |-> Ours]],
                next, At(p, "begin"))
        /\ UNCHANGED <<scene, credential, flock, server>>

(* writeCredential: the reference is on record before the file exists, and    *)
(* the lease is ready only after the restricted login has been tried.        *)
ReferCredential(p) ==
    /\ run[p].pc = "credential"
    /\ Save(p, [run[p].mem EXCEPT !.cred = TRUE], At(p, "write"), At(p, "begin"))
    /\ UNCHANGED <<scene, credential, flock, server>>

WriteCredential(p) ==
    /\ run[p].pc = "write"
    /\ \/ credential' = "whole" /\ Goto(p, "ready") /\ UNCHANGED faults
       \/ Fault /\ Goto(p, "begin") /\ credential' \in {"none", "whole"}
    /\ UNCHANGED <<scene, disk, flock, server>>

Ready(p) ==
    /\ run[p].pc = "ready"
    /\ Save(p, [run[p].mem EXCEPT !.state = "ready"], At(p, "using"), At(p, "begin"))
    /\ Release(p)
    /\ UNCHANGED <<scene, credential, flock, live, registry, late>>

(***************************************************************************)
(* Use of the target.                                                      *)
(***************************************************************************)
(* beginUse: the first statement records that the database is in use.        *)
Exec(p) ==
    /\ run[p].pc = "using" /\ run[p].mem.state = "ready"
    /\ Save(p, [run[p].mem EXCEPT !.state = "running"], run[p], run[p])
    /\ UNCHANGED <<scene, credential, flock, server>>

Close(p) ==
    /\ run[p].pc = "using" /\ Goto(p, "begin")
    /\ UNCHANGED <<scene, disk, credential, flock, server, faults>>

Leave(p) ==
    /\ run' = [run EXCEPT ![p] = Idle]
    /\ flock' = IF flock = p THEN Nobody ELSE flock
    /\ Release(p)

Detach(p) ==
    /\ run[p].pc = "using" /\ Leave(p)
    /\ UNCHANGED <<scene, disk, credential, live, registry, late, faults>>

(***************************************************************************)
(* Cleanup, by the process that holds the lease file.                      *)
(***************************************************************************)
(* openLeaseFile of `database dev cleanup`; a cleaned lease is only verified. *)
OpenLease(p) ==
    /\ run[p].pc = "idle" /\ flock = Nobody
    /\ disk.state \notin {"none", "cleaned"}
    /\ flock' = p
    /\ run' = [run EXCEPT ![p] = [Idle EXCEPT !.mem = disk, !.pc = "begin"]]
    /\ UNCHANGED <<scene, disk, credential, server, faults>>

Last(record) ==
    CHOOSE k \in Listed(record) :
        \A i, j \in 1..Len(Order) : (Order[i] = k /\ Order[j] \in Listed(record)) => j <= i

BeginCleanup(p) ==
    LET next == [run[p].mem EXCEPT !.state = "cleaning", !.errs = {}]
        start == [run[p] EXCEPT !.errs = {}, !.since = faults,
                    !.pc = CASE Listed(next) = {} -> "secret"
                             [] scene.mode = "container" -> "remove"
                             [] OTHER -> "relock"]
    IN  /\ run[p].pc = "begin"
        /\ Save(p, next, start, At(p, "leave"))
        /\ Release(p)
        /\ UNCHANGED <<scene, credential, flock, live, registry, late>>

(* reconnectLeaseAdmin and lockAdminAllocation: when either fails, every      *)
(* resource is reported and none is touched.                                *)
Relock(p) ==
    /\ run[p].pc = "relock"
    /\ \/ /\ lockAdminAllocation(p)
          /\ run' = [run EXCEPT ![p].pc = "clean", ![p].kind = Last(run[p].mem)]
          /\ UNCHANGED faults
       \/ /\ IF session = Nobody THEN Fault ELSE UNCHANGED faults
          /\ run' = [run EXCEPT ![p].pc = "secret", ![p].errs = Listed(run[p].mem)]
          /\ UNCHANGED session
    /\ UNCHANGED <<scene, disk, credential, flock, live, registry, late>>

(* The next resource, last to first, or the credential.                      *)
Onwards(p, errs) ==
    LET k == run[p].kind
        i == CHOOSE n \in 1..Len(Order) : Order[n] = k
    IN  IF i = 1 THEN [run[p] EXCEPT !.errs = errs, !.pc = "secret"]
                 ELSE [run[p] EXCEPT !.errs = errs, !.pc = "clean", !.kind = Order[i - 1]]

Blame(p) == Onwards(p, run[p].errs \cup {run[p].kind})

(* As if the name and the marker were proof enough.                          *)
verifyByName(k, row) == row.state # "released" /\ live[k].marked

verifyLiveOwnership(k, row) ==
    /\ row.state # "released" /\ row.oid # 0
    /\ live[k].id = row.oid /\ live[k].marked

verifyOwnedResource(k, resource) ==
    \/ registry[k] = NoResource /\ live[k] = NoObject
    \/ /\ registry[k] # NoResource
       /\ resource.oid # 0 => resource.oid = registry[k].oid
       /\ live[k] = NoObject \/ verifyLiveOwnership(k, registry[k])

(* A role that a database grants privileges to cannot be dropped.            *)
Droppable(k) == k = "role" => ~live["database"].marked

DropResource(p) ==
    LET k == run[p].kind IN
    /\ run[p].pc = "clean"
    /\ IF verifyOwnedResource(k, run[p].mem.res[k]) /\ (live[k] # NoObject => Droppable(k))
       THEN \/ /\ live' = [live EXCEPT ![k] = NoObject]
               /\ Goto(p, "release") /\ UNCHANGED faults
            \/ /\ Fault /\ run' = [run EXCEPT ![p] = Blame(p)] /\ UNCHANGED live
       ELSE run' = [run EXCEPT ![p] = Blame(p)] /\ UNCHANGED <<live, faults>>
    /\ UNCHANGED <<scene, disk, credential, flock, registry, session, late>>

recordResourceReleased(p) ==
    LET k == run[p].kind IN
    /\ run[p].pc = "release"
    /\ \/ /\ registry' = IF registry[k] = NoResource THEN registry
                         ELSE [registry EXCEPT ![k].state = "released"]
          /\ Goto(p, "released") /\ UNCHANGED faults
       \/ Fault /\ run' = [run EXCEPT ![p] = Blame(p)] /\ UNCHANGED registry
    /\ UNCHANGED <<scene, disk, credential, flock, live, session, late>>

SaveReleased(p) ==
    /\ run[p].pc = "released"
    /\ Save(p, [run[p].mem EXCEPT !.res[run[p].kind].state = "released"],
            Onwards(p, run[p].errs), Blame(p))
    /\ UNCHANGED <<scene, credential, flock, server>>

(* removeOwnedContainer: found by name or identity, verified, removed by its   *)
(* identity; the role and the database go with it.                           *)
verifyDockerContainer(resource) ==
    /\ resource.oid # 0 => live["container"].id = resource.oid
    /\ live["container"].marked
    /\ resource.state # "released"

RemoveContainer(p) ==
    LET r == run[p].mem.res["container"]
        gone == live["container"] = NoObject
    IN
    /\ run[p].pc = "remove"
    /\ \/ /\ gone \/ verifyDockerContainer(r)
          /\ live' = [k \in Kinds |-> NoObject]
          /\ registry' = [k \in Kinds |-> NoResource]
          /\ Goto(p, "release all") /\ UNCHANGED faults
       \/ /\ IF gone \/ verifyDockerContainer(r) THEN Fault ELSE UNCHANGED faults
          /\ run' = [run EXCEPT ![p].pc = "secret", ![p].errs = {"container"}]
          /\ UNCHANGED <<live, registry>>
    /\ UNCHANGED <<scene, disk, credential, flock, session, late>>

releaseContainerResources(p) ==
    LET m == run[p].mem IN
    /\ run[p].pc = "release all"
    /\ Save(p, [m EXCEPT !.res = [k \in Kinds |->
                   IF k \in Listed(m) THEN [m.res[k] EXCEPT !.state = "released"] ELSE m.res[k]]],
            At(p, "secret"), At(p, "leave"))
    /\ UNCHANGED <<scene, credential, flock, server>>

(* removeCredential refuses a file that does not hold a whole credential.     *)
RemoveCredential(p) ==
    /\ run[p].pc = "secret" /\ Release(p)
    /\ \/ credential # "torn" /\ credential' = "none" /\ Goto(p, "finish") /\ UNCHANGED faults
       \/ /\ IF credential = "torn" THEN UNCHANGED faults ELSE Fault
          /\ run' = [run EXCEPT ![p].pc = "finish", ![p].errs = @ \cup {"credentials"}]
          /\ UNCHANGED credential
    /\ UNCHANGED <<scene, disk, flock, live, registry, late>>

FinishCleanup(p) ==
    LET errs == run[p].errs IN
    /\ run[p].pc = "finish"
    /\ Save(p, IF errs = {} THEN [run[p].mem EXCEPT !.state = "cleaned", !.cred = FALSE]
               ELSE [run[p].mem EXCEPT !.state = "cleanup_failed", !.errs = errs],
            At(p, "leave"), At(p, "leave"))
    /\ UNCHANGED <<scene, credential, flock, server>>

Return(p) ==
    /\ run[p].pc = "leave" /\ Leave(p)
    /\ UNCHANGED <<scene, disk, credential, live, registry, late, faults>>

(***************************************************************************)
(* Deaths, and what others do to the objects.                              *)
(***************************************************************************)
(* The operating system drops the lock, the server ends the session.         *)
Die(p) ==
    /\ run[p].pc # "idle" /\ Fault /\ Leave(p)
    /\ credential' = credential
    /\ UNCHANGED <<scene, disk, live, registry, late>>

(* The secret is written in place: a death in between leaves part of it.      *)
DieWriting(p) ==
    /\ run[p].pc = "write" /\ scene.torn /\ Fault /\ Leave(p)
    /\ credential' = "torn"
    /\ UNCHANGED <<scene, disk, live, registry, late>>

(* An administrator drops an object of the allocation by hand, or puts          *)
(* another one of the same name in its place (with the marker copied, on an    *)
(* existing server).                                                           *)
Outside(k) ==
    /\ scene.outsider /\ live[k].id = Ours /\ Fault
    /\ k = Head(Order) \/ scene.mode = "existing_admin"
    /\ \E o \in {NoObject, [id |-> Foreign, marked |-> FALSE],
                 [id |-> Foreign, marked |-> scene.mode = "existing_admin"]} :
          live' = [live EXCEPT ![k] = o]
    /\ UNCHANGED <<scene, disk, credential, flock, registry, session, late, run>>

LInit ==
    /\ scene \in Scenes
    /\ disk = NoLease /\ credential = "none" /\ flock = Nobody
    /\ live = [k \in Kinds |-> NoObject]
    /\ registry = [k \in Kinds |-> NoResource]
    /\ session = Nobody /\ late = {}
    /\ run = [p \in Processes |-> Idle]
    /\ faults = 0

LNext ==
    \/ \E p \in Processes :
          \/ Create(p) \/ Connect(p) \/ Plan(p) \/ RegisterDatabase(p)
          \/ CreateResource(p) \/ MarkDatabase(p) \/ Record(p)
          \/ ReferCredential(p) \/ WriteCredential(p) \/ Ready(p)
          \/ Exec(p) \/ Close(p) \/ Detach(p)
          \/ OpenLease(p) \/ BeginCleanup(p) \/ Relock(p) \/ DropResource(p)
          \/ recordResourceReleased(p) \/ SaveReleased(p)
          \/ RemoveContainer(p) \/ releaseContainerResources(p)
          \/ RemoveCredential(p) \/ FinishCleanup(p) \/ Return(p)
          \/ Die(p) \/ DieWriting(p)
    \/ \E k \in Kinds : Late(k) \/ Outside(k)

LSpec == LInit /\ [][LNext]_lvars

(***************************************************************************)
(* What the lease promises.                                                *)
(***************************************************************************)
(* Every object this allocation created is named by the record on disk as      *)
(* planned or acquired for as long as it exists: recovery can always find it,   *)
(* and a record that says released or cleaned is true.                         *)
NothingLost ==
    /\ \A k \in Kinds : live[k].id = Ours => disk.res[k].state \in {"planned", "acquired"}
    /\ disk.state = "cleaned" => credential = "none"

(* Cleanup never removes an object that somebody else put under the name.        *)
KeepsOwned == \A k \in Kinds : live[k].id = Foreign => live'[k].id = Foreign

(* A cleanup in which no call fails reports failure only over something that is   *)
(* still there or still under way: repeating an interrupted cleanup ends in       *)
(* "cleaned".                                                                  *)
FailureHasCause ==
    \A p \in Processes :
        (run[p].pc = "finish" /\ run[p].errs # {} /\ run[p].since = faults) =>
            \/ late # {} \/ credential # "none"
            \/ \E k \in Kinds : live[k] # NoObject
=============================================================================
