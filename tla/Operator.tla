------------------------------ MODULE Operator ------------------------------
(***************************************************************************)
(* The Kubernetes operator: one resource, the controller that adapts it    *)
(* (internal/operatorcontroller/controller.go, completion.go), the         *)
(* reconciliation core with its checkpoints (pkg/operator) and replicas    *)
(* that take over from each other.                                         *)
(*                                                                         *)
(* Apply, the start probe and the completion observer are the executor of  *)
(* module Executor and the reader of module Completion.  Here they are     *)
(* their promises: work runs at most once, an unstarted verdict means that *)
(* nothing ran, a proof means that everything did.                         *)
(***************************************************************************)
EXTENDS Integers, FiniteSets

CONSTANTS
    Replicas,       \* operator processes
    Artifacts,      \* digests a resource may name
    Kind,           \* the kind of resource that names the artifact
    Scenes,         \* instances: the releases in use and the faults that may happen
    None,           \* the empty string
    MaxChanges      \* bound on changes made by users and the environment

Kinds == {"ordinary", "versioned", "bootstrap", "invalid"}

AllFaults == {"save", "crash", "handover", "lose store", "lose audit", "dependency",
              "apply", "lapse"}

ASSUME OperatorAssumption ==
    /\ Kind \in [Artifacts -> Kinds]
    /\ None \notin Artifacts \cup Replicas
    /\ \A s \in Scenes : s.arts \subseteq Artifacts /\ s.faults \subseteq AllFaults
    /\ MaxChanges \in Nat

VARIABLES
    scene,      \* the instance: it never changes
    obj,        \* metadata and spec of the resource
    ref,        \* version of the Secrets and ConfigMaps it refers to
    status,     \* its status in Kubernetes; cond is the condition set last, where
                \* Failed stands for a refused authorization, too
    disk,       \* the state file
    cache,      \* FileStore.records of each replica
    leader,     \* holder of the lease
    pc,         \* what the reconciliation of a replica does next
    in,         \* the resource as the reconciliation knows it
    out,        \* the status it will publish
    stale,      \* the resource changed in Kubernetes since it was read
    work,       \* what the SQL of an artifact has done to the target
    trail,      \* its lifecycle audit
    running,    \* this Apply call executes the SQL
    lapsed,     \* the approval of the artifact has elapsed
    expired,    \* the artifact has elapsed
    changes,    \* changes so far
    calm,       \* no further step fails
    attempted,  \* artifacts for which Apply was called (history variable)
    readied     \* keys that were published as applied (history variable)

kube  == <<obj, ref, status>>
store == <<disk, cache>>
local == <<in, out>>
target == <<work, trail, running>>
time  == <<lapsed, expired, calm>>
ghost == <<attempted, readied>>
ovars == <<scene, kube, store, leader, pc, local, stale, target, time, changes, ghost>>

NoStatus == [observed |-> 0, applied |-> None, plan |-> None, exec |-> None,
             recovery |-> "none", window |-> FALSE, seen |-> FALSE, cond |-> "none"]

NoKey == [uid |-> 0, gen |-> 0, art |-> None, ref |-> 0]

NoRecord == [st |-> NoStatus, applying |-> NoKey, applied |-> NoKey, exists |-> FALSE]

Object(u, g, a, n, s) ==
    [uid |-> u, gen |-> g, art |-> a, needs |-> n, suspend |-> s, approved |-> FALSE]

NoInput == [obj |-> Object(0, 0, None, FALSE, FALSE), ref |-> 0, status |-> NoStatus,
            completion |-> FALSE, may |-> FALSE]

OInit ==
    /\ scene \in Scenes
    /\ \E a \in scene.arts, n \in BOOLEAN : obj = Object(1, 1, a, n, FALSE)
    /\ ref = 1 /\ status = NoStatus
    /\ disk = NoRecord /\ cache = [r \in Replicas |-> NoRecord]
    /\ leader \in Replicas
    /\ pc = [r \in Replicas |-> "idle"]
    /\ in = [r \in Replicas |-> NoInput]
    /\ out = [r \in Replicas |-> NoStatus]
    /\ stale = [r \in Replicas |-> FALSE]
    /\ work = [a \in Artifacts |-> "none"]
    /\ trail = [a \in Artifacts |-> "empty"]
    /\ running = [r \in Replicas |-> FALSE]
    /\ lapsed = [a \in Artifacts |-> FALSE]
    /\ expired = [a \in Artifacts |-> FALSE]
    /\ changes = 0 /\ calm = FALSE /\ attempted = {} /\ readied = {}

Art(r) == in[r].obj.art

\* applyKey.  The generation stands for the specification.
Key(r) == [uid |-> in[r].obj.uid, gen |-> in[r].obj.gen, art |-> Art(r),
           ref |-> in[r].ref]

Goto(r, l) == pc' = [pc EXCEPT ![r] = l]

\* A step may fail.
Fault(f) == f \in scene.faults /\ ~calm

\* A write of the object in Kubernetes invalidates what the others have read.
Touch(writer) == stale' = [r \in Replicas |-> stale[r] \/ r # writer]

-----------------------------------------------------------------------------
(* Checkpoints.                                                            *)

\* The record a reconciliation starts from: without a local record the status
\* in Kubernetes, but no key.
Old(r) ==
    IF cache[r].exists THEN cache[r]
    ELSE [NoRecord EXCEPT !.st = in[r].status]

Record(st, applying, applied) ==
    [st |-> st, applying |-> applying, applied |-> applied, exists |-> TRUE]

\* Mutant: a failed write is reported, with the status it should have saved.
CheckpointIgnoringFailure(r, record, stage, next) ==
    /\ \/ disk' = record /\ cache' = [cache EXCEPT ![r] = record]
       \/ Fault("save") /\ UNCHANGED store
    /\ out' = [out EXCEPT ![r] = record.st]
    /\ Goto(r, next)

\* FileStore.Save: the file first, then the cache of the process.
Save(r, record) == disk' = record /\ cache' = [cache EXCEPT ![r] = record]

\* saveCheckpoint: a failed write leaves the file and the cache as they are and
\* reports the previous success.
Checkpoint(r, record, stage, next) ==
    \/ /\ Save(r, record)
       /\ out' = [out EXCEPT ![r] = record.st]
       /\ Goto(r, next)
    \/ /\ Fault("save")
       /\ LET old == Old(r).st
          IN  out' = [out EXCEPT ![r] =
                 [record.st EXCEPT
                     !.observed = old.observed, !.applied = old.applied,
                     !.window = old.window, !.seen = old.seen, !.cond = "Failed",
                     !.recovery = IF stage = "pre" THEN @ ELSE "pending"]]
       /\ Goto(r, "publish")
       /\ UNCHANGED store

-----------------------------------------------------------------------------
(* The controller before the core.                                         *)

\* reconcileManaged: the leader reads the resource.
Get(r) ==
    /\ r = leader /\ pc[r] = "idle"
    /\ in' = [in EXCEPT ![r] = [NoInput EXCEPT !.obj = obj, !.status = status]]
    /\ stale' = [stale EXCEPT ![r] = FALSE]
    /\ Goto(r, IF obj.suspend THEN "core" ELSE "release")
    /\ UNCHANGED <<kube, store, leader, out, target, time, changes, ghost>>

\* writeFailure
WriteFailure(r) ==
    /\ out' = [out EXCEPT ![r] = [in[r].status EXCEPT !.cond = "Failed"]]
    /\ Goto(r, "publish")
    /\ UNCHANGED in

Current(st) == ~st.window \/ st.applied = None \/ ~lapsed[st.applied]

\* holdsConvergedArtifact
HoldsConverged(r) ==
    LET st == in[r].status
    IN  st.applied = Art(r) /\ st.observed = in[r].obj.gen /\ Current(st)

\* Release verification for a resource that is not recovered by observation.
VerifyBootstrapRelease(r) ==
    /\ Kind[Art(r)] = "bootstrap"
    /\ \/ ~expired[Art(r)] /\ Goto(r, "resolve") /\ UNCHANGED local
       \/ /\ expired[Art(r)] /\ HoldsConverged(r)
          /\ out' = [out EXCEPT ![r] = [in[r].status EXCEPT !.cond = "Applied"]]
          /\ Goto(r, "publish")
          /\ UNCHANGED in
       \/ expired[Art(r)] /\ ~HoldsConverged(r) /\ WriteFailure(r)
       \/ Fault("dependency") /\ WriteFailure(r)

\* Release verification for an ordinary declarative resource.  An elapsed
\* release, or a completed one without local record, is only observed.
VerifyOrdinaryRelease(r) ==
    LET a == Art(r)
        st == in[r].status
        may == /\ ~expired[a] /\ st.plan = a
               /\ st.recovery \in {"pending", "uncertain"}
        required == expired[a] \/ (~cache[r].exists /\ st.applied = a)
    IN  /\ Kind[a] = "ordinary"
        /\ \/ /\ required => ~lapsed[a]
              /\ in' = [in EXCEPT ![r].completion = required, ![r].may = may]
              /\ Goto(r, "resolve")
              /\ UNCHANGED out
           \/ required /\ lapsed[a] /\ WriteFailure(r)
           \/ Fault("dependency") /\ WriteFailure(r)

Release(r) ==
    /\ pc[r] = "release"
    /\ \/ VerifyBootstrapRelease(r)
       \/ VerifyOrdinaryRelease(r)
       \/ /\ Kind[Art(r)] \in {"versioned", "invalid"}
          /\ Goto(r, "resolve") /\ UNCHANGED local
    /\ UNCHANGED <<kube, store, leader, stale, target, time, changes, ghost>>

\* resolveReferences reads the Secrets and ConfigMaps as they are now.
Resolve(r) ==
    /\ pc[r] = "resolve"
    /\ \/ /\ in' = [in EXCEPT ![r].ref = ref]
          /\ Goto(r, "core") /\ UNCHANGED out
       \/ Fault("dependency") /\ WriteFailure(r)
    /\ UNCHANGED <<kube, store, leader, stale, target, time, changes, ghost>>

-----------------------------------------------------------------------------
(* The core up to its first access to the target.                          *)

\* The start of a probe, an observation or an Apply.
Proceed(r, l, may) ==
    /\ Goto(r, l)
    /\ in' = [in EXCEPT ![r].may = may]
    /\ UNCHANGED <<store, out>>

\* The record tells of an execution of this artifact that may have begun.
MayHaveStarted(r) ==
    \/ in[r].may
    \/ /\ Old(r).applying.art = Art(r)
       /\ Old(r).st.recovery \in {"pending", "uncertain"}
    \/ Old(r).st.exec = Art(r)

\* Without probing: the artifact is recorded as applied, or its outcome as unknown.
Recover(r) ==
    /\ Kind[Art(r)] = "ordinary"
    /\ \/ Old(r).st.applied = Art(r)
       \/ MayHaveStarted(r) /\ Old(r).st.recovery = "uncertain"

Pending(r) == [Old(r).st EXCEPT !.cond = "Applying", !.recovery = "pending"]

Suspended(r) ==
    /\ in[r].obj.suspend
    /\ Checkpoint(r, Record([Old(r).st EXCEPT !.observed = in[r].obj.gen,
                                              !.cond = "Suspended"],
                            Old(r).applying, Old(r).applied), "pre", "publish")
    /\ UNCHANGED in

Granted(r) == ~in[r].obj.needs \/ in[r].obj.approved

\* The key is recorded as applied: nothing to do, except for the condition of a
\* resource that was suspended or waiting.
Converged(r) ==
    /\ ~in[r].completion /\ Granted(r)
    /\ Old(r).applied = Key(r) /\ Current(Old(r).st)

Stay(r) ==
    /\ Converged(r)
    /\ UNCHANGED in
    /\ IF Old(r).st.cond \in {"Suspended", "Approval"}
       THEN Checkpoint(r, Record([Old(r).st EXCEPT
                                    !.cond = IF Old(r).st.seen THEN "Recovered"
                                             ELSE "Applied"],
                                 Old(r).applying, Old(r).applied), "pre", "publish")
       ELSE /\ out' = [out EXCEPT ![r] = Old(r).st]
            /\ Goto(r, "publish") /\ UNCHANGED store

Invalid(r) ==
    /\ Kind[Art(r)] = "invalid"
    /\ Checkpoint(r, Record([Old(r).st EXCEPT !.cond = "Failed"],
                            Old(r).applying, Old(r).applied), "pre", "publish")
    /\ UNCHANGED in

\* The key waiting for approval becomes the applying key of the record.
AwaitApproval(r) ==
    /\ Checkpoint(r, Record([Old(r).st EXCEPT !.cond = "Approval"],
                            Key(r), Old(r).applied), "pre", "publish")
    /\ UNCHANGED in

Decide(r) ==
    IF in[r].completion \/ Recover(r)
    THEN Proceed(r, "observe", MayHaveStarted(r))
    ELSE IF Kind[Art(r)] = "ordinary"
    THEN Proceed(r, "probe", MayHaveStarted(r))
    ELSE Proceed(r, "pre", MayHaveStarted(r))

\* Reconcile
Core(r) ==
    /\ pc[r] = "core"
    /\ \/ Suspended(r)
       \/ /\ ~in[r].obj.suspend
          /\ \/ Stay(r)
             \/ ~Converged(r) /\ Invalid(r)
             \/ /\ ~Converged(r) /\ Kind[Art(r)] # "invalid"
                /\ \/ ~Granted(r) /\ AwaitApproval(r)
                   \/ Granted(r) /\ Decide(r)
    /\ UNCHANGED <<kube, leader, stale, target, time, changes, ghost>>

-----------------------------------------------------------------------------
(* Recovery.                                                               *)

\* completionFailure
CompletionFailure(r) ==
    Checkpoint(r, Record([Old(r).st EXCEPT !.cond = "Failed"],
                         Old(r).applying, Old(r).applied), "recovery", "publish")

\* A worker holds the lock of the target.
TargetBusy == \E r \in Replicas : running[r]

\* recoverCompletion with ObserveArtifactCompletion.
Observe(r) ==
    LET a == Art(r)
        proven == work[a] = "complete" /\ trail[a] = "completed"
    IN  /\ pc[r] = "observe"
        /\ \/ /\ proven /\ ~lapsed[a] /\ ~TargetBusy
              /\ Checkpoint(r, Record([Old(r).st EXCEPT
                      !.observed = in[r].obj.gen, !.applied = a, !.plan = a,
                      !.exec = a, !.recovery = "none", !.seen = TRUE,
                      !.window = TRUE, !.cond = "Recovered"], Key(r), Key(r)),
                    "recovery", "publish")
           \/ /\ ~proven \/ lapsed[a] \/ TargetBusy \/ Fault("dependency")
              /\ CompletionFailure(r)
        /\ UNCHANGED <<kube, leader, in, stale, target, time, changes, ghost>>

\* The start check asks for an audit that is not there.
AuditMissing(r) == in[r].may /\ trail[Art(r)] = "empty"

Fresh(a) == work[a] = "none" /\ trail[a] \in {"empty", "prelude"}

\* Mutant: an execution that has begun is a failure.
ProbeRefusingStarted(r) ==
    /\ pc[r] = "probe"
    /\ \/ /\ ~TargetBusy /\ Fresh(Art(r)) /\ ~AuditMissing(r)
          /\ Goto(r, "pre")
          /\ UNCHANGED <<store, out>>
       \/ (TargetBusy \/ ~Fresh(Art(r)) \/ AuditMissing(r)) /\ CompletionFailure(r)
    /\ UNCHANGED <<kube, leader, in, stale, target, time, changes, ghost>>

\* ProbeArtifactExecution and the decision on its result.
Probe(r) ==
    LET a == Art(r)
    IN  /\ pc[r] = "probe"
        /\ \/ /\ ~TargetBusy /\ Fresh(a) /\ ~AuditMissing(r)
              /\ Goto(r, "pre")
              /\ UNCHANGED <<store, out>>
           \/ /\ ~TargetBusy /\ ~Fresh(a)
              /\ Goto(r, "observe")
              /\ UNCHANGED <<store, out>>
           \/ /\ \/ TargetBusy \/ Fault("dependency")
                 \/ work[a] = "none" /\ AuditMissing(r)
              /\ CompletionFailure(r)
        /\ UNCHANGED <<kube, leader, in, stale, target, time, changes, ghost>>

-----------------------------------------------------------------------------
(* Apply.                                                                  *)

\* The checkpoint before Apply: without it Apply is not called.
PreApply(r) ==
    /\ pc[r] = "pre"
    /\ Checkpoint(r, Record(Pending(r), Key(r), Old(r).applied), "pre", "applying")
    /\ attempted' = IF pc'[r] = "applying" THEN attempted \cup {Art(r)} ELSE attempted
    /\ UNCHANGED <<kube, leader, in, stale, target, time, changes, readied>>

\* The executor writes its first event, takes the lock of the target and runs
\* the SQL, once, from the source schema.
Execute(r) ==
    LET a == Art(r)
        move(w, t) == /\ work' = [work EXCEPT ![a] = w]
                      /\ trail' = [trail EXCEPT ![a] = t]
    IN  /\ pc[r] = "applying"
        /\ \/ /\ trail[a] = "empty"
              /\ move(work[a], "prelude") /\ UNCHANGED running
           \/ /\ trail[a] # "empty" /\ work[a] = "none" /\ ~TargetBusy
              /\ move("none", "started")
              /\ running' = [running EXCEPT ![r] = TRUE]
           \/ /\ running[r] /\ work[a] = "none"
              /\ \E w \in {"partial", "complete"} : move(w, trail[a])
              /\ UNCHANGED running
           \/ /\ running[r] /\ work[a] = "partial"
              /\ move("complete", trail[a]) /\ UNCHANGED running
           \/ /\ running[r] /\ work[a] = "complete" /\ trail[a] = "started"
              /\ move("complete", "completed") /\ UNCHANGED running
        /\ UNCHANGED <<kube, store, leader, pc, local, stale, time, changes, ghost>>

\* Mutant: the error of Apply is dropped.
AppliedDespiteFailure(r) ==
    /\ pc[r] = "applying"
    /\ running' = [running EXCEPT ![r] = FALSE]
    /\ Checkpoint(r, Record([Old(r).st EXCEPT !.observed = in[r].obj.gen,
                                              !.applied = Art(r), !.cond = "Applied"],
                            Key(r), Key(r)), "post", "publish")
    /\ UNCHANGED <<kube, leader, in, stale, work, trail, time, changes, ghost>>

\* Apply returns and its outcome is recorded.
Applied(r) ==
    LET a == Art(r)
        st == Old(r).st
        record(s, applied) ==
            Checkpoint(r, Record(s, Key(r), applied), "post", "publish")
        succeeded == [st EXCEPT !.observed = in[r].obj.gen, !.applied = a,
                         !.plan = a, !.exec = None, !.recovery = "none",
                         !.seen = FALSE, !.window = (Kind[a] = "bootstrap"),
                         !.cond = "Applied"]
    IN  /\ pc[r] = "applying"
        /\ running' = [running EXCEPT ![r] = FALSE]
        /\ \/ /\ work[a] = "complete"
              /\ running[r] => trail[a] = "completed"
              /\ record(succeeded, Key(r))
           \/ /\ Fault("apply")
              /\ \E p \in {a, None}, unknown \in BOOLEAN :
                    /\ unknown => running[r]
                    /\ running[r] => p = a
                    /\ record([st EXCEPT !.plan = p, !.cond = "Failed",
                         !.exec = IF unknown \/ (running[r] /\ work[a] # "none")
                                  THEN a ELSE None,
                         !.recovery = IF unknown THEN "uncertain" ELSE @],
                              Old(r).applied)
           \/ /\ ~running[r] /\ (work[a] = "partial" \/ TargetBusy)
              /\ record([st EXCEPT !.plan = a, !.exec = None, !.cond = "Failed"],
                        Old(r).applied)
        /\ UNCHANGED <<kube, leader, in, stale, work, trail, time, changes, ghost>>

-----------------------------------------------------------------------------
(* Publication of the status.                                              *)

Reset(r) ==
    /\ Goto(r, "idle")
    /\ in' = [in EXCEPT ![r] = NoInput]
    /\ out' = [out EXCEPT ![r] = NoStatus]

Ready == {"Applied", "Recovered"}

\* The API server accepts an update of the object that was read, nothing else.
Accepted(r, st) ==
    /\ ~stale[r]
    /\ status' = st
    /\ Touch(r)
    /\ readied' = IF st.cond \in Ready /\ in[r].ref # 0 THEN readied \cup {Key(r)}
                  ELSE readied
    /\ Reset(r)

NotWritten(r) ==
    /\ stale[r] \/ Fault("dependency")
    /\ Reset(r)
    /\ UNCHANGED <<status, stale, readied>>

\* writeStatus
Publish(r) ==
    /\ pc[r] = "publish" /\ out[r].cond # "Recovered"
    /\ Accepted(r, out[r]) \/ NotWritten(r)
    /\ UNCHANGED <<obj, ref, store, leader, target, time, changes, attempted>>

\* Mutant: what was observed is not compared with the resource as it is now.
SameResourceAlways(r) == TRUE

\* sameCompletionResource and the approval, sameCompletionReferences.
SameResource(r) == obj = in[r].obj /\ ref = in[r].ref

\* publishStatus of a recovered completion: the resource is read again ...
Refresh(r) ==
    /\ pc[r] = "publish" /\ out[r].cond = "Recovered"
    /\ stale' = [stale EXCEPT ![r] = FALSE]
    /\ \/ ~SameResource(r) /\ Reset(r)
       \/ Fault("dependency") /\ Reset(r)
       \/ SameResource(r) /\ ~lapsed[Art(r)] /\ Goto(r, "update") /\ UNCHANGED local
       \/ SameResource(r) /\ lapsed[Art(r)] /\ Goto(r, "deny") /\ UNCHANGED local
    /\ UNCHANGED <<kube, store, leader, target, time, changes, ghost>>

\* ... and updated, as failed when its approval has elapsed; after a conflict it is
\* read once more.
Update(r) ==
    /\ pc[r] \in {"update", "deny"}
    /\ \/ pc[r] = "update" /\ Accepted(r, out[r])
       \/ pc[r] = "deny" /\ Accepted(r, [status EXCEPT !.cond = "Failed"])
       \/ NotWritten(r)
       \/ /\ stale[r] /\ Goto(r, "publish")
          /\ UNCHANGED <<status, stale, readied, local>>
    /\ UNCHANGED <<obj, ref, store, leader, target, time, changes, attempted>>

-----------------------------------------------------------------------------
(* Users and faults.                                                       *)

Change ==
    /\ changes < MaxChanges
    /\ changes' = changes + 1

\* A new specification: its generation grows, the annotations stay.
EditSpec ==
    /\ Change
    /\ \E a \in scene.arts, n, s \in BOOLEAN :
          obj' = [obj EXCEPT !.gen = @ + 1, !.art = a, !.needs = n, !.suspend = s]
    /\ Touch(None)
    /\ UNCHANGED <<ref, status, store, leader, pc, local, target, time, ghost>>

\* The approval annotation is set or removed.
Approve ==
    /\ Change
    /\ obj' = [obj EXCEPT !.approved = ~@]
    /\ Touch(None)
    /\ UNCHANGED <<ref, status, store, leader, pc, local, target, time, ghost>>

\* The resource is deleted and created anew under its name.
Replace ==
    /\ Change
    /\ obj' = Object(obj.uid + 1, 1, obj.art, obj.needs, FALSE)
    /\ status' = NoStatus
    /\ Touch(None)
    /\ UNCHANGED <<ref, store, leader, pc, local, target, time, ghost>>

Rotate ==
    /\ Change
    /\ ref' = ref + 1
    /\ UNCHANGED <<obj, status, store, leader, pc, local, stale, target, time, ghost>>

\* The approval elapses, not later than the artifact.
Lapse(a) ==
    /\ "lapse" \in scene.faults /\ Change
    /\ \/ ~lapsed[a] /\ lapsed' = [lapsed EXCEPT ![a] = TRUE] /\ UNCHANGED expired
       \/ ~expired[a] /\ expired' = [expired EXCEPT ![a] = TRUE] /\ UNCHANGED lapsed
    /\ UNCHANGED <<kube, store, leader, pc, local, stale, target, calm, ghost>>

\* Storage, API server and target recover.
Recovery ==
    /\ ~calm /\ calm' = TRUE
    /\ UNCHANGED <<scene, kube, store, leader, pc, local, stale, target, lapsed, expired,
                   changes, ghost>>

Stop(r) ==
    /\ Reset(r)
    /\ running' = [running EXCEPT ![r] = FALSE]
    /\ stale' = [stale EXCEPT ![r] = FALSE]
    /\ UNCHANGED <<kube, leader, work, trail, time, ghost>>

\* A replica stops and starts again: NewFileStore reads the file.
Crash(r) ==
    /\ "crash" \in scene.faults /\ Change
    /\ cache' = [cache EXCEPT ![r] = disk]
    /\ Stop(r)
    /\ UNCHANGED disk

\* Its volume is lost with it.
LoseStore(r) ==
    /\ "lose store" \in scene.faults /\ Change
    /\ disk' = NoRecord
    /\ cache' = [cache EXCEPT ![r] = NoRecord]
    /\ Stop(r)

\* The lifecycle audit of an artifact is lost.
LoseAudit(a) ==
    /\ "lose audit" \in scene.faults /\ Change
    /\ trail[a] # "empty" /\ ~TargetBusy
    /\ trail' = [trail EXCEPT ![a] = "empty"]
    /\ UNCHANGED <<kube, store, leader, pc, local, stale, work, running, time, ghost>>

\* Another replica, which has read the state file when it started, takes over.
Handover(r) ==
    /\ "handover" \in scene.faults /\ Change
    /\ leader # r /\ leader' = r
    /\ UNCHANGED <<kube, store, pc, local, stale, target, time, ghost>>

Environment ==
    \/ EditSpec \/ Approve \/ Replace \/ Rotate
    \/ \E a \in Artifacts : Lapse(a) \/ LoseAudit(a)
    \/ \E r \in Replicas : Crash(r) \/ LoseStore(r) \/ Handover(r)

Step(r) ==
    \/ Get(r) \/ Release(r) \/ Resolve(r) \/ Core(r)
    \/ Observe(r) \/ Probe(r) \/ PreApply(r) \/ Execute(r) \/ Applied(r)
    \/ Publish(r) \/ Refresh(r) \/ Update(r)

ONext == (Environment \/ \E r \in Replicas : Step(r)) /\ UNCHANGED scene

OSpec == OInit /\ [][ONext]_ovars

\* Outages are temporary, and the leader goes on reconciling: failures are
\* requeued with a delay (reconcileManaged).
FairSpec ==
    /\ OInit /\ [][ONext \/ Recovery]_ovars
    /\ WF_ovars(Recovery)
    /\ \A r \in Replicas : WF_ovars(Step(r) /\ UNCHANGED scene)

-----------------------------------------------------------------------------
(* Properties.                                                             *)

Statuses == [observed : Nat, applied : Artifacts \cup {None},
             plan : Artifacts \cup {None}, exec : Artifacts \cup {None},
             recovery : {"none", "pending", "uncertain"},
             window : BOOLEAN, seen : BOOLEAN,
             cond : {"none", "Suspended", "Approval", "Applying", "Failed"} \cup Ready]

Keys == [uid : Nat, gen : Nat, art : Artifacts \cup {None}, ref : Nat]

\* Every variable stays in its domain.
OTypeOK ==
    /\ status \in Statuses /\ out \in [Replicas -> Statuses]
    /\ {disk} \cup {cache[r] : r \in Replicas} \subseteq
          [st : Statuses, applying : Keys, applied : Keys, exists : BOOLEAN]
    /\ pc \in [Replicas -> {"idle", "release", "resolve", "core", "observe", "probe",
                            "pre", "applying", "publish", "update", "deny"}]
    /\ work \in [Artifacts -> {"none", "partial", "complete"}]
    /\ trail \in [Artifacts -> {"empty", "prelude", "started", "completed"}]
    /\ attempted \subseteq Artifacts /\ readied \subseteq Keys

Calls(r) == pc[r] = "pre" /\ pc'[r] = "applying"

\* The state file and the audit stay with the one replica that leads.
OneKeeper == scene.faults \cap {"handover", "lose store", "lose audit"} = {}

Repeats(r) == Calls(r) /\ Key(r) \in readied /\ ~lapsed[Art(r)]

\* Apply is not called for a key that was published as applied while its
\* authorization lasts, by the replica that has published it or one that read
\* the state file since.
NoDuplicateApply == [][\A r \in Replicas : OneKeeper => ~Repeats(r)]_ovars

\* docs/kubernetes-operator.md: "Persisting the applied key means a restart or
\* leader change cannot duplicate a successful apply".
NoDuplicateEver == [][\A r \in Replicas : ~Repeats(r)]_ovars

\* A record or a published status that names an applied release tells the
\* truth: its SQL has completed on the target.
AppliedIsTrue ==
    /\ status.applied # None => work[status.applied] = "complete"
    /\ disk.applied # NoKey => work[disk.applied.art] = "complete"
    /\ status.cond \in Ready => status.applied # None

\* docs/kubernetes-operator.md: "UID, generation, spec, approval annotation, or
\* reference version/content changes discard the old result": a recovered
\* completion is published only for the resource it was observed for.
RecoveredIsCurrent ==
    [][\A r \in Replicas :
          pc[r] = "update" /\ pc'[r] = "idle" /\ status' # status
              /\ status'.cond = "Recovered" => obj = in[r].obj]_ovars

\* docs/kubernetes-operator.md: "An original-state match with no history and no
\* execution event can continue through normal apply authorization": the start
\* check misses an audit only of a release that Apply was called for.
FreshStartContinues ==
    \A r \in Replicas : pc[r] = "probe" /\ AuditMissing(r) => Art(r) \in attempted

Wanted(a) ==
    /\ obj.art = a /\ ~obj.suspend /\ (obj.needs => obj.approved)
    /\ Kind[a] = "ordinary"

\* A completed execution of the release that stays wanted is recognised, and
\* the resource becomes Ready, whatever was interrupted before: unless its
\* audit is incomplete or its approval elapsed.
CompletedBecomesReady ==
    \A a \in Artifacts :
        <>[](Wanted(a) /\ work[a] = "complete" /\ trail[a] = "completed" /\ ~lapsed[a])
            => <>[](status.cond \in Ready /\ status.applied = a)
=============================================================================
