------------------------------- MODULE Fleet -------------------------------
(***************************************************************************)
(* Rollouts over a fleet of databases (pkg/fleet): Executor.Execute walks  *)
(* the groups and batches of a plan, one goroutine per target applies the  *)
(* artifact, the Store serialises what they record, and Recovery retries,  *)
(* skips or rolls back targets while all this happens.                     *)
(* Every Store method holds its mutex throughout, and is one step here.    *)
(* Time stamps, error texts, events and target metadata are left out.      *)
(***************************************************************************)
EXTENDS FleetPlan

CONSTANTS
    Rollouts,       \* rollout identifiers
    Calls,          \* calls of Execute, each made at most once
    Overlapping,    \* rollouts whose calls may overlap in time
    Assignments,    \* the requests the calls may come with, set of [Calls -> request or None]
    Targets,        \* target identifiers, numbers
    MaxAttempts,    \* RetryPolicy.MaxAttempts
    Backoff,        \* RetryPolicy.Backoff > 0
    Filters,        \* StatusFilters, records [rollout, targets, states]
    Kinds,          \* the recovery operations in use
    MaxRecoveries,  \* bound on recovery operations
    None

ASSUME FleetAssumption ==
    /\ Overlapping \subseteq Rollouts
    /\ MaxAttempts \in Nat \ {0} /\ Backoff \in BOOLEAN
    /\ Kinds \subseteq {"retry", "skip", "rollback"}

VARIABLES
    request,    \* rollout, artifact, targets and groups each call is about
    plan,       \* the plan each call is given, by BuildRollout
    rollouts,   \* Store.rollouts: None or [artifact, state, targets]
    active,     \* Store.active: the rollout that holds <<target, artifact>>, or None
    call,       \* position of each call of Execute
    canceled,   \* the calls whose context is done
    worker,     \* the goroutine of each call for each target
    recovery,   \* the recovery operation in progress, or None
    recoveries, \* how many were begun
    db,         \* per <<target, artifact>>: "none", "applied" or "undone"
    unclaimed,  \* history: <<call, target>> whose claim was refused
    overlapped, \* history: two calls have run for one rollout at once
    retried     \* history: <<rollout, target>> put back by Retry and not claimed since

store == <<rollouts, active>>
vars == <<request, plan, rollouts, active, call, canceled, worker, recovery,
          recoveries, db, unclaimed, overlapped, retried>>
history == <<unclaimed, overlapped, retried>>
parameters == <<request, plan>>

States == {"pending", "running", "succeeded", "failed", "canceled", "skipped"}

Artifact(c) == request[c].artifact
Rollout(c) == request[c].rollout
GroupTargets(g) == UNION {Range(g.batches[b]) : b \in DOMAIN g.batches}
PlanTargets(p) == UNION {GroupTargets(p[g]) : g \in DOMAIN p}

Group(c) == plan[c][call[c].group]
CurrentBatch(c) == Group(c).batches[call[c].batch]

Idle == [pc |-> "none", attempt |-> 0]
Keys == Targets \X {p.artifact : p \in {q[c] : q \in Assignments, c \in Calls} \ {None}}

Init ==
    /\ request \in Assignments
    /\ plan = [c \in Calls |->
               IF request[c] = None THEN Invalid ELSE BuildRollout(request[c].groups)]
    /\ rollouts = [r \in Rollouts |-> None]
    /\ active = [k \in Keys |-> None]
    /\ call = [c \in Calls |-> [pc |-> "idle", group |-> 0, dep |-> 0,
                                batch |-> 0, next |-> 0]]
    /\ canceled = {}
    /\ worker = [c \in Calls |-> [t \in Targets |-> Idle]]
    /\ recovery = None /\ recoveries = 0
    /\ db = [k \in Keys |-> "none"]
    /\ unclaimed = {} /\ retried = {} /\ overlapped = FALSE

-----------------------------------------------------------------------------
(* What the Store holds.                                                   *)

StateOf(r, t) == rollouts[r].targets[t].state
Known(r, t) == rollouts[r] # None /\ t \in DOMAIN rollouts[r].targets

\* setRollout
SetRollout(r, s) == rollouts' = [rollouts EXCEPT ![r].state = s]

\* cancelPending: pending targets and the rollout are canceled.
CancelPending(r) ==
    rollouts' = [rollouts EXCEPT ![r] =
        [@ EXCEPT !.state = "canceled",
                  !.targets = [t \in DOMAIN @ |->
                      IF @[t].state = "pending" THEN [@[t] EXCEPT !.state = "canceled"]
                      ELSE @[t]]]]

\* groupSucceeded for the group called name
GroupSucceeded(r, p, name) ==
    \E g \in DOMAIN p :
        /\ p[g].name = name
        /\ \A t \in GroupTargets(p[g]) : Known(r, t) /\ StateOf(r, t) = "succeeded"

\* Mutant: a batch fails only with its context.
AnyCanceled(r, ids) == \E t \in ids : Known(r, t) /\ StateOf(r, t) = "canceled"

\* anyFailed
AnyFailed(r, ids) == \E t \in ids : Known(r, t) /\ StateOf(r, t) = "failed"

\* finish: the result is recorded and the claim given up, whoever holds it.
Finish(r, t, s) ==
    /\ rollouts' = [rollouts EXCEPT ![r].targets[t].state = s]
    /\ active' = [active EXCEPT ![<<t, rollouts[r].artifact>>] = None]

-----------------------------------------------------------------------------
(* Executor.Execute                                                        *)

At(c, pc) == call[c].pc = pc
Goto(c, pc) == call' = [call EXCEPT ![c].pc = pc]
NextGroup(c) == call' = [call EXCEPT ![c].pc = "group", ![c].group = @ + 1]
ReachBatch(c, b) ==
    IF b \in DOMAIN Group(c).batches
    THEN call' = [call EXCEPT ![c].pc = "spawn", ![c].batch = b, ![c].next = 1]
    ELSE NextGroup(c)

Running(c) == ~At(c, "idle") /\ ~At(c, "done")

\* The call begins: an invalid plan, or one that names targets the caller
\* does not pass, is refused.
Execute(c) ==
    /\ At(c, "idle") /\ request[c] # None
    /\ LET others == {d \in Calls : Running(d) /\ Rollout(d) = Rollout(c)} IN
         /\ others = {} \/ Rollout(c) \in Overlapping
         /\ overlapped' = (overlapped \/ others # {})
    /\ IF plan[c] = Invalid \/ ~(PlanTargets(plan[c]) \subseteq request[c].targets)
       THEN Goto(c, "done")
       ELSE Goto(c, "get")
    /\ UNCHANGED <<parameters, store, canceled, worker, recovery, recoveries, db,
                   unclaimed, retried>>

\* Store.Get finds the rollout, of this or of another artifact, or does not.
Get(c) ==
    /\ At(c, "get")
    /\ LET r == rollouts[Rollout(c)] IN
         Goto(c, IF r = None THEN "create"
                 ELSE IF r.artifact # Artifact(c) THEN "done" ELSE "run")
    /\ UNCHANGED <<parameters, store, canceled, worker, recovery, recoveries, db, history>>

\* Store.Create refuses a rollout that exists by now.
Create(c) ==
    /\ At(c, "create")
    /\ LET r == Rollout(c) IN
         IF rollouts[r] # None
         THEN Goto(c, "done") /\ UNCHANGED rollouts
         ELSE /\ Goto(c, "run")
              /\ rollouts' = [rollouts EXCEPT ![r] =
                    [artifact |-> Artifact(c), state |-> "pending",
                     targets |-> [t \in request[c].targets |->
                                     [state |-> "pending", attempts |-> 0]]]]
    /\ UNCHANGED <<parameters, active, canceled, worker, recovery, recoveries, db, history>>

Run(c) ==
    /\ At(c, "run")
    /\ SetRollout(Rollout(c), "running")
    /\ NextGroup(c)
    /\ UNCHANGED <<parameters, active, canceled, worker, recovery, recoveries, db, history>>

\* The head of the loop over the groups, and the end of it.
EnterGroup(c) ==
    /\ At(c, "group")
    /\ IF call[c].group > Len(plan[c])
       THEN SetRollout(Rollout(c), "succeeded") /\ Goto(c, "done")
       ELSE IF c \in canceled
       THEN CancelPending(Rollout(c)) /\ Goto(c, "done")
       ELSE /\ call' = [call EXCEPT ![c].pc = "deps", ![c].dep = 1]
            /\ UNCHANGED rollouts
    /\ UNCHANGED <<parameters, active, canceled, worker, recovery, recoveries, db, history>>

\* One dependency of the group is looked up; the batches come after the last.
Dependency(c) ==
    /\ At(c, "deps")
    /\ LET deps == Group(c).dependsOn
           d == call[c].dep
       IN  IF d > Len(deps)
           THEN ReachBatch(c, 1) /\ UNCHANGED rollouts
           ELSE IF GroupSucceeded(Rollout(c), plan[c], deps[d])
           THEN call' = [call EXCEPT ![c].dep = d + 1] /\ UNCHANGED rollouts
           ELSE SetRollout(Rollout(c), "paused") /\ Goto(c, "done")
    /\ UNCHANGED <<parameters, active, canceled, worker, recovery, recoveries, db, history>>

\* The targets for which no goroutine is started
Settled(r, t) == Known(r, t) /\ StateOf(r, t) \in {"succeeded", "skipped"}

\* One turn of the loop that starts the goroutines of a batch.
Spawn(c) ==
    /\ At(c, "spawn")
    /\ LET t == CurrentBatch(c)[call[c].next]
           r == Rollout(c)
           last == call[c].next = Len(CurrentBatch(c))
       IN  /\ worker' = IF Settled(r, t) THEN worker
                        ELSE [worker EXCEPT ![c][t] = [pc |-> "ready", attempt |-> 0]]
           /\ call' = IF last THEN [call EXCEPT ![c].pc = "wait"]
                      ELSE [call EXCEPT ![c].next = @ + 1]
    /\ UNCHANGED <<parameters, store, canceled, recovery, recoveries, db, history>>

\* wg.Wait returns once every goroutine has; the batch is then judged.
Wait(c) ==
    /\ At(c, "wait")
    /\ \A t \in Targets : worker[c][t] = Idle
    /\ IF c \in canceled
       THEN CancelPending(Rollout(c)) /\ Goto(c, "done")
       ELSE IF Group(c).policy = "fail_fast" /\ AnyFailed(Rollout(c), Range(CurrentBatch(c)))
       THEN SetRollout(Rollout(c), "failed") /\ Goto(c, "done")
       ELSE /\ IF Group(c).delay THEN Goto(c, "delay")
               ELSE ReachBatch(c, call[c].batch + 1)
            /\ UNCHANGED rollouts
    /\ UNCHANGED <<parameters, active, canceled, worker, recovery, recoveries, db, history>>

\* The pause between batches ends with the timer or with the context.
Delay(c) ==
    /\ At(c, "delay")
    /\ \/ c \in canceled /\ CancelPending(Rollout(c)) /\ Goto(c, "done")
       \/ ReachBatch(c, call[c].batch + 1) /\ UNCHANGED rollouts
    /\ UNCHANGED <<parameters, active, canceled, worker, recovery, recoveries, db, history>>

Cancel(c) ==
    /\ Running(c) /\ c \notin canceled
    /\ canceled' = canceled \cup {c}
    /\ UNCHANGED <<parameters, store, call, worker, recovery, recoveries, db, history>>

-----------------------------------------------------------------------------
(* runTarget: the goroutine of a call for one target                       *)

Worker(c, t, pc) == worker[c][t].pc = pc
Become(c, t, pc) == worker' = [worker EXCEPT ![c][t].pc = pc]
Exit(c, t) == worker' = [worker EXCEPT ![c][t] = Idle]

\* The goroutines that hold one of the MaxParallel slots of the batch
Slots(c) == {t \in Targets : worker[c][t].pc \notin {"none", "ready"}}

\* Mutant: one slot too few.
HasSpareSlot(c) == Cardinality(Slots(c)) < Group(c).parallel - 1

\* There is room in the channel that bounds the goroutines at work.
HasSlot(c) == Cardinality(Slots(c)) < Group(c).parallel

\* Mutant: a rival's claim is taken over.
NoRival(r, t) == FALSE

\* Another rollout holds the claim.
Rival(r, t) == active[<<t, rollouts[r].artifact>>] \notin {None, r}

\* A slot is taken and the target claimed.  A target that is unknown or that
\* another rollout works on is left alone and the error dropped; one that has
\* succeeded needs no claim.
Claim(c, t) ==
    /\ Worker(c, t, "ready") /\ HasSlot(c)
    /\ LET r == Rollout(c) IN
       \/ /\ Known(r, t) => StateOf(r, t) # "succeeded" /\ Rival(r, t)
          /\ Exit(c, t)
          /\ unclaimed' = unclaimed \cup {<<c, t>>}
          /\ UNCHANGED <<store, overlapped, retried>>
       \/ /\ Known(r, t) /\ StateOf(r, t) = "succeeded"
          /\ Become(c, t, "start")
          /\ UNCHANGED <<store, history>>
       \/ /\ Known(r, t) /\ StateOf(r, t) # "succeeded" /\ ~Rival(r, t)
          /\ active' = [active EXCEPT ![<<t, rollouts[r].artifact>>] = r]
          /\ rollouts' = [rollouts EXCEPT ![r].targets[t].state = "running"]
          /\ Become(c, t, "start")
          /\ retried' = retried \ {<<r, t>>}
          /\ UNCHANGED <<unclaimed, overlapped>>
    /\ UNCHANGED <<parameters, call, canceled, recovery, recoveries, db>>

\* The attempt is recorded and Apply called.
Attempt(c, t) ==
    /\ Worker(c, t, "start")
    /\ worker' = [worker EXCEPT ![c][t] = [pc |-> "applying", attempt |-> @.attempt + 1]]
    /\ rollouts' = [rollouts EXCEPT ![Rollout(c)].targets[t].attempts =
                                        worker[c][t].attempt + 1]
    /\ UNCHANGED <<parameters, active, call, canceled, recovery, recoveries, db, history>>

\* ApplyFunc does its work.
Applies(c, t) ==
    /\ Worker(c, t, "applying")
    /\ db' = [db EXCEPT ![<<t, Artifact(c)>>] = "applied"]
    /\ Become(c, t, "applied")
    /\ UNCHANGED <<parameters, store, call, canceled, recovery, recoveries, history>>

\* Apply has returned nil; the context decides what is recorded.
Applied(c, t) ==
    /\ Worker(c, t, "applied")
    /\ Finish(Rollout(c), t, IF c \in canceled THEN "canceled" ELSE "succeeded")
    /\ Exit(c, t)
    /\ UNCHANGED <<parameters, call, canceled, recovery, recoveries, db, history>>

\* The error that is not tried again is recorded and the goroutine ends.
GiveUp(c, t) == Finish(Rollout(c), t, "failed") /\ Exit(c, t)

\* The attempts of the RetryPolicy are used up.
LastAttempt(c, t) == worker[c][t].attempt = MaxAttempts

\* Apply has returned an error; only a transient one is tried again.
ApplyFails(c, t) ==
    /\ Worker(c, t, "applying")
    /\ \E transient \in BOOLEAN :
         IF ~transient \/ LastAttempt(c, t)
         THEN GiveUp(c, t)
         ELSE Become(c, t, IF Backoff THEN "backoff" ELSE "start") /\ UNCHANGED store
    /\ UNCHANGED <<parameters, call, canceled, recovery, recoveries, db, history>>

\* The wait before the next attempt ends with the timer or with the context.
BackedOff(c, t) ==
    /\ Worker(c, t, "backoff")
    /\ \/ c \in canceled /\ Finish(Rollout(c), t, "canceled") /\ Exit(c, t)
       \/ Become(c, t, "start") /\ UNCHANGED store
    /\ UNCHANGED <<parameters, call, canceled, recovery, recoveries, db, history>>

-----------------------------------------------------------------------------
(* Recovery                                                                *)

\* Status: the rows a filter selects, by target
Rows(f) ==
    IF rollouts[f.rollout] = None THEN <<>>
    ELSE Sorted({t \in DOMAIN rollouts[f.rollout].targets \cap f.targets :
                    StateOf(f.rollout, t) \in f.states})

\* Retry, Skip and Rollback begin by listing the rows they will work on.
Recover(kind, f) ==
    /\ recovery = None /\ recoveries < MaxRecoveries
    /\ Rows(f) # <<>>
    /\ recovery' = [kind |-> kind, rollout |-> f.rollout, rows |-> Rows(f)]
    /\ recoveries' = recoveries + 1
    /\ UNCHANGED <<parameters, store, call, canceled, worker, db, history>>

\* After a row: the next one, or none when it was the last or the audit failed.
Proceed ==
    \/ recovery' = None
    \/ /\ Len(recovery.rows) > 1
       /\ recovery' = [recovery EXCEPT !.rows = Tail(@)]

\* The test that Retry or Skip makes under the Store's mutex
Mutable(kind, s) ==
    IF kind = "retry" THEN s \in {"failed", "canceled"} ELSE s # "succeeded"

\* mutateTarget for one row, and its audit
Mutate ==
    /\ recovery # None /\ recovery.kind \in {"retry", "skip"}
    /\ LET r == recovery.rollout
           t == Head(recovery.rows)
       IN  IF Mutable(recovery.kind, StateOf(r, t))
           THEN /\ rollouts' = [rollouts EXCEPT ![r].targets[t].state =
                       IF recovery.kind = "retry" THEN "pending" ELSE "skipped"]
                /\ retried' = IF recovery.kind = "retry" THEN retried \cup {<<r, t>>}
                              ELSE retried
                /\ Proceed
           ELSE recovery' = None /\ UNCHANGED <<rollouts, retried>>
    /\ UNCHANGED <<parameters, active, call, canceled, worker, recoveries, db,
                   unclaimed, overlapped>>

\* Rollback calls down for a row and leaves the Store as it is; the audit
\* comes after the last row and changes nothing here.
Rollback ==
    /\ recovery # None /\ recovery.kind = "rollback"
    /\ LET k == <<Head(recovery.rows), rollouts[recovery.rollout].artifact>> IN
         \/ /\ db' = [db EXCEPT ![k] = IF @ = "applied" THEN "undone" ELSE @]
            /\ recovery' = IF Len(recovery.rows) = 1 THEN None
                           ELSE [recovery EXCEPT !.rows = Tail(@)]
         \/ recovery' = None /\ UNCHANGED db
    /\ UNCHANGED <<parameters, store, call, canceled, worker, recoveries, history>>

-----------------------------------------------------------------------------
CallStep(c) ==
    \/ Execute(c) \/ Get(c) \/ Create(c) \/ Run(c) \/ EnterGroup(c)
    \/ Dependency(c) \/ Spawn(c) \/ Wait(c) \/ Delay(c)
WorkerStep(c, t) ==
    \/ Claim(c, t) \/ Attempt(c, t) \/ Applies(c, t) \/ Applied(c, t)
    \/ ApplyFails(c, t) \/ BackedOff(c, t)

Next ==
    \/ \E c \in Calls : CallStep(c) \/ Cancel(c)
    \/ \E c \in Calls, t \in Targets : WorkerStep(c, t)
    \/ \E kind \in Kinds, f \in Filters : Recover(kind, f)
    \/ Mutate \/ Rollback

Spec == Init /\ [][Next]_vars

\* Goroutines run, and ApplyFunc returns; nobody has to call, cancel or recover.
FairSpec ==
    /\ Spec
    /\ \A c \in Calls : WF_vars(Running(c) /\ CallStep(c))
    /\ \A c \in Calls, t \in Targets : WF_vars(WorkerStep(c, t))

-----------------------------------------------------------------------------
(* Properties                                                              *)

\* The goroutine works on the target, whether or not it had to claim it.
Works(c, t) == worker[c][t].pc \notin {"none", "ready"}

\* Types of the Store's maps and of the positions of calls and goroutines; no
\* more goroutines of a batch are at work than MaxParallel allows.
FTypeOK ==
    /\ \A r \in Rollouts : rollouts[r] # None =>
          /\ rollouts[r].state \in {"pending", "running", "paused", "failed",
                                    "canceled", "succeeded"}
          /\ \A t \in DOMAIN rollouts[r].targets :
                /\ t \in Targets /\ StateOf(r, t) \in States
                /\ rollouts[r].targets[t].attempts \in 0..MaxAttempts
    /\ active \in [Keys -> Rollouts \cup {None}]
    /\ \A c \in Calls : call[c].pc \in {"idle", "get", "create", "run", "group",
                                        "deps", "spawn", "wait", "delay", "done"}
    /\ \A c \in Calls, t \in Targets :
          /\ worker[c][t].pc \in {"none", "ready", "start", "applying", "applied", "backoff"}
          /\ worker[c][t].attempt \in 0..MaxAttempts
    /\ \A c \in Calls : Slots(c) # {} => Cardinality(Slots(c)) <= Group(c).parallel
    /\ canceled \subseteq Calls /\ recoveries \in 0..MaxRecoveries
    /\ db \in [Keys -> {"none", "applied", "undone"}]

\* Some ranking of the groups has every group above those it depends on.
Orderable(groups) ==
    \E rank \in [DOMAIN groups -> 1..Cardinality(DOMAIN groups)] :
        \A g \in DOMAIN groups : \A d \in groups[g].dependsOn :
            d \in DOMAIN groups /\ rank[d] < rank[g]

\* BuildRollout accepts exactly the requests whose groups are disjoint, large
\* enough for their canaries and orderable; its plan has every group once,
\* behind those it depends on, and every target of a group once, the canaries
\* in a batch of their own and only the last batch smaller than the batch size.
PlanSound ==
    (\A c \in Calls : At(c, "idle")) => \A c \in {d \in Calls : request[d] # None} :
        LET q == request[c].groups
            p == plan[c]
            place(n) == CHOOSE g \in DOMAIN p : p[g].name = n
        IN  /\ p # Invalid <=>
                 /\ q # <<>> /\ Orderable(q)
                 /\ \A g \in DOMAIN q : q[g].canary <= Cardinality(q[g].targets)
                 /\ \A g, h \in DOMAIN q :
                       g = h \/ q[g].targets \cap q[h].targets = {}
            /\ p # Invalid =>
                 /\ {p[g].name : g \in DOMAIN p} = DOMAIN q /\ Len(p) = Cardinality(DOMAIN q)
                 /\ \A n \in DOMAIN q : \A d \in q[n].dependsOn : place(d) < place(n)
                 /\ \A g \in DOMAIN p :
                      LET want == q[p[g].name]
                          bs == p[g].batches
                          first == IF want.canary > 0 THEN 2 ELSE 1
                      IN  /\ FlattenSeq(bs) = Sorted(want.targets)
                          /\ want.canary > 0 => Len(bs[1]) = want.canary
                          /\ \A b \in first..Len(bs) :
                                /\ Len(bs[b]) \in 1..want.size
                                /\ b < Len(bs) => Len(bs[b]) = want.size

\* One active execution per target and artifact, whichever rollouts the
\* goroutines belong to: a goroutine at work holds the claim of its target in
\* Store.active, and a claim or the state Running is backed by a goroutine of its
\* rollout, so that a call that has returned, by whichever path, leaves neither
\* behind to block later rollouts.  No two calls for one rollout run at once.
ClaimsAreBacked == ~overlapped =>
    \A r \in Rollouts, t \in Targets :
        LET backed == \E c \in Calls : Works(c, t) /\ Rollout(c) = r IN
        /\ \A k \in Keys : k[1] = t /\ active[k] = r => backed
        /\ Known(r, t) /\ StateOf(r, t) = "running" => backed
        /\ \A c \in Calls : Works(c, t) => active[<<t, Artifact(c)>>] = Rollout(c)

\* While a target of a group is worked on, every target of every group it
\* depends on is recorded as succeeded, Recovery notwithstanding.
DependenciesFirst == ~overlapped =>
    \A c \in Calls : Slots(c) # {} =>
        \A d \in request[c].groups[Group(c).name].dependsOn :
            \A t \in request[c].groups[d].targets :
                Known(Rollout(c), t) /\ StateOf(Rollout(c), t) = "succeeded"

\* What may have become of a target the call is through with, other than
\* success: skipped, refused by the claim, put back by Retry.
Excused(c, t) ==
    \/ <<c, t>> \in unclaimed
    \/ <<Rollout(c), t>> \in retried
    \/ StateOf(Rollout(c), t) \in {"succeeded", "skipped"}

\* The canary gate: while a batch of a fail-fast group is worked on, every
\* target of an earlier batch of the group has succeeded or is excused.
EarlierBatchesSettled == ~overlapped =>
    \A c \in Calls : Slots(c) # {} /\ Group(c).policy = "fail_fast" =>
        \A b \in 1..(call[c].batch - 1) :
            \A t \in Range(Group(c).batches[b]) : Excused(c, t)

\* Work is claimed and its turn has come: one execution per target and artifact
\* (ClaimsAreBacked), behind the groups it depends on (DependenciesFirst) and the
\* earlier batches of its own (EarlierBatchesSettled).
WorkInOrder == ClaimsAreBacked /\ DependenciesFirst /\ EarlierBatchesSettled

\* A rollout is recorded as succeeded only when every planned target has
\* succeeded, is excused, or failed in a group that continues on failure.
SuccessAccounted ==
    [][~overlapped => \A c \in Calls : At(c, "group") /\ call'[c].pc = "done"
            /\ rollouts'[Rollout(c)].state = "succeeded" =>
          \A g \in DOMAIN plan[c] : \A t \in GroupTargets(plan[c][g]) :
              \/ Excused(c, t)
              \/ plan[c][g].policy = "continue" /\ StateOf(Rollout(c), t) = "failed"]_vars

\* A target recorded as succeeded stays so, whatever resumes and recovery
\* operations follow, and no later call applies to it again.
SuccessIsFinal ==
    [][~overlapped => \A r \in Rollouts, t \in Targets :
          Known(r, t) /\ StateOf(r, t) = "succeeded" =>
              /\ rollouts'[r].targets[t].state = "succeeded"
              /\ \A c \in Calls :
                    worker'[c][t].pc = "applying" => Rollout(c) # r]_vars

\* A success is true when it is recorded (SuccessAccounted) and stays
\* (SuccessIsFinal).
SuccessStands == SuccessAccounted /\ SuccessIsFinal

\* Every call of Execute returns.
ExecuteReturns == \A c \in Calls : Running(c) ~> At(c, "done")

\* Resuming does not reapply successful work: Apply is not called for a
\* target on which an Apply of the artifact has returned nil.
NoReapply ==
    [][\A c \in Calls, t \in Targets :
          Worker(c, t, "start") /\ worker'[c][t].pc = "applying" =>
              db[<<t, Artifact(c)>>] # "applied"]_vars
=============================================================================
