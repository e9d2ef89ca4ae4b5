----------------------------- MODULE Bootstrap -----------------------------
(***************************************************************************)
(* Creation of a whole database from a plan                                *)
(* (pkg/postgres/bootstrap_execute.go, pkg/bootstrap/plan.go): the target  *)
(* database, the ledger inside it, phases that commit as one transaction,  *)
(* phases whose steps stand alone, reconciliation of a step that may or    *)
(* may not have happened, explicit confirmation, and abort.  Processes run *)
(* and are interrupted anywhere; a statement whose client is gone may      *)
(* finish afterwards in its own session, which keeps the advisory lock.    *)
(***************************************************************************)
EXTENDS Naturals, Sequences, FiniteSets

CONSTANTS
    Processes, Nobody,
    Scenes      \* records: plans   - name -> sequence of steps
                \*            [id, stage, tx, deps]; a dependency that is no
                \*            step of the plan is a precondition of it
                \*          mode    - "managed" or "external"
                \*          closed  - the target is declared without connections
                \*          foreign - objects that exist beforehand
                \*          abort   - abort and confirmation are run as well
                \*          faults  - bound on failures

VARIABLES
    scene,
    db,        \* the target: exists, open (to connections), ledger (is there)
    objects,   \* step id -> what is there under the name of its object
    exec,      \* plan -> row of bootstrap_execution, with its checkpoint
    steps,     \* plan -> step id -> state in bootstrap_steps
    busy,      \* session that holds the advisory lock of the target
    late,      \* the statement a lost session is still running
    proc,      \* process -> its state
    faults

store == <<db, objects, exec, steps>>
bvars == <<scene, store, busy, late, proc, faults>>

Plans   == DOMAIN scene.plans
Step(pl, i) == scene.plans[pl][i]
Size(pl) == Len(scene.plans[pl])
StepsOf(pl) == {Step(pl, i) : i \in 1..Size(pl)}
Ids(pl) == {t.id : t \in StepsOf(pl)}
AllIds  == UNION {Ids(pl) : pl \in Plans}

\* Roles and memberships belong to the server, not to the database.
Cluster(t) == t.stage = "roles"
ClusterIds == {t.id : t \in {u \in UNION {StepsOf(pl) : pl \in Plans} : Cluster(u)}}

NoRow   == [state |-> "none", phase |-> 0]
NoRows  == [pl \in Plans |-> NoRow]
NoSteps == [pl \in Plans |-> [id \in AllIds |-> "none"]]
NoWork  == [plan |-> "", ids |-> {}, tx |-> FALSE]
Idle    == [pc |-> "idle", plan |-> "", at |-> 0, confirmed |-> {}, reopened |-> FALSE,
            abort |-> FALSE]

\* compose: a phase is a longest run of steps of one stage and transaction mode.
samePhase(t, u) == t.stage = u.stage /\ t.tx = u.tx

PhaseEnd(pl, i) ==
    CHOOSE j \in i..Size(pl) :
        /\ \A k \in i..j : samePhase(Step(pl, i), Step(pl, k))
        /\ j < Size(pl) => ~samePhase(Step(pl, i), Step(pl, j + 1))

PhaseIds(pl, i) == {Step(pl, k).id : k \in i..PhaseEnd(pl, i)}

Fault == faults < scene.faults /\ faults' = faults + 1
At(p, where) == [proc[p] EXCEPT !.pc = where]
Goto(p, where) == proc' = [proc EXCEPT ![p].pc = where]
Fails(p) == Goto(p, "leave")

-----------------------------------------------------------------------------
(* The target.                                                             *)

Begin(p, pl, abort) ==
    /\ proc[p].pc = "idle" /\ (abort => scene.abort)
    /\ proc' = [proc EXCEPT ![p] = [Idle EXCEPT !.pc = IF abort THEN "reopen" ELSE "target",
                                                 !.plan = pl, !.abort = abort]]
    /\ UNCHANGED <<scene, store, busy, late, faults>>

\* openBootstrapTarget.  A managed target is created, or resumed when it is the
\* declared one; an external one is there.
OpenTarget(p) ==
    /\ proc[p].pc = "target"
    /\ IF scene.mode = "managed" /\ ~db.exists
       THEN /\ db' = [exists |-> TRUE, open |-> TRUE, ledger |-> FALSE]
            /\ Goto(p, IF scene.closed THEN "seal" ELSE "history")
       ELSE /\ UNCHANGED db
            /\ IF db.open # scene.closed
               THEN Goto(p, IF scene.mode = "managed" THEN "reopen" ELSE "history")
               ELSE Fails(p)
    /\ UNCHANGED <<scene, objects, exec, steps, busy, late, faults>>

\* The new database is closed again once the session is in it.
Seal(p) ==
    /\ proc[p].pc = "seal"
    /\ db' = [db EXCEPT !.open = FALSE]
    /\ Goto(p, "history")
    /\ UNCHANGED <<scene, objects, exec, steps, busy, late, faults>>

\* temporarilyAllowBootstrapConnections, the connection, and for a resume the
\* proof that the database was made by a bootstrap.
Reopen(p) ==
    LET resumable == db.exists /\ (db.ledger \/ proc[p].abort) IN
    /\ proc[p].pc = "reopen"
    /\ db' = [db EXCEPT !.open = db.open \/ (scene.closed /\ db.exists)]
    /\ proc' = [proc EXCEPT ![p].reopened = scene.closed /\ db.exists,
                            ![p].pc = CASE ~resumable -> "leave"
                                        [] proc[p].abort -> "bind"
                                        [] OTHER -> "history"]
    /\ UNCHANGED <<scene, objects, exec, steps, busy, late, faults>>

\* bootstrapHistoryDDL
History(p) ==
    /\ proc[p].pc = "history"
    /\ db' = [db EXCEPT !.ledger = TRUE]
    /\ Goto(p, "bind")
    /\ UNCHANGED <<scene, objects, exec, steps, busy, late, faults>>

-----------------------------------------------------------------------------
(* The identity of the execution, bound before the lock is taken.          *)

Unfinished(pl) == exec[pl].state = "running"

BindRead(p) ==
    LET pl == proc[p].plan IN
    /\ proc[p].pc = "bind"
    /\ Goto(p, CASE ~db.ledger -> "leave"
                 [] exec[pl] # NoRow -> IF proc[p].abort THEN "abort" ELSE "lock"
                 [] \E other \in Plans : Unfinished(other) -> "leave"
                 [] OTHER -> "insert")
    /\ UNCHANGED <<scene, store, busy, late, faults>>

BindInsert(p) ==
    LET pl == proc[p].plan IN
    /\ proc[p].pc = "insert"
    /\ IF db.ledger /\ exec[pl] = NoRow
       THEN /\ exec' = [exec EXCEPT ![pl] = [NoRow EXCEPT !.state = "running"]]
            /\ Goto(p, IF proc[p].abort THEN "abort" ELSE "lock")
       ELSE Fails(p) /\ UNCHANGED exec
    /\ UNCHANGED <<scene, db, objects, steps, busy, late, faults>>

LockFree(p) == busy = Nobody

Lock(p) ==
    /\ proc[p].pc = "lock"
    /\ IF LockFree(p) THEN busy' = p /\ Goto(p, "read") ELSE Fails(p) /\ UNCHANGED busy
    /\ UNCHANGED <<scene, store, late, faults>>

-----------------------------------------------------------------------------
(* Resume.                                                                 *)

Confirmed(pl) == {id \in Ids(pl) : steps[pl][id] = "confirmed"}
Intended(pl) == {id \in Ids(pl) : steps[pl][id] = "intended"}

\* Mutant: an intent is taken for the statement.
ReconciledTrusting(id) == "confirmed"

\* reconcileConcurrentIndexIntent: what the catalog proves about an intent.
Reconciled(id) == CASE objects[id] = "absent" -> "none"
                    [] objects[id] = "exact"  -> "confirmed"
                    [] OTHER                  -> "intended"

\* verifyBootstrapState before the first step: what the plan changes is as the plan
\* found it, and what it makes is not there.
InitialState(pl) ==
    /\ \A id \in Ids(pl) : objects[id] = "absent"
    /\ \A t \in StepsOf(pl) : \A d \in t.deps \ Ids(pl) : objects[d] = "exact"

\* readBootstrapSteps, the reconciliation, and the check of the first run.
ReadSteps(p) ==
    LET pl    == proc[p].plan
        found == [id \in AllIds |-> IF id \in Intended(pl) THEN Reconciled(id) ELSE steps[pl][id]]
        done  == {id \in Ids(pl) : found[id] = "confirmed"}
    IN  /\ proc[p].pc = "read"
        /\ steps' = [steps EXCEPT ![pl] = IF db.ledger THEN found ELSE @]
        /\ proc' = [proc EXCEPT ![p].confirmed = done, ![p].at = 1,
              ![p].pc = IF /\ db.ledger
                           /\ \A id \in Ids(pl) : found[id] # "intended"
                           /\ done = {} => InitialState(pl)
                        THEN "phase" ELSE "leave"]
        /\ UNCHANGED <<scene, db, objects, exec, busy, late, faults>>

\* verifyBootstrapPhasePreconditions
Precondition(pl, i, confirmed) ==
    /\ db.ledger /\ exec[pl].state \in {"running", "completed"}
    /\ exec[pl].phase # 0 => PhaseIds(pl, exec[pl].phase) \subseteq confirmed
    /\ \A k \in i..PhaseEnd(pl, i) :
          Step(pl, k).id \notin confirmed =>
              (Step(pl, k).deps \cap Ids(pl)) \subseteq confirmed \cup {Step(pl, j).id : j \in i..(k - 1)}

Phase(p) ==
    LET pl == proc[p].plan
        i == proc[p].at
        done == proc[p].confirmed
    IN  /\ proc[p].pc = "phase"
        /\ proc' = [proc EXCEPT ![p] =
              CASE i > Size(pl) -> At(p, "verify")
                [] i <= Size(pl) /\ PhaseIds(pl, i) \subseteq done -> [@ EXCEPT !.at = PhaseEnd(pl, i) + 1]
                [] OTHER -> At(p, IF ~Precondition(pl, i, done) THEN "leave"
                                  ELSE IF Step(pl, i).tx THEN "commit" ELSE "intend")]
        /\ UNCHANGED <<scene, store, busy, late, faults>>

-----------------------------------------------------------------------------
(* Execution.                                                              *)

Work(p) ==
    LET pl == proc[p].plan IN
    [plan |-> pl, tx |-> Step(pl, proc[p].at).tx,
     ids |-> IF Step(pl, proc[p].at).tx
             THEN PhaseIds(pl, proc[p].at) \ proc[p].confirmed
             ELSE {Step(pl, proc[p].at).id}]

\* What a statement, or a transaction with its step rows and its checkpoint,
\* does when the server gets to its end.
Takes(w, phase) ==
    /\ objects' = [id \in AllIds |-> IF id \in w.ids THEN "exact" ELSE objects[id]]
    /\ IF w.tx
       THEN /\ steps' = [steps EXCEPT ![w.plan] =
                   [id \in AllIds |-> IF id \in w.ids THEN "confirmed" ELSE @[id]]]
            /\ exec' = [exec EXCEPT ![w.plan].phase = IF exec[w.plan] = NoRow THEN 0 ELSE phase]
       ELSE UNCHANGED <<steps, exec>>

Possible(w) == db.exists /\ (w.tx => db.ledger) /\ \A id \in w.ids : objects[id] = "absent"

\* executeBootstrapTransactionalPhase
CommitPhase(p) ==
    LET pl == proc[p].plan
        i == proc[p].at
    IN  /\ proc[p].pc = "commit"
        /\ \/ /\ Possible(Work(p)) /\ Takes(Work(p), i)
              /\ proc' = [proc EXCEPT ![p].confirmed = @ \cup PhaseIds(pl, i),
                                      ![p].at = PhaseEnd(pl, i) + 1, ![p].pc = "phase"]
              /\ UNCHANGED <<faults, late>>
           \/ /\ IF Possible(Work(p)) THEN Fault ELSE UNCHANGED faults
              /\ Fails(p) /\ UNCHANGED <<objects, steps, exec, late>>
           \/ /\ Possible(Work(p)) /\ Fault /\ late' = Work(p)
              /\ Fails(p) /\ UNCHANGED <<objects, steps, exec>>
        /\ UNCHANGED <<scene, db, busy>>

\* executeBootstrapNonTransactionalPhase: intent, statement, confirmation.
Intend(p) ==
    LET pl == proc[p].plan
        id == Step(pl, proc[p].at).id
    IN  /\ proc[p].pc = "intend"
        /\ IF id \in proc[p].confirmed
           THEN Goto(p, "confirmed") /\ UNCHANGED steps
           ELSE IF db.ledger /\ steps[pl][id] = "none"
                THEN steps' = [steps EXCEPT ![pl][id] = "intended"] /\ Goto(p, "execute")
                ELSE Fails(p) /\ UNCHANGED steps
        /\ UNCHANGED <<scene, db, objects, exec, busy, late, faults>>

ExecuteStep(p) ==
    /\ proc[p].pc = "execute"
    /\ \/ /\ Possible(Work(p)) /\ Takes(Work(p), 0)
          /\ Goto(p, "confirm") /\ UNCHANGED <<faults, late>>
       \/ /\ IF Possible(Work(p)) THEN Fault ELSE UNCHANGED faults
          /\ objects' \in {objects,
                [id \in AllIds |-> IF id \in Work(p).ids /\ Possible(Work(p)) THEN "invalid" ELSE objects[id]]}
          /\ Fails(p) /\ UNCHANGED <<steps, exec, late>>
       \/ /\ Possible(Work(p)) /\ Fault /\ late' = Work(p)
          /\ Fails(p) /\ UNCHANGED <<objects, steps, exec>>
    /\ UNCHANGED <<scene, db, busy>>

ConfirmOwn(p) ==
    LET pl == proc[p].plan
        id == Step(pl, proc[p].at).id
    IN  /\ proc[p].pc = "confirm"
        /\ \/ /\ db.ledger /\ steps[pl][id] = "intended"
              /\ steps' = [steps EXCEPT ![pl][id] = "confirmed"]
              /\ proc' = [proc EXCEPT ![p].confirmed = @ \cup {id}, ![p].pc = "confirmed"]
              /\ UNCHANGED faults
           \/ /\ IF db.ledger /\ steps[pl][id] = "intended" THEN Fault ELSE UNCHANGED faults
              /\ Fails(p) /\ UNCHANGED steps
        /\ UNCHANGED <<scene, db, objects, exec, busy, late>>

\* The next step of the phase, or its checkpoint.
NextStep(p) ==
    LET pl == proc[p].plan
        i == proc[p].at
        last == i = Size(pl) \/ (i < Size(pl) /\ ~samePhase(Step(pl, i), Step(pl, i + 1)))
        first == CHOOSE k \in 1..i : PhaseEnd(pl, k) >= i /\ (k > 1 => ~samePhase(Step(pl, k - 1), Step(pl, k)))
    IN  /\ proc[p].pc = "confirmed"
        /\ exec' = IF last /\ exec[pl] # NoRow THEN [exec EXCEPT ![pl].phase = first] ELSE exec
        /\ proc' = [proc EXCEPT ![p].at = i + 1,
                       ![p].pc = IF ~last THEN "intend" ELSE IF db.ledger THEN "phase" ELSE "leave"]
        /\ UNCHANGED <<scene, db, objects, steps, busy, late, faults>>

\* verifyBootstrapState for the end, and the mark.
Finish(p) ==
    LET pl == proc[p].plan IN
    /\ proc[p].pc = "verify"
    /\ exec' = IF /\ db.ledger /\ exec[pl] # NoRow
                  /\ \A id \in Ids(pl) : objects[id] = "exact"
               THEN [exec EXCEPT ![pl].state = "completed"] ELSE exec
    /\ Fails(p)
    /\ UNCHANGED <<scene, db, objects, steps, busy, late, faults>>

\* A backend that is at work keeps the lock of its session.
Unlock(p) == busy' = IF busy = p /\ late = NoWork THEN Nobody ELSE busy

\* Every return restores the connection policy and closes the session.
Return(p) ==
    /\ proc[p].pc = "leave"
    /\ db' = [db EXCEPT !.open = @ /\ ~proc[p].reopened]
    /\ proc' = [proc EXCEPT ![p] = Idle]
    /\ Unlock(p)
    /\ UNCHANGED <<scene, objects, exec, steps, late, faults>>

Die(p) ==
    /\ proc[p].pc # "idle" /\ Fault
    /\ proc' = [proc EXCEPT ![p] = Idle]
    /\ Unlock(p)
    /\ UNCHANGED <<scene, store, late>>

LateEnd ==
    /\ late # NoWork
    /\ IF Possible(late) THEN Takes(late, exec[late.plan].phase) ELSE UNCHANGED <<objects, steps, exec>>
    /\ late' = NoWork /\ busy' = Nobody
    /\ UNCHANGED <<scene, db, proc, faults>>

-----------------------------------------------------------------------------
(* What an operator does.                                                  *)

\* ConfirmBootstrapStepURL, after the object was inspected
ConfirmStep(pl, id) ==
    /\ scene.abort /\ db.exists /\ db.open /\ db.ledger
    /\ steps[pl][id] = "intended" /\ objects[id] = "exact"
    /\ steps' = [steps EXCEPT ![pl][id] = "confirmed"]
    /\ UNCHANGED <<scene, db, objects, exec, busy, late, proc, faults>>

\* The remnant of a failed statement is dropped by hand.
RemoveRemnant(id) ==
    /\ objects[id] = "invalid"
    /\ objects' = [objects EXCEPT ![id] = "absent"]
    /\ UNCHANGED <<scene, db, exec, steps, busy, late, proc, faults>>

\* AbortDatabaseBootstrapURL from its read of the ledger on: DROP DATABASE ends
\* every session in the database; an external target loses its ledger only.
AbortTarget(p) ==
    /\ proc[p].pc = "abort" /\ db.exists
    /\ exec' = NoRows /\ steps' = NoSteps
    /\ IF scene.mode = "managed"
       THEN /\ db' = [exists |-> FALSE, open |-> FALSE, ledger |-> FALSE]
            /\ objects' = [id \in AllIds |-> IF id \in ClusterIds THEN objects[id] ELSE "absent"]
            /\ proc' = [q \in Processes |->
                  IF q = p THEN [Idle EXCEPT !.pc = "roles", !.plan = proc[p].plan,
                                             !.confirmed = Confirmed(proc[p].plan)]
                  ELSE IF proc[q].pc \in {"idle", "target", "reopen", "roles"} THEN proc[q]
                  ELSE Idle]
            /\ busy' = Nobody /\ late' = NoWork
       ELSE /\ db' = [db EXCEPT !.ledger = FALSE]
            /\ Fails(p)
            /\ UNCHANGED <<objects, busy, late>>
    /\ UNCHANGED <<scene, faults>>

OwnRoles(pl, confirmed) == confirmed \cap ClusterIds

\* cleanupConfirmedClusterSecurity
DropRoles(p) ==
    /\ proc[p].pc = "roles"
    /\ \/ /\ objects' = [id \in AllIds |->
                IF id \in OwnRoles(proc[p].plan, proc[p].confirmed) THEN "absent" ELSE objects[id]]
          /\ UNCHANGED faults
       \/ Fault /\ UNCHANGED objects
    /\ Fails(p)
    /\ UNCHANGED <<scene, db, exec, steps, busy, late>>

-----------------------------------------------------------------------------
BInit ==
    /\ scene \in Scenes
    /\ db = IF scene.mode = "managed" THEN [exists |-> FALSE, open |-> FALSE, ledger |-> FALSE]
            ELSE [exists |-> TRUE, open |-> ~scene.closed, ledger |-> FALSE]
    /\ objects = [id \in AllIds |-> IF id \in scene.foreign THEN "foreign" ELSE "absent"]
    /\ exec = NoRows /\ steps = NoSteps
    /\ busy = Nobody /\ late = NoWork
    /\ proc = [p \in Processes |-> Idle]
    /\ faults = 0

BNext ==
    \/ \E p \in Processes :
          \/ \E pl \in Plans, abort \in BOOLEAN : Begin(p, pl, abort)
          \/ OpenTarget(p) \/ Seal(p) \/ Reopen(p) \/ History(p)
          \/ BindRead(p) \/ BindInsert(p) \/ Lock(p) \/ ReadSteps(p) \/ Phase(p)
          \/ CommitPhase(p) \/ Intend(p) \/ ExecuteStep(p) \/ ConfirmOwn(p)
          \/ NextStep(p) \/ Finish(p) \/ Return(p) \/ Die(p)
          \/ AbortTarget(p) \/ DropRoles(p)
    \/ LateEnd
    \/ \E pl \in Plans, id \in AllIds : ConfirmStep(pl, id)
    \/ \E id \in AllIds : RemoveRemnant(id)

BSpec == BInit /\ [][BNext]_bvars

-----------------------------------------------------------------------------
(* Properties.                                                             *)

\* docs/postgresql-database-bootstrap.md: phases "commit their DDL and confirmed
\* step records together", and an intent is confirmed only on proof: a confirmed
\* step is in the database, and so is everything it depends on; a plan recorded
\* as completed has all its steps confirmed.
ConfirmedIsTrue ==
    /\ \A pl \in Plans : \A t \in StepsOf(pl) :
           steps[pl][t.id] = "confirmed" =>
               objects[t.id] = "exact" /\ \A d \in t.deps : objects[d] = "exact"
    /\ \A pl \in Plans : exec[pl].state = "completed" => Confirmed(pl) = Ids(pl)

\* No statement is sent twice: when a step that stands alone is executed, its
\* object is not there, whatever became of an earlier attempt.
SentOnce ==
    \A p \in Processes :
        proc[p].pc = "execute" => \A id \in Work(p).ids : objects[id] = "absent"

\* An abort removes "only cluster roles and memberships whose create steps were
\* confirmed by this bootstrap"; nothing else touches what was there before.
ForeignStays == \A id \in AllIds : objects[id] = "foreign" => objects'[id] = "foreign"

\* "the executor accepts the new digest only after every earlier plan for that
\* target is complete": at most one plan is unfinished.
OneUnfinished == Cardinality({pl \in Plans : Unfinished(pl)}) <= 1
=============================================================================
