------------------------------ MODULE Executor ------------------------------
(***************************************************************************)
(* The artifact-bound PostgreSQL executor (pkg/executor/executor.go).      *)
(*                                                                         *)
(* Several workers call ApplyAuthorized for artifacts that are signed for  *)
(* one target.  They share the live schema, the autosql_migration_history  *)
(* table, the session advisory lock of the target and the lifecycle audit  *)
(* file.  A worker process may crash and its database session may be lost  *)
(* at any point; an audit append may fail with or without its record being *)
(* in the file; a statement may fail with or without its effect.           *)
(*                                                                         *)
(* Data kept: the schema is the set of objects it holds, a step is the     *)
(* objects it adds and drops, a fingerprint is the set itself, a history   *)
(* row is its state, an audit event is its type and step (the two fields   *)
(* of its EventID that vary within one artifact and attempt).  Signed      *)
(* identities, hashes and timestamps are constant per artifact and left    *)
(* out.                                                                    *)
(***************************************************************************)
EXTENDS Naturals, Sequences, FiniteSets, Functions

CONSTANTS
    Workers,        \* processes that call ApplyAuthorized
    Others,         \* other holders of the target lock
    Artifacts,      \* verified artifacts of one target, at one attempt each
    Steps,          \* plan step IDs of all artifacts
    Topology,       \* the steps of kind "topology": no SQL, no history row
    Phases,         \* [Artifacts -> Seq([mode, steps])]: plan.Phases
    Objects,        \* schema objects
    From,           \* [Artifacts -> SUBSET Objects]: plan.FromFingerprint
    Adds, Drops,    \* [Steps -> SUBSET Objects]: what the SQL of a step does
    Initial,        \* the schema of the target before any artifact
    NoWorker, NoStep,
    MaxRuns         \* bound on the number of ApplyAuthorized calls

StepsOf(a) == UNION {Range(Phases[a][i].steps) : i \in DOMAIN Phases[a]}

Modes == {"required", "prohibited"}

PhaseType == [mode : Modes, steps : Seq(Steps)]

ASSUME PhasesAssumption ==
    /\ Topology \subseteq Steps
    /\ Phases \in [Artifacts -> Seq(PhaseType)]

\* A step belongs to one phase of one artifact.
ASSUME OwnershipAssumption ==
    \A a, b \in Artifacts : \A i \in DOMAIN Phases[a], j \in DOMAIN Phases[b] :
        Range(Phases[a][i].steps) \cap Range(Phases[b][j].steps) # {}
            => a = b /\ i = j

ASSUME EffectsAssumption ==
    /\ From \in [Artifacts -> SUBSET Objects]
    /\ Adds \in [Steps -> SUBSET Objects]
    /\ Drops \in [Steps -> SUBSET Objects]
    /\ Initial \in SUBSET Objects

ASSUME NamesAssumption ==
    /\ Workers \cap Others = {}
    /\ NoWorker \notin Workers \cup Others
    /\ NoStep \notin Steps
    /\ MaxRuns \in Nat

VARIABLES
    schema,     \* live schema of the target
    history,    \* [Artifacts -> [Steps -> row state]]
    execs,      \* how often the SQL of a step took durable effect
    audit,      \* [Artifacts -> Seq(event)]: the lifecycle audit file
    lock,       \* owner of the session advisory lock
    pc,         \* where each worker is in ApplyAuthorized
    session,    \* is the worker's database session alive
    art,        \* artifact the worker applies
    phase,      \* index of its current phase
    idx,        \* index of its current step in that phase
    seen,       \* `confirmed`: rows found confirmed when it read the history
    last,       \* e.result.LastConfirmed
    result,     \* outcome of its last finished call
    runs        \* calls started so far

db     == <<schema, history, execs>>
locals == <<art, phase, idx, seen, last>>
vars   == <<schema, history, execs, audit, lock, pc, session, art, phase,
            idx, seen, last, result, runs>>

RowStates == {"none", "intended", "confirmed"}

Outcomes == {"none", "ok", "noop", "busy", "expired", "stale", "reconcile",
             "partial", "error"}

EventTypes == {"requested", "contended", "lock_acquired",
               "authorization_refused", "expiry_refused", "stale",
               "reconcile_refused", "transaction_started",
               "transaction_begin_failed", "transaction_failed",
               "rollback_failed", "transaction_rollback", "uncertain",
               "transaction_committed", "confirmed", "intent", "completed",
               "completion_observed"}

Events == EventTypes \X (Steps \cup {NoStep})

\* Program points reached only after pg_try_advisory_lock returned true.
PhasePcs == {"begin", "tx", "commit", "rollback", "committed", "confirm_tx",
             "intend", "intent", "exec", "postcheck", "update", "readback",
             "confirmed", "uncertain"}
HeldPcs  == {"locked", "authorize", "inspect", "history", "phase", "finish"}
                \cup PhasePcs
Pcs      == {"idle", "connect", "lock", "contended"} \cup HeldPcs

-----------------------------------------------------------------------------
\* The effect on a schema of running the SQL of a set of steps.
After(st, S) == (st \ UNION {Drops[s] : s \in S}) \cup UNION {Adds[s] : s \in S}

Executable(a) == StepsOf(a) \ Topology

\* plan.ToFingerprint
To(a) == After(From[a], Executable(a))

CurrentPhase(w) == Phases[art[w]][phase[w]]

CurrentStep(w) == CurrentPhase(w).steps[idx[w]]

\* The steps of the current phase that the loops of transactionalPhase and
\* nontransactionalPhase do not skip.
Batch(w) ==
    {s \in Range(CurrentPhase(w).steps) : s \notin seen[w] /\ s \notin Topology}

PhaseEnded(w) == idx[w] > Len(CurrentPhase(w).steps)

\* The last executable step of the plan: the only one whose postcondition the
\* production Confirm callback inspects.
IsFinalStep(a, s) ==
    \E i \in DOMAIN Phases[a] : \E k \in DOMAIN Phases[a][i].steps :
        /\ Phases[a][i].steps[k] = s
        /\ \A j \in k + 1 .. Len(Phases[a][i].steps) :
               Phases[a][i].steps[j] \in Topology
        /\ \A j \in i + 1 .. Len(Phases[a]) :
               Range(Phases[a][j].steps) \subseteq Topology

Init ==
    /\ schema = Initial
    /\ history = [a \in Artifacts |-> [s \in Steps |-> "none"]]
    /\ execs = [a \in Artifacts |-> [s \in Steps |-> 0]]
    /\ audit = [a \in Artifacts |-> <<>>]
    /\ lock = NoWorker
    /\ pc = [w \in Workers |-> "idle"]
    /\ session = [w \in Workers |-> FALSE]
    /\ art \in [Workers -> Artifacts]
    /\ phase = [w \in Workers |-> 1]
    /\ idx = [w \in Workers |-> 1]
    /\ seen = [w \in Workers |-> {}]
    /\ last = [w \in Workers |-> NoStep]
    /\ result = [w \in Workers |-> "none"]
    /\ runs = 0

-----------------------------------------------------------------------------
(* Building blocks.                                                        *)

\* appendLifecycle: an event whose EventID is already in the chain is only
\* synced, a new one is appended.
Write(a, e) ==
    audit' = [audit EXCEPT ![a] = IF e \in Range(@) THEN @ ELSE Append(@, e)]

\* AppendDurable by worker w.  A reported failure may leave the record in the
\* file (write succeeded, sync failed) or not.
Log(w, type, step, ok, failed) ==
    \/ Write(art[w], <<type, step>>) /\ ok
    \/ (Write(art[w], <<type, step>>) \/ UNCHANGED audit) /\ failed

Jump(w, l) == /\ pc' = [pc EXCEPT ![w] = l]
              /\ UNCHANGED <<lock, session, result>>

Goto(w, l) == Jump(w, l) /\ UNCHANGED locals

\* Return from ApplyAuthorized: the deferred unlock and close run, the frame
\* of the call is gone.
Return(w, r) ==
    /\ pc' = [pc EXCEPT ![w] = "idle"]
    /\ result' = [result EXCEPT ![w] = r]
    /\ session' = [session EXCEPT ![w] = FALSE]
    /\ lock' = IF lock = w THEN NoWorker ELSE lock
    /\ phase' = [phase EXCEPT ![w] = 1]
    /\ idx' = [idx EXCEPT ![w] = 1]
    /\ seen' = [seen EXCEPT ![w] = {}]
    /\ last' = [last EXCEPT ![w] = NoStep]
    /\ UNCHANGED art

At(w, l) == pc[w] = l /\ UNCHANGED runs

\* Move a row of the worker's artifact from one state to another.
SetRows(w, S, st) ==
    history' = [history EXCEPT ![art[w]] =
                   [s \in Steps |-> IF s \in S THEN st ELSE @[s]]]

\* The SQL of the steps S takes durable effect.
Execute(w, S) ==
    /\ schema' = After(schema, S)
    /\ execs' = [execs EXCEPT ![art[w]] =
                    [s \in Steps |-> IF s \in S THEN @[s] + 1 ELSE @[s]]]

-----------------------------------------------------------------------------
(* ApplyAuthorized up to the first phase.                                  *)

Request(w, a) ==
    /\ pc[w] = "idle"
    /\ runs < MaxRuns
    /\ runs' = runs + 1
    /\ art' = [art EXCEPT ![w] = a]
    /\ \/ /\ Write(a, <<"requested", NoStep>>)
          /\ pc' = [pc EXCEPT ![w] = "connect"]
          /\ result' = [result EXCEPT ![w] = "none"]
       \/ /\ Write(a, <<"requested", NoStep>>) \/ UNCHANGED audit
          /\ result' = [result EXCEPT ![w] = "error"]
          /\ UNCHANGED pc
    /\ UNCHANGED <<db, lock, session, phase, idx, seen, last>>

Connect(w) ==
    /\ At(w, "connect")
    /\ \/ /\ pc' = [pc EXCEPT ![w] = "lock"]
          /\ session' = [session EXCEPT ![w] = TRUE]
          /\ UNCHANGED <<lock, result, locals>>
       \/ Return(w, "error")
    /\ UNCHANGED <<db, audit>>

\* Mutant: wait for the lock in a loop instead of reporting contention.
TryLockSpinning(w) ==
    /\ At(w, "lock")
    /\ \/ /\ session[w] /\ lock = NoWorker
          /\ lock' = w
          /\ pc' = [pc EXCEPT ![w] = "locked"]
          /\ UNCHANGED <<session, result, locals>>
       \/ /\ lock # NoWorker \/ ~session[w]
          /\ Goto(w, "lock")
    /\ UNCHANGED <<db, audit>>

\* pg_try_advisory_lock; a query that fails takes the same path as contention.
TryLock(w) ==
    /\ At(w, "lock")
    /\ \/ /\ session[w] /\ lock = NoWorker
          /\ lock' = w
          /\ pc' = [pc EXCEPT ![w] = "locked"]
          /\ UNCHANGED <<session, result, locals>>
       \/ Goto(w, "contended")
    /\ UNCHANGED <<db, audit>>

Contended(w) ==
    /\ At(w, "contended")
    /\ \E r \in {"busy", "error"} :
          Log(w, "contended", NoStep, Return(w, r), Return(w, "error"))
    /\ UNCHANGED db

LockAcquired(w) ==
    /\ At(w, "locked")
    /\ Log(w, "lock_acquired", NoStep, Goto(w, "authorize"), Return(w, "error"))
    /\ UNCHANGED db

\* Reauthorize, then the lifetime of the artifact; both only after the lock.
Authorize(w) ==
    /\ At(w, "authorize")
    /\ \/ Goto(w, "inspect") /\ UNCHANGED audit
       \/ \E refusal \in {"authorization_refused", "expiry_refused"} :
             Log(w, refusal, NoStep, Return(w, "expired"), Return(w, "error"))
    /\ UNCHANGED db

\* Mutant: anything that is not the target counts as the source.
InspectWithoutStale(w) ==
    /\ At(w, "inspect")
    /\ \/ Return(w, "error")
       \/ session[w] /\ schema = To(art[w]) /\ Return(w, "noop")
       \/ session[w] /\ schema # To(art[w]) /\ Goto(w, "history")
    /\ UNCHANGED <<db, audit>>

\* The comparison of the live fingerprint, in the order of the code: target
\* first, then source.
Inspect(w) ==
    /\ At(w, "inspect")
    /\ \/ Return(w, "error") /\ UNCHANGED audit
       \/ /\ session[w] /\ schema = To(art[w])
          /\ Return(w, "noop") /\ UNCHANGED audit
       \/ /\ session[w] /\ schema \notin {To(art[w]), From[art[w]]}
          /\ Log(w, "stale", NoStep, Return(w, "stale"), Return(w, "error"))
       \/ /\ session[w] /\ schema = From[art[w]] /\ schema # To(art[w])
          /\ Goto(w, "history") /\ UNCHANGED audit
    /\ UNCHANGED db

\* refuseUncertain finds a row whose outcome is unknown.
Unresolved(a) == \E s \in Steps : history[a][s] = "intended"

\* confirmedStepsAttempt
ConfirmedRows(a) == {s \in Steps : history[a][s] = "confirmed"}

\* ensureHistory, refuseUncertain and confirmedStepsAttempt.
ReadHistory(w) ==
    /\ At(w, "history")
    /\ \/ Return(w, "error") /\ UNCHANGED audit
       \/ /\ session[w] /\ Unresolved(art[w])
          /\ Log(w, "reconcile_refused", NoStep,
                 Return(w, "reconcile"), Return(w, "error"))
       \/ /\ session[w] /\ ~Unresolved(art[w])
          /\ seen' = [seen EXCEPT ![w] = ConfirmedRows(art[w])]
          /\ Jump(w, "phase")
          /\ UNCHANGED <<audit, art, phase, idx, last>>
    /\ UNCHANGED db

\* runChecks may fail in the first phase, before its first statement.
PrecheckPoint(w) == phase[w] = 1 /\ idx[w] = 1

\* The loop over plan.Phases.  Prechecks run once, in the first phase: before
\* its statements when it is nontransactional, inside it otherwise.
EnterPhase(w) ==
    /\ At(w, "phase")
    /\ IF phase[w] > Len(Phases[art[w]])
       THEN Goto(w, "finish") /\ UNCHANGED audit
       ELSE IF CurrentPhase(w).mode = "required"
            THEN Log(w, "transaction_started", NoStep,
                     Goto(w, "begin"), Return(w, "error"))
            ELSE /\ \/ Goto(w, "intend")
                    \/ PrecheckPoint(w) /\ Return(w, "error")
                 /\ UNCHANGED audit
    /\ UNCHANGED db

-----------------------------------------------------------------------------
(* transactionalPhase.                                                     *)

Begin(w) ==
    /\ At(w, "begin")
    /\ \/ session[w] /\ Goto(w, "tx") /\ UNCHANGED audit
       \/ Log(w, "transaction_begin_failed", NoStep,
              Return(w, "error"), Return(w, "error"))
    /\ UNCHANGED db

\* Move on to the next step of the phase.
Advance(w, l) ==
    /\ idx' = [idx EXCEPT ![w] = @ + 1]
    /\ Jump(w, l)
    /\ UNCHANGED <<art, phase, seen, last>>

\* One iteration of the loop inside the transaction: the SQL of a step and the
\* insert of its confirmed row, which fails when the row exists.  Nothing is
\* visible outside before the commit.  `last` is the local variable of
\* transactionalPhase.  Prechecks may fail before the first step.
RunTransaction(w) ==
    /\ At(w, "tx")
    /\ \/ PhaseEnded(w) /\ Goto(w, "commit") /\ UNCHANGED audit
       \/ /\ ~PhaseEnded(w) /\ CurrentStep(w) \notin Batch(w)
          /\ Advance(w, "tx") /\ UNCHANGED audit
       \/ /\ ~PhaseEnded(w) /\ CurrentStep(w) \in Batch(w)
          /\ session[w] /\ history[art[w]][CurrentStep(w)] = "none"
          /\ idx' = [idx EXCEPT ![w] = @ + 1]
          /\ last' = [last EXCEPT ![w] = CurrentStep(w)]
          /\ Jump(w, "tx") /\ UNCHANGED <<art, phase, seen, audit>>
       \/ /\ ~PhaseEnded(w) /\ CurrentStep(w) \in Batch(w)
          /\ Log(w, "transaction_failed", CurrentStep(w),
                 Goto(w, "rollback"), Goto(w, "rollback"))
       \/ /\ PrecheckPoint(w)
          /\ Log(w, "transaction_failed", NoStep,
                 Goto(w, "rollback"), Goto(w, "rollback"))
    /\ UNCHANGED db

\* The DDL of the phase and its confirmed rows become visible together.
Apply(w) ==
    /\ session[w]
    /\ Execute(w, Batch(w))
    /\ SetRows(w, Batch(w), "confirmed")

Committed(w) ==
    /\ idx' = [idx EXCEPT ![w] = 1]
    /\ Jump(w, "committed")
    /\ UNCHANGED <<art, phase, seen, last>>

\* Mutant: the error of tx.Commit is dropped.
CommitIgnoringError(w) ==
    /\ At(w, "commit")
    /\ Apply(w) \/ UNCHANGED db
    /\ Committed(w)
    /\ UNCHANGED audit

\* Mutant: the confirmed rows are written outside the transaction, and lost
\* when its outcome is ambiguous.
CommitWithoutRows(w) ==
    /\ At(w, "commit")
    /\ \/ Apply(w) /\ Committed(w)
       \/ /\ session[w] /\ Execute(w, Batch(w)) /\ UNCHANGED history
          /\ Goto(w, "uncertain")
    /\ UNCHANGED audit

\* tx.Commit: confirmed, or an error with the transaction committed or not.
Commit(w) ==
    /\ At(w, "commit")
    /\ \/ Apply(w) /\ Committed(w)
       \/ (Apply(w) \/ UNCHANGED db) /\ Goto(w, "uncertain")
    /\ UNCHANGED audit

NextPhase(w) ==
    /\ phase' = [phase EXCEPT ![w] = @ + 1]
    /\ idx' = [idx EXCEPT ![w] = 1]
    /\ Jump(w, "phase")
    /\ UNCHANGED <<art, seen, last>>

\* Mutant: the loop over the phases goes on after a rolled back phase.
RollbackContinuing(w) ==
    /\ At(w, "rollback")
    /\ NextPhase(w)
    /\ UNCHANGED <<db, audit>>

\* The deferred rollback; a failure of it is reported as uncertain although
\* the server drops the transaction with the session.
Rollback(w) ==
    /\ At(w, "rollback")
    /\ \/ /\ session[w]
          /\ Log(w, "transaction_rollback", NoStep,
                 Return(w, "error"), Return(w, "error"))
       \/ Log(w, "rollback_failed", NoStep,
              Return(w, "reconcile"), Return(w, "reconcile"))
    /\ UNCHANGED db

AuditCommitted(w) ==
    /\ At(w, "committed")
    /\ Log(w, "transaction_committed", last[w],
           Goto(w, "confirm_tx"), Return(w, "partial"))
    /\ UNCHANGED db

\* One "confirmed" event per step of the committed phase.
AuditPhaseConfirmed(w) ==
    /\ At(w, "confirm_tx")
    /\ \/ PhaseEnded(w) /\ NextPhase(w) /\ UNCHANGED audit
       \/ /\ ~PhaseEnded(w) /\ CurrentStep(w) \notin Batch(w)
          /\ Advance(w, "confirm_tx") /\ UNCHANGED audit
       \/ /\ ~PhaseEnded(w) /\ CurrentStep(w) \in Batch(w)
          /\ Log(w, "confirmed", CurrentStep(w),
                 Advance(w, "confirm_tx"), Return(w, "partial"))
    /\ UNCHANGED db

-----------------------------------------------------------------------------
(* nontransactionalPhase, one remaining step at a time.                    *)

Insert(w) ==
    /\ session[w]
    /\ history[art[w]][CurrentStep(w)] = "none"
    /\ SetRows(w, {CurrentStep(w)}, "intended")

\* insertHistory(..., "intended"); a failed insert may have left the row.
Intend(w) ==
    /\ At(w, "intend")
    /\ \/ PhaseEnded(w) /\ NextPhase(w) /\ UNCHANGED history
       \/ /\ ~PhaseEnded(w) /\ CurrentStep(w) \notin Batch(w)
          /\ Advance(w, "intend") /\ UNCHANGED history
       \/ /\ ~PhaseEnded(w) /\ CurrentStep(w) \in Batch(w)
          /\ \/ Insert(w) /\ Goto(w, "intent")
             \/ (Insert(w) \/ UNCHANGED history) /\ Return(w, "error")
    /\ UNCHANGED <<schema, execs, audit>>

AuditIntent(w) ==
    /\ At(w, "intent")
    /\ Log(w, "intent", CurrentStep(w), Goto(w, "exec"), Return(w, "error"))
    /\ UNCHANGED db

\* Mutant: a failed statement is retried on the spot.
ExecRetrying(w) ==
    LET run == session[w] /\ Execute(w, {CurrentStep(w)})
    IN  /\ At(w, "exec")
        /\ \/ run /\ Goto(w, "postcheck")
           \/ run /\ Goto(w, "exec")
           \/ UNCHANGED <<schema, execs>> /\ Goto(w, "uncertain")
        /\ UNCHANGED <<history, audit>>

\* The statement itself runs outside any transaction.
Exec(w) ==
    LET run == session[w] /\ Execute(w, {CurrentStep(w)})
    IN  /\ At(w, "exec")
        /\ \/ run /\ Goto(w, "postcheck")
           \/ (run \/ UNCHANGED <<schema, execs>>) /\ Goto(w, "uncertain")
        /\ UNCHANGED <<history, audit>>

\* config.Confirm as production installs it: only the final step of the plan
\* compares the live schema with the target.
Confirm(w) ==
    LET final == IsFinalStep(art[w], CurrentStep(w))
    IN  /\ At(w, "postcheck")
        /\ \/ /\ final => session[w] /\ schema = To(art[w])
              /\ Goto(w, "update")
           \/ final /\ Goto(w, "uncertain")
        /\ UNCHANGED <<db, audit>>

\* update ... set state='confirmed' ... where state='intended'; one row or
\* uncertain.
UpdateConfirmed(w) ==
    LET s == CurrentStep(w)
        update == /\ session[w]
                  /\ history[art[w]][s] = "intended"
                  /\ SetRows(w, {s}, "confirmed")
    IN  /\ At(w, "update")
        /\ \/ update /\ Goto(w, "readback")
           \/ (update \/ UNCHANGED history) /\ Goto(w, "uncertain")
        /\ UNCHANGED <<schema, execs, audit>>

Readback(w) ==
    /\ At(w, "readback")
    /\ \/ /\ session[w]
          /\ history[art[w]][CurrentStep(w)] = "confirmed"
          /\ last' = [last EXCEPT ![w] = CurrentStep(w)]
          /\ Jump(w, "confirmed")
          /\ UNCHANGED <<art, phase, idx, seen>>
       \/ Goto(w, "uncertain")
    /\ UNCHANGED <<db, audit>>

AuditConfirmed(w) ==
    /\ At(w, "confirmed")
    /\ Log(w, "confirmed", CurrentStep(w),
           Advance(w, "intend"), Return(w, "partial"))
    /\ UNCHANGED db

\* Audit "uncertain" for the pending step and return ErrReconcile, joined with
\* the audit error when that append fails too.
Uncertain(w) ==
    LET pending == IF CurrentPhase(w).mode = "required"
                   THEN last[w] ELSE CurrentStep(w)
    IN  /\ At(w, "uncertain")
        /\ Log(w, "uncertain", pending,
               Return(w, "reconcile"), Return(w, "reconcile"))
        /\ UNCHANGED db

-----------------------------------------------------------------------------
\* finish: nothing applied in this call makes a failed audit a plain error.
Finish(w) ==
    /\ At(w, "finish")
    /\ Log(w, "completed", last[w], Return(w, "ok"),
           Return(w, IF last[w] = NoStep THEN "error" ELSE "partial"))
    /\ UNCHANGED db

\* The server loses or drops the session: it rolls back, and frees the lock.
\* The worker goes on and sees its later statements fail.
SessionLoss(w) ==
    /\ session[w]
    /\ session' = [session EXCEPT ![w] = FALSE]
    /\ lock' = IF lock = w THEN NoWorker ELSE lock
    /\ UNCHANGED <<db, audit, pc, locals, result, runs>>

Crash(w) ==
    /\ pc[w] # "idle"
    /\ Return(w, "none")
    /\ UNCHANGED <<db, audit, runs>>

Step(w) ==
    \/ Connect(w) \/ TryLock(w) \/ Contended(w) \/ LockAcquired(w)
    \/ Authorize(w) \/ Inspect(w) \/ ReadHistory(w) \/ EnterPhase(w)
    \/ Begin(w) \/ RunTransaction(w) \/ Commit(w) \/ Rollback(w)
    \/ AuditCommitted(w) \/ AuditPhaseConfirmed(w)
    \/ Intend(w) \/ AuditIntent(w) \/ Exec(w) \/ Confirm(w)
    \/ UpdateConfirmed(w) \/ Readback(w) \/ AuditConfirmed(w)
    \/ Uncertain(w) \/ Finish(w)

\* Every call allowed by the bound has been made.
Done == runs = MaxRuns /\ (\A w \in Workers : pc[w] = "idle") /\ UNCHANGED vars

Next ==
    \/ \E w \in Workers : \/ \E a \in Artifacts : Request(w, a)
                          \/ Step(w)
                          \/ SessionLoss(w)
                          \/ Crash(w)
    \/ Done

\* A running worker keeps taking steps: Go schedules the goroutine, every
\* statement and append returns.
Fairness == \A w \in Workers : WF_vars(Step(w))

SafetySpec == Init /\ [][Next]_vars

Spec == SafetySpec /\ Fairness

-----------------------------------------------------------------------------
(* Properties.                                                             *)

\* Every variable stays in its domain, and a worker's phase index belongs to
\* the plan it applies (the frame of an earlier call is never reused).
TypeOK ==
    /\ schema \in SUBSET Objects
    /\ history \in [Artifacts -> [Steps -> RowStates]]
    /\ execs \in [Artifacts -> [Steps -> Nat]]
    /\ audit \in [Artifacts -> Seq(Events)]
    /\ lock \in Workers \cup Others \cup {NoWorker}
    /\ pc \in [Workers -> Pcs]
    /\ session \in [Workers -> BOOLEAN]
    /\ art \in [Workers -> Artifacts]
    /\ phase \in [Workers -> Nat]
    /\ \A w \in Workers : phase[w] \in 1 .. Len(Phases[art[w]]) + 1
    /\ idx \in [Workers -> Nat \ {0}]
    /\ seen \in [Workers -> SUBSET Steps]
    /\ last \in [Workers -> Steps \cup {NoStep}]
    /\ result \in [Workers -> Outcomes]
    /\ runs \in Nat

\* The SQL of a step takes effect at most once, whatever retries, crashes,
\* lost sessions and competing workers there are.
AtMostOnce == \A a \in Artifacts, s \in Steps : execs[a][s] <= 1

\* The history table tells the truth: a confirmed row means the SQL ran, and
\* SQL that ran has a row (in the same transaction, or written before it).
HistoryTruth ==
    \A a \in Artifacts, s \in Steps :
        /\ history[a][s] = "confirmed" => execs[a][s] = 1
        /\ execs[a][s] > 0 => history[a][s] # "none"

\* A row of a later phase exists only when every step of the earlier phases
\* is confirmed: phases never overlap, even across calls.
PhaseOrder ==
    \A a \in Artifacts : \A i, j \in DOMAIN Phases[a] :
        i < j => \A s \in Range(Phases[a][j].steps) :
                    \A t \in Range(Phases[a][i].steps) \ Topology :
                        history[a][s] # "none" => history[a][t] = "confirmed"

EventTrue(a, type, step) ==
    /\ type = "intent" => step \in Steps /\ history[a][step] # "none"
    /\ type = "confirmed" => step \in Steps /\ history[a][step] = "confirmed"
    /\ type \in {"completed", "completion_observed"} =>
          \A s \in Executable(a) : history[a][s] = "confirmed"

\* The lifecycle audit claims nothing the history table does not hold, also
\* for events written by a worker whose session is gone: intent has a row,
\* confirmed a confirmed one, completed means all steps are confirmed.
AuditTruth ==
    \A a \in Artifacts : \A k \in DOMAIN audit[a] :
        EventTrue(a, audit[a][k][1], audit[a][k][2])

\* The steps of an artifact whose SQL ran.
Executed(a) == {s \in Steps : execs[a][s] > 0}

\* Plans as a diff makes them: no step drops what another one adds.
SeparateSteps ==
    \A a \in Artifacts : \A s, t \in Executable(a) : s # t => Adds[s] \cap Drops[t] = {}

\* Releases go onward: what an artifact makes of its source is the source of
\* later ones only.
Onward(rank) ==
    /\ rank \in [Artifacts -> Nat]
    /\ \A a, b \in Artifacts : \A S \in SUBSET Executable(b) :
          S # {} /\ From[a] = After(From[b], S) => rank[b] < rank[a]

\* The live schema is always the source schema of one artifact plus what that
\* artifact executed; the effects of two artifacts never mix.  This is what the
\* lock and the fingerprint comparison under it are for.
SingleLineage ==
    \E a \in Artifacts : schema = After(From[a], Executed(a))

\* A worker is between the intent for s and its confirmation, with a session.
Executing(w, a, s) ==
    /\ session[w] /\ art[w] = a
    /\ pc[w] \in {"intent", "exec", "postcheck", "update"}
    /\ CurrentStep(w) = s

Returns(w, outcomes) ==
    pc[w] # "idle" /\ pc'[w] = "idle" /\ result'[w] \in outcomes

\* Every call returns, and so gives back the target lock: no outcome of a
\* statement, an append or a lost session leaves a worker stuck.
CallsReturn == \A w \in Workers : pc[w] # "idle" ~> pc[w] = "idle"

\* README.md: the executor "advances through idempotent checkpoints" and
\* "Checkpointed migrations can resume": a call is not refused as stale when
\* the schema is exactly what the confirmed steps of its own artifact made.
CheckpointResumes ==
    [][\A w \in Workers :
          (/\ Returns(w, {"stale"})
           /\ \A s \in Steps : history[art[w]][s] # "intended")
              => schema # After(From[art[w]],
                     {s \in Steps : history[art[w]][s] = "confirmed"})]_vars

-----------------------------------------------------------------------------
(* What a worker may rely on at each point, whatever the others do.  The   *)
(* facts that need its session to be alive are the ones the lock protects. *)

TxPcs    == {"begin", "tx", "commit", "rollback", "committed", "confirm_tx"}
NontxPcs == {"intend", "intent", "exec", "postcheck", "update", "readback",
             "confirmed"}

Row(w, s) == history[art[w]][s]

\* The holder of the advisory lock is the worker past TryLock whose session
\* still lives.
LockHolder ==
    \A w \in Workers : lock = w <=> session[w] /\ pc[w] \in HeldPcs

\* Where the call stands in its plan.
Position(w) ==
    /\ pc[w] = "idle" => phase[w] = 1 /\ seen[w] = {}
    /\ pc[w] \notin PhasePcs => idx[w] = 1
    /\ pc[w] \in PhasePcs => phase[w] <= Len(Phases[art[w]])
    /\ pc[w] = "finish" => phase[w] > Len(Phases[art[w]])
    /\ pc[w] = "begin" => idx[w] = 1
    /\ pc[w] \in TxPcs => CurrentPhase(w).mode = "required"
    /\ pc[w] \in NontxPcs \ {"intend"} => ~PhaseEnded(w) /\ CurrentStep(w) \in Batch(w)
    /\ pc[w] = "uncertain" => CurrentPhase(w).mode = "required" \/ ~PhaseEnded(w)

\* Steps of the earlier phases, and steps of this one the worker is past.
Earlier(w) ==
    {s \in Steps \ Topology :
        \E i \in 1 .. phase[w] - 1 : s \in Range(Phases[art[w]][i].steps)}

Passed(w) == {CurrentPhase(w).steps[k] : k \in 1 .. idx[w] - 1} \cap Batch(w)

AllAre(w, S, st) == \A s \in S : Row(w, s) = st

\* Rows that are known to be confirmed, with or without the session.
Behind(w) ==
    /\ AllAre(w, seen[w], "confirmed")
    /\ AllAre(w, Earlier(w), "confirmed")
    /\ pc[w] \in {"committed", "confirm_tx"} => AllAre(w, Batch(w), "confirmed")
    /\ pc[w] \in NontxPcs => AllAre(w, Passed(w), "confirmed")
    /\ pc[w] = "confirmed" => Row(w, CurrentStep(w)) = "confirmed"
    /\ pc[w] = "intent" => Row(w, CurrentStep(w)) # "none"

Runs(w) == execs[art[w]][CurrentStep(w)]

\* What the worker is about to change, while its session lives.
Ahead(w) ==
    session[w] =>
        /\ pc[w] = "tx" => AllAre(w, Passed(w), "none")
        /\ pc[w] = "commit" => AllAre(w, Batch(w), "none")
        /\ pc[w] \in {"intent", "exec"} =>
              Row(w, CurrentStep(w)) = "intended" /\ Runs(w) = 0
        /\ pc[w] \in {"postcheck", "update"} =>
              Row(w, CurrentStep(w)) = "intended" /\ Runs(w) = 1

\* The inductive invariant of ApplyAuthorized: the history table, the audit
\* file, the lock and the frame of every running call agree.
Consistent ==
    /\ TypeOK /\ LockHolder
    /\ AtMostOnce /\ HistoryTruth /\ PhaseOrder /\ AuditTruth
    /\ \A w \in Workers : Position(w) /\ Behind(w) /\ Ahead(w)
=============================================================================
