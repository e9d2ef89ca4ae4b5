----------------------------- MODULE Completion -----------------------------
(***************************************************************************)
(* The completion observer and the execution-start probe                   *)
(* (pkg/executor/completion.go, completion_postgres.go, execution_start.go *)
(* and AppendCompletionObservation in audit.go) beside the workers of      *)
(* Executor.                                                               *)
(*                                                                         *)
(* One observer reads the history, the live schema and the lifecycle audit *)
(* in a read-only transaction that holds the target lock of the workers.   *)
(* Each read is an action: read committed isolation gives every query a    *)
(* fresh view.  A person may edit the database by hand between the reads.  *)
(***************************************************************************)
EXTENDS Executor

CONSTANTS
    Observer,           \* its name as a holder of the target lock
    MaxObservations,    \* bound on observations and probes
    MaxEdits            \* bound on edits by hand

ASSUME ObserverAssumption ==
    /\ Observer \in Others
    /\ MaxObservations \in Nat /\ MaxEdits \in Nat

VARIABLES
    opc,        \* the read the observer does next
    oart,       \* the artifact it is about
    strict,     \* config.RequireExistingAudit of a probe
    verdict,    \* outcome of its last call
    calls,      \* observations and probes so far
    edits,      \* edits by hand so far
    crossed     \* an edit fell between two reads of what it changed

observer == <<opc, oart, strict, verdict, calls>>
manual   == <<edits, crossed>>
cvars    == <<vars, observer, manual>>

ObservePcs == {"rows", "state", "audit", "state again", "rows again", "proof"}
ProbePcs   == {"p state", "p rows", "p audit", "p state again", "p rows again",
               "p end"}
ObserverPcs == {"idle", "observe", "probe"} \cup ObservePcs \cup ProbePcs

Verdicts == {"none", "proven", "refused", "ineligible", "retryable",
             "started", "unstarted"}

CInit ==
    /\ Init
    /\ opc = "idle" /\ oart \in Artifacts /\ strict = FALSE
    /\ verdict = "none" /\ calls = 0
    /\ edits = 0 /\ crossed = FALSE

-----------------------------------------------------------------------------
(* The evidence.                                                           *)

LastStep(p) == p.steps[Len(p.steps)]

\* completionEligible: executable steps only, and no phase without a step.
Eligible(a) ==
    /\ StepsOf(a) # {} /\ StepsOf(a) \cap Topology = {}
    /\ \A i \in DOMAIN Phases[a] : Phases[a][i].steps # <<>>

\* readCompletedAttempt: every row of the artifact is confirmed and every step
\* has one.
CompletedAttempt(a) ==
    /\ \A s \in StepsOf(a) : history[a][s] = "confirmed"
    /\ \A s \in Steps : history[a][s] # "intended"

PreludeTypes == {"requested", "lock_acquired", "transaction_started",
                 "contended", "authorization_refused", "expiry_refused", "stale"}
ProgressTypes == {"confirmed", "intent", "transaction_committed"}

\* completionEventShape.  The types of failed executions have no shape, and
\* neither has "reconcile_refused".
EventShape(a, type, step) ==
    \/ type \in PreludeTypes /\ step = NoStep
    \/ type \in {"confirmed", "intent"} /\ step \in StepsOf(a)
    \/ /\ type = "transaction_committed"
       /\ \E i \in DOMAIN Phases[a] : /\ Phases[a][i].mode = "required"
                                      /\ step = LastStep(Phases[a][i])
    \/ type = "completed" /\ step = LastStep(Phases[a][Len(Phases[a])])

\* requiredCompletionAudit over the events before position c.
RequiredAudit(a, c) ==
    LET has(type, step) == \E k \in 1 .. c : audit[a][k] = <<type, step>>
    IN  /\ has("requested", NoStep) /\ has("lock_acquired", NoStep)
        /\ \A i \in DOMAIN Phases[a] :
              LET p == Phases[a][i]
              IN  /\ \A s \in Range(p.steps) :
                        /\ has("confirmed", s)
                        /\ p.mode = "prohibited" => has("intent", s)
                  /\ p.mode = "required" =>
                        /\ has("transaction_started", NoStep)
                        /\ has("transaction_committed", LastStep(p))

\* completionAuditMatches: known events only, a completed event after all that
\* it requires, and no progress after it.
AuditMatches(a) ==
    LET type(k) == audit[a][k][1]
    IN  /\ \A k \in DOMAIN audit[a] :
              type(k) = "completion_observed"
                  \/ EventShape(a, type(k), audit[a][k][2])
        /\ \E c \in DOMAIN audit[a] : type(c) = "completed"
        /\ \A c \in DOMAIN audit[a] : type(c) = "completed" =>
              /\ RequiredAudit(a, c)
              /\ \A k \in DOMAIN audit[a] : k > c => type(k) \notin ProgressTypes

\* unstartedAuditEvent
UnstartedTypes == {"requested", "lock_acquired", "contended",
                   "authorization_refused", "expiry_refused", "stale",
                   "transaction_begin_failed"}

\* executionAuditStarted: an event that is not known to precede execution.
AuditStarted(a) ==
    \E k \in DOMAIN audit[a] :
        audit[a][k][1] \notin UnstartedTypes \/ audit[a][k][2] # NoStep

-----------------------------------------------------------------------------
(* Observations and probes.                                                *)

UntouchedByObserver == <<db, audit, pc, session, locals, result, runs, manual>>

\* The transaction ends, and the target lock with it.
Leave(v) ==
    /\ opc' = "idle" /\ verdict' = v
    /\ lock' = IF lock = Observer THEN NoWorker ELSE lock
    /\ UNCHANGED <<UntouchedByObserver, oart, strict, calls>>

Move(l) ==
    /\ opc' = l
    /\ UNCHANGED <<UntouchedByObserver, lock, oart, strict, verdict, calls>>

\* A query in the transaction: it needs the session, and with it the lock.
Query(here, holds, there, bad) ==
    /\ opc = here
    /\ \/ lock = Observer /\ holds /\ Move(there)
       \/ lock = Observer /\ ~holds /\ Leave(bad)
       \/ Leave("retryable")

\* The commit of the transaction, with the conclusion to be reported.
Conclude(here, v) ==
    /\ opc = here
    /\ \/ lock = Observer /\ Leave(v)
       \/ Leave("retryable")

\* ObservePostgreSQLCompletion or CheckPostgreSQLExecutionStart is called.
Call(a, l, s) ==
    /\ opc = "idle" /\ calls < MaxObservations
    /\ calls' = calls + 1 /\ oart' = a /\ strict' = s /\ crossed' = FALSE
    /\ UNCHANGED <<db, audit, lock, pc, session, locals, result, runs, edits>>
    /\ IF l = "observe" /\ ~Eligible(a)
       THEN verdict' = "ineligible" /\ UNCHANGED opc
       ELSE IF l = "probe" /\ StepsOf(a) = {}
       THEN verdict' = "unstarted" /\ UNCHANGED opc
       ELSE verdict' = "none" /\ opc' = l

\* Mutant: the observer does not wait for the workers.
CoordinateWithoutLock ==
    /\ opc \in {"observe", "probe"}
    /\ \/ /\ lock' = Observer
          /\ opc' = IF opc = "observe" THEN "rows" ELSE "p state"
          /\ UNCHANGED <<UntouchedByObserver, oart, strict, verdict, calls>>
       \/ Leave("retryable")

\* coordinateCompletion: pg_try_advisory_xact_lock on the key of the workers.
Coordinate ==
    /\ opc \in {"observe", "probe"}
    /\ \/ /\ lock = NoWorker /\ lock' = Observer
          /\ opc' = IF opc = "observe" THEN "rows" ELSE "p state"
          /\ UNCHANGED <<UntouchedByObserver, oart, strict, verdict, calls>>
       \/ Leave("retryable")

\* A damaged or unreadable file, or an append that cut its last record short,
\* refuses every later reader.
ReadAudit(here, holds, there, bad) ==
    /\ opc = here
    /\ \/ holds /\ Move(there)
       \/ ~holds /\ Leave(bad)
       \/ \E v \in {"refused", "retryable"} : Leave(v)

\* Mutant: a schema that matches the target is proof enough.
ObserveStateOnly ==
    \/ Query("rows", schema = To(oart), "proof", "refused")
    \/ Conclude("proof", "proven")

\* ObserveCompletion, then the commit of the transaction.
Observe ==
    \/ Query("rows", CompletedAttempt(oart), "state", "refused")
    \/ Query("state", schema = To(oart), "audit", "refused")
    \/ ReadAudit("audit", AuditMatches(oart), "state again", "refused")
    \/ Query("state again", schema = To(oart), "rows again", "refused")
    \/ Query("rows again", CompletedAttempt(oart), "proof", "refused")
    \/ Conclude("proof", "proven")

AtSource(a) == schema = From[a] /\ schema # To(a)

NoRows(a) == \A s \in Steps : history[a][s] = "none"

\* Mutant: the probe looks for confirmed rows only, and does not read the audit.
ProbeConfirmedOnly ==
    LET none == \A s \in Steps : history[oart][s] # "confirmed"
    IN  \/ Query("p state", AtSource(oart), "p rows", "started")
        \/ Query("p rows", none, "p state again", "started")
        \/ Query("p state again", AtSource(oart), "p rows again", "started")
        \/ Query("p rows again", none, "p end", "started")
        \/ Conclude("p end", "unstarted")

\* checkExecutionStart.  The audit is read in the first pass; when a possible
\* attempt is recorded an empty audit is refused.
Probe ==
    \/ Query("p state", AtSource(oart), "p rows", "started")
    \/ Query("p rows", NoRows(oart), "p audit", "started")
    \/ /\ strict /\ audit[oart] = <<>>
       /\ ReadAudit("p audit", FALSE, "idle", "refused")
    \/ /\ ~strict \/ audit[oart] # <<>>
       /\ ReadAudit("p audit", ~AuditStarted(oart), "p state again", "started")
    \/ Query("p state again", AtSource(oart), "p rows again", "started")
    \/ Query("p rows again", NoRows(oart), "p end", "started")
    \/ Conclude("p end", "unstarted")

\* AppendCompletionObservation, without the target lock: the audit is validated
\* again under the file lock before the event is written.
Publish ==
    /\ opc = "idle" /\ verdict = "proven"
    /\ AuditMatches(oart)
    /\ Write(oart, <<"completion_observed", NoStep>>)
    /\ UNCHANGED <<db, lock, pc, session, locals, result, runs, observer, manual>>

\* The session of the observer is lost: the lock is free, the next query fails.
ObserverLoss ==
    /\ lock = Observer
    /\ lock' = NoWorker
    /\ UNCHANGED <<UntouchedByObserver, observer>>

-----------------------------------------------------------------------------
(* Edits by hand: not coordinated by the target lock.                      *)

UntouchedByEdit ==
    <<execs, audit, lock, pc, session, locals, result, runs, observer>>

EditSchema ==
    /\ edits < MaxEdits /\ edits' = edits + 1
    /\ \E o \in Objects :
          schema' = IF o \in schema THEN schema \ {o} ELSE schema \cup {o}
    /\ crossed' = (crossed \/ opc \in {"audit", "state again",
                                       "p rows", "p audit", "p state again"})
    /\ UNCHANGED <<UntouchedByEdit, history>>

EditRow ==
    /\ edits < MaxEdits /\ edits' = edits + 1
    /\ \E s \in Steps, st \in RowStates :
          /\ s \in StepsOf(oart) /\ history[oart][s] # st
          /\ history' = [history EXCEPT ![oart][s] = st]
    /\ crossed' = (crossed \/ opc \in {"state", "audit", "state again", "rows again",
                                       "p audit", "p state again", "p rows again"})
    /\ UNCHANGED <<UntouchedByEdit, schema>>

ObserverStep ==
    \/ \E a \in Artifacts : \/ Call(a, "observe", FALSE)
                            \/ \E s \in BOOLEAN : Call(a, "probe", s)
    \/ Coordinate \/ Observe \/ Probe \/ Publish \/ ObserverLoss

\* Workers and observer only: everybody takes the target lock.
CNext == ObserverStep \/ (Next /\ UNCHANGED <<observer, manual>>)

CSpec == CInit /\ [][CNext]_cvars

EditedSpec == CInit /\ [][CNext \/ EditSchema \/ EditRow]_cvars

-----------------------------------------------------------------------------
(* Properties.                                                             *)

\* Every variable of the observer stays in its domain, and a finished call
\* leaves no target lock behind.
CTypeOK ==
    /\ opc \in ObserverPcs /\ oart \in Artifacts /\ strict \in BOOLEAN
    /\ verdict \in Verdicts /\ calls \in Nat
    /\ edits \in Nat /\ crossed \in BOOLEAN
    /\ lock = Observer => opc \in ObservePcs \cup ProbePcs

\* CompletionProven is never wrong: every step of the artifact is confirmed
\* and its SQL took effect exactly once, now and from now on.
ProvenIsTrue ==
    verdict = "proven" =>
        \A s \in StepsOf(oart) : history[oart][s] = "confirmed" /\ execs[oart][s] = 1

Concludes(v) == opc # "idle" /\ opc' = "idle" /\ verdict' = v

\* When the observer concludes that the execution completed, the live schema
\* is the target of the plan and no worker is in the middle of it.
ProofIsCurrent ==
    [][Concludes("proven") =>
          /\ schema = To(oart)
          /\ \A w \in Workers : ~(session[w] /\ pc[w] \in HeldPcs)]_cvars

\* When the probe concludes that the execution has not started, no SQL of the
\* artifact took effect, it has no row, and its source schema is live.
UnstartedIsFresh ==
    [][Concludes("unstarted") =>
          /\ schema = From[oart] /\ NoRows(oart)
          /\ \A s \in Steps : execs[oart][s] = 0]_cvars

\* docs/executor.md: "an intervening drift or manual history edit refuses
\* proof": no single edit between the reads of an observation goes unnoticed.
EditRefusesProof == verdict \in {"proven", "unstarted"} => ~crossed
=============================================================================
