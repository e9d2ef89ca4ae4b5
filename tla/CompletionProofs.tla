-------------------------- MODULE CompletionProofs --------------------------
(***************************************************************************)
(* The observer and the probe are never wrong, for every plan and every    *)
(* number of workers, calls and observations, as long as everybody who     *)
(* changes the target takes its lock (CSpec).                              *)
(***************************************************************************)
EXTENDS Completion, ExecutorProofs

AllConfirmed(a) == \A s \in StepsOf(a) : history[a][s] = "confirmed"

StateRead == {"audit", "state again", "rows again", "proof"}

ProbeRead == {"p audit", "p state again", "p rows again", "p end"}

\* What the observer has read still holds: confirmed rows for good, the schema
\* and the absence of rows as long as it holds the target lock.
Evidence ==
    /\ opc \in ObservePcs \ {"rows"} => AllConfirmed(oart)
    /\ verdict = "proven" => AllConfirmed(oart)
    /\ lock = Observer /\ opc \in StateRead => schema = To(oart)
    /\ lock = Observer /\ opc \in ProbePcs \ {"p state"} => AtSource(oart)
    /\ lock = Observer /\ opc \in ProbeRead => NoRows(oart)

CInv == Consistent /\ CTypeOK /\ Evidence

-----------------------------------------------------------------------------
(* Steps of the workers.                                                   *)

\* The tables are left alone, or changed by the lock holder, forward.
Disciplined == UNCHANGED db \/ (lock \in Workers /\ Forward)

LEMMA ForwardRows ==
    ASSUME TypeOK, NEW w \in Workers, NEW S, SetRows(w, S, "confirmed")
    PROVE  Forward
  BY Zenon DEF TypeOK, SetRows, Forward

LEMMA CommitDisciplined ==
    ASSUME Consistent, NEW w \in Workers, Commit(w)
    PROVE  Disciplined
<1>1. TypeOK /\ pc[w] \in PhasePcs
  BY Zenon DEF Consistent, Commit, At, PhasePcs
<1>2. CASE Apply(w)
  BY Zenon, <1>1, <1>2, Holder, ForwardRows DEF Apply, Disciplined
<1>3. CASE UNCHANGED db
  BY Zenon, <1>3 DEF Disciplined
<1> QED  BY Zenon, <1>2, <1>3 DEF Commit

LEMMA ExecDisciplined ==
    ASSUME Consistent, NEW w \in Workers, Exec(w)
    PROVE  Disciplined
<1>1. pc[w] \in PhasePcs /\ UNCHANGED history
  BY Zenon DEF Exec, At, PhasePcs
<1>2. CASE session[w]
  BY Zenon, <1>1, <1>2, Holder DEF Disciplined, Forward
<1>3. CASE ~session[w]
  BY Zenon, <1>1, <1>3 DEF Exec, Disciplined, db
<1> QED  BY Zenon, <1>2, <1>3

LEMMA IntendDisciplined ==
    ASSUME Consistent, NEW w \in Workers, Intend(w)
    PROVE  Disciplined
<1>1. TypeOK /\ pc[w] \in PhasePcs /\ UNCHANGED <<schema, execs>>
  BY Zenon DEF Consistent, Intend, At, PhasePcs
<1>2. CASE Insert(w)
  <2>1. Forward
    BY Zenon, <1>1, <1>2 DEF TypeOK, Insert, SetRows, Forward
  <2> QED  BY Zenon, <1>1, <1>2, <2>1, Holder DEF Insert, Disciplined
<1>3. CASE UNCHANGED history
  BY Zenon, <1>1, <1>3 DEF Disciplined, db
<1> QED  BY Zenon, <1>2, <1>3 DEF Intend

LEMMA UpdateDisciplined ==
    ASSUME Consistent, NEW w \in Workers, UpdateConfirmed(w)
    PROVE  Disciplined
<1>1. TypeOK /\ pc[w] \in PhasePcs /\ UNCHANGED <<schema, execs>>
  BY Zenon DEF Consistent, UpdateConfirmed, At, PhasePcs
<1>2. CASE session[w] /\ SetRows(w, {CurrentStep(w)}, "confirmed")
  BY Zenon, <1>1, <1>2, Holder, ForwardRows DEF Disciplined
<1>3. CASE UNCHANGED history
  BY Zenon, <1>1, <1>3 DEF Disciplined, db
<1> QED  BY Zenon, <1>2, <1>3 DEF UpdateConfirmed

LEMMA WorkerDisciplined ==
    ASSUME Consistent, [Next]_vars
    PROVE  Disciplined
<1>1. CASE UNCHANGED vars
  BY Zenon, <1>1 DEF vars, db, Disciplined
<1>2. ASSUME NEW w \in Workers, Step(w) PROVE Disciplined
  <2>1. CASE Commit(w) \/ Exec(w) \/ Intend(w) \/ UpdateConfirmed(w)
    BY Zenon, <2>1, CommitDisciplined, ExecDisciplined, IntendDisciplined, UpdateDisciplined
  <2>2. CASE ~(Commit(w) \/ Exec(w) \/ Intend(w) \/ UpdateConfirmed(w))
    <3>1. UNCHANGED db
      BY Zenon, <1>2, <2>2 DEF Step, Connect, TryLock, Contended, LockAcquired,
         Authorize, Inspect, ReadHistory, EnterPhase, Begin, RunTransaction,
         Rollback, AuditCommitted, AuditPhaseConfirmed, AuditIntent, Confirm,
         Readback, AuditConfirmed, Uncertain, Finish
    <3> QED  BY Zenon, <3>1 DEF Disciplined
  <2> QED  BY Zenon, <2>1, <2>2
<1>3. ASSUME NEW w \in Workers, NEW a \in Artifacts, Request(w, a)
      PROVE  Disciplined
  BY Zenon, <1>3 DEF Request, Disciplined
<1>4. ASSUME NEW w \in Workers, SessionLoss(w) \/ Crash(w) PROVE Disciplined
  BY Zenon, <1>4 DEF SessionLoss, Crash, Disciplined
<1>5. CASE Done
  BY Zenon, <1>1, <1>5 DEF Done
<1> QED  BY Zenon, <1>1, <1>2, <1>3, <1>4, <1>5 DEF Next

\* A worker frees the lock or takes it for itself.
LEMMA LockNotTaken ==
    ASSUME [Next]_vars
    PROVE  lock' = lock \/ lock' \in Workers \cup {NoWorker}
<1> DEFINE Own == lock' = lock \/ lock' \in Workers \cup {NoWorker}
<1>1. \A w, r : Return(w, r) => Own
  BY Zenon DEF Return
<1>2. \A w, l : Jump(w, l) => Own
  BY Zenon DEF Jump
<1>3. \A w, l : Goto(w, l) \/ Advance(w, l) \/ Committed(w) \/ NextPhase(w) => Own
  BY Zenon, <1>2 DEF Goto, Advance, Committed, NextPhase
<1>4. ASSUME NEW w \in Workers, Step(w) PROVE Own
  <2> HIDE DEF Own
  <2>1. CASE \/ Contended(w) \/ LockAcquired(w) \/ Authorize(w) \/ Inspect(w)
             \/ ReadHistory(w) \/ EnterPhase(w)
    BY Zenon, <1>1, <1>2, <1>3, <2>1 DEF Contended, LockAcquired, Authorize, Inspect,
       ReadHistory, EnterPhase, Log
  <2>2. CASE Connect(w) \/ TryLock(w)
    BY Zenon, <1>1, <1>3, <2>2 DEF Connect, TryLock, Own
  <2>3. CASE \/ Begin(w) \/ RunTransaction(w) \/ Commit(w) \/ Rollback(w)
             \/ AuditCommitted(w) \/ AuditPhaseConfirmed(w)
    BY Zenon, <1>1, <1>2, <1>3, <2>3 DEF Begin, RunTransaction, Commit, Rollback,
       AuditCommitted, AuditPhaseConfirmed, Log
  <2>4. CASE \/ Intend(w) \/ AuditIntent(w) \/ Exec(w) \/ Confirm(w)
             \/ UpdateConfirmed(w) \/ Readback(w) \/ AuditConfirmed(w)
             \/ Uncertain(w) \/ Finish(w)
    BY Zenon, <1>1, <1>2, <1>3, <2>4 DEF Intend, AuditIntent, Exec, Confirm,
       UpdateConfirmed, Readback, AuditConfirmed, Uncertain, Finish, Log
  <2> QED  BY Zenon, <1>4, <2>1, <2>2, <2>3, <2>4 DEF Step
<1>5. ASSUME NEW w \in Workers, NEW a \in Artifacts, Request(w, a) PROVE Own
  BY Zenon, <1>5 DEF Request
<1>6. ASSUME NEW w \in Workers, SessionLoss(w) \/ Crash(w) PROVE Own
  BY Zenon, <1>1, <1>6 DEF SessionLoss, Crash
<1>7. CASE UNCHANGED vars
  BY Zenon, <1>7 DEF vars
<1> QED  BY Zenon, <1>4, <1>5, <1>6, <1>7 DEF Next, Done

\* What has been read survives a step of a worker.
LEMMA WorkerStep ==
    ASSUME CInv, [Next]_vars, UNCHANGED <<observer, manual>>
    PROVE  CInv'
<1>1. Consistent /\ CTypeOK /\ Evidence /\ oart \in Artifacts
  BY Zenon DEF CInv, CTypeOK
<1>2. Consistent' /\ Disciplined
  BY Zenon, <1>1, NextConsistent, WorkerDisciplined
<1>3. /\ opc' = opc /\ oart' = oart /\ verdict' = verdict /\ strict' = strict
      /\ calls' = calls /\ edits' = edits /\ crossed' = crossed
  BY Zenon DEF observer, manual
<1>4. lock' = Observer => lock = Observer
  BY Zenon, LockNotTaken, ObserverAssumption, NamesAssumption
<1>5. StepsOf(oart) \subseteq Steps
  BY Zenon, <1>1, PlanTyped DEF StepsOf
<1>6. AllConfirmed(oart) => AllConfirmed(oart)'
  <2>1. CASE UNCHANGED db
    BY Zenon, <1>3, <2>1 DEF AllConfirmed, db
  <2>2. CASE Forward
    BY Zenon, <1>1, <1>3, <1>5, <2>2 DEF AllConfirmed, Forward
  <2> QED  BY Zenon, <1>2, <2>1, <2>2 DEF Disciplined
<1>7. lock = Observer => UNCHANGED <<schema, history>>
  BY Zenon, <1>2, ObserverAssumption, NamesAssumption DEF Disciplined, db
<1>8. CTypeOK'
  BY Zenon, <1>1, <1>3, <1>4 DEF CTypeOK
<1>9. Evidence'
  <2>1. lock = Observer => /\ (schema = To(oart))' = (schema = To(oart))
                           /\ AtSource(oart)' = AtSource(oart)
                           /\ NoRows(oart)' = NoRows(oart)
    BY Zenon, <1>3, <1>7 DEF AtSource, NoRows, To, After
  <2> QED  BY Zenon, <1>1, <1>3, <1>4, <1>6, <2>1 DEF Evidence
<1> QED  BY Zenon, <1>2, <1>8, <1>9 DEF CInv

-----------------------------------------------------------------------------
(* Steps of the observer.                                                  *)

\* The frames of the workers do not see the lock or the audit file.
LEMMA FramesKept ==
    ASSUME Consistent, UNCHANGED <<db, pc, session, locals>>, NEW v \in Workers
    PROVE  Position(v)' /\ Behind(v)' /\ Ahead(v)'
<1>1. /\ Position(v) /\ Behind(v) /\ Ahead(v)
      /\ SameView(v) /\ pc'[v] = pc[v] /\ session'[v] = session[v]
      /\ art'[v] = art[v] /\ phase'[v] = phase[v] /\ idx'[v] = idx[v]
      /\ seen'[v] = seen[v] /\ UNCHANGED <<history, execs>>
  BY Zenon DEF Consistent, SameView, locals, db
<1>2. Position(v)'
  BY Zenon, <1>1, ViewKept DEF Position
<1>3. Behind(v)'
  BY <1>1, ViewKept, RowKept, SMTT(30) DEF Behind, AllAre
<1>4. Ahead(v)'
  BY Zenon, <1>1, ViewKept, RowKept DEF Ahead, AllAre, Runs
<1> QED  BY Zenon, <1>2, <1>3, <1>4

\* The lock passes between the observer and nobody; the workers see no change.
LEMMA LockMoves ==
    ASSUME Consistent, UNCHANGED <<db, audit, pc, session, locals, result, runs>>,
           lock \in Others \cup {NoWorker}, lock' \in Others \cup {NoWorker}
    PROVE  Consistent'
<1>1. TypeOK /\ LockHolder
  BY Zenon DEF Consistent
<1>2. TypeOK'
  BY Zenon, <1>1 DEF TypeOK, db, locals
<1>3. LockHolder'
  BY Zenon, <1>1, NamesAssumption DEF LockHolder
<1>4. (AtMostOnce /\ HistoryTruth /\ PhaseOrder /\ AuditTruth)'
  BY DEF Consistent, AtMostOnce, HistoryTruth, PhaseOrder, AuditTruth,
         EventTrue, db
<1>5. \A v \in Workers : Position(v)' /\ Behind(v)' /\ Ahead(v)'
  BY Zenon, FramesKept
<1> QED  BY Zenon, <1>2, <1>3, <1>4, <1>5 DEF Consistent

\* A step of the observer that moves nothing but its own variables.
LEMMA SameConsistent ==
    ASSUME Consistent,
           UNCHANGED <<db, audit, lock, pc, session, locals, result, runs>>
    PROVE  Consistent'
<1>1. TypeOK' /\ LockHolder'
  BY Zenon DEF Consistent, TypeOK, LockHolder, db, locals
<1>2. (AtMostOnce /\ HistoryTruth /\ PhaseOrder /\ AuditTruth)'
  BY DEF Consistent, AtMostOnce, HistoryTruth, PhaseOrder, AuditTruth,
         EventTrue, db
<1>3. \A v \in Workers : Position(v)' /\ Behind(v)' /\ Ahead(v)'
  BY Zenon, FramesKept
<1> QED  BY Zenon, <1>1, <1>2, <1>3 DEF Consistent

\* An append that claims only what holds keeps everything else.
LEMMA Noted ==
    ASSUME Consistent, NEW a \in Artifacts, NEW type \in EventTypes,
           EventTrue(a, type, NoStep), Write(a, <<type, NoStep>>),
           UNCHANGED <<db, lock, pc, session, locals, result, runs>>
    PROVE  Consistent'
<1>1. TypeOK /\ LockHolder /\ UNCHANGED history
  BY Zenon DEF Consistent, db
<1>2. AuditTyped' /\ AuditTruth'
  BY Zenon, <1>1, WriteTrue
<1>3. TypeOK'
  BY Zenon, <1>1, <1>2 DEF TypeOK, AuditTyped, db, locals
<1>4. LockHolder'
  BY Zenon, <1>1 DEF LockHolder, db
<1>5. AtMostOnce' /\ HistoryTruth'
  BY Zenon DEF Consistent, AtMostOnce, HistoryTruth, db
<1>6. PhaseOrder'
  BY <1>1 DEF Consistent, PhaseOrder
<1>7. \A v \in Workers : Position(v)' /\ Behind(v)' /\ Ahead(v)'
  BY Zenon, FramesKept
<1> QED  BY Zenon, <1>2, <1>3, <1>4, <1>5, <1>6, <1>7 DEF Consistent

\* The evidence needed to stand at l, or to report v.
EvidenceAt(l) ==
    /\ l \in ObservePcs \ {"rows"} => AllConfirmed(oart)
    /\ lock = Observer /\ l \in StateRead => schema = To(oart)
    /\ lock = Observer /\ l \in ProbePcs \ {"p state"} => AtSource(oart)
    /\ lock = Observer /\ l \in ProbeRead => NoRows(oart)

LEMMA Leaving ==
    ASSUME CInv, NEW v \in Verdicts, Leave(v), v = "proven" => AllConfirmed(oart)
    PROVE  CInv'
<1>1. Consistent /\ CTypeOK
  BY Zenon DEF CInv
<1>2. UNCHANGED <<db, audit, pc, session, locals, result, runs, manual>>
  BY Zenon DEF Leave, UntouchedByObserver
<1>3. Consistent'
  <2>1. CASE lock = Observer
    BY Zenon, <1>1, <1>2, <2>1, LockMoves, ObserverAssumption DEF Leave
  <2>2. CASE lock # Observer
    BY Zenon, <1>1, <1>2, <2>2, SameConsistent DEF Leave
  <2> QED  BY Zenon, <2>1, <2>2
<1>4. CTypeOK'
  BY Zenon, <1>1, <1>2, ObserverAssumption, NamesAssumption
     DEF CTypeOK, Leave, manual, ObserverPcs
<1>5. Evidence'
  BY Zenon, <1>2 DEF Evidence, Leave, ObservePcs, ProbePcs, StateRead, ProbeRead,
     AllConfirmed, db
<1> QED  BY Zenon, <1>3, <1>4, <1>5 DEF CInv

LEMMA Proceeding ==
    ASSUME CInv, NEW l \in ObservePcs \cup ProbePcs, Move(l), EvidenceAt(l)
    PROVE  CInv'
<1>1. Consistent /\ CTypeOK /\ Evidence
  BY Zenon DEF CInv
<1>2. /\ UNCHANGED <<db, audit, lock, pc, session, locals, result, runs, manual>>
      /\ UNCHANGED <<oart, strict, verdict, calls>> /\ opc' = l
  BY Zenon DEF Move, UntouchedByObserver
<1>3. Consistent'
  BY Zenon, <1>1, <1>2, SameConsistent
<1>4. CTypeOK'
  BY Zenon, <1>1, <1>2 DEF CTypeOK, manual, ObserverPcs
<1>5. Evidence'
  <2>1. UNCHANGED <<schema, history, lock, oart, verdict>>
    BY Zenon, <1>2 DEF db
  <2>2. /\ AllConfirmed(oart)' = AllConfirmed(oart)
        /\ (schema = To(oart))' = (schema = To(oart))
        /\ AtSource(oart)' = AtSource(oart) /\ NoRows(oart)' = NoRows(oart)
    BY Zenon, <2>1 DEF AllConfirmed, AtSource, NoRows, To, After
  <2> QED  BY Zenon, <1>1, <1>2, <2>1, <2>2 DEF Evidence, EvidenceAt
<1> QED  BY Zenon, <1>3, <1>4, <1>5 DEF CInv

LEMMA ObserveStep ==
    ASSUME CInv, Observe
    PROVE  CInv'
<1>1. Evidence
  BY Zenon DEF CInv
<1>2. CASE Query("rows", CompletedAttempt(oart), "state", "refused")
  <2>1. CompletedAttempt(oart) => EvidenceAt("state")
    BY Zenon DEF CompletedAttempt, EvidenceAt, AllConfirmed, StateRead, ProbePcs, ProbeRead
  <2> QED  BY Zenon, <1>2, <2>1, Leaving, Proceeding DEF Query, ObservePcs, Verdicts
<1>3. CASE Query("state", schema = To(oart), "audit", "refused")
  <2>1. opc = "state" /\ schema = To(oart) => EvidenceAt("audit")
    BY Zenon, <1>1 DEF Evidence, EvidenceAt, ObservePcs, ProbePcs, ProbeRead
  <2> QED  BY Zenon, <1>3, <2>1, Leaving, Proceeding DEF Query, ObservePcs, Verdicts
<1>4. CASE ReadAudit("audit", AuditMatches(oart), "state again", "refused")
  <2>1. opc = "audit" => EvidenceAt("state again")
    BY Zenon, <1>1 DEF Evidence, EvidenceAt, ObservePcs, StateRead, ProbePcs, ProbeRead
  <2> QED  BY Zenon, <1>4, <2>1, Leaving, Proceeding DEF ReadAudit, ObservePcs, Verdicts
<1>5. CASE Query("state again", schema = To(oart), "rows again", "refused")
  <2>1. opc = "state again" => EvidenceAt("rows again")
    BY Zenon, <1>1 DEF Evidence, EvidenceAt, ObservePcs, StateRead, ProbePcs, ProbeRead
  <2> QED  BY Zenon, <1>5, <2>1, Leaving, Proceeding DEF Query, ObservePcs, Verdicts
<1>6. CASE Query("rows again", CompletedAttempt(oart), "proof", "refused")
  <2>1. opc = "rows again" => EvidenceAt("proof")
    BY Zenon, <1>1 DEF Evidence, EvidenceAt, ObservePcs, StateRead, ProbePcs, ProbeRead
  <2> QED  BY Zenon, <1>6, <2>1, Leaving, Proceeding DEF Query, ObservePcs, Verdicts
<1>7. CASE Conclude("proof", "proven")
  <2>1. opc = "proof" => AllConfirmed(oart)
    BY Zenon, <1>1 DEF Evidence, ObservePcs
  <2> QED  BY Zenon, <1>7, <2>1, Leaving DEF Conclude, Verdicts
<1> QED  BY Zenon, <1>2, <1>3, <1>4, <1>5, <1>6, <1>7 DEF Observe

LEMMA ProbeStep ==
    ASSUME CInv, Probe
    PROVE  CInv'
<1>1. Evidence
  BY Zenon DEF CInv
<1>2. CASE Query("p state", AtSource(oart), "p rows", "started")
  <2>1. AtSource(oart) => EvidenceAt("p rows")
    BY Zenon DEF EvidenceAt, ObservePcs, StateRead, ProbeRead
  <2> QED  BY Zenon, <1>2, <2>1, Leaving, Proceeding DEF Query, ProbePcs, Verdicts
<1>3. CASE Query("p rows", NoRows(oart), "p audit", "started")
  <2>1. opc = "p rows" /\ NoRows(oart) => EvidenceAt("p audit")
    BY Zenon, <1>1 DEF Evidence, EvidenceAt, ObservePcs, StateRead, ProbePcs
  <2> QED  BY Zenon, <1>3, <2>1, Leaving, Proceeding DEF Query, ProbePcs, Verdicts
<1>4. CASE ReadAudit("p audit", FALSE, "idle", "refused")
  BY Zenon, <1>4, Leaving DEF ReadAudit, Verdicts
<1>5. CASE ReadAudit("p audit", ~AuditStarted(oart), "p state again", "started")
  <2>1. opc = "p audit" => EvidenceAt("p state again")
    BY Zenon, <1>1 DEF Evidence, EvidenceAt, ObservePcs, StateRead, ProbePcs, ProbeRead
  <2> QED  BY Zenon, <1>5, <2>1, Leaving, Proceeding DEF ReadAudit, ProbePcs, Verdicts
<1>6. CASE Query("p state again", AtSource(oart), "p rows again", "started")
  <2>1. opc = "p state again" => EvidenceAt("p rows again")
    BY Zenon, <1>1 DEF Evidence, EvidenceAt, ObservePcs, StateRead, ProbePcs, ProbeRead
  <2> QED  BY Zenon, <1>6, <2>1, Leaving, Proceeding DEF Query, ProbePcs, Verdicts
<1>7. CASE Query("p rows again", NoRows(oart), "p end", "started")
  <2>1. opc = "p rows again" => EvidenceAt("p end")
    BY Zenon, <1>1 DEF Evidence, EvidenceAt, ObservePcs, StateRead, ProbePcs, ProbeRead
  <2> QED  BY Zenon, <1>7, <2>1, Leaving, Proceeding DEF Query, ProbePcs, Verdicts
<1>8. CASE Conclude("p end", "unstarted")
  BY Zenon, <1>8, Leaving DEF Conclude, Verdicts
<1> QED  BY Zenon, <1>2, <1>3, <1>4, <1>5, <1>6, <1>7, <1>8 DEF Probe

LEMMA CallStep ==
    ASSUME CInv, NEW a \in Artifacts, NEW l \in {"observe", "probe"},
           NEW s \in BOOLEAN, Call(a, l, s)
    PROVE  CInv'
<1>1. Consistent /\ CTypeOK
  BY Zenon DEF CInv
<1>2. Consistent'
  BY Zenon, <1>1, SameConsistent DEF Call
<1>3. /\ lock # Observer /\ lock' = lock
      /\ opc' \in {"idle", "observe", "probe"} /\ verdict' \in Verdicts \ {"proven"}
  BY Zenon, <1>1 DEF Call, CTypeOK, ObservePcs, ProbePcs, Verdicts
<1>4. calls' \in Nat
  BY <1>1 DEF Call, CTypeOK
<1>5. strict' = s /\ oart' = a /\ crossed' = FALSE /\ edits' = edits
  BY Zenon DEF Call
<1>6. CTypeOK'
  BY <1>1, <1>3, <1>4, <1>5, Zenon DEF CTypeOK, ObserverPcs
<1>7. Evidence'
  BY Zenon, <1>3 DEF Evidence, ObservePcs
<1> QED  BY Zenon, <1>2, <1>6, <1>7 DEF CInv

LEMMA CoordinateStep ==
    ASSUME CInv, Coordinate
    PROVE  CInv'
<1>1. CASE Leave("retryable")
  BY Zenon, <1>1, Leaving DEF Verdicts
<1>2. CASE /\ lock = NoWorker /\ lock' = Observer
           /\ opc' \in {"rows", "p state"}
           /\ UNCHANGED <<UntouchedByObserver, oart, strict, verdict, calls>>
  <2>1. Consistent /\ CTypeOK /\ Evidence
    BY Zenon DEF CInv
  <2>2. Consistent'
    BY Zenon, <1>2, <2>1, LockMoves, ObserverAssumption DEF UntouchedByObserver
  <2>3. CTypeOK'
    BY Zenon, <1>2, <2>1 DEF CTypeOK, UntouchedByObserver, manual, ObserverPcs,
       ObservePcs, ProbePcs
  <2>4. Evidence'
    BY <1>2, <2>1, Zenon DEF Evidence, ObservePcs, ProbePcs, StateRead, ProbeRead,
       AllConfirmed, UntouchedByObserver, db
  <2> QED  BY Zenon, <2>2, <2>3, <2>4 DEF CInv
<1> QED  BY Zenon, <1>1, <1>2 DEF Coordinate

LEMMA PublishStep ==
    ASSUME CInv, Publish
    PROVE  CInv'
<1>1. Consistent /\ CTypeOK /\ Evidence /\ oart \in Artifacts
  BY Zenon DEF CInv, CTypeOK
<1>2. EventTrue(oart, "completion_observed", NoStep)
  BY Zenon, <1>1 DEF Publish, Evidence, AllConfirmed, EventTrue, Executable
<1>3. Consistent'
  BY Zenon, <1>1, <1>2, Noted DEF Publish, EventTypes
<1>4. CTypeOK'
  BY Zenon, <1>1 DEF Publish, CTypeOK, observer, manual
<1>5. Evidence'
  BY Zenon, <1>1 DEF Publish, Evidence, ObservePcs, ProbePcs, StateRead, ProbeRead,
     AllConfirmed, observer, db
<1> QED  BY Zenon, <1>3, <1>4, <1>5 DEF CInv

LEMMA ObserverLossStep ==
    ASSUME CInv, ObserverLoss
    PROVE  CInv'
<1>1. Consistent /\ CTypeOK /\ Evidence
  BY Zenon DEF CInv
<1>2. Consistent'
  BY Zenon, <1>1, LockMoves, ObserverAssumption DEF ObserverLoss, UntouchedByObserver
<1>3. CTypeOK' /\ lock' # Observer
  BY Zenon, <1>1, ObserverAssumption, NamesAssumption
     DEF ObserverLoss, UntouchedByObserver, CTypeOK, observer, manual
<1>4. Evidence'
  BY <1>1, <1>3, Zenon DEF ObserverLoss, UntouchedByObserver, Evidence, AllConfirmed,
     observer, db
<1> QED  BY Zenon, <1>2, <1>3, <1>4 DEF CInv

-----------------------------------------------------------------------------
(* The theorems.                                                           *)

LEMMA CInitInv == CInit => CInv
<1> SUFFICES ASSUME CInit PROVE CInv
  BY Zenon
<1>1. Consistent
  BY Zenon, InitConsistent DEF CInit
<1>2. CTypeOK /\ Evidence
  BY ObserverAssumption, NamesAssumption, Zenon DEF CInit, Init, CTypeOK, Evidence,
     ObserverPcs, Verdicts, ObservePcs, ProbePcs, StateRead, ProbeRead
<1> QED  BY Zenon, <1>1, <1>2 DEF CInv

LEMMA CNextInv == CInv /\ [CNext]_cvars => CInv'
<1> SUFFICES ASSUME CInv, [CNext]_cvars PROVE CInv'
  BY Zenon
<1>1. CASE Next /\ UNCHANGED <<observer, manual>>
  BY Zenon, <1>1, WorkerStep
<1>2. CASE UNCHANGED cvars
  <2>1. UNCHANGED vars /\ UNCHANGED <<observer, manual>>
    BY Zenon, <1>2 DEF cvars
  <2> QED  BY Zenon, <2>1, WorkerStep
<1>3. CASE ObserverStep
  BY Zenon, <1>3, ObserveStep, ProbeStep, CallStep, CoordinateStep, PublishStep,
     ObserverLossStep DEF ObserverStep
<1> QED  BY Zenon, <1>1, <1>2, <1>3 DEF CNext

LEMMA AlwaysEvident == CSpec => []CInv
  BY CInitInv, CNextInv, PTL DEF CSpec

\* Workers, observer and published observations together keep the history, the
\* audit file and every running call consistent.
THEOREM ObservedConsistent == CSpec => []Consistent
<1>1. CInv => Consistent
  BY Zenon DEF CInv
<1> QED  BY <1>1, AlwaysEvident, PTL

\* A completion that the observer reports as proven is one: every step of the
\* plan is confirmed and its SQL took effect exactly once.
THEOREM ProvenCompletion == CSpec => []ProvenIsTrue
<1>1. CInv => ProvenIsTrue
  <2> SUFFICES ASSUME CInv, verdict = "proven", NEW s \in StepsOf(oart)
               PROVE  history[oart][s] = "confirmed" /\ execs[oart][s] = 1
    BY Zenon DEF ProvenIsTrue
  <2>1. history[oart][s] = "confirmed" /\ HistoryTruth /\ oart \in Artifacts
    BY Zenon DEF CInv, Evidence, AllConfirmed, Consistent, CTypeOK
  <2>2. s \in Steps
    BY Zenon, <2>1, PlanTyped DEF StepsOf
  <2> QED  BY Zenon, <2>1, <2>2 DEF HistoryTruth
<1> QED  BY <1>1, AlwaysEvident, PTL

\* The proof is given while the target schema is live and no worker is inside
\* an execution.
THEOREM ProofsAreCurrent == CSpec => ProofIsCurrent
<1>1. CInv /\ [CNext]_cvars => [Concludes("proven") =>
          /\ schema = To(oart)
          /\ \A w \in Workers : ~(session[w] /\ pc[w] \in HeldPcs)]_cvars
  <2> SUFFICES ASSUME CInv, CNext, Concludes("proven")
               PROVE  /\ schema = To(oart)
                      /\ \A w \in Workers : ~(session[w] /\ pc[w] \in HeldPcs)
    BY Zenon
  <2>1. lock = Observer /\ opc = "proof"
    BY Zenon DEF CNext, Concludes, ObserverStep, Call, Coordinate, Observe, Probe,
       Publish, ObserverLoss, Query, ReadAudit, Conclude, Leave, Move, observer
  <2> QED  BY Zenon, <2>1, ObserverAssumption, NamesAssumption
           DEF CInv, Evidence, StateRead, Consistent, LockHolder
<1> QED  BY <1>1, AlwaysEvident, PTL DEF CSpec, ProofIsCurrent

\* The probe reports a fresh start only when nothing of the artifact has run
\* and its source schema is live.
THEOREM UnstartedAreFresh == CSpec => UnstartedIsFresh
<1>1. CInv /\ [CNext]_cvars => [Concludes("unstarted") =>
          /\ schema = From[oart] /\ NoRows(oart)
          /\ \A s \in Steps : execs[oart][s] = 0]_cvars
  <2> SUFFICES ASSUME CInv, CNext, Concludes("unstarted")
               PROVE  /\ schema = From[oart] /\ NoRows(oart)
                      /\ \A s \in Steps : execs[oart][s] = 0
    BY Zenon
  <2>1. lock = Observer /\ opc = "p end"
    BY Zenon DEF CNext, Concludes, ObserverStep, Call, Coordinate, Observe, Probe,
       Publish, ObserverLoss, Query, ReadAudit, Conclude, Leave, Move, observer
  <2>2. AtSource(oart) /\ NoRows(oart) /\ Consistent /\ oart \in Artifacts
    BY Zenon, <2>1 DEF CInv, Evidence, CTypeOK, ProbePcs, ProbeRead
  <2>3. HistoryTruth /\ \A s \in Steps : execs[oart][s] \in Nat
    BY Zenon, <2>2 DEF Consistent, TypeOK
  <2> QED  BY SMTT(30), <2>2, <2>3 DEF AtSource, NoRows, HistoryTruth
<1> QED  BY <1>1, AlwaysEvident, PTL DEF CSpec, UnstartedIsFresh
=============================================================================
