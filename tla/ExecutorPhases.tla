--------------------------- MODULE ExecutorPhases ---------------------------
(***************************************************************************)
(* Proofs for the executor: entering a phase, the actions of               *)
(* transactionalPhase and nontransactionalPhase, finish, lost sessions and *)
(* crashes keep the invariant.                                             *)
(***************************************************************************)
EXTENDS ExecutorRows

-----------------------------------------------------------------------------
(* One lemma per action: transactionalPhase.                               *)

LEMMA EnterPhaseStep ==
    ASSUME Consistent, NEW w \in Workers, EnterPhase(w)
    PROVE  Consistent'
<1> TypeOK /\ Position(w) /\ Behind(w)
  BY Zenon DEF Consistent
<1>1. pc[w] = "phase" /\ UNCHANGED <<db, runs>> /\ UNCHANGED history
  BY Zenon DEF EnterPhase, At, db
<1>2. CASE phase[w] > Len(Phases[art[w]])
  <2>1. Goto(w, "finish") /\ Outside(w)
    BY Zenon, <1>1, <1>2, Silent DEF EnterPhase
  <2>2. Position(w)' /\ Ahead(w)'
    BY <1>1, <1>2, <2>1, Standing DEF Position, Ahead, PhasePcs, TxPcs, NontxPcs
  <2>3. Behind(w)'
    BY <1>1, <2>1, Standing DEF Behind, AllAre, NontxPcs
  <2> QED
    BY Zenon, <1>1, <2>1, <2>2, <2>3, Going DEF HeldPcs
<1>3. CASE ~(phase[w] > Len(Phases[art[w]]))
  <2>1. phase[w] <= Len(Phases[art[w]])
    <3>1. Len(Phases[art[w]]) \in Nat /\ phase[w] \in Nat
      BY Zenon, PlanTyped DEF TypeOK
    <3> QED
      BY <1>3, <3>1
  <2>2. idx[w] = 1 /\ Passed(w) = {}
    BY <1>1 DEF Position, PhasePcs, Passed
  <2>3. CASE CurrentPhase(w).mode = "required"
    <3>1. Log(w, "transaction_started", NoStep, Goto(w, "begin"), Return(w, "error"))
      BY Zenon, <1>3, <2>3 DEF EnterPhase
    <3>2. Outside(w)
      BY Zenon, <1>1, <3>1, Logged, NoClaim DEF Log, EventTypes, Claims
    <3>3. CASE Return(w, "error")
      BY Zenon, <1>1, <3>2, <3>3, Returning DEF Outcomes
    <3>4. CASE Goto(w, "begin")
      <4>1. Position(w)' /\ Ahead(w)'
        BY <1>1, <2>1, <2>2, <2>3, <3>4, Standing
           DEF Position, Ahead, PhasePcs, TxPcs, NontxPcs
      <4>2. Behind(w)'
        BY <1>1, <3>4, Standing DEF Behind, AllAre, NontxPcs
      <4> QED
        BY Zenon, <1>1, <3>2, <3>4, <4>1, <4>2, Going DEF HeldPcs, PhasePcs
    <3> QED
      BY Zenon, <3>1, <3>3, <3>4 DEF Log
  <2>4. CASE CurrentPhase(w).mode # "required"
    <3>1. UNCHANGED audit /\ Outside(w)
      BY Zenon, <1>1, <1>3, <2>4, Silent DEF EnterPhase
    <3>2. CASE Return(w, "error")
      BY Zenon, <1>1, <3>1, <3>2, Returning DEF Outcomes
    <3>3. CASE Goto(w, "intend")
      <4>1. Position(w)' /\ Ahead(w)'
        BY SMTT(30), <1>1, <2>1, <2>2, <3>3, Standing
           DEF Position, Ahead, PhasePcs, TxPcs, NontxPcs
      <4>2. Behind(w)'
        BY <1>1, <2>2, <3>3, Standing DEF Behind, AllAre, NontxPcs
      <4> QED
        BY Zenon, <1>1, <3>1, <3>3, <4>1, <4>2, Going DEF HeldPcs, PhasePcs
    <3> QED
      BY Zenon, <1>3, <2>4, <3>2, <3>3 DEF EnterPhase
  <2> QED
    BY Zenon, <2>3, <2>4
<1> QED
  BY Zenon, <1>2, <1>3

LEMMA BeginStep ==
    ASSUME Consistent, NEW w \in Workers, Begin(w)
    PROVE  Consistent'
<1> TypeOK /\ Position(w) /\ Behind(w)
  BY Zenon DEF Consistent
<1>1. pc[w] = "begin" /\ UNCHANGED <<db, runs>> /\ UNCHANGED history
  BY Zenon DEF Begin, At, db
<1>2. CASE Log(w, "transaction_begin_failed", NoStep,
               Return(w, "error"), Return(w, "error"))
  BY Zenon, <1>1, <1>2, LogReturn DEF EventTypes, Claims, Outcomes
<1>3. CASE Goto(w, "tx") /\ UNCHANGED audit
  <2>1. Passed(w) = {}
    BY <1>1 DEF Position, Passed
  <2>2. Position(w)'
    BY SMTT(30), <1>1, <1>3, Standing DEF Position, PhasePcs, TxPcs, NontxPcs
  <2>3. Behind(w)'
    BY SMTT(30), <1>1, <1>3, Standing DEF Behind, AllAre, NontxPcs
  <2>4. Ahead(w)'
    BY SMTT(30), <1>1, <1>3, <2>1, Standing DEF Ahead, AllAre
  <2> QED
    BY Zenon, <1>1, <1>3, <2>2, <2>3, <2>4, Silent, Going DEF HeldPcs, PhasePcs
<1> QED
  BY Zenon, <1>2, <1>3 DEF Begin

LEMMA RunTransactionStep ==
    ASSUME Consistent, NEW w \in Workers, RunTransaction(w)
    PROVE  Consistent'
<1> TypeOK /\ Position(w) /\ Behind(w) /\ Ahead(w)
  BY Zenon DEF Consistent
<1>1. pc[w] = "tx" /\ UNCHANGED <<db, runs>> /\ UNCHANGED history
  BY Zenon DEF RunTransaction, At, db
<1>2. phase[w] <= Len(Phases[art[w]])
  BY Zenon, <1>1 DEF Position, PhasePcs
<1>3. CurrentPhase(w).steps \in Seq(Steps) /\ idx[w] \in Nat
  BY Zenon, <1>2, PhaseTyped DEF TypeOK
<1>4. CASE PhaseEnded(w) /\ Goto(w, "commit") /\ UNCHANGED audit
  <2>1. Batch(w) \subseteq Passed(w)
    BY Zenon, <1>3, <1>4, EndPassed
  <2>2. Position(w)'
    BY SMTT(30), <1>1, <1>2, <1>4, Standing DEF Position, PhasePcs, TxPcs, NontxPcs
  <2>3. Behind(w)'
    BY SMTT(30), <1>1, <1>4, Standing DEF Behind, AllAre, NontxPcs
  <2>4. Ahead(w)'
    BY <1>1, <1>4, <2>1, Standing DEF Ahead, AllAre
  <2> QED
    BY Zenon, <1>1, <1>4, <2>2, <2>3, <2>4, Silent, Going DEF HeldPcs, PhasePcs
<1>5. CASE /\ ~PhaseEnded(w) /\ CurrentStep(w) \notin Batch(w)
           /\ Advance(w, "tx") /\ UNCHANGED audit
  BY Zenon, <1>1, <1>5, Silent, Advancing
<1>6. CASE /\ ~PhaseEnded(w) /\ CurrentStep(w) \in Batch(w)
           /\ session[w] /\ history[art[w]][CurrentStep(w)] = "none"
           /\ idx' = [idx EXCEPT ![w] = @ + 1]
           /\ last' = [last EXCEPT ![w] = CurrentStep(w)]
           /\ Jump(w, "tx") /\ UNCHANGED <<art, phase, seen, audit>>
  <2>1. CurrentStep(w) \in Steps
    BY Zenon, <1>2, <1>6, StepTyped
  <2>2. OwnFrame(w) /\ LocalsTyped'
    BY SMTT(30), <1>6, <2>1 DEF OwnFrame, SameView, Jump, LocalsTyped, TypeOK
  <2>3. /\ pc'[w] = "tx" /\ idx'[w] = idx[w] + 1 /\ session'[w] = session[w]
        /\ art'[w] = art[w] /\ phase'[w] = phase[w] /\ seen'[w] = seen[w]
        /\ idx[w] \in Nat \ {0}
    BY Zenon, <1>6 DEF Jump, TypeOK
  <2>4. /\ CurrentPhase(w)' = CurrentPhase(w) /\ Batch(w)' = Batch(w)
        /\ Earlier(w)' = Earlier(w) /\ \A s : Row(w, s)' = Row(w, s)
    BY <1>1, <2>3, Zenon DEF CurrentPhase, Batch, Earlier, Row
  <2>5. Position(w)'
    BY Zenon, <1>1, <1>2, <2>3, <2>4 DEF Position, PhasePcs, TxPcs, NontxPcs
  <2>6. Behind(w)'
    BY SMTT(30), <1>1, <2>3, <2>4 DEF Behind, AllAre, NontxPcs
  <2>7. ASSUME NEW s \in Passed(w)' PROVE Row(w, s) = "none"
    <3>1. PICK k \in 1 .. idx[w] : s = CurrentPhase(w).steps[k] /\ s \in Batch(w)
      BY SMTT(30), <2>3, <2>4, <2>7 DEF Passed
    <3>2. CASE k = idx[w]
      BY Zenon, <1>6, <3>1, <3>2 DEF CurrentStep, Row
    <3>3. CASE k \in 1 .. idx[w] - 1
      <4>1. s \in Passed(w)
        BY <3>1, <3>3, Zenon DEF Passed
      <4> QED
        BY Zenon, <1>1, <1>6, <4>1 DEF Ahead, AllAre
    <3> QED
      BY SMTT(30), <2>3, <3>2, <3>3
  <2>8. Ahead(w)'
    BY Zenon, <2>3, <2>4, <2>7 DEF Ahead, AllAre
  <2> QED
    BY Zenon, <1>1, <1>6, <2>2, <2>5, <2>6, <2>8, Silent, Moving DEF HeldPcs, PhasePcs
<1>7. ASSUME NEW step \in Steps \cup {NoStep},
             Log(w, "transaction_failed", step,
                 Goto(w, "rollback"), Goto(w, "rollback"))
      PROVE  Consistent'
  <2>1. Goto(w, "rollback") /\ Outside(w)
    BY Zenon, <1>1, <1>7, Logged, NoClaim DEF Log, EventTypes, Claims
  <2>2. Position(w)' /\ Ahead(w)'
    BY SMTT(30), <1>1, <1>2, <2>1, Standing DEF Position, Ahead, PhasePcs, TxPcs, NontxPcs
  <2>3. Behind(w)'
    BY <1>1, <2>1, Standing DEF Behind, AllAre, NontxPcs
  <2> QED
    BY Zenon, <1>1, <2>1, <2>2, <2>3, Going DEF HeldPcs, PhasePcs
<1>8. ~PhaseEnded(w) => CurrentStep(w) \in Steps
  BY Zenon, <1>2, StepTyped
<1> QED
  BY Zenon, <1>4, <1>5, <1>6, <1>7, <1>8 DEF RunTransaction

LEMMA CommitStep ==
    ASSUME Consistent, NEW w \in Workers, Commit(w)
    PROVE  Consistent'
<1> TypeOK /\ Position(w) /\ Behind(w) /\ Ahead(w)
  BY Zenon DEF Consistent
<1>1. pc[w] = "commit" /\ UNCHANGED <<audit, runs>>
  BY Zenon DEF Commit, At
<1>2. phase[w] <= Len(Phases[art[w]]) /\ CurrentPhase(w).mode = "required"
  BY Zenon, <1>1 DEF Position, PhasePcs, TxPcs
<1>3. CASE Apply(w) /\ Committed(w)
  <2>1. Outside(w) /\ \A s \in Batch(w) : history'[art[w]][s] = "confirmed"
    BY Zenon, <1>1, <1>3, Applied
  <2>2. OwnFrame(w) /\ LocalsTyped' /\ Jump(w, "committed")
    BY <1>3 DEF Committed, Jump, OwnFrame, SameView, LocalsTyped, TypeOK
  <2>3. /\ pc'[w] = "committed" /\ session'[w] = session[w]
        /\ art'[w] = art[w] /\ phase'[w] = phase[w] /\ seen'[w] = seen[w]
    BY Zenon, <1>3 DEF Committed, Jump, TypeOK
  <2>4. /\ CurrentPhase(w)' = CurrentPhase(w) /\ Batch(w)' = Batch(w)
        /\ Earlier(w)' = Earlier(w)
    BY ZenonT(30), <2>3, Zenon DEF CurrentPhase, Batch, Earlier
  <2>5. Position(w)' /\ Ahead(w)'
    BY Zenon, <1>2, <2>3, <2>4 DEF Position, Ahead, PhasePcs, TxPcs, NontxPcs
  <2>6. Forward /\ \A s \in Batch(w) : Row(w, s)' = "confirmed"
    BY Zenon, <2>1, <2>3 DEF Outside, Row
  <2>7. Behind(w)'
    BY Zenon, <2>3, <2>4, <2>6, StillBehind DEF Behind, AllAre, NontxPcs
  <2> QED
    BY Zenon, <1>1, <2>1, <2>2, <2>5, <2>7, Moving DEF HeldPcs, PhasePcs
<1>4. CASE (Apply(w) \/ UNCHANGED db) /\ Goto(w, "uncertain")
  <2>1. Outside(w)
    BY Zenon, <1>1, <1>4, Applied, Silent
  <2>2. Forward
    BY Zenon, <2>1 DEF Outside
  <2>3. /\ pc'[w] = "uncertain" /\ session'[w] = session[w] /\ art'[w] = art[w]
        /\ phase'[w] = phase[w] /\ idx'[w] = idx[w] /\ SameView(w)
    BY Zenon, <1>4, SameFrame
  <2>4. CurrentPhase(w)' = CurrentPhase(w)
    BY Zenon, <2>3, ViewKept
  <2>5. Position(w)'
    BY Zenon, <1>1, <1>2, <2>3, <2>4 DEF Position, PhasePcs, TxPcs, NontxPcs
  <2>6. Ahead(w)'
    BY Zenon, <2>3 DEF Ahead
  <2>7. Behind(w)'
    BY SMTT(30), <1>4, <2>2, SameFrame, ViewKept, StillBehind DEF Behind, AllAre, NontxPcs
  <2> QED
    BY Zenon, <1>1, <1>4, <2>1, <2>5, <2>6, <2>7, Going DEF HeldPcs, PhasePcs
<1> QED
  BY Zenon, <1>3, <1>4 DEF Commit

LEMMA RollbackStep ==
    ASSUME Consistent, NEW w \in Workers, Rollback(w)
    PROVE  Consistent'
<1>1. UNCHANGED <<db, runs>>
  BY Zenon DEF Rollback, At
<1>2. CASE Log(w, "transaction_rollback", NoStep,
               Return(w, "error"), Return(w, "error"))
  BY Zenon, <1>1, <1>2, LogReturn DEF EventTypes, Claims, Outcomes
<1>3. CASE Log(w, "rollback_failed", NoStep,
               Return(w, "reconcile"), Return(w, "reconcile"))
  BY Zenon, <1>1, <1>3, LogReturn DEF EventTypes, Claims, Outcomes
<1> QED
  BY Zenon, <1>2, <1>3 DEF Rollback

LEMMA AuditCommittedStep ==
    ASSUME Consistent, NEW w \in Workers, AuditCommitted(w)
    PROVE  Consistent'
<1> TypeOK /\ Position(w) /\ Behind(w)
  BY Zenon DEF Consistent
<1>1. pc[w] = "committed" /\ UNCHANGED <<db, runs>> /\ UNCHANGED history
  BY Zenon DEF AuditCommitted, At, db
<1>2. Outside(w)
  <2>1. last[w] \in Steps \cup {NoStep}
    BY Zenon DEF TypeOK
  <2> QED
    BY Zenon, <1>1, <2>1, Logged, NoClaim DEF AuditCommitted, Log, EventTypes, Claims
<1>3. CASE Return(w, "partial")
  BY Zenon, <1>1, <1>2, <1>3, Returning DEF Outcomes
<1>4. CASE Goto(w, "confirm_tx")
  <2>1. Position(w)' /\ Ahead(w)'
    BY SMTT(30), <1>1, <1>4, Standing DEF Position, Ahead, PhasePcs, TxPcs, NontxPcs
  <2>2. Behind(w)'
    BY <1>1, <1>4, Standing DEF Behind, AllAre, NontxPcs
  <2> QED
    BY Zenon, <1>1, <1>2, <1>4, <2>1, <2>2, Going DEF HeldPcs, PhasePcs
<1> QED
  BY Zenon, <1>3, <1>4 DEF AuditCommitted, Log

LEMMA AuditPhaseConfirmedStep ==
    ASSUME Consistent, NEW w \in Workers, AuditPhaseConfirmed(w)
    PROVE  Consistent'
<1> TypeOK /\ Position(w) /\ Behind(w)
  BY Zenon DEF Consistent
<1>1. pc[w] = "confirm_tx" /\ UNCHANGED <<db, runs>>
      /\ AllAre(w, Batch(w), "confirmed")
  BY Zenon DEF AuditPhaseConfirmed, At, Behind
<1>2. CASE PhaseEnded(w) /\ NextPhase(w) /\ UNCHANGED audit
  BY Zenon, <1>1, <1>2, Silent, NextPhasing DEF PhasePcs
<1>3. CASE /\ ~PhaseEnded(w) /\ CurrentStep(w) \notin Batch(w)
           /\ Advance(w, "confirm_tx") /\ UNCHANGED audit
  BY Zenon, <1>1, <1>3, Silent, Advancing
<1>4. CASE /\ ~PhaseEnded(w) /\ CurrentStep(w) \in Batch(w)
           /\ Log(w, "confirmed", CurrentStep(w),
                  Advance(w, "confirm_tx"), Return(w, "partial"))
  <2>1. CurrentStep(w) \in Steps
    BY Zenon, <1>1, <1>4, StepTyped DEF Position, PhasePcs
  <2>2. EventTrue(art[w], "confirmed", CurrentStep(w))
    BY Zenon, <1>1, <1>4, <2>1 DEF EventTrue, AllAre, Row
  <2>3. Outside(w)
    BY Zenon, <1>1, <1>4, <2>1, <2>2, Logged DEF Log, EventTypes
  <2>4. CASE Advance(w, "confirm_tx")
    BY Zenon, <1>1, <1>4, <2>3, <2>4, Advancing
  <2>5. CASE Return(w, "partial")
    BY Zenon, <1>1, <2>3, <2>5, Returning DEF Outcomes
  <2> QED
    BY Zenon, <1>4, <2>4, <2>5 DEF Log
<1> QED
  BY Zenon, <1>2, <1>3, <1>4 DEF AuditPhaseConfirmed

-----------------------------------------------------------------------------
(* One lemma per action: nontransactionalPhase and finish.                 *)

LEMMA IntendStep ==
    ASSUME Consistent, NEW w \in Workers, Intend(w)
    PROVE  Consistent'
<1> TypeOK /\ Position(w) /\ Behind(w)
  BY Zenon DEF Consistent
<1>1. pc[w] = "intend" /\ UNCHANGED <<schema, execs, audit, runs>>
  BY Zenon DEF Intend, At
<1>2. phase[w] <= Len(Phases[art[w]])
  BY Zenon, <1>1 DEF Position, PhasePcs
<1>3. CASE PhaseEnded(w) /\ NextPhase(w) /\ UNCHANGED history
  <2>1. CurrentPhase(w).steps \in Seq(Steps) /\ idx[w] \in Nat
    BY Zenon, <1>2, PhaseTyped DEF TypeOK
  <2>2. Batch(w) \subseteq Passed(w)
    BY Zenon, <1>3, <2>1, EndPassed
  <2>3. AllAre(w, Batch(w), "confirmed")
    BY Zenon, <1>1, <2>2 DEF Behind, AllAre, NontxPcs
  <2>4. UNCHANGED db
    BY Zenon, <1>1, <1>3 DEF db
  <2> QED
    BY Zenon, <1>1, <1>3, <2>3, <2>4, Silent, NextPhasing DEF PhasePcs
<1>4. CASE /\ ~PhaseEnded(w) /\ CurrentStep(w) \notin Batch(w)
           /\ Advance(w, "intend") /\ UNCHANGED history
  <2>1. UNCHANGED db
    BY Zenon, <1>1, <1>4 DEF db
  <2> QED
    BY Zenon, <1>1, <1>4, <2>1, Silent, Advancing
<1>5. CASE /\ ~PhaseEnded(w) /\ CurrentStep(w) \in Batch(w)
           /\ Insert(w) /\ Goto(w, "intent")
  <2>1. /\ Outside(w) /\ history'[art[w]][CurrentStep(w)] = "intended"
        /\ execs[art[w]][CurrentStep(w)] = 0
    BY Zenon, <1>1, <1>5, Inserted
  <2>2. Position(w)'
    BY <1>1, <1>2, <1>5, SameFrame, ViewKept DEF Position, PhasePcs, TxPcs, NontxPcs
  <2>3. Row(w, CurrentStep(w))' = "intended" /\ Runs(w)' = 0
    BY Zenon, <1>1, <1>5, <2>1, SameFrame, ViewKept DEF Row, Runs
  <2>4. Forward
    BY Zenon, <2>1 DEF Outside
  <2>5. Behind(w)'
    BY <1>1, <1>5, <2>3, <2>4, SameFrame, ViewKept, StillBehind
       DEF Behind, AllAre, NontxPcs
  <2>6. Ahead(w)'
    BY <1>5, <2>3, SameFrame DEF Ahead
  <2> QED
    BY Zenon, <1>1, <1>5, <2>1, <2>2, <2>5, <2>6, Going DEF HeldPcs, PhasePcs
<1>6. CASE /\ ~PhaseEnded(w) /\ CurrentStep(w) \in Batch(w)
           /\ Insert(w) \/ UNCHANGED history
           /\ Return(w, "error")
  <2>1. CASE UNCHANGED history
    BY Zenon, <1>1, <1>6, <2>1, Silent, Returning DEF Outcomes, db
  <2>2. CASE Insert(w)
    BY Zenon, <1>1, <1>6, <2>2, Inserted, Returning DEF Outcomes
  <2> QED
    BY Zenon, <1>6, <2>1, <2>2
<1> QED
  BY Zenon, <1>3, <1>4, <1>5, <1>6 DEF Intend

LEMMA AuditIntentStep ==
    ASSUME Consistent, NEW w \in Workers, AuditIntent(w)
    PROVE  Consistent'
<1> TypeOK /\ Position(w) /\ Behind(w) /\ Ahead(w)
  BY Zenon DEF Consistent
<1>1. pc[w] = "intent" /\ UNCHANGED <<db, runs>> /\ UNCHANGED <<history, execs>>
  BY Zenon DEF AuditIntent, At, db
<1>2. CurrentStep(w) \in Steps
  BY Zenon, <1>1, StepTyped DEF Position, PhasePcs, NontxPcs
<1>3. EventTrue(art[w], "intent", CurrentStep(w))
  BY Zenon, <1>1, <1>2 DEF EventTrue, Behind, Row
<1>4. Outside(w)
  BY Zenon, <1>1, <1>2, <1>3, Logged DEF AuditIntent, Log, EventTypes
<1>5. CASE Return(w, "error")
  BY Zenon, <1>1, <1>4, <1>5, Returning DEF Outcomes
<1>6. CASE Goto(w, "exec")
  <2>1. Position(w)'
    BY SMTT(30), <1>1, <1>6, Standing DEF Position, PhasePcs, TxPcs, NontxPcs
  <2>2. Behind(w)'
    BY SMTT(30), <1>1, <1>6, Standing DEF Behind, AllAre, NontxPcs
  <2>3. Ahead(w)'
    BY <1>1, <1>6, Standing DEF Ahead, Runs
  <2> QED
    BY ZenonT(30), <1>1, <1>4, <1>6, <2>1, <2>2, <2>3, Going DEF HeldPcs, PhasePcs
<1> QED
  BY Zenon, <1>5, <1>6 DEF AuditIntent, Log

LEMMA ExecStep ==
    ASSUME Consistent, NEW w \in Workers, Exec(w)
    PROVE  Consistent'
<1> TypeOK /\ Position(w) /\ Behind(w) /\ Ahead(w)
  BY Zenon DEF Consistent
<1> DEFINE run == session[w] /\ Execute(w, {CurrentStep(w)})
<1>1. pc[w] = "exec" /\ UNCHANGED <<history, audit, runs>>
  BY Zenon DEF Exec, At
<1>2. run => Outside(w) /\ execs'[art[w]][CurrentStep(w)] = 1
  BY Zenon, <1>1, Ran1
<1>3. UNCHANGED <<schema, execs>> => Outside(w)
  BY Zenon, <1>1, Silent DEF db
<1>4. CASE run /\ Goto(w, "postcheck")
  <2>1. Position(w)'
    BY SMTT(30), <1>1, <1>4, Standing DEF Position, PhasePcs, TxPcs, NontxPcs
  <2>2. Behind(w)'
    BY SMTT(30), <1>1, <1>4, Standing DEF Behind, AllAre, NontxPcs
  <2>3. Ahead(w)'
    BY SMTT(30), <1>1, <1>2, <1>4, Standing DEF Ahead, Runs
  <2> QED
    BY Zenon, <1>1, <1>2, <1>4, <2>1, <2>2, <2>3, Going DEF HeldPcs, PhasePcs
<1>5. CASE (run \/ UNCHANGED <<schema, execs>>) /\ Goto(w, "uncertain")
  BY Zenon, <1>1, <1>2, <1>3, <1>5, ToUncertain DEF NontxPcs
<1> QED
  BY Zenon, <1>4, <1>5 DEF Exec

LEMMA ConfirmStep ==
    ASSUME Consistent, NEW w \in Workers, Confirm(w)
    PROVE  Consistent'
<1> TypeOK /\ Position(w) /\ Behind(w) /\ Ahead(w)
  BY Zenon DEF Consistent
<1>1. /\ pc[w] = "postcheck" /\ UNCHANGED <<db, audit, runs>>
      /\ UNCHANGED <<history, execs>>
  BY Zenon DEF Confirm, At, db
<1>2. Outside(w)
  BY Zenon, <1>1, Silent
<1>3. CASE Goto(w, "update")
  <2>1. Position(w)'
    BY SMTT(30), <1>1, <1>3, Standing DEF Position, PhasePcs, TxPcs, NontxPcs
  <2>2. Behind(w)'
    BY SMTT(30), <1>1, <1>3, Standing DEF Behind, AllAre, NontxPcs
  <2>3. Ahead(w)'
    BY <1>1, <1>3, Standing DEF Ahead, Runs
  <2> QED
    BY Zenon, <1>1, <1>2, <1>3, <2>1, <2>2, <2>3, Going DEF HeldPcs, PhasePcs
<1>4. CASE Goto(w, "uncertain")
  BY Zenon, <1>1, <1>2, <1>4, ToUncertain DEF NontxPcs
<1> QED
  BY Zenon, <1>3, <1>4 DEF Confirm

LEMMA UpdateConfirmedStep ==
    ASSUME Consistent, NEW w \in Workers, UpdateConfirmed(w)
    PROVE  Consistent'
<1> TypeOK /\ Position(w) /\ Behind(w)
  BY Zenon DEF Consistent
<1>1. pc[w] = "update" /\ UNCHANGED <<schema, execs, audit, runs>>
  BY Zenon DEF UpdateConfirmed, At
<1>2. Outside(w)
  <2>1. UNCHANGED history \/ (session[w] /\ SetRows(w, {CurrentStep(w)}, "confirmed"))
    BY Zenon DEF UpdateConfirmed
  <2>2. UNCHANGED history => UNCHANGED db
    BY Zenon, <1>1 DEF db
  <2> QED
    BY Zenon, <1>1, <2>1, <2>2, Updated, Silent
<1>3. CASE Goto(w, "readback")
  <2>1. Forward
    BY Zenon, <1>2 DEF Outside
  <2>2. Position(w)' /\ Ahead(w)'
    BY SMTT(30), <1>1, <1>3, SameFrame, ViewKept DEF Position, Ahead, PhasePcs, TxPcs, NontxPcs
  <2>3. Behind(w)'
    BY <1>1, <1>3, <2>1, SameFrame, ViewKept, StillBehind DEF Behind, AllAre, NontxPcs
  <2> QED
    BY Zenon, <1>1, <1>2, <1>3, <2>2, <2>3, Going DEF HeldPcs, PhasePcs
<1>4. CASE Goto(w, "uncertain")
  BY Zenon, <1>1, <1>2, <1>4, ToUncertain DEF NontxPcs
<1> QED
  BY Zenon, <1>3, <1>4 DEF UpdateConfirmed

LEMMA ReadbackStep ==
    ASSUME Consistent, NEW w \in Workers, Readback(w)
    PROVE  Consistent'
<1> TypeOK /\ Position(w) /\ Behind(w)
  BY Zenon DEF Consistent
<1>1. pc[w] = "readback" /\ UNCHANGED <<db, audit, runs>> /\ UNCHANGED history
  BY Zenon DEF Readback, At, db
<1>2. Outside(w)
  BY Zenon, <1>1, Silent
<1>3. CASE /\ history[art[w]][CurrentStep(w)] = "confirmed"
           /\ last' = [last EXCEPT ![w] = CurrentStep(w)]
           /\ Jump(w, "confirmed")
           /\ UNCHANGED <<art, phase, idx, seen>>
  <2>1. CurrentStep(w) \in Steps
    BY Zenon, <1>1, StepTyped DEF Position, PhasePcs, NontxPcs
  <2>2. OwnFrame(w) /\ LocalsTyped'
    BY Zenon, <1>3, <2>1 DEF OwnFrame, SameView, Jump, LocalsTyped, TypeOK
  <2>3. /\ pc'[w] = "confirmed" /\ session'[w] = session[w] /\ art'[w] = art[w]
        /\ phase'[w] = phase[w] /\ idx'[w] = idx[w] /\ seen'[w] = seen[w]
        /\ SameView(w)
    BY Zenon, <1>3 DEF Jump, TypeOK, SameView
  <2>4. Position(w)' /\ Ahead(w)'
    BY Zenon, <1>1, <2>3, ViewKept DEF Position, Ahead, PhasePcs, TxPcs, NontxPcs
  <2>5. Behind(w)'
    <3>1. Row(w, CurrentStep(w)) = "confirmed"
      BY Zenon, <1>3 DEF Row
    <3> QED
      BY <1>1, <2>3, <3>1, ViewKept, RowKept DEF Behind, AllAre, NontxPcs
  <2> QED
    BY Zenon, <1>1, <1>2, <1>3, <2>2, <2>4, <2>5, Moving DEF HeldPcs, PhasePcs
<1>4. CASE Goto(w, "uncertain")
  BY Zenon, <1>1, <1>2, <1>4, ToUncertain DEF NontxPcs
<1> QED
  BY Zenon, <1>3, <1>4 DEF Readback

LEMMA AuditConfirmedStep ==
    ASSUME Consistent, NEW w \in Workers, AuditConfirmed(w)
    PROVE  Consistent'
<1> TypeOK /\ Position(w) /\ Behind(w)
  BY Zenon DEF Consistent
<1>1. /\ pc[w] = "confirmed" /\ UNCHANGED <<db, runs>>
      /\ Row(w, CurrentStep(w)) = "confirmed" /\ ~PhaseEnded(w)
  BY Zenon DEF AuditConfirmed, At, Behind, Position, NontxPcs
<1>2. CurrentStep(w) \in Steps
  BY Zenon, <1>1, StepTyped DEF Position, PhasePcs
<1>3. EventTrue(art[w], "confirmed", CurrentStep(w))
  BY Zenon, <1>1, <1>2 DEF EventTrue, Row
<1>4. Outside(w)
  BY Zenon, <1>1, <1>2, <1>3, Logged DEF AuditConfirmed, Log, EventTypes
<1>5. CASE Advance(w, "intend")
  BY Zenon, <1>1, <1>4, <1>5, Advancing
<1>6. CASE Return(w, "partial")
  BY Zenon, <1>1, <1>4, <1>6, Returning DEF Outcomes
<1> QED
  BY Zenon, <1>5, <1>6 DEF AuditConfirmed, Log

LEMMA UncertainStep ==
    ASSUME Consistent, NEW w \in Workers, Uncertain(w)
    PROVE  Consistent'
<1> DEFINE pending == IF CurrentPhase(w).mode = "required"
                      THEN last[w] ELSE CurrentStep(w)
<1> TypeOK /\ Position(w)
  BY Zenon DEF Consistent
<1>1. pc[w] = "uncertain" /\ UNCHANGED <<db, runs>>
  BY Zenon DEF Uncertain, At
<1>2. pending \in Steps \cup {NoStep}
  <2>1. last[w] \in Steps \cup {NoStep}
    BY Zenon DEF TypeOK
  <2>2. CurrentPhase(w).mode # "required" => CurrentStep(w) \in Steps
    BY Zenon, <1>1, StepTyped DEF Position, PhasePcs
  <2> QED
    BY Zenon, <2>1, <2>2
<1>3. Log(w, "uncertain", pending, Return(w, "reconcile"), Return(w, "reconcile"))
  BY Zenon DEF Uncertain
<1> HIDE DEF pending
<1> QED
  BY Zenon, <1>1, <1>2, <1>3, LogReturn DEF EventTypes, Claims, Outcomes

LEMMA FinishStep ==
    ASSUME Consistent, NEW w \in Workers, Finish(w)
    PROVE  Consistent'
<1> TypeOK /\ Position(w) /\ Behind(w)
  BY Zenon DEF Consistent
<1>1. pc[w] = "finish" /\ UNCHANGED <<db, runs>>
  BY Zenon DEF Finish, At
<1>2. \A s \in Executable(art[w]) : Row(w, s) = "confirmed"
  <2>1. art[w] \in Artifacts /\ phase[w] \in 1 .. Len(Phases[art[w]]) + 1
    BY Zenon DEF TypeOK
  <2>2. DOMAIN Phases[art[w]] = 1 .. phase[w] - 1
    BY <1>1, <2>1, PlanTyped DEF Position
  <2>3. Executable(art[w]) \subseteq Earlier(w)
    BY Zenon, <2>1, <2>2, ExecutableTyped DEF Executable, StepsOf, Earlier
  <2> QED
    BY Zenon, <2>3 DEF Behind, AllAre
<1>3. EventTrue(art[w], "completed", last[w])
  BY Zenon, <1>2 DEF EventTrue, Row
<1>4. last[w] \in Steps \cup {NoStep}
  BY Zenon DEF TypeOK
<1>5. Outside(w)
  BY Zenon, <1>1, <1>3, <1>4, Logged DEF Finish, Log, EventTypes
<1>6. \E r \in {"ok", "error", "partial"} : Return(w, r)
  BY Zenon DEF Finish, Log
<1> QED
  BY Zenon, <1>1, <1>5, <1>6, Returning DEF Outcomes

LEMMA SessionLossStep ==
    ASSUME Consistent, NEW w \in Workers, SessionLoss(w)
    PROVE  Consistent'
<1> TypeOK /\ LockHolder /\ Position(w) /\ Behind(w)
  BY Zenon DEF Consistent
<1>1. UNCHANGED <<db, audit, pc, locals, result, runs>> /\ Outside(w)
  BY Zenon, Silent DEF SessionLoss
<1>2. /\ session'[w] = FALSE
      /\ UNCHANGED <<pc, art, phase, idx, seen, last, history>>
  BY Zenon, <1>1 DEF SessionLoss, TypeOK, locals, db
<1>3. OwnFrame(w)
  BY Zenon, <1>2 DEF OwnFrame, SameView, SessionLoss, TypeOK
<1>4. TypeOK'
  BY Zenon, <1>1, <1>2 DEF TypeOK, SessionLoss, Outside, Tables, AuditTyped
<1>5. LockHolder'
  BY Zenon, <1>2, NamesAssumption DEF LockHolder, SessionLoss, TypeOK
<1>6. Position(w)' /\ Behind(w)' /\ Ahead(w)'
  <2>1. SameView(w) /\ UNCHANGED history
    BY Zenon, <1>2 DEF SameView
  <2>2. Position(w)' /\ Ahead(w)'
    BY <1>2, <2>1, ViewKept, Zenon DEF Position, Ahead
  <2>3. Behind(w)'
    BY <1>2, <2>1, ViewKept, RowKept, Zenon DEF Behind, AllAre
  <2> QED
    BY Zenon, <2>2, <2>3
<1> QED
  BY Zenon, <1>1, <1>3, <1>4, <1>5, <1>6, OtherFrames DEF Consistent, Outside, Tables

LEMMA CrashStep ==
    ASSUME Consistent, NEW w \in Workers, Crash(w)
    PROVE  Consistent'
  BY Zenon, Silent, Returning DEF Crash, Outcomes
=============================================================================
