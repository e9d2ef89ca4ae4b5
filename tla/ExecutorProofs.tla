--------------------------- MODULE ExecutorProofs ---------------------------
(***************************************************************************)
(* Proofs about the executor, for any number of workers and calls and any  *)
(* plans: Consistent is an inductive invariant of the specification, and   *)
(* the history, audit and phase-order guarantees follow from it.           *)
(***************************************************************************)
EXTENDS ExecutorPhases

-----------------------------------------------------------------------------
(* One lemma per action: ApplyAuthorized up to the first phase.            *)

LEMMA RequestStep ==
    ASSUME Consistent, NEW w \in Workers, NEW a \in Artifacts, Request(w, a)
    PROVE  Consistent'
<1> TypeOK /\ LockHolder /\ Position(w) /\ pc[w] = "idle"
  BY Zenon DEF Consistent, Request
<1>1. UNCHANGED <<db, lock, session, phase, idx, seen, last>>
  BY Zenon DEF Request
<1>2. AuditTyped' /\ AuditTruth'
  <2>1. UNCHANGED history /\ NoStep \in Steps \cup {NoStep}
        /\ "requested" \in EventTypes \ Claims
    BY Zenon, <1>1 DEF db, EventTypes, Claims
  <2>2. CASE Write(a, <<"requested", NoStep>>)
    BY Zenon, <2>1, <2>2, NoClaim, WriteTrue
  <2>3. CASE UNCHANGED audit
    BY Zenon, <2>1, <2>3, AuditKept DEF Forward
  <2> QED
    BY Zenon, <2>2, <2>3 DEF Request
<1>3. Outside(w)
  BY Zenon, <1>1, <1>2, Untouched
<1>4. OwnFrame(w)
  BY Zenon, <1>1 DEF OwnFrame, SameView, Request, TypeOK
<1>5. pc'[w] \in {"idle", "connect"} /\ art'[w] = a
      /\ phase'[w] = 1 /\ idx'[w] = 1 /\ seen'[w] = {}
  BY Zenon, <1>1 DEF Request, TypeOK, Position, PhasePcs
<1>6. TypeOK'
  <2>1. \A v \in Workers : phase'[v] \in 1 .. Len(Phases[art'[v]]) + 1
    <3>1. Len(Phases[a]) \in Nat
      BY Zenon, PlanTyped
    <3>2. phase'[w] \in 1 .. Len(Phases[art'[w]]) + 1
      BY <1>5, <3>1
    <3>3. \A v \in Workers \ {w} : phase'[v] \in 1 .. Len(Phases[art'[v]]) + 1
      BY Zenon, <1>4 DEF TypeOK, OwnFrame, SameView
    <3> QED
      BY Zenon, <3>2, <3>3
  <2>2. runs' \in Nat /\ art' \in [Workers -> Artifacts]
    BY DEF Request, TypeOK
  <2>3. "connect" \in Pcs /\ "none" \in Outcomes /\ "error" \in Outcomes
    BY Zenon DEF Pcs, Outcomes
  <2>4. pc' \in [Workers -> Pcs]
    <3>1. pc \in [Workers -> Pcs]
      BY Zenon DEF TypeOK
    <3>2. pc' = [pc EXCEPT ![w] = "connect"] \/ pc' = pc
      BY Zenon DEF Request
    <3> QED
      BY Zenon, <2>3, <3>1, <3>2
  <2>5. result' \in [Workers -> Outcomes]
    <3>1. result \in [Workers -> Outcomes]
      BY Zenon DEF TypeOK
    <3>2. result' = [result EXCEPT ![w] = "none"] \/ result' = [result EXCEPT ![w] = "error"]
      BY Zenon DEF Request
    <3> QED
      BY Zenon, <2>3, <3>1, <3>2
  <2> QED
    BY <1>1, <1>3, <2>1, <2>2, <2>4, <2>5, Zenon DEF TypeOK, Outside, Tables, AuditTyped
<1>7. LockHolder'
  BY Zenon, <1>1, <1>4, <1>5 DEF LockHolder, OwnFrame, HeldPcs, PhasePcs
<1>8. Position(w)' /\ Behind(w)' /\ Ahead(w)'
  <2>1. Earlier(w)' = {}
    BY <1>5 DEF Earlier
  <2> QED
    BY Zenon, <1>5, <2>1 DEF Position, Behind, Ahead, AllAre, PhasePcs, TxPcs, NontxPcs
<1> QED
  BY Zenon, <1>3, <1>4, <1>6, <1>7, <1>8, OtherFrames DEF Consistent, Outside, Tables

\* Outside the phases a call relies on nothing but where it stands.
LEMMA Outer ==
    ASSUME Consistent, NEW w \in Workers, SameView(w), UNCHANGED history,
           pc[w] \notin PhasePcs \cup {"idle", "finish"},
           pc'[w] \notin PhasePcs \cup {"idle", "finish"}
    PROVE  Position(w)' /\ Behind(w)' /\ Ahead(w)'
<1> Position(w) /\ Behind(w) /\ idx'[w] = idx[w] /\ art'[w] = art[w] /\ seen'[w] = seen[w]
  BY Zenon DEF Consistent, SameView
<1>1. Position(w)'
  BY Zenon DEF Position, PhasePcs, TxPcs, NontxPcs
<1>2. Behind(w)'
  BY ViewKept, RowKept DEF Behind, AllAre, PhasePcs, NontxPcs
<1>3. Ahead(w)'
  BY Zenon DEF Ahead, PhasePcs
<1> QED
  BY Zenon, <1>1, <1>2, <1>3

LEMMA ConnectStep ==
    ASSUME Consistent, NEW w \in Workers, Connect(w)
    PROVE  Consistent'
<1> TypeOK /\ LockHolder /\ Position(w) /\ Behind(w) /\ pc[w] = "connect"
  BY Zenon DEF Consistent, Connect, At
<1>1. UNCHANGED <<db, audit, runs>> /\ Outside(w)
  BY Zenon, Silent DEF Connect, At
<1>2. CASE Return(w, "error")
  BY Zenon, <1>1, <1>2, Returning DEF Outcomes
<1>3. CASE /\ pc' = [pc EXCEPT ![w] = "lock"]
           /\ session' = [session EXCEPT ![w] = TRUE]
           /\ UNCHANGED <<lock, result, locals>>
  <2>1. OwnFrame(w)
    BY Zenon, <1>3 DEF OwnFrame, SameView, locals, TypeOK
  <2>2. TypeOK'
    <3>1. "lock" \in Pcs
      BY Zenon DEF Pcs
    <3> QED
      BY Zenon, <1>1, <1>3, <3>1 DEF TypeOK, Outside, Tables, AuditTyped, locals
  <2>3. LockHolder'
    BY Zenon, <1>3 DEF LockHolder, TypeOK, HeldPcs, PhasePcs
  <2>4. pc'[w] = "lock" /\ SameView(w) /\ UNCHANGED history
    BY Zenon, <1>1, <1>3 DEF TypeOK, locals, db, SameView
  <2>5. Position(w)' /\ Behind(w)' /\ Ahead(w)'
    BY Zenon, <2>4, Outer DEF PhasePcs
  <2> QED
    BY Zenon, <1>1, <2>1, <2>2, <2>3, <2>5, OtherFrames DEF Consistent, Outside, Tables
<1> QED
  BY Zenon, <1>2, <1>3 DEF Connect

LEMMA TryLockStep ==
    ASSUME Consistent, NEW w \in Workers, TryLock(w)
    PROVE  Consistent'
<1> TypeOK /\ LockHolder /\ Position(w) /\ Behind(w) /\ pc[w] = "lock"
  BY Zenon DEF Consistent, TryLock, At
<1>1. UNCHANGED <<db, audit, runs>> /\ Outside(w)
  BY Zenon, Silent DEF TryLock, At
<1>2. PICK l \in {"locked", "contended"} :
         /\ pc' = [pc EXCEPT ![w] = l]
         /\ UNCHANGED <<session, result, locals>>
         /\ \/ l = "locked" /\ session[w] /\ lock = NoWorker /\ lock' = w
            \/ l = "contended" /\ UNCHANGED lock
  BY Zenon DEF TryLock, Goto, Jump
<1>3. OwnFrame(w)
  BY Zenon, <1>2 DEF OwnFrame, SameView, locals, TypeOK
<1>4. TypeOK'
  <2>1. l \in Pcs
    BY Zenon, <1>2 DEF Pcs, HeldPcs
  <2> QED
    BY Zenon, <1>1, <1>2, <2>1 DEF TypeOK, Outside, Tables, AuditTyped, locals
<1>5. LockHolder'
  <2>1. pc'[w] = l /\ session' = session
    BY Zenon, <1>2 DEF TypeOK
  <2>2. \A v \in Workers \ {w} : pc'[v] = pc[v]
    BY Zenon, <1>3 DEF OwnFrame
  <2>3. CASE l = "locked"
    BY <1>2, <2>1, <2>2, <2>3, NamesAssumption DEF LockHolder, HeldPcs
  <2>4. CASE l = "contended"
    BY Zenon, <1>2, <2>1, <2>2, <2>4 DEF LockHolder, HeldPcs, PhasePcs
  <2> QED
    BY Zenon, <1>2, <2>3, <2>4
<1>6. pc'[w] = l /\ SameView(w) /\ UNCHANGED history
  BY Zenon, <1>1, <1>2 DEF TypeOK, locals, db, SameView
<1>7. Position(w)' /\ Behind(w)' /\ Ahead(w)'
  BY Zenon, <1>6, Outer DEF PhasePcs
<1> QED
  BY Zenon, <1>1, <1>3, <1>4, <1>5, <1>7, OtherFrames DEF Consistent, Outside, Tables

\* Program points of a call that has not entered a phase yet.
Before == {"locked", "authorize", "inspect", "history"}

\* Between those points nothing is relied on but the plan position.
LEMMA GoingBefore ==
    ASSUME Consistent, NEW w \in Workers, NEW l \in Before,
           pc[w] \in Before, Goto(w, l), UNCHANGED <<db, runs>>, Outside(w)
    PROVE  Consistent'
<1> TypeOK
  BY Zenon DEF Consistent
<1>1. Position(w)' /\ Behind(w)' /\ Ahead(w)'
  BY Zenon, SameFrame, Outer DEF Before, PhasePcs, db
<1> QED
  BY Zenon, <1>1, Going DEF Before, HeldPcs

LEMMA ContendedStep ==
    ASSUME Consistent, NEW w \in Workers, Contended(w)
    PROVE  Consistent'
<1>1. PICK r \in {"busy", "error"} :
         Log(w, "contended", NoStep, Return(w, r), Return(w, "error"))
  BY Zenon DEF Contended
<1> QED
  BY Zenon, <1>1, LogReturn DEF Contended, At, EventTypes, Claims, Outcomes

LEMMA LockAcquiredStep ==
    ASSUME Consistent, NEW w \in Workers, LockAcquired(w)
    PROVE  Consistent'
<1>1. pc[w] = "locked" /\ UNCHANGED <<db, runs>>
  BY Zenon DEF LockAcquired, At
<1>2. Outside(w)
  BY Zenon, <1>1, Logged, NoClaim DEF LockAcquired, Log, EventTypes, Claims
<1>3. CASE Goto(w, "authorize")
  BY Zenon, <1>1, <1>2, <1>3, GoingBefore DEF Before
<1>4. CASE Return(w, "error")
  BY Zenon, <1>1, <1>2, <1>4, Returning DEF Outcomes
<1> QED
  BY Zenon, <1>3, <1>4 DEF LockAcquired, Log

LEMMA AuthorizeStep ==
    ASSUME Consistent, NEW w \in Workers, Authorize(w)
    PROVE  Consistent'
<1>1. pc[w] = "authorize" /\ UNCHANGED <<db, runs>>
  BY Zenon DEF Authorize, At
<1>2. CASE Goto(w, "inspect") /\ UNCHANGED audit
  BY Zenon, <1>1, <1>2, Silent, GoingBefore DEF Before
<1>3. ASSUME NEW refusal \in {"authorization_refused", "expiry_refused"},
             Log(w, refusal, NoStep, Return(w, "expired"), Return(w, "error"))
      PROVE  Consistent'
  BY Zenon, <1>1, <1>3, LogReturn DEF EventTypes, Claims, Outcomes
<1> QED
  BY Zenon, <1>2, <1>3 DEF Authorize

LEMMA InspectStep ==
    ASSUME Consistent, NEW w \in Workers, Inspect(w)
    PROVE  Consistent'
<1>1. pc[w] = "inspect" /\ UNCHANGED <<db, runs>>
  BY Zenon DEF Inspect, At
<1>2. ASSUME NEW r \in {"error", "noop"}, Return(w, r), UNCHANGED audit
      PROVE  Consistent'
  BY Zenon, <1>1, <1>2, Silent, Returning DEF Outcomes
<1>3. CASE Log(w, "stale", NoStep, Return(w, "stale"), Return(w, "error"))
  BY Zenon, <1>1, <1>3, LogReturn DEF EventTypes, Claims, Outcomes
<1>4. CASE Goto(w, "history") /\ UNCHANGED audit
  BY Zenon, <1>1, <1>4, Silent, GoingBefore DEF Before
<1> QED
  BY Zenon, <1>2, <1>3, <1>4 DEF Inspect

LEMMA ReadHistoryStep ==
    ASSUME Consistent, NEW w \in Workers, ReadHistory(w)
    PROVE  Consistent'
<1> DEFINE found == {s \in Steps : history[art[w]][s] = "confirmed"}
<1> TypeOK /\ Position(w) /\ Behind(w)
  BY Zenon DEF Consistent
<1>1. pc[w] = "history" /\ UNCHANGED <<db, runs>>
  BY Zenon DEF ReadHistory, At
<1>2. CASE Return(w, "error") /\ UNCHANGED audit
  BY Zenon, <1>1, <1>2, Silent, Returning DEF Outcomes
<1>3. CASE Log(w, "reconcile_refused", NoStep,
               Return(w, "reconcile"), Return(w, "error"))
  BY Zenon, <1>1, <1>3, LogReturn DEF EventTypes, Claims, Outcomes
<1>4. CASE /\ seen' = [seen EXCEPT ![w] = found]
           /\ Jump(w, "phase")
           /\ UNCHANGED <<audit, art, phase, idx, last>>
  <2>1. Outside(w)
    BY Zenon, <1>1, <1>4, Silent
  <2>2. OwnFrame(w) /\ LocalsTyped'
    BY Zenon, <1>4 DEF OwnFrame, SameView, Jump, TypeOK, LocalsTyped
  <2>3. /\ pc'[w] = "phase" /\ seen'[w] = found /\ UNCHANGED history
        /\ art'[w] = art[w] /\ phase'[w] = phase[w] /\ idx'[w] = idx[w]
    BY Zenon, <1>1, <1>4 DEF Jump, TypeOK, db
  <2>4. Position(w)' /\ Ahead(w)'
    BY Zenon, <1>1, <2>3 DEF Position, Ahead, PhasePcs, TxPcs, NontxPcs
  <2>5. Earlier(w)' = Earlier(w) /\ \A s : Row(w, s)' = Row(w, s)
    BY <2>3, RowKept, Zenon DEF Earlier
  <2>6. \A s \in found : Row(w, s) = "confirmed"
    BY Zenon DEF Row
  <2>7. Behind(w)'
    BY <2>3, <2>5, <2>6 DEF Behind, AllAre, NontxPcs
  <2> QED
    BY Zenon, <1>1, <1>4, <2>1, <2>2, <2>4, <2>7, Moving DEF HeldPcs
<1> QED
  BY Zenon, <1>2, <1>3, <1>4 DEF ReadHistory, ConfirmedRows

-----------------------------------------------------------------------------
(* The theorems.                                                           *)

LEMMA InitConsistent == Init => Consistent
<1> SUFFICES ASSUME Init PROVE Consistent
  BY Zenon
<1>1. TypeOK
  <2>1. \A a \in Artifacts : Len(Phases[a]) \in Nat
    BY Zenon, PlanTyped
  <2> QED
    BY <2>1, EffectsAssumption DEF Init, TypeOK, RowStates, Pcs, Outcomes
<1>2. LockHolder
  BY Zenon, NamesAssumption DEF Init, LockHolder, HeldPcs, PhasePcs
<1>3. AtMostOnce /\ HistoryTruth /\ AuditTruth
  BY DEF Init, AtMostOnce, HistoryTruth, AuditTruth
<1>4. PhaseOrder
  <2>1. \A a \in Artifacts : \A j \in DOMAIN Phases[a] :
            Range(Phases[a][j].steps) \subseteq Steps
    BY Zenon, PlanTyped
  <2> QED
    BY Zenon, <2>1 DEF Init, PhaseOrder
<1>5. \A w \in Workers : Earlier(w) = {}
  BY SMTT(30) DEF Init, Earlier
<1>6. \A w \in Workers : Position(w) /\ Behind(w) /\ Ahead(w)
  BY Zenon, <1>5 DEF Init, Position, Behind, Ahead, AllAre, PhasePcs, TxPcs, NontxPcs
<1> QED
  BY Zenon, <1>1, <1>2, <1>3, <1>4, <1>6 DEF Consistent

\* Every step of ApplyAuthorized, every crash and every lost session keeps the
\* tables, the audit file, the lock and the frames of the calls consistent.
LEMMA NextConsistent == Consistent /\ [Next]_vars => Consistent'
<1> SUFFICES ASSUME Consistent, [Next]_vars PROVE Consistent'
  BY Zenon
<1>1. ASSUME NEW w \in Workers, NEW a \in Artifacts, Request(w, a)
      PROVE  Consistent'
  BY Zenon, <1>1, RequestStep
<1>2. ASSUME NEW w \in Workers, Step(w)
      PROVE  Consistent'
  BY Zenon, <1>2, ConnectStep, TryLockStep, ContendedStep, LockAcquiredStep,
     AuthorizeStep, InspectStep, ReadHistoryStep, EnterPhaseStep, BeginStep,
     RunTransactionStep, CommitStep, RollbackStep, AuditCommittedStep,
     AuditPhaseConfirmedStep, IntendStep, AuditIntentStep, ExecStep,
     ConfirmStep, UpdateConfirmedStep, ReadbackStep, AuditConfirmedStep,
     UncertainStep, FinishStep
     DEF Step
<1>3. ASSUME NEW w \in Workers, SessionLoss(w) \/ Crash(w)
      PROVE  Consistent'
  BY Zenon, <1>3, SessionLossStep, CrashStep
<1>4. CASE UNCHANGED vars
  <2>1. TypeOK' /\ LockHolder'
    BY Zenon, <1>4 DEF vars, Consistent, TypeOK, LockHolder
  <2>2. AtMostOnce' /\ HistoryTruth' /\ PhaseOrder'
    BY SMTT(30), <1>4 DEF vars, Consistent, AtMostOnce, HistoryTruth, PhaseOrder
  <2>3. AuditTruth'
    BY Zenon, <1>4 DEF vars, Consistent, AuditTruth, EventTrue
  <2>4. ASSUME NEW w \in Workers PROVE Position(w)' /\ Behind(w)' /\ Ahead(w)'
    <3>1. SameView(w) /\ UNCHANGED <<history, execs, pc, session, phase, idx, seen, art>>
      BY Zenon, <1>4 DEF vars, SameView
    <3>2. Position(w) /\ Behind(w) /\ Ahead(w)
      BY Zenon DEF Consistent
    <3>3. Position(w)'
      BY Zenon, <3>1, <3>2, ViewKept DEF Position
    <3>4. Behind(w)'
      BY Zenon, <3>1, <3>2, ViewKept, RowKept DEF Behind, AllAre
    <3>5. Ahead(w)'
      BY Zenon, <3>1, <3>2, ViewKept, RowKept DEF Ahead, AllAre, Runs
    <3> QED
      BY Zenon, <3>3, <3>4, <3>5
  <2> QED
    BY Zenon, <2>1, <2>2, <2>3, <2>4 DEF Consistent
<1> QED
  BY Zenon, <1>1, <1>2, <1>3, <1>4 DEF Next, Done

\* Consistent holds in every reachable state of the executor.
THEOREM AlwaysConsistent == SafetySpec => []Consistent
  BY InitConsistent, NextConsistent, PTL DEF SafetySpec

\* Every variable keeps its type; in particular a worker's phase index always
\* belongs to the plan it applies.
THEOREM TypeCorrect == SafetySpec => []TypeOK
<1>1. Consistent => TypeOK
  BY Zenon DEF Consistent
<1> QED
  BY <1>1, AlwaysConsistent, PTL

\* The SQL of a step takes effect at most once, over any number of retries,
\* crashes, lost sessions and competing workers.
THEOREM ExecutedAtMostOnce == SafetySpec => []AtMostOnce
<1>1. Consistent => AtMostOnce
  BY Zenon DEF Consistent
<1> QED
  BY <1>1, AlwaysConsistent, PTL

\* A confirmed history row means that the SQL of its step ran, and no SQL runs
\* without leaving a row.
THEOREM HistoryIsTrue == SafetySpec => []HistoryTruth
<1>1. Consistent => HistoryTruth
  BY Zenon DEF Consistent
<1> QED
  BY <1>1, AlwaysConsistent, PTL

\* No step of a phase is recorded before all earlier phases are confirmed.
THEOREM PhasesInOrder == SafetySpec => []PhaseOrder
<1>1. Consistent => PhaseOrder
  BY Zenon DEF Consistent
<1> QED
  BY <1>1, AlwaysConsistent, PTL

\* The lifecycle audit never claims more than the history table holds.
THEOREM AuditIsTrue == SafetySpec => []AuditTruth
<1>1. Consistent => AuditTruth
  BY Zenon DEF Consistent
<1> QED
  BY <1>1, AlwaysConsistent, PTL

-----------------------------------------------------------------------------
(* One lineage.                                                            *)

\* Nothing has run for an artifact that is not before a in rank, but a itself.
Latest(a, rank) == \A b \in Artifacts : Executed(b) # {} => b = a \/ rank[b] < rank[a]

\* Program points after the comparison of the live schema with the source.
Matched == {"history", "phase", "finish"} \cup PhasePcs

\* The schema is what the latest artifact made of its source, and a worker that
\* has compared it applies that artifact.
Lineage(rank) ==
    /\ \A a \in Artifacts : Executed(a) \subseteq Executable(a)
    /\ \E c \in Artifacts :
          /\ schema = After(From[c], Executed(c)) /\ Latest(c, rank)
          /\ Executed(c) = {} => \A b \in Artifacts : Executed(b) = {}
    /\ \A w \in Workers : session[w] /\ pc[w] \in Matched =>
          schema = After(From[art[w]], Executed(art[w])) /\ Latest(art[w], rank)

\* Running more steps of a plan adds their effect.
LEMMA Composed ==
    ASSUME SeparateSteps, NEW a \in Artifacts, NEW S \in SUBSET Executable(a),
           NEW T \in SUBSET Executable(a), S \cap T = {}, NEW st
    PROVE  After(After(st, S), T) = After(st, S \cup T)
<1>1. \A s \in S, t \in T : Adds[s] \cap Drops[t] = {}
  BY Zenon DEF SeparateSteps
<1> QED
  BY <1>1 DEF After

\* The steps a phase executes are executable steps of the artifact.
LEMMA BatchExecutable ==
    ASSUME TypeOK, NEW w \in Workers, phase[w] <= Len(Phases[art[w]])
    PROVE  Batch(w) \subseteq Executable(art[w])
<1>1. phase[w] \in DOMAIN Phases[art[w]]
  BY Zenon, PhaseTyped
<1> QED
  BY Zenon, <1>1 DEF Batch, Executable, StepsOf, CurrentPhase

\* SQL runs in a commit or a statement of the lock holder, and for the first time.
LEMMA FirstRun ==
    ASSUME Consistent, [Next]_vars
    PROVE  \/ UNCHANGED <<schema, execs>>
           \/ \E w \in Workers : \E B \in SUBSET Executable(art[w]) :
                 /\ session[w] /\ pc[w] \in {"commit", "exec"} /\ lock = w
                 /\ Execute(w, B) /\ \A s \in B : execs[art[w]][s] = 0
<1> DEFINE Goal == \E w \in Workers : \E B \in SUBSET Executable(art[w]) :
                 /\ session[w] /\ pc[w] \in {"commit", "exec"} /\ lock = w
                 /\ Execute(w, B) /\ \A s \in B : execs[art[w]][s] = 0
<1>1. ASSUME NEW w \in Workers, Commit(w), ~UNCHANGED <<schema, execs>> PROVE Goal
  <2>1. pc[w] = "commit" /\ session[w] /\ Execute(w, Batch(w))
    BY Zenon, <1>1 DEF Commit, At, Apply, db
  <2>2. TypeOK /\ HistoryTruth /\ Position(w) /\ Ahead(w) /\ lock = w
    BY Zenon, <2>1, Holder DEF Consistent, PhasePcs
  <2>3. phase[w] <= Len(Phases[art[w]]) /\ AllAre(w, Batch(w), "none")
    BY Zenon, <2>1, <2>2 DEF Position, Ahead, PhasePcs
  <2>4. Batch(w) \subseteq Executable(art[w]) /\ Batch(w) \subseteq Steps
    BY Zenon, <2>2, <2>3, BatchExecutable, PhaseTyped
  <2>5. \A s \in Batch(w) : execs[art[w]][s] = 0
    <3>1. art[w] \in Artifacts /\ \A s \in Steps : execs[art[w]][s] \in Nat
      BY Zenon, <2>2 DEF TypeOK
    <3> QED
      BY <2>2, <2>3, <2>4, <3>1 DEF HistoryTruth, AllAre, Row
  <2> QED
    BY Zenon, <2>1, <2>2, <2>4, <2>5
<1>2. ASSUME NEW w \in Workers, Exec(w), ~UNCHANGED <<schema, execs>> PROVE Goal
  <2>1. pc[w] = "exec" /\ session[w] /\ Execute(w, {CurrentStep(w)})
    BY Zenon, <1>2 DEF Exec, At
  <2>2. TypeOK /\ Position(w) /\ Ahead(w) /\ lock = w
    BY Zenon, <2>1, Holder DEF Consistent, PhasePcs
  <2>3. /\ phase[w] <= Len(Phases[art[w]]) /\ CurrentStep(w) \in Batch(w)
        /\ execs[art[w]][CurrentStep(w)] = 0
    BY Zenon, <2>1, <2>2 DEF Position, Ahead, PhasePcs, NontxPcs, Runs
  <2>4. Batch(w) \subseteq Executable(art[w])
    BY Zenon, <2>2, <2>3, BatchExecutable
  <2> QED
    BY SMTT(30), <2>1, <2>2, <2>3, <2>4
<1>3. ASSUME NEW w \in Workers,
             Connect(w) \/ TryLock(w) \/ Contended(w) \/ LockAcquired(w)
             \/ Authorize(w) \/ Inspect(w) \/ ReadHistory(w) \/ EnterPhase(w)
             \/ Begin(w) \/ RunTransaction(w) \/ Rollback(w)
             \/ AuditCommitted(w) \/ AuditPhaseConfirmed(w)
      PROVE  UNCHANGED <<schema, execs>>
  BY Zenon, <1>3 DEF Connect, TryLock, Contended, LockAcquired, Authorize, Inspect,
     ReadHistory, EnterPhase, Begin, RunTransaction, Rollback, AuditCommitted,
     AuditPhaseConfirmed, db
<1>4. ASSUME NEW w \in Workers,
             Intend(w) \/ AuditIntent(w) \/ Confirm(w) \/ UpdateConfirmed(w)
             \/ Readback(w) \/ AuditConfirmed(w) \/ Uncertain(w) \/ Finish(w)
             \/ SessionLoss(w) \/ Crash(w) \/ \E a \in Artifacts : Request(w, a)
      PROVE  UNCHANGED <<schema, execs>>
  BY Zenon, <1>4 DEF Intend, AuditIntent, Confirm, UpdateConfirmed, Readback,
     AuditConfirmed, Uncertain, Finish, SessionLoss, Crash, Request, db
<1>5. CASE UNCHANGED vars
  BY Zenon, <1>5 DEF vars
<1> QED
  BY Zenon, <1>1, <1>2, <1>3, <1>4, <1>5 DEF Next, Step, Done

\* A worker is past the comparison when it was, or when it finds the source of
\* its artifact.
LEMMA Passing ==
    ASSUME Consistent, [Next]_vars, NEW w \in Workers, session'[w], pc'[w] \in Matched
    PROVE  /\ session[w] /\ art'[w] = art[w]
           /\ \/ pc[w] \in Matched
              \/ schema = From[art[w]] /\ UNCHANGED <<schema, execs>>
<1> DEFINE Goal == /\ session[w] /\ art'[w] = art[w]
                   /\ \/ pc[w] \in Matched
                      \/ schema = From[art[w]] /\ UNCHANGED <<schema, execs>>
<1> TypeOK
  BY Zenon DEF Consistent
<1>1. ASSUME NEW v \in Workers, NEW r, Return(v, r) PROVE Goal
  BY Zenon, <1>1 DEF Return, TypeOK
<1>2. ASSUME NEW v \in Workers, NEW l, Jump(v, l), UNCHANGED art,
             pc[v] \in Matched \/ l \notin Matched
      PROVE  Goal
  BY Zenon, <1>2 DEF Jump, TypeOK
<1>3. ASSUME NEW v \in Workers, Connect(v) \/ TryLock(v) PROVE Goal
  <2>1. CASE \E r : Return(v, r)
    BY Zenon, <1>1, <2>1
  <2>2. CASE \E l \in {"lock", "locked", "contended"} : pc' = [pc EXCEPT ![v] = l]
             /\ (UNCHANGED session \/ session' = [session EXCEPT ![v] = TRUE])
             /\ UNCHANGED art
    BY Zenon, <2>2 DEF TypeOK, Matched, PhasePcs
  <2> QED
    BY Zenon, <1>3, <2>1, <2>2 DEF Connect, TryLock, Goto, Jump, locals
<1>4. ASSUME NEW v \in Workers, Contended(v) \/ LockAcquired(v) \/ Authorize(v) PROVE Goal
  <2>1. (\E r : Return(v, r)) \/ \E l \in {"authorize", "inspect"} : Goto(v, l)
    BY Zenon, <1>4 DEF Contended, LockAcquired, Authorize, Log
  <2> QED
    BY Zenon, <1>1, <1>2, <2>1 DEF Goto, locals, Matched, PhasePcs
<1>5. ASSUME NEW v \in Workers, Inspect(v) PROVE Goal
  <2>1. CASE Goto(v, "history") /\ schema = From[art[v]]
    <3>1. UNCHANGED <<schema, execs>>
      BY Zenon, <1>5 DEF Inspect, db
    <3> QED
      BY Zenon, <2>1, <3>1 DEF Goto, Jump, locals, TypeOK
  <2>2. Return(v, "error") \/ Return(v, "noop") \/ Return(v, "stale")
        \/ (Goto(v, "history") /\ schema = From[art[v]])
    BY Zenon, <1>5 DEF Inspect, Log
  <2> QED
    BY Zenon, <1>1, <2>1, <2>2
<1>6. ASSUME NEW v \in Workers,
             ReadHistory(v) \/ EnterPhase(v) \/ Begin(v) \/ RunTransaction(v) \/ Commit(v)
             \/ Rollback(v) \/ AuditCommitted(v) \/ AuditPhaseConfirmed(v)
      PROVE  Goal
  <2>1. (\E r : Return(v, r)) \/ \E l : Jump(v, l) /\ UNCHANGED art
    BY Zenon, <1>6 DEF ReadHistory, EnterPhase, Begin, RunTransaction, Commit,
       Committed, Rollback, AuditCommitted, AuditPhaseConfirmed, Log, Goto, Advance,
       NextPhase, locals
  <2>2. pc[v] \in Matched
    BY Zenon, <1>6 DEF ReadHistory, EnterPhase, Begin, RunTransaction, Commit,
       Rollback, AuditCommitted, AuditPhaseConfirmed, At, Matched, PhasePcs
  <2> QED
    BY Zenon, <1>1, <1>2, <2>1, <2>2
<1>7. ASSUME NEW v \in Workers,
             Intend(v) \/ AuditIntent(v) \/ Exec(v) \/ Confirm(v) \/ UpdateConfirmed(v)
             \/ Readback(v) \/ AuditConfirmed(v) \/ Uncertain(v) \/ Finish(v)
      PROVE  Goal
  <2>1. (\E r : Return(v, r)) \/ \E l : Jump(v, l) /\ UNCHANGED art
    BY Zenon, <1>7 DEF Intend, AuditIntent, Exec, Confirm, UpdateConfirmed,
       Readback, AuditConfirmed, Uncertain, Finish, Log, Goto, Advance, NextPhase,
       locals
  <2>2. pc[v] \in Matched
    BY Zenon, <1>7 DEF Intend, AuditIntent, Exec, Confirm, UpdateConfirmed,
       Readback, AuditConfirmed, Uncertain, Finish, At, Matched, PhasePcs
  <2> QED
    BY Zenon, <1>1, <1>2, <2>1, <2>2
<1>8. ASSUME NEW v \in Workers, Crash(v) \/ SessionLoss(v) PROVE Goal
  <2>1. CASE Crash(v)
    BY Zenon, <1>1, <2>1 DEF Crash
  <2>2. CASE SessionLoss(v)
    BY Zenon, <2>2 DEF SessionLoss, TypeOK, locals
  <2> QED
    BY Zenon, <1>8, <2>1, <2>2
<1>9. ASSUME NEW v \in Workers, NEW a \in Artifacts, Request(v, a) PROVE Goal
  <2>1. pc[v] = "idle" /\ pc'[v] \in {"idle", "connect"} /\ session' = session
        /\ (w # v => pc'[w] = pc[w] /\ art'[w] = art[w])
    BY Zenon, <1>9 DEF Request, TypeOK
  <2> QED
    BY Zenon, <2>1 DEF Matched, PhasePcs
<1>10. CASE UNCHANGED vars
  BY Zenon, <1>10 DEF vars
<1> QED
  BY Zenon, <1>3, <1>4, <1>5, <1>6, <1>7, <1>8, <1>9, <1>10 DEF Next, Step, Done

\* Onward releases keep one lineage.
LEMMA LineageStep ==
    ASSUME NEW rank, Onward(rank), SeparateSteps, Consistent, Lineage(rank), [Next]_vars
    PROVE  Lineage(rank)'
<1> TypeOK /\ LockHolder
  BY Zenon DEF Consistent
<1>1. PICK c \in Artifacts :
          /\ schema = After(From[c], Executed(c)) /\ Latest(c, rank)
          /\ Executed(c) = {} => \A b \in Artifacts : Executed(b) = {}
  BY Zenon DEF Lineage
<1>2. ASSUME NEW a \in Artifacts, schema = From[a]
      PROVE  schema = After(From[a], Executed(a)) /\ Latest(a, rank)
  <2>1. CASE Executed(c) = {}
    <3>1. Executed(a) = {}
      BY Zenon, <1>1, <2>1
    <3> QED
      BY Zenon, <1>1, <1>2, <2>1, <3>1 DEF After, Latest
  <2>2. CASE Executed(c) # {}
    <3>1. Executed(c) \in SUBSET Executable(c)
      BY Zenon DEF Lineage
    <3>2. rank[c] < rank[a] /\ \A b \in Artifacts : rank[b] \in Nat
      BY Zenon, <1>1, <1>2, <2>2, <3>1 DEF Onward
    <3>3. \A b \in Artifacts : Executed(b) # {} => rank[b] < rank[a]
      BY <1>1, <3>2 DEF Latest
    <3>4. Executed(a) = {}
      BY SMTT(30), <3>2, <3>3
    <3> QED
      BY Zenon, <1>2, <3>3, <3>4 DEF After, Latest
  <2> QED
    BY Zenon, <2>1, <2>2
<1>3. CASE UNCHANGED <<schema, execs>>
  <2>1. \A a : Executed(a)' = Executed(a)
    BY Zenon, <1>3 DEF Executed
  <2>2. \A a \in Artifacts : Latest(a, rank)' <=> Latest(a, rank)
    BY Zenon, <2>1 DEF Latest
  <2>3. ASSUME NEW w \in Workers, session'[w], pc'[w] \in Matched
        PROVE  schema = After(From[art'[w]], Executed(art'[w])) /\ Latest(art'[w], rank)
    <3>1. art[w] \in Artifacts
      BY Zenon DEF TypeOK
    <3>2. /\ session[w] /\ art'[w] = art[w]
          /\ pc[w] \in Matched \/ schema = From[art[w]]
      BY Zenon, <2>3, Passing
    <3>3. schema = After(From[art[w]], Executed(art[w])) /\ Latest(art[w], rank)
      BY Zenon, <1>2, <3>1, <3>2 DEF Lineage
    <3> QED
      BY Zenon, <3>2, <3>3
  <2>4. \A a \in Artifacts : Executed(a)' \subseteq Executable(a)
    BY Zenon, <2>1 DEF Lineage
  <2>5. \E d \in Artifacts :
           /\ schema' = After(From[d], Executed(d)') /\ Latest(d, rank)'
           /\ Executed(d)' = {} => \A b \in Artifacts : Executed(b)' = {}
    BY Zenon, <1>1, <1>3, <2>1, <2>2
  <2>6. ASSUME NEW v \in Workers, session'[v], pc'[v] \in Matched
        PROVE  schema' = After(From[art'[v]], Executed(art[v])') /\ Latest(art[v], rank)'
    BY Zenon, <1>3, <2>3, <2>6 DEF Executed, Latest
  <2> QED
    BY Zenon, <2>4, <2>5, <2>6 DEF Lineage
<1>4. CASE ~UNCHANGED <<schema, execs>>
  <2>1. PICK w \in Workers : \E B \in SUBSET Executable(art[w]) :
                /\ session[w] /\ pc[w] \in {"commit", "exec"} /\ lock = w
                /\ Execute(w, B) /\ \A s \in B : execs[art[w]][s] = 0
    BY Zenon, <1>4, FirstRun
  <2>2. PICK B \in SUBSET Executable(art[w]) :
                Execute(w, B) /\ \A s \in B : execs[art[w]][s] = 0
    BY Zenon, <2>1
  <2>0. PICK a \in Artifacts : a = art[w]
    BY Zenon DEF TypeOK
  <2>3. /\ B \subseteq Steps /\ B \subseteq Executable(a)
        /\ \A b \in Artifacts : \A s \in Steps : execs[b][s] \in Nat
    <3>1. Executable(a) \subseteq Steps
      BY Zenon, PlanTyped DEF Executable, StepsOf
    <3> QED
      BY <2>0, <2>2, <3>1 DEF TypeOK
  <2>4. schema = After(From[a], Executed(a)) /\ Latest(a, rank)
    BY Zenon, <2>0, <2>1 DEF Lineage, Matched, PhasePcs
  <2>5. /\ Executed(a)' = Executed(a) \cup B
        /\ \A b \in Artifacts : b # a => Executed(b)' = Executed(b)
    <3>1. \A b \in Artifacts : \A s \in Steps :
            execs'[b][s] = IF b = a /\ s \in B THEN execs[b][s] + 1 ELSE execs[b][s]
      BY Zenon, <2>0, <2>2 DEF Execute, TypeOK
    <3> QED
      BY SMTT(30), <2>3, <3>1 DEF Executed
  <2>6. Executed(a) \cap B = {} /\ Executed(a) \in SUBSET Executable(a)
    BY <2>0, <2>2, <2>3, SMTT(30) DEF Executed, Lineage
  <2>7. schema' = After(From[a], Executed(a)')
    <3>1. schema' = After(schema, B)
      BY Zenon, <2>2 DEF Execute
    <3> QED
      BY SMTT(30), <2>3, <2>4, <2>5, <2>6, <3>1, Composed
  <2>8. Latest(a, rank)'
    BY Zenon, <2>4, <2>5 DEF Latest
  <2>9. Executed(a)' = {} => \A b \in Artifacts : Executed(b)' = {}
    <3>1. CASE B # {}
      BY Zenon, <2>5, <3>1
    <3>2. CASE B = {}
      <4>1. schema' = schema
        BY Zenon, <2>2, <3>2 DEF Execute, After
      <4>2. execs' = execs
        BY SMTT(30), <2>0, <2>2, <3>2 DEF Execute, TypeOK
      <4> QED
        BY Zenon, <1>4, <4>1, <4>2
    <3> QED
      BY Zenon, <3>1, <3>2
  <2>10. ASSUME NEW v \in Workers, session'[v], pc'[v] \in Matched
         PROVE  art'[v] = a
    <3>1. /\ session[v] /\ art'[v] = art[v]
          /\ pc[v] \in Matched \/ UNCHANGED <<schema, execs>>
      BY Zenon, <2>10, Passing
    <3>2. lock = v
      BY Zenon, <1>4, <3>1 DEF LockHolder, HeldPcs, Matched
    <3> QED
      BY Zenon, <2>0, <2>1, <3>1, <3>2
  <2>11. \A b \in Artifacts : Executed(b)' \subseteq Executable(b)
    BY Zenon, <2>3, <2>5, <2>6 DEF Lineage
  <2>12. \E d \in Artifacts :
           /\ schema' = After(From[d], Executed(d)') /\ Latest(d, rank)'
           /\ Executed(d)' = {} => \A b \in Artifacts : Executed(b)' = {}
    BY Zenon, <2>7, <2>8, <2>9
  <2>13. ASSUME NEW v \in Workers, session'[v], pc'[v] \in Matched
         PROVE  schema' = After(From[art'[v]], Executed(art[v])') /\ Latest(art[v], rank)'
    BY Zenon, <2>7, <2>8, <2>10, <2>13 DEF Executed, Latest
  <2> QED
    BY Zenon, <2>11, <2>12, <2>13 DEF Lineage
<1> QED
  BY Zenon, <1>3, <1>4

\* SingleLineage for every set of workers, plans and bounds: the schema is always
\* one artifact's source with some of that artifact's steps run, provided the
\* schema starts as a source, the steps of a plan undo nothing of each other, and
\* the releases go onward (what a started artifact makes is no source of an
\* artifact of the same or a lower rank).
THEOREM OneLineage ==
    ASSUME NEW rank, Onward(rank), SeparateSteps, Initial \in {From[a] : a \in Artifacts}
    PROVE  SafetySpec => []SingleLineage
<1>1. ASSUME Init PROVE Lineage(rank)
  <2>1. \A a \in Artifacts : Executed(a) = {}
    BY <1>1 DEF Init, Executed
  <2>2. PICK c \in Artifacts : schema = From[c]
    BY Zenon, <1>1 DEF Init
  <2>3. schema = After(From[c], Executed(c)) /\ Latest(c, rank)
    BY Zenon, <2>1, <2>2 DEF After, Latest
  <2>4. \A w \in Workers : pc[w] \notin Matched
    BY Zenon, <1>1 DEF Init, Matched, PhasePcs
  <2> QED
    BY Zenon, <2>1, <2>3, <2>4 DEF Lineage
<1>2. Consistent /\ Lineage(rank) /\ [Next]_vars => Lineage(rank)'
  BY Zenon, LineageStep
<1>3. Lineage(rank) => SingleLineage
  BY Zenon DEF Lineage, SingleLineage
<1> QED
  BY <1>1, <1>2, <1>3, AlwaysConsistent, PTL DEF SafetySpec

=============================================================================
