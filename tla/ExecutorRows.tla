---------------------------- MODULE ExecutorRows ----------------------------
(***************************************************************************)
(* Proof blocks for the executor: what a step of one worker leaves to the  *)
(* other workers; how an append to the audit file, a return, a jump and a  *)
(* move through the steps of a phase preserve Consistent; and what         *)
(* inserting, confirming and running steps does to the tables.             *)
(***************************************************************************)
EXTENDS Executor, TLAPS

-----------------------------------------------------------------------------
(* The plan.                                                               *)

\* An element of a sequence over S is in S.
LEMMA ElementOf ==
    ASSUME NEW S, NEW q \in Seq(S), NEW i \in 1 .. Len(q)
    PROVE  q[i] \in S /\ i \in DOMAIN q
  OBVIOUS

\* Appending an element of S keeps a sequence over S.
LEMMA AppendTyped ==
    ASSUME NEW S, NEW q \in Seq(S), NEW x \in S
    PROVE  Append(q, x) \in Seq(S)
  OBVIOUS

\* The phases of a plan are well formed.
LEMMA PlanTyped ==
    ASSUME NEW a \in Artifacts
    PROVE  /\ Len(Phases[a]) \in Nat /\ DOMAIN Phases[a] = 1 .. Len(Phases[a])
           /\ \A i \in 1 .. Len(Phases[a]) :
                 /\ Phases[a][i] \in PhaseType
                 /\ Range(Phases[a][i].steps) \subseteq Steps
<1>1. Phases[a] \in Seq(PhaseType)
  BY Zenon, PhasesAssumption
<1>2. Len(Phases[a]) \in Nat /\ DOMAIN Phases[a] = 1 .. Len(Phases[a])
  BY <1>1
<1>3. ASSUME NEW i \in 1 .. Len(Phases[a])
      PROVE  Phases[a][i] \in PhaseType /\ Range(Phases[a][i].steps) \subseteq Steps
  <2>1. Phases[a][i] \in PhaseType
    BY Zenon, <1>1, ElementOf
  <2> QED
    BY <2>1 DEF PhaseType, Range
<1> QED
  BY Zenon, <1>2, <1>3

\* The steps of a plan are steps.
LEMMA ExecutableTyped ==
    ASSUME NEW a \in Artifacts
    PROVE  Executable(a) \subseteq Steps
  BY Zenon, PlanTyped DEF Executable, StepsOf

\* A worker inside a phase has a well-formed phase of its plan in front of it.
LEMMA PhaseTyped ==
    ASSUME TypeOK, NEW w \in Workers, phase[w] <= Len(Phases[art[w]])
    PROVE  /\ CurrentPhase(w) \in PhaseType
           /\ CurrentPhase(w).steps \in Seq(Steps)
           /\ phase[w] \in DOMAIN Phases[art[w]]
           /\ Batch(w) \subseteq Steps
<1>1. art[w] \in Artifacts /\ phase[w] \in 1 .. Len(Phases[art[w]])
  BY DEF TypeOK
<1>2. CurrentPhase(w) \in PhaseType /\ Range(CurrentPhase(w).steps) \subseteq Steps
  BY Zenon, <1>1, PlanTyped DEF CurrentPhase
<1> QED
  BY Zenon, <1>1, <1>2, PlanTyped DEF PhaseType, Batch

\* The current step is a step of the current phase.
LEMMA StepTyped ==
    ASSUME TypeOK, NEW w \in Workers, phase[w] <= Len(Phases[art[w]]),
           ~PhaseEnded(w)
    PROVE  /\ idx[w] \in 1 .. Len(CurrentPhase(w).steps)
           /\ CurrentStep(w) \in Steps
<1>1. CurrentPhase(w).steps \in Seq(Steps)
  BY Zenon, PhaseTyped
<1>2. idx[w] \in 1 .. Len(CurrentPhase(w).steps)
  BY <1>1 DEF TypeOK, PhaseEnded
<1> QED
  BY Zenon, <1>1, <1>2, ElementOf DEF CurrentStep

\* The steps a frame speaks about are steps.
LEMMA FrameTyped ==
    ASSUME TypeOK, NEW w \in Workers
    PROVE  seen[w] \subseteq Steps /\ Earlier(w) \subseteq Steps
<1>1. art[w] \in Artifacts /\ phase[w] \in 1 .. Len(Phases[art[w]]) + 1
  BY Zenon DEF TypeOK
<1>2. 1 .. phase[w] - 1 \subseteq 1 .. Len(Phases[art[w]])
  BY <1>1, PlanTyped
<1>3. Earlier(w) \subseteq Steps
  BY Zenon, <1>1, <1>2, PlanTyped DEF Earlier
<1> QED
  BY Zenon, <1>3 DEF TypeOK

-----------------------------------------------------------------------------
(* What a step of worker w leaves to the others.                           *)

\* The plan position of v, and all that depends on nothing else.
SameView(v) ==
    /\ art'[v] = art[v] /\ phase'[v] = phase[v]
    /\ idx'[v] = idx[v] /\ seen'[v] = seen[v]

\* Only the frame of worker w changes.
OwnFrame(w) ==
    \A v \in Workers \ {w} :
        SameView(v) /\ pc'[v] = pc[v] /\ session'[v] = session[v]

\* Rows only move forward.
Forward ==
    \A a \in Artifacts, s \in Steps :
        /\ history[a][s] = "confirmed" => history'[a][s] = "confirmed"
        /\ history[a][s] # "none" => history'[a][s] # "none"

\* A step that changes rows or runs SQL is one of the lock holder.
Guarded(w) == UNCHANGED <<history, execs>> \/ lock = w

LEMMA ViewKept ==
    ASSUME NEW v, SameView(v)
    PROVE  /\ CurrentPhase(v)' = CurrentPhase(v)
           /\ CurrentStep(v)' = CurrentStep(v)
           /\ Batch(v)' = Batch(v) /\ Passed(v)' = Passed(v)
           /\ Earlier(v)' = Earlier(v)
           /\ PhaseEnded(v)' = PhaseEnded(v)
  BY Zenon DEF SameView, CurrentPhase, CurrentStep, Batch, Passed, Earlier, PhaseEnded

\* Confirmed rows stay confirmed, rows that exist stay.
LEMMA RowForward ==
    ASSUME TypeOK, NEW v \in Workers, Forward, art'[v] = art[v]
    PROVE  /\ \A s \in Steps : Row(v, s) = "confirmed" => Row(v, s)' = "confirmed"
           /\ \A s \in Steps : Row(v, s) # "none" => Row(v, s)' # "none"
  BY Zenon DEF TypeOK, Forward, Row

LEMMA AllForward ==
    ASSUME TypeOK, NEW v \in Workers, Forward, art'[v] = art[v],
           NEW S \in SUBSET Steps, AllAre(v, S, "confirmed")
    PROVE  \A s \in S : Row(v, s)' = "confirmed"
  BY Zenon, RowForward DEF AllAre

LEMMA RowKept ==
    ASSUME NEW v, UNCHANGED history, art'[v] = art[v]
    PROVE  \A s : Row(v, s)' = Row(v, s)
  BY Zenon DEF Row

\* The frames of the other workers stay consistent: rows they rely on without
\* a session only move forward, and the others change under the lock.
LEMMA OtherFrames ==
    ASSUME Consistent, NEW w \in Workers, OwnFrame(w), Forward, Guarded(w),
           NEW v \in Workers, v # w
    PROVE  Position(v)' /\ Behind(v)' /\ Ahead(v)'
<1> TypeOK /\ Position(v) /\ Behind(v) /\ Ahead(v)
  BY Zenon DEF Consistent
<1>1. SameView(v) /\ pc'[v] = pc[v] /\ session'[v] = session[v]
  BY Zenon DEF OwnFrame
<1>2. /\ art'[v] = art[v] /\ phase'[v] = phase[v]
      /\ idx'[v] = idx[v] /\ seen'[v] = seen[v]
  BY Zenon, <1>1 DEF SameView
<1>3. Position(v)'
  BY Zenon, <1>1, <1>2, ViewKept DEF Position
<1>4. Behind(v)'
  <2>1. /\ \A s \in seen[v] : Row(v, s)' = "confirmed"
        /\ \A s \in Earlier(v) : Row(v, s)' = "confirmed"
    BY Zenon, <1>2, FrameTyped, AllForward DEF Behind
  <2>2. pc[v] \in PhasePcs => Batch(v) \subseteq Steps /\ Passed(v) \subseteq Steps
    BY Zenon, PhaseTyped DEF Position, Passed
  <2>3. pc[v] \in {"committed", "confirm_tx"} =>
            \A s \in Batch(v) : Row(v, s)' = "confirmed"
    BY Zenon, <1>2, <2>2, AllForward DEF Behind, PhasePcs
  <2>4. pc[v] \in NontxPcs => \A s \in Passed(v) : Row(v, s)' = "confirmed"
    BY Zenon, <1>2, <2>2, AllForward DEF Behind, PhasePcs, NontxPcs
  <2>5. pc[v] \in {"confirmed", "intent"} => CurrentStep(v) \in Steps
    BY Zenon, StepTyped DEF Position, PhasePcs, NontxPcs
  <2>6. /\ pc[v] = "confirmed" => Row(v, CurrentStep(v))' = "confirmed"
        /\ pc[v] = "intent" => Row(v, CurrentStep(v))' # "none"
    BY <1>1, <1>2, <2>5, RowForward, ViewKept DEF Behind, Row
  <2> QED
    BY Zenon, <1>1, <1>2, <2>1, <2>3, <2>4, <2>6, ViewKept DEF Behind, AllAre
<1>5. Ahead(v)'
  <2>1. CASE UNCHANGED <<history, execs>>
    BY Zenon, <1>1, <1>2, <2>1, ViewKept, RowKept DEF Ahead, AllAre, Runs
  <2>2. CASE lock = w
    <3>1. ~(session[v] /\ pc[v] \in HeldPcs)
      BY Zenon, <2>2 DEF Consistent, LockHolder
    <3> QED
      BY Zenon, <1>1, <3>1 DEF Ahead, HeldPcs, PhasePcs
  <2> QED
    BY Zenon, <2>1, <2>2 DEF Guarded
<1> QED
  BY Zenon, <1>3, <1>4, <1>5

\* The holder of a session in a phase holds the lock.
LEMMA Holder ==
    ASSUME Consistent, NEW w \in Workers, pc[w] \in PhasePcs, session[w]
    PROVE  lock = w
  BY Zenon DEF Consistent, LockHolder, HeldPcs

-----------------------------------------------------------------------------
(* The audit file and the tables.                                          *)

AuditTyped == audit \in [Artifacts -> Seq(Events)]

\* A true event appended while the tables stand still keeps the audit true.
LEMMA WriteTrue ==
    ASSUME Consistent, UNCHANGED history, NEW a \in Artifacts,
           NEW type \in EventTypes, NEW step \in Steps \cup {NoStep},
           EventTrue(a, type, step), Write(a, <<type, step>>)
    PROVE  AuditTyped' /\ AuditTruth'
<1> DEFINE e == <<type, step>>
<1>1. e \in Events /\ e[1] = type /\ e[2] = step
  BY Zenon DEF Events
<1>2. audit \in [Artifacts -> Seq(Events)] /\ AuditTruth
  BY Zenon DEF Consistent, TypeOK
<1>3. audit' = [audit EXCEPT ![a] = audit'[a]]
      /\ (audit'[a] = audit[a] \/ audit'[a] = Append(audit[a], e))
  BY <1>2, Zenon DEF Write
<1> HIDE DEF e
<1>4. audit'[a] \in Seq(Events)
  <2>1. audit[a] \in Seq(Events)
    BY Zenon, <1>2
  <2>2. Append(audit[a], e) \in Seq(Events)
    BY Zenon, <1>1, <2>1, AppendTyped
  <2> QED
    BY <1>3, <2>1, <2>2, Zenon
<1>5. AuditTyped'
  BY Zenon, <1>2, <1>3, <1>4 DEF AuditTyped
<1>6. ASSUME NEW b \in Artifacts, NEW k \in DOMAIN audit'[b]
      PROVE  EventTrue(b, audit[b][k][1], audit[b][k][2])'
  <2>1. CASE b # a \/ audit'[a] = audit[a]
    BY <1>2, <1>3, <1>6, <2>1 DEF AuditTruth, EventTrue
  <2>2. CASE b = a /\ audit'[a] = Append(audit[a], e)
    <3>1. audit[a] \in Seq(Events)
      BY Zenon, <1>2
    <3>2. k \in DOMAIN audit[a] \/ audit'[a][k] = e
      BY <1>1, <1>6, <2>2, <3>1
    <3>3. CASE k \in DOMAIN audit[a]
      <4>1. audit'[a][k] = audit[a][k]
        BY <1>1, <2>2, <3>1, <3>3
      <4> QED
        BY <1>2, <2>2, <3>3, <4>1 DEF AuditTruth, EventTrue
    <3>4. CASE audit'[a][k] = e
      BY Zenon, <1>1, <2>2, <3>4 DEF EventTrue
    <3> QED
      BY Zenon, <3>2, <3>3, <3>4
  <2> QED
    BY Zenon, <1>3, <2>1, <2>2
<1> QED
  BY Zenon, <1>5, <1>6 DEF AuditTruth

\* The audit stays true when rows only move forward.
LEMMA AuditKept ==
    ASSUME Consistent, Forward, UNCHANGED audit
    PROVE  AuditTyped' /\ AuditTruth'
<1>1. audit \in [Artifacts -> Seq(Events)] /\ AuditTruth
  BY Zenon DEF Consistent, TypeOK
<1>2. ASSUME NEW a \in Artifacts, NEW k \in DOMAIN audit[a]
      PROVE  EventTrue(a, audit[a][k][1], audit[a][k][2])'
  <2>1. EventTrue(a, audit[a][k][1], audit[a][k][2])
    BY Zenon, <1>1, <1>2 DEF AuditTruth
  <2>2. Executable(a) \subseteq Steps
    BY Zenon, ExecutableTyped
  <2>3. Executable(a)' = Executable(a)
    BY Zenon DEF Executable, StepsOf
  <2> QED
    BY Zenon, <1>2, <2>1, <2>2, <2>3 DEF EventTrue, Forward
<1> QED
  BY Zenon, <1>1, <1>2 DEF AuditTruth, AuditTyped

Tables ==
    /\ schema \in SUBSET Objects
    /\ history \in [Artifacts -> [Steps -> RowStates]]
    /\ execs \in [Artifacts -> [Steps -> Nat]]
    /\ AtMostOnce /\ HistoryTruth /\ PhaseOrder

LocalsTyped ==
    /\ art \in [Workers -> Artifacts]
    /\ phase \in [Workers -> Nat]
    /\ \A w \in Workers : phase[w] \in 1 .. Len(Phases[art[w]]) + 1
    /\ idx \in [Workers -> Nat \ {0}]
    /\ seen \in [Workers -> SUBSET Steps]
    /\ last \in [Workers -> Steps \cup {NoStep}]

\* What a step of w has to show about the tables and the audit file.
Outside(w) ==
    /\ Tables' /\ AuditTyped' /\ AuditTruth'
    /\ Forward /\ Guarded(w)

\* The tables are untouched.
LEMMA Untouched ==
    ASSUME Consistent, NEW w \in Workers, UNCHANGED db,
           AuditTyped', AuditTruth'
    PROVE  Outside(w)
  BY DEF Consistent, TypeOK, db, Outside, Tables, Forward, Guarded,
         AtMostOnce, HistoryTruth, PhaseOrder

\* Neither the tables nor the audit file are touched.
LEMMA Silent ==
    ASSUME Consistent, NEW w \in Workers, UNCHANGED <<db, audit>>
    PROVE  Outside(w)
<1>1. Forward
  BY Zenon DEF Forward, db
<1> QED
  BY Zenon, <1>1, AuditKept, Untouched

\* An append of a true event, also one that reports a failure.
LEMMA Logged ==
    ASSUME Consistent, NEW w \in Workers, UNCHANGED db,
           NEW type \in EventTypes, NEW step \in Steps \cup {NoStep},
           EventTrue(art[w], type, step),
           Write(art[w], <<type, step>>) \/ UNCHANGED audit
    PROVE  Outside(w)
<1>1. UNCHANGED history /\ art[w] \in Artifacts
  BY Zenon DEF db, Consistent, TypeOK
<1>2. CASE Write(art[w], <<type, step>>)
  BY Zenon, <1>1, <1>2, WriteTrue, Untouched
<1>3. CASE UNCHANGED audit
  BY Zenon, <1>3, Silent
<1> QED
  BY Zenon, <1>2, <1>3

\* Events that make no claim about the history table.
Claims == {"intent", "confirmed", "completed", "completion_observed"}

LEMMA NoClaim ==
    ASSUME NEW a, NEW type \in EventTypes \ Claims, NEW step
    PROVE  EventTrue(a, type, step)
  BY Zenon DEF EventTrue, Claims

-----------------------------------------------------------------------------
(* Returning, and moving on.                                               *)

\* The call of w returns.
LEMMA Returning ==
    ASSUME Consistent, NEW w \in Workers, NEW r \in Outcomes, Return(w, r),
           UNCHANGED runs, Outside(w)
    PROVE  Consistent'
<1> TypeOK /\ LockHolder
  BY Zenon DEF Consistent
<1>1. OwnFrame(w)
  BY Zenon DEF Return, OwnFrame, SameView, TypeOK
<1>2. TypeOK'
  <2>1. \A v \in Workers : phase'[v] \in 1 .. Len(Phases[art'[v]]) + 1
    BY PlanTyped DEF Return, TypeOK
  <2> QED
    BY SMTT(30), <2>1 DEF Return, TypeOK, Outside, Tables, AuditTyped, Pcs
<1>3. LockHolder'
  BY Zenon, NamesAssumption DEF LockHolder, Return, TypeOK, HeldPcs, PhasePcs
<1>4. /\ pc'[w] = "idle" /\ session'[w] = FALSE /\ phase'[w] = 1
      /\ idx'[w] = 1 /\ seen'[w] = {}
  BY Zenon DEF Return, TypeOK
<1>5. Position(w)' /\ Behind(w)' /\ Ahead(w)'
  <2>1. Earlier(w)' = {}
    BY <1>4 DEF Earlier
  <2> QED
    BY Zenon, <1>4, <2>1 DEF Position, Behind, Ahead, AllAre, PhasePcs, TxPcs, NontxPcs
<1> QED
  BY Zenon, <1>1, <1>2, <1>3, <1>5, OtherFrames DEF Consistent, Outside, Tables

\* The call of w goes on, under the lock.
LEMMA Moving ==
    ASSUME Consistent, NEW w \in Workers, NEW l \in HeldPcs,
           pc[w] \in HeldPcs, Jump(w, l), UNCHANGED runs, Outside(w),
           OwnFrame(w), LocalsTyped',
           Position(w)', Behind(w)', Ahead(w)'
    PROVE  Consistent'
<1> TypeOK /\ LockHolder
  BY Zenon DEF Consistent
<1>1. TypeOK'
  BY Zenon DEF Jump, TypeOK, Outside, Tables, AuditTyped, LocalsTyped, Pcs
<1>2. LockHolder'
  BY Zenon DEF LockHolder, Jump, TypeOK
<1> QED
  BY Zenon, <1>1, <1>2, OtherFrames DEF Consistent, Outside, Tables

\* The frame stays as it is, only the program point moves.
LEMMA Going ==
    ASSUME Consistent, NEW w \in Workers, NEW l \in HeldPcs,
           pc[w] \in HeldPcs, Goto(w, l), UNCHANGED runs, Outside(w),
           Position(w)', Behind(w)', Ahead(w)'
    PROVE  Consistent'
<1> TypeOK
  BY Zenon DEF Consistent
<1>1. OwnFrame(w) /\ Jump(w, l)
  BY Zenon DEF Goto, Jump, locals, OwnFrame, SameView, TypeOK
<1>2. LocalsTyped'
  BY Zenon DEF Goto, locals, LocalsTyped, TypeOK
<1> QED
  BY Zenon, <1>1, <1>2, Moving

\* An append without a claim, after which the call returns either way.
LEMMA LogReturn ==
    ASSUME Consistent, NEW w \in Workers,
           NEW type \in EventTypes \ Claims, NEW step \in Steps \cup {NoStep},
           NEW r \in Outcomes, NEW q \in Outcomes,
           Log(w, type, step, Return(w, r), Return(w, q)),
           UNCHANGED <<db, runs>>
    PROVE  Consistent'
<1>1. Outside(w)
  BY Zenon, Logged, NoClaim DEF Log
<1> QED
  BY Zenon, <1>1, Returning DEF Log

\* After Goto the worker stands at l with the frame it had.
LEMMA SameFrame ==
    ASSUME TypeOK, NEW w \in Workers, NEW l, Goto(w, l)
    PROVE  /\ SameView(w) /\ pc'[w] = l /\ session'[w] = session[w]
           /\ art'[w] = art[w] /\ phase'[w] = phase[w]
           /\ idx'[w] = idx[w] /\ seen'[w] = seen[w]
  BY Zenon DEF Goto, Jump, locals, TypeOK, SameView

-----------------------------------------------------------------------------
(* Moving through the plan.                                                *)

\* The worker moves to l, and sees the rows and the plan it saw.
LEMMA Standing ==
    ASSUME Consistent, NEW w \in Workers, NEW l, Goto(w, l), UNCHANGED history
    PROVE  /\ pc'[w] = l /\ session'[w] = session[w]
           /\ art'[w] = art[w] /\ phase'[w] = phase[w]
           /\ idx'[w] = idx[w] /\ seen'[w] = seen[w]
           /\ CurrentPhase(w)' = CurrentPhase(w)
           /\ CurrentStep(w)' = CurrentStep(w)
           /\ Batch(w)' = Batch(w) /\ Passed(w)' = Passed(w)
           /\ Earlier(w)' = Earlier(w) /\ PhaseEnded(w)' = PhaseEnded(w)
           /\ \A s : Row(w, s)' = Row(w, s)
<1> TypeOK
  BY Zenon DEF Consistent
<1> QED
  BY Zenon, SameFrame, ViewKept, RowKept

\* At the end of a phase the worker is past all its steps.
LEMMA EndPassed ==
    ASSUME NEW w, CurrentPhase(w).steps \in Seq(Steps), idx[w] \in Nat,
           PhaseEnded(w)
    PROVE  Batch(w) \subseteq Passed(w)
<1> SUFFICES ASSUME NEW s \in Batch(w) PROVE s \in Passed(w)
  BY Zenon
<1>1. PICK k \in 1 .. Len(CurrentPhase(w).steps) : s = CurrentPhase(w).steps[k]
  BY DEF Batch, Range
<1>2. k \in 1 .. idx[w] - 1
  BY DEF PhaseEnded
<1> QED
  BY Zenon, <1>1, <1>2 DEF Passed

\* What w knows to be confirmed stays confirmed when rows move forward.
LEMMA StillBehind ==
    ASSUME Consistent, NEW w \in Workers, Forward, art'[w] = art[w]
    PROVE  /\ \A s \in seen[w] : Row(w, s)' = "confirmed"
           /\ \A s \in Earlier(w) : Row(w, s)' = "confirmed"
           /\ pc[w] \in NontxPcs => \A s \in Passed(w) : Row(w, s)' = "confirmed"
<1> TypeOK /\ Position(w) /\ Behind(w)
  BY Zenon DEF Consistent
<1>1. pc[w] \in NontxPcs => Passed(w) \subseteq Steps
  BY Zenon, PhaseTyped DEF Position, Passed, PhasePcs, NontxPcs
<1> QED
  BY Zenon, <1>1, FrameTyped, AllForward DEF Behind

\* A worker in a nontransactional phase gives up on its current step.
LEMMA ToUncertain ==
    ASSUME Consistent, NEW w \in Workers, pc[w] \in NontxPcs \ {"intend"},
           Goto(w, "uncertain"), UNCHANGED runs, Outside(w)
    PROVE  Consistent'
<1> TypeOK /\ Position(w) /\ Behind(w)
  BY Zenon DEF Consistent
<1>1. Forward /\ "uncertain" \in HeldPcs /\ pc[w] \in PhasePcs /\ pc[w] \in HeldPcs
  BY Zenon DEF Outside, HeldPcs, PhasePcs, NontxPcs
<1>2. Position(w)'
  BY <1>1, SameFrame, ViewKept DEF Position, PhasePcs, TxPcs, NontxPcs
<1>3. Ahead(w)'
  BY SameFrame DEF Ahead
<1>4. Behind(w)'
  BY <1>1, SameFrame, ViewKept, StillBehind DEF Behind, AllAre, NontxPcs
<1> QED
  BY Zenon, <1>1, <1>2, <1>3, <1>4, Going

\* The worker moves on to the next step of the phase.
LEMMA Advancing ==
    ASSUME Consistent, NEW w \in Workers, NEW l \in {"tx", "intend", "confirm_tx"},
           Advance(w, l), UNCHANGED <<db, runs>>, Outside(w),
           pc[w] = l \/ (pc[w] = "confirmed" /\ l = "intend"),
           (l = "intend" /\ CurrentStep(w) \in Batch(w))
              => Row(w, CurrentStep(w)) = "confirmed",
           l = "tx" => CurrentStep(w) \notin Batch(w)
    PROVE  Consistent'
<1> TypeOK /\ Position(w) /\ Behind(w) /\ Ahead(w)
  BY Zenon DEF Consistent
<1>1. pc[w] \in PhasePcs /\ pc[w] \in HeldPcs /\ l \in HeldPcs
      /\ phase[w] <= Len(Phases[art[w]])
  BY Zenon DEF Position, PhasePcs, HeldPcs
<1>2. OwnFrame(w) /\ LocalsTyped' /\ Jump(w, l)
  BY DEF Advance, Jump, OwnFrame, SameView, LocalsTyped, TypeOK
<1>3. /\ pc'[w] = l /\ session'[w] = session[w] /\ UNCHANGED history
      /\ art'[w] = art[w] /\ phase'[w] = phase[w] /\ seen'[w] = seen[w]
      /\ idx'[w] = idx[w] + 1 /\ idx[w] \in Nat \ {0}
  BY Zenon DEF Advance, Jump, TypeOK, db
<1>4. /\ CurrentPhase(w)' = CurrentPhase(w) /\ Batch(w)' = Batch(w)
      /\ Earlier(w)' = Earlier(w)
  BY <1>3, Zenon DEF CurrentPhase, Batch, Earlier
<1>5. ASSUME NEW s \in Passed(w)'
      PROVE  s \in Passed(w) \/ (s = CurrentStep(w) /\ s \in Batch(w))
  <2>1. PICK k \in 1 .. idx[w] : s = CurrentPhase(w).steps[k] /\ s \in Batch(w)
    BY <1>3, <1>4, <1>5 DEF Passed
  <2>2. k \in 1 .. idx[w] - 1 \/ k = idx[w]
    BY <1>3
  <2> QED
    BY <2>1, <2>2, Zenon DEF Passed, CurrentStep
<1>6. \A s : Row(w, s)' = Row(w, s)
  BY Zenon, <1>3, RowKept
<1>7. Position(w)'
  BY Zenon, <1>1, <1>3, <1>4 DEF Position, PhasePcs, TxPcs, NontxPcs
<1>8. Behind(w)'
  <2>1. l = "intend" => \A s \in Passed(w)' : Row(w, s) = "confirmed"
    BY Zenon, <1>5 DEF Behind, AllAre, NontxPcs
  <2> QED
    BY <1>3, <1>4, <1>6, <2>1 DEF Behind, AllAre, NontxPcs
<1>9. Ahead(w)'
  <2>1. session[w] /\ l = "tx" => \A s \in Passed(w)' : Row(w, s) = "none"
    BY Zenon, <1>5 DEF Ahead, AllAre
  <2> QED
    BY Zenon, <1>3, <1>6, <2>1 DEF Ahead, AllAre
<1> QED
  BY Zenon, <1>1, <1>2, <1>7, <1>8, <1>9, Moving

\* A phase whose steps are all confirmed lies behind the worker.
LEMMA NextPhasing ==
    ASSUME Consistent, NEW w \in Workers, NextPhase(w),
           UNCHANGED <<db, runs>>, Outside(w), pc[w] \in PhasePcs,
           AllAre(w, Batch(w), "confirmed")
    PROVE  Consistent'
<1> TypeOK /\ Position(w) /\ Behind(w)
  BY Zenon DEF Consistent
<1>1. phase[w] <= Len(Phases[art[w]]) /\ phase[w] \in Nat \ {0} /\ art[w] \in Artifacts
  BY DEF Position, TypeOK
<1>2. /\ pc'[w] = "phase" /\ session'[w] = session[w] /\ UNCHANGED history
      /\ art'[w] = art[w] /\ seen'[w] = seen[w]
      /\ phase'[w] = phase[w] + 1 /\ idx'[w] = 1
  BY Zenon DEF NextPhase, Jump, TypeOK, db
<1>3. OwnFrame(w) /\ Jump(w, "phase")
  BY Zenon DEF NextPhase, Jump, OwnFrame, SameView, TypeOK
<1>4. LocalsTyped'
  <2>1. phase'[w] \in 1 .. Len(Phases[art'[w]]) + 1
    BY SMTT(30), <1>1, <1>2, PlanTyped
  <2>2. \A v \in Workers \ {w} : phase'[v] \in 1 .. Len(Phases[art'[v]]) + 1
    BY Zenon, <1>3 DEF OwnFrame, SameView, TypeOK
  <2>3. \A v \in Workers : phase'[v] \in 1 .. Len(Phases[art'[v]]) + 1
    BY Zenon, <2>1, <2>2
  <2> QED
    BY <2>3 DEF NextPhase, LocalsTyped, TypeOK
<1>5. Position(w)' /\ Ahead(w)'
  BY Zenon, <1>2 DEF Position, Ahead, PhasePcs, TxPcs, NontxPcs
<1>6. ASSUME NEW s \in Earlier(w)' PROVE Row(w, s) = "confirmed"
  <2>1. PICK i \in 1 .. phase[w] :
            s \in Range(Phases[art[w]][i].steps) /\ s \notin Topology
    BY <1>1, <1>2, <1>6 DEF Earlier
  <2>2. CASE i = phase[w]
    <3>1. s \in seen[w] \/ s \in Batch(w)
      BY Zenon, <2>1, <2>2 DEF Batch, CurrentPhase
    <3> QED
      BY Zenon, <3>1 DEF Behind, AllAre
  <2>3. CASE i \in 1 .. phase[w] - 1
    <3>1. s \in Earlier(w)
      BY Zenon, <1>6, <2>1, <2>3 DEF Earlier
    <3> QED
      BY Zenon, <3>1 DEF Behind, AllAre
  <2> QED
    BY <1>1, <2>2, <2>3
<1>7. Behind(w)'
  <2>1. \A s : Row(w, s)' = Row(w, s)
    BY Zenon, <1>2, RowKept
  <2> QED
    BY Zenon, <1>2, <1>6, <2>1 DEF Behind, AllAre, NontxPcs
<1>8. pc[w] \in HeldPcs /\ "phase" \in HeldPcs
  BY Zenon DEF HeldPcs
<1> QED
  BY Zenon, <1>3, <1>4, <1>5, <1>7, <1>8, Moving

-----------------------------------------------------------------------------
(* Changing rows.                                                          *)

\* Rows of the current phase that are inserted or confirmed: rows only move
\* forward, and the order of the phases holds, because the earlier phases are
\* confirmed (Behind) and a step belongs to one phase of one artifact.
LEMMA Rows ==
    ASSUME Consistent, NEW w \in Workers, pc[w] \in PhasePcs,
           NEW S \in SUBSET Batch(w), NEW st \in {"intended", "confirmed"},
           SetRows(w, S, st),
           st = "intended" => \A s \in S : Row(w, s) = "none"
    PROVE  /\ history' \in [Artifacts -> [Steps -> RowStates]]
           /\ \A a \in Artifacts, s \in Steps :
                 history'[a][s] = IF a = art[w] /\ s \in S THEN st ELSE history[a][s]
           /\ Forward /\ PhaseOrder'
<1> TypeOK /\ Position(w) /\ Behind(w) /\ PhaseOrder
  BY Zenon DEF Consistent
<1>1. art[w] \in Artifacts /\ history \in [Artifacts -> [Steps -> RowStates]]
  BY Zenon DEF TypeOK
<1>2. phase[w] <= Len(Phases[art[w]])
  BY Zenon DEF Position
<1>3. S \subseteq Steps /\ S \subseteq Range(CurrentPhase(w).steps)
  BY Zenon, <1>2, PhaseTyped DEF Batch
<1>4. history' \in [Artifacts -> [Steps -> RowStates]]
  BY Zenon, <1>1 DEF SetRows, RowStates
<1>5. ASSUME NEW a \in Artifacts, NEW s \in Steps
      PROVE  history'[a][s] = IF a = art[w] /\ s \in S THEN st ELSE history[a][s]
  BY Zenon, <1>1 DEF SetRows
<1>6. Forward
  BY Zenon, <1>5 DEF Forward, Row
<1>7. ASSUME NEW a \in Artifacts, NEW i \in DOMAIN Phases[a], NEW j \in DOMAIN Phases[a],
             i < j,
             NEW s \in Range(Phases[a][j].steps),
             NEW t \in Range(Phases[a][i].steps) \ Topology,
             history'[a][s] # "none"
      PROVE  history'[a][t] = "confirmed"
  <2>1. s \in Steps /\ t \in Steps /\ i \in Nat /\ j \in Nat /\ 1 <= i
    BY PlanTyped
  <2>2. CASE history[a][s] # "none"
    <3>1. history[a][t] = "confirmed"
      BY Zenon, <1>7, <2>2 DEF PhaseOrder
    <3> QED
      BY Zenon, <1>6, <2>1, <3>1 DEF Forward
  <2>3. CASE history[a][s] = "none"
    <3>1. a = art[w] /\ s \in S
      BY Zenon, <1>5, <1>7, <2>1, <2>3
    <3>2. j = phase[w]
      <4>1. phase[w] \in DOMAIN Phases[a]
        BY Zenon, <1>2, <3>1, PhaseTyped
      <4>2. s \in Range(Phases[a][phase[w]].steps) \cap Range(Phases[a][j].steps)
        BY Zenon, <1>3, <3>1 DEF CurrentPhase
      <4> QED
        BY SMTT(30), <4>1, <4>2, OwnershipAssumption
    <3>3. i \in 1 .. phase[w] - 1
      BY SMTT(30), <1>7, <2>1, <3>2
    <3>4. t \in Earlier(w)
      BY Zenon, <2>1, <3>1, <3>3 DEF Earlier
    <3>5. history[a][t] = "confirmed"
      BY Zenon, <3>1, <3>4 DEF Behind, AllAre, Row
    <3> QED
      BY Zenon, <1>6, <2>1, <3>5 DEF Forward
  <2> QED
    BY Zenon, <2>2, <2>3
<1>8. PhaseOrder'
  BY Zenon, <1>7 DEF PhaseOrder
<1> QED
  BY Zenon, <1>4, <1>5, <1>6, <1>8

\* Running SQL keeps the schema and the counters in their types.
LEMMA Ran ==
    ASSUME Consistent, NEW w \in Workers, NEW S \in SUBSET Steps, Execute(w, S)
    PROVE  /\ schema' \in SUBSET Objects
           /\ execs' \in [Artifacts -> [Steps -> Nat]]
           /\ \A a \in Artifacts, s \in Steps :
                 execs'[a][s] = IF a = art[w] /\ s \in S
                                THEN execs[a][s] + 1 ELSE execs[a][s]
<1>1. /\ schema \in SUBSET Objects /\ art[w] \in Artifacts
      /\ execs \in [Artifacts -> [Steps -> Nat]]
  BY Zenon DEF Consistent, TypeOK
<1>2. schema' \in SUBSET Objects
  <2>1. \A s \in S : Adds[s] \subseteq Objects
    BY Zenon, EffectsAssumption
  <2>2. schema' = (schema \ UNION {Drops[s] : s \in S}) \cup UNION {Adds[s] : s \in S}
    BY Zenon DEF Execute, After
  <2> QED
    BY Zenon, <1>1, <2>1, <2>2
<1>3. execs' \in [Artifacts -> [Steps -> Nat]]
  BY <1>1 DEF Execute
<1>4. ASSUME NEW a \in Artifacts, NEW s \in Steps
      PROVE  execs'[a][s] = IF a = art[w] /\ s \in S
                            THEN execs[a][s] + 1 ELSE execs[a][s]
  BY Zenon, <1>1 DEF Execute
<1> QED
  BY Zenon, <1>2, <1>3, <1>4

\* A commit: rows that did not exist are confirmed, their SQL ran once.
LEMMA Applied ==
    ASSUME Consistent, NEW w \in Workers, pc[w] = "commit", Apply(w),
           UNCHANGED audit
    PROVE  Outside(w) /\ \A s \in Batch(w) : history'[art[w]][s] = "confirmed"
<1> TypeOK /\ Position(w) /\ Ahead(w) /\ AtMostOnce /\ HistoryTruth
  BY Zenon DEF Consistent
<1> DEFINE S == Batch(w)
<1>1. pc[w] \in PhasePcs /\ session[w] /\ art[w] \in Artifacts
  BY Zenon DEF Apply, PhasePcs, TypeOK
<1>2. S \subseteq Steps
  BY Zenon, <1>1, PhaseTyped DEF Position
<1>3. /\ history' \in [Artifacts -> [Steps -> RowStates]]
      /\ \A a \in Artifacts, s \in Steps :
            history'[a][s] = IF a = art[w] /\ s \in S
                             THEN "confirmed" ELSE history[a][s]
      /\ Forward /\ PhaseOrder'
  BY Zenon, <1>1, Rows DEF Apply
<1>4. /\ schema' \in SUBSET Objects
      /\ execs' \in [Artifacts -> [Steps -> Nat]]
      /\ \A a \in Artifacts, s \in Steps :
            execs'[a][s] = IF a = art[w] /\ s \in S
                           THEN execs[a][s] + 1 ELSE execs[a][s]
  BY <1>2, Ran DEF Apply
<1>5. \A s \in S : history[art[w]][s] = "none" /\ execs[art[w]][s] = 0
  <2>1. \A s \in S : history[art[w]][s] = "none"
    BY Zenon, <1>1 DEF Ahead, AllAre, Row
  <2> QED
    BY <1>1, <1>2, <2>1 DEF HistoryTruth, TypeOK
<1>6. HistoryTruth' /\ AtMostOnce'
  <2>1. ASSUME NEW a \in Artifacts, NEW s \in Steps
        PROVE  /\ history'[a][s] = "confirmed" => execs'[a][s] = 1
               /\ execs'[a][s] > 0 => history'[a][s] # "none"
               /\ execs'[a][s] <= 1
    <3>1. CASE a = art[w] /\ s \in S
      BY SMTT(30), <1>3, <1>4, <1>5, <3>1
    <3>2. CASE ~(a = art[w] /\ s \in S)
      BY SMTT(30), <1>3, <1>4, <3>2 DEF HistoryTruth, AtMostOnce
    <3> QED
      BY Zenon, <3>1, <3>2
  <2> QED
    BY Zenon, <2>1 DEF HistoryTruth, AtMostOnce
<1>7. Outside(w)
  BY Zenon, <1>1, <1>3, <1>4, <1>6, AuditKept, Holder DEF Outside, Tables, Guarded
<1> QED
  BY Zenon, <1>1, <1>2, <1>3, <1>7

\* An intended row for a step that has none.
LEMMA Inserted ==
    ASSUME Consistent, NEW w \in Workers, pc[w] = "intend", Insert(w),
           ~PhaseEnded(w), CurrentStep(w) \in Batch(w),
           UNCHANGED <<schema, execs, audit>>
    PROVE  /\ Outside(w)
           /\ history'[art[w]][CurrentStep(w)] = "intended"
           /\ execs[art[w]][CurrentStep(w)] = 0
<1> TypeOK /\ Position(w) /\ AtMostOnce /\ HistoryTruth
  BY Zenon DEF Consistent
<1> DEFINE c == CurrentStep(w)
<1>1. pc[w] \in PhasePcs /\ session[w] /\ art[w] \in Artifacts
      /\ history[art[w]][c] = "none"
  BY Zenon DEF Insert, PhasePcs, TypeOK
<1>2. c \in Steps
  BY Zenon, <1>1, StepTyped DEF Position
<1>3. /\ history' \in [Artifacts -> [Steps -> RowStates]]
      /\ \A a \in Artifacts, s \in Steps :
            history'[a][s] = IF a = art[w] /\ s \in {c}
                             THEN "intended" ELSE history[a][s]
      /\ Forward /\ PhaseOrder'
  BY Zenon, <1>1, Rows DEF Insert, Row
<1>4. execs[art[w]][c] = 0
  BY <1>1, <1>2 DEF HistoryTruth, TypeOK
<1>5. HistoryTruth' /\ AtMostOnce'
  <2>1. ASSUME NEW a \in Artifacts, NEW s \in Steps
        PROVE  /\ history'[a][s] = "confirmed" => execs'[a][s] = 1
               /\ execs'[a][s] > 0 => history'[a][s] # "none"
    <3>1. CASE a = art[w] /\ s \in {c}
      BY Zenon, <1>3, <1>4, <3>1
    <3>2. CASE ~(a = art[w] /\ s \in {c})
      BY <1>3, <3>2 DEF HistoryTruth
    <3> QED
      BY Zenon, <3>1, <3>2
  <2> QED
    BY Zenon, <2>1 DEF HistoryTruth, AtMostOnce
<1>6. Outside(w)
  BY Zenon, <1>1, <1>3, <1>5, AuditKept, Holder DEF Outside, Tables, Guarded, TypeOK
<1> QED
  BY Zenon, <1>1, <1>2, <1>3, <1>4, <1>6

\* The statement of an intended step runs for the first time.
LEMMA Ran1 ==
    ASSUME Consistent, NEW w \in Workers, pc[w] = "exec", session[w],
           Execute(w, {CurrentStep(w)}), UNCHANGED <<history, audit>>
    PROVE  Outside(w) /\ execs'[art[w]][CurrentStep(w)] = 1
<1> TypeOK /\ Position(w) /\ Ahead(w) /\ AtMostOnce /\ HistoryTruth /\ PhaseOrder
  BY Zenon DEF Consistent
<1> DEFINE c == CurrentStep(w)
<1>1. pc[w] \in PhasePcs /\ art[w] \in Artifacts
  BY Zenon DEF PhasePcs, TypeOK
<1>2. c \in Steps
  BY Zenon, <1>1, StepTyped DEF Position, NontxPcs
<1>3. history[art[w]][c] = "intended" /\ execs[art[w]][c] = 0
  BY Zenon DEF Ahead, Runs, Row
<1>4. /\ schema' \in SUBSET Objects
      /\ execs' \in [Artifacts -> [Steps -> Nat]]
      /\ \A a \in Artifacts, s \in Steps :
            execs'[a][s] = IF a = art[w] /\ s \in {c}
                           THEN execs[a][s] + 1 ELSE execs[a][s]
  BY SMTT(30), <1>2, Ran
<1>5. HistoryTruth' /\ AtMostOnce'
  <2>1. ASSUME NEW a \in Artifacts, NEW s \in Steps
        PROVE  /\ history'[a][s] = "confirmed" => execs'[a][s] = 1
               /\ execs'[a][s] > 0 => history'[a][s] # "none"
               /\ execs'[a][s] <= 1
    <3>1. CASE a = art[w] /\ s \in {c}
      BY SMTT(30), <1>3, <1>4, <3>1
    <3>2. CASE ~(a = art[w] /\ s \in {c})
      BY SMTT(30), <1>4, <3>2 DEF HistoryTruth, AtMostOnce
    <3> QED
      BY Zenon, <3>1, <3>2
  <2> QED
    BY Zenon, <2>1 DEF HistoryTruth, AtMostOnce
<1>6. Forward /\ PhaseOrder'
  BY Zenon DEF Forward, PhaseOrder
<1>7. Outside(w)
  BY Zenon, <1>1, <1>4, <1>5, <1>6, AuditKept, Holder DEF Outside, Tables, Guarded, TypeOK
<1> QED
  BY SMTT(30), <1>1, <1>2, <1>3, <1>4, <1>7

\* The row of a step whose SQL ran becomes confirmed.
LEMMA Updated ==
    ASSUME Consistent, NEW w \in Workers, pc[w] = "update", session[w],
           SetRows(w, {CurrentStep(w)}, "confirmed"),
           UNCHANGED <<schema, execs, audit>>
    PROVE  Outside(w)
<1> TypeOK /\ Position(w) /\ Ahead(w) /\ AtMostOnce /\ HistoryTruth
  BY Zenon DEF Consistent
<1> DEFINE c == CurrentStep(w)
<1>1. pc[w] \in PhasePcs /\ art[w] \in Artifacts
  BY Zenon DEF PhasePcs, TypeOK
<1>2. c \in Batch(w)
  BY Zenon DEF Position, NontxPcs
<1>3. execs[art[w]][c] = 1
  BY Zenon DEF Ahead, Runs
<1>4. /\ history' \in [Artifacts -> [Steps -> RowStates]]
      /\ \A a \in Artifacts, s \in Steps :
            history'[a][s] = IF a = art[w] /\ s \in {c}
                             THEN "confirmed" ELSE history[a][s]
      /\ Forward /\ PhaseOrder'
  BY Zenon, <1>1, <1>2, Rows
<1>5. HistoryTruth' /\ AtMostOnce'
  <2>1. ASSUME NEW a \in Artifacts, NEW s \in Steps
        PROVE  /\ history'[a][s] = "confirmed" => execs'[a][s] = 1
               /\ execs'[a][s] > 0 => history'[a][s] # "none"
    <3>1. CASE a = art[w] /\ s \in {c}
      BY Zenon, <1>3, <1>4, <3>1
    <3>2. CASE ~(a = art[w] /\ s \in {c})
      BY <1>4, <3>2 DEF HistoryTruth
    <3> QED
      BY Zenon, <3>1, <3>2
  <2> QED
    BY Zenon, <2>1 DEF HistoryTruth, AtMostOnce
<1> QED
  BY Zenon, <1>1, <1>4, <1>5, AuditKept, Holder DEF Outside, Tables, Guarded, TypeOK
=============================================================================
