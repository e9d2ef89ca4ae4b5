------------------------- MODULE ZeroDowntimeProofs -------------------------
(***************************************************************************)
(* Proofs about zero-downtime migrations, for any number of processes,     *)
(* keys, values, application transactions and failures.                    *)
(***************************************************************************)
EXTENDS ZeroDowntime, TLAPS

-----------------------------------------------------------------------------
(* The inductive invariant.                                                *)

Locks == {"start", "backfill", "contract", "rollback"}

BackfillPcs == {"prepare", "batch", "fill", "check", "status", "error"}
StartPcs    == {"phase", "note", "complete", "interrupt"}
ContractPcs == {"gate", "step", "post", "verify"}
UndoPcs     == {"undo", "undone", "audit", "close"}

RowType == [old : Values, new : Values] \cup {Gone}

\* Every variable an argument below depends on stays in its domain.
TableTypes ==
    /\ scene \in Scenes
    /\ rows \in [Keys -> RowType]
    /\ open \in [Keys -> [by : Processes \cup {"app", Nobody}, row : RowType]]
SchemaTypes ==
    cols \subseteq {"old", "new"} /\ sync \in BOOLEAN /\ views \subseteq {"prev", "cur"}
ControlTypes ==
    /\ start \in [state : {"none", "pending", "running", "interrupted", "complete"},
                 progress : 0..6]
    /\ DOMAIN job = {"state", "remaining"}
    /\ contract \in [state : {"none", "pending", "blocked", "running", "interrupted", "complete"},
                    done : 0..3]
    /\ undo \in [state : {"none", "running", "interrupted", "complete"}, phase : 0..3]
ProcessTypes ==
    /\ lock \in [Locks -> Processes \cup {Nobody}]
    /\ pc \in [Processes -> {"idle"} \cup BackfillPcs \cup StartPcs \cup ContractPcs \cup UndoPcs]
    /\ at \in [Processes -> 0..6]
Types == TableTypes /\ SchemaTypes /\ ControlTypes /\ ProcessTypes

\* A process inside a command holds the lock of the command, and the lock of
\* start is held only inside start and the backfill it runs.
Locked == \A p \in Processes :
    /\ pc[p] \in StartPcs => lock["start"] = p
    /\ pc[p] \in ContractPcs => lock["contract"] = p
    /\ pc[p] \in UndoPcs => lock["rollback"] = p
    /\ lock["start"] = p => pc[p] \in StartPcs \cup BackfillPcs

\* A command at work agrees with its row on the phase or step; start at work is
\* not complete; what comes after the gate of contract, and rollback, come
\* after start.
Placed ==
    /\ \A p \in Processes :
          /\ pc[p] \in {"phase", "note"} => at[p] = start.progress /\ at[p] < 6
          /\ pc[p] = "interrupt" \/ (pc[p] \in BackfillPcs /\ lock["start"] = p) =>
                at[p] = 4 /\ start.progress = 4
          /\ pc[p] \in {"gate", "step", "post"} => at[p] = contract.done /\ at[p] < 3
          /\ pc[p] = "verify" => contract.done = 3
          /\ pc[p] \in {"undo", "undone"} => at[p] < 3
          /\ pc[p] \in {"audit", "close"} => at[p] = 3
          /\ lock["start"] = p => start.state \notin {"none", "complete"}
          /\ pc[p] \in ContractPcs => contract.state # "none"
          /\ pc[p] \in {"step", "post", "verify"} \cup UndoPcs => start.state = "complete"
    /\ start.state = "none" => start.progress = 0
    /\ contract.state = "none" => contract.done = 0
    /\ contract.done > 0 \/ contract.state = "complete" \/ undo.phase > 0 \/ undo.state = "complete" =>
          start.state = "complete"

\* Until start installs the trigger nothing is published, no backfill has
\* begun and the new column is empty, in open transactions, too.
Untouched(r) == r # Gone => r.new = Null
Before == ~sync /\ start.state # "complete" =>
    /\ views = {} /\ job.state = "none" /\ start.progress < 4
    /\ \A p \in Processes :
          /\ pc[p] \notin BackfillPcs \cup {"interrupt"}
          /\ pc[p] = "note" => at[p] < 3
    /\ \A k \in Keys : Untouched(rows[k]) /\ Untouched(open[k].row)

\* Behind the trigger rows agree, committed or not, and what is written is filled.
Agrees(r) == r # Gone /\ r.new # Null =>
    r.new = Forward(r.old) \/ (scene.reverse # <<>> /\ r.old = Reverse(r.new))
Behind == sync => \A k \in Keys :
    Agrees(rows[k]) /\ Agrees(open[k].row) /\ ~Unfilled(open[k].row)

\* Once the job is complete, and from the gate of contract to its step, no row
\* is left behind the trigger.
Filled == sync /\ (job.state = "complete" \/ \E p \in Processes : pc[p] = "step") =>
    \A k \in Keys : ~Unfilled(rows[k])

SyncInv == Types /\ Locked /\ Placed /\ Before /\ Behind /\ Filled

\* What contract has recorded, and where it is.
Contracted ==
    /\ \A p \in Processes :
          pc[p] \in ContractPcs => contract.state # "complete" /\ "contract" \in scene.commands
    /\ contract.done > 0 \/ contract.state = "complete" => "contract" \in scene.commands
    /\ contract.done > 0 => "prev" \notin views
    /\ contract.done > 1 => ~sync
    /\ contract.done > 2 => "old" \notin cols
    /\ contract.state = "complete" => Desired
    /\ "contract" \in scene.commands /\ "prev" \in views => sync

\* What rollback has recorded, and where it is.
Undone ==
    /\ \A p \in Processes :
          /\ pc[p] \in UndoPcs =>
                /\ undo.state # "complete" /\ "rollback" \in scene.commands /\ PreviousWritable
                /\ at[p] > 0 \/ pc[p] = "undone" => "cur" \notin views
                /\ at[p] > 1 \/ (pc[p] = "undone" /\ at[p] = 1) => ~sync
          /\ pc[p] = "close" => audited
    /\ undo.phase > 0 \/ undo.state = "complete" => "rollback" \in scene.commands
    /\ undo.phase > 0 => "cur" \notin views
    /\ undo.phase > 1 => ~sync
    /\ undo.state = "complete" => views = {"prev"} /\ ~sync /\ PreviousWritable /\ audited

\* A migration is contracted or rolled back.  The locks of the two commands do
\* not exclude each other.
OneLifecycle == \A s \in Scenes : ~({"contract", "rollback"} \subseteq s.commands)

LifeInv == SyncInv /\ Contracted /\ Undone

-----------------------------------------------------------------------------
(* Frames.                                                                 *)

\* The steps that write rows or row versions.
LEMMA TableFrame ==
    ASSUME ZNext
    PROVE  /\ UNCHANGED scene
           /\ \/ UNCHANGED table
              \/ \E k \in Keys : Write(k) \/ Delete(k) \/ Finish(k)
              \/ \E p \in Processes : Fill(p) \/ Commit(p) \/ BatchFails(p) \/ Crash(p)
<1>1. ASSUME NEW p \in Processes, Command(p), ~Backfill(p), ~Crash(p)
      PROVE  UNCHANGED <<scene, table>>
  BY Zenon, <1>1 DEF Command, Act, Execute, Undo, StartBackfill, Start, Interrupt, Note, Complete,
     StartContract, PassGate, Checkpoint, InterruptContract, Verify, StartRollback,
     InterruptRollback, NoteUndone, Audit, Close, frame
<1>2. ASSUME NEW p \in Processes, Backfill(p) \/ Crash(p)
      PROVE  /\ UNCHANGED scene
             /\ UNCHANGED table \/ Fill(p) \/ Commit(p) \/ BatchFails(p) \/ Crash(p)
  BY Zenon, <1>2 DEF Backfill, Crash, Prepare, CountRows, Fill, Commit, BatchFails, RecordError,
     Status, frame
<1>3. ASSUME NEW k \in Keys, Write(k) \/ Delete(k) \/ Finish(k)
      PROVE  UNCHANGED scene
  BY Zenon, <1>3 DEF Write, Delete, Finish
<1>4. ASSUME NEW state, Control(state)
      PROVE  UNCHANGED <<scene, table>>
  BY ZenonT(30), <1>4 DEF Control
<1> QED
  BY Zenon, <1>1, <1>2, <1>3, <1>4 DEF ZNext, Application

\* The steps that change columns, trigger or versions.
LEMMA ObjectsFrame ==
    ASSUME ZNext
    PROVE  \/ UNCHANGED objects
           \/ \E p \in Processes : Act(p) \/ Execute(p) \/ Undo(p)
  BY DEF ZNext, Application, Command, Backfill, Write, Delete, Finish, Fill, Commit,
     BatchFails, Crash, Control, StartBackfill, Prepare, CountRows, RecordError,
     Status, Start, Interrupt, Note, Complete, StartContract, PassGate, Checkpoint,
     InterruptContract, Verify, StartRollback, InterruptRollback, NoteUndone, Audit,
     Close

\* Applications and the controls of a job change neither objects nor commands.
LEMMA OuterFrame ==
    ASSUME Application \/ (\E state \in {"paused", "running", "cancelled"} : Control(state))
    PROVE  /\ UNCHANGED <<scene, cols, sync, views, start, contract, undo, audited, lock, pc, at>>
           /\ UNCHANGED job \/ \E s \in {"paused", "running", "cancelled"} : job' = [job EXCEPT !.state = s]
<1>1. CASE Application
  BY Zenon, <1>1 DEF Application, Write, Delete, Finish, control, objects
<1>2. CASE \E state \in {"paused", "running", "cancelled"} : Control(state)
  BY Zenon, <1>2 DEF Control, objects
<1> QED
  BY Zenon, <1>1, <1>2

\* A backfill changes its job, its lock and its own position.
LEMMA BackfillFrame ==
    ASSUME ControlTypes, ProcessTypes, NEW p \in Processes, StartBackfill(p) \/ Backfill(p)
    PROVE  /\ UNCHANGED <<scene, cols, sync, views, start, contract, undo, audited, at>>
           /\ DOMAIN job' = {"state", "remaining"}
           /\ lock' \in [Locks -> Processes \cup {Nobody}]
           /\ \A c \in Locks \ {"backfill"} : lock'[c] = lock[c]
           /\ pc[p] \in BackfillPcs \cup {"idle"} /\ (pc[p] = "idle" => sync)
           /\ \E l \in BackfillPcs \cup {"idle", "interrupt", "note"} :
                 /\ pc' = [pc EXCEPT ![p] = l]
                 /\ l \in {"interrupt", "note"} => lock["start"] = p
                 /\ l = "idle" => lock["start"] # p
<1> USE DEF ControlTypes, ProcessTypes, Locks, BackfillPcs, Goto, frame, objects
<1>1. CASE StartBackfill(p)
  BY <1>1 DEF StartBackfill, control
<1>2. CASE Prepare(p)
  BY <1>2 DEF Prepare, Ends
<1>3. CASE CountRows(p) \/ Fill(p)
  BY <1>3 DEF CountRows, Fill, control
<1>4. CASE Commit(p) \/ BatchFails(p)
  BY <1>4 DEF Commit, BatchFails, control
<1>5. CASE RecordError(p)
  <2> DEFINE l == IF lock["start"] = p THEN "interrupt" ELSE "idle"
  <2>1. pc' = [pc EXCEPT ![p] = l]
    BY Zenon, <1>5 DEF RecordError, Ends
  <2>2. l \in {"idle", "interrupt"} /\ (l = "interrupt" <=> lock["start"] = p)
    BY Zenon
  <2> HIDE DEF l
  <2> QED
    BY Zenon, <1>5, <2>1, <2>2 DEF RecordError
<1>6. CASE Status(p)
  <2> DEFINE l == IF job.state = "running" /\ job.remaining # 0 THEN "prepare"
                  ELSE IF lock["start"] = p THEN "note" ELSE "idle"
  <2>1. pc' = [pc EXCEPT ![p] = l]
    BY Zenon, <1>6 DEF Status
  <2>2. /\ l \in {"prepare", "idle", "note"}
        /\ l = "note" => lock["start"] = p
        /\ l = "idle" => lock["start"] # p
    BY Zenon
  <2> HIDE DEF l
  <2> QED
    BY Zenon, <1>6, <2>1, <2>2 DEF Status, control
<1> QED
  BY Zenon, <1>1, <1>2, <1>3, <1>4, <1>5, <1>6 DEF Backfill

\* Only the last read of a batch completes a job.
LEMMA JobFrame ==
    ASSUME ControlTypes, ZNext, job'.state = "complete"
    PROVE  job.state = "complete" \/ \E p \in Processes : Commit(p)
<1>1. CASE Application \/ (\E state \in {"paused", "running", "cancelled"} : Control(state))
  BY Zenon, <1>1, OuterFrame DEF ControlTypes
<1>2. ASSUME NEW p \in Processes, StartBackfill(p) \/ Backfill(p), ~Commit(p)
      PROVE  job.state = "complete"
  BY SMTT(30), <1>2 DEF StartBackfill, Backfill, Prepare, CountRows, Fill, BatchFails, RecordError,
     Status, control, ControlTypes
<1>3. ASSUME NEW p \in Processes, Command(p), ~StartBackfill(p), ~Backfill(p)
      PROVE  job.state = "complete"
  BY Zenon, <1>3 DEF Command, Act, Execute, Undo, Start, Interrupt, Note, Complete, StartContract,
     PassGate, Checkpoint, InterruptContract, Verify, StartRollback, InterruptRollback,
     NoteUndone, Audit, Close, Crash, control
<1> QED
  BY Zenon, <1>1, <1>2, <1>3 DEF ZNext, Command

\* The steps outside contract leave its row and its processes alone.
LEMMA ContractFrame ==
    ASSUME ControlTypes, ProcessTypes, ZNext
    PROVE  \/ /\ UNCHANGED contract
              /\ \A q \in Processes : pc'[q] \in ContractPcs => pc'[q] = pc[q]
           \/ \E p \in Processes :
                 \/ StartContract(p) \/ PassGate(p) \/ Execute(p) \/ Checkpoint(p)
                 \/ InterruptContract(p) \/ Verify(p)
<1> DEFINE Goal == UNCHANGED contract /\ \A q \in Processes : pc'[q] \in ContractPcs => pc'[q] = pc[q]
<1> USE DEF ProcessTypes, ContractPcs, Goto, Return
<1>1. CASE Application \/ (\E state \in {"paused", "running", "cancelled"} : Control(state))
  BY Zenon, <1>1, OuterFrame
<1>2. ASSUME NEW p \in Processes, StartBackfill(p) \/ Backfill(p) PROVE Goal
  <2> HIDE DEF ProcessTypes
  <2> QED
    BY <1>2, BackfillFrame DEF ProcessTypes, BackfillPcs
<1>3. ASSUME NEW p \in Processes,
             Start(p) \/ Act(p) \/ Interrupt(p) \/ Note(p) \/ Complete(p)
      PROVE  Goal
  BY Zenon, <1>3 DEF Start, Act, Interrupt, Note, Complete
<1>4. ASSUME NEW p \in Processes,
             \/ StartRollback(p) \/ Undo(p) \/ InterruptRollback(p) \/ NoteUndone(p)
             \/ Audit(p) \/ Close(p) \/ Crash(p)
      PROVE  Goal
  BY Zenon, <1>4 DEF StartRollback, Undo, InterruptRollback, NoteUndone, Audit, Close, Crash,
     control
<1> QED
  BY Zenon, <1>1, <1>2, <1>3, <1>4 DEF ZNext, Command

\* The steps outside rollback leave its row and its processes alone.
LEMMA UndoFrame ==
    ASSUME ControlTypes, ProcessTypes, ZNext
    PROVE  \/ /\ UNCHANGED <<undo, audited>>
              /\ \A q \in Processes :
                    pc'[q] \in UndoPcs => pc'[q] = pc[q] /\ at'[q] = at[q]
           \/ \E p \in Processes :
                 \/ StartRollback(p) \/ Undo(p) \/ InterruptRollback(p) \/ NoteUndone(p)
                 \/ Audit(p) \/ Close(p)
<1> DEFINE Goal ==
       /\ UNCHANGED <<undo, audited>>
       /\ \A q \in Processes : pc'[q] \in UndoPcs => pc'[q] = pc[q] /\ at'[q] = at[q]
<1> USE DEF ProcessTypes, UndoPcs, Goto, Return
<1>1. CASE Application \/ (\E state \in {"paused", "running", "cancelled"} : Control(state))
  BY Zenon, <1>1, OuterFrame
<1>2. ASSUME NEW p \in Processes, StartBackfill(p) \/ Backfill(p) PROVE Goal
  <2> HIDE DEF ProcessTypes
  <2> QED
    BY <1>2, BackfillFrame DEF ProcessTypes, BackfillPcs
<1>3. ASSUME NEW p \in Processes,
             Start(p) \/ Act(p) \/ Interrupt(p) \/ Note(p) \/ Complete(p)
      PROVE  Goal
  BY Zenon, <1>3 DEF Start, Act, Interrupt, Note, Complete
<1>4. ASSUME NEW p \in Processes,
             \/ StartContract(p) \/ PassGate(p) \/ Execute(p) \/ Checkpoint(p)
             \/ InterruptContract(p) \/ Verify(p) \/ Crash(p)
      PROVE  Goal
  BY ZenonT(30), <1>4 DEF StartContract, PassGate, Execute, Checkpoint, InterruptContract, Verify,
     Crash, control
<1> QED
  BY Zenon, <1>1, <1>2, <1>3, <1>4 DEF ZNext, Command

-----------------------------------------------------------------------------
(* Rows.                                                                   *)

\* What the trigger stores for a statement of an application: behind it rows
\* agree and are filled, without it they are stored as written.
LEMMA TriggerStores ==
    ASSUME TableTypes, NEW k \in Keys, NEW o \in Values, NEW n \in Values,
           rows[k] # Gone => Row(o, n) # rows[k],
           NEW r \in Trigger(rows[k], Row(o, n))
    PROVE  /\ r \in [old : Values, new : Values]
           /\ sync => Agrees(r) /\ ~Unfilled(r)
           /\ ~sync => r = Row(o, n)
<1>1. SceneOK(scene)
  BY Zenon, ZeroDowntimeAssumption DEF TableTypes
<1> DEFINE was == IF rows[k] = Gone THEN Row(Null, Null) ELSE rows[k]
<1>2. was \in [old : Values, new : Values]
  BY Zenon, <1>1 DEF TableTypes, RowType, Row, SceneOK, Values
<1>3. CASE ~sync
  BY <1>3 DEF Trigger, Row
<1>4. CASE sync /\ o # was.old /\ n = was.new
  <2>1. r = [Row(o, n) EXCEPT !.new = Forward(o)]
    BY Zenon, <1>4 DEF Trigger, Row
  <2>2. Forward(o) \in Values /\ (Forward(o) = Null => o = Null)
    BY Zenon, <1>1 DEF SceneOK, Values, Forward
  <2> QED
    BY Zenon, <1>4, <2>1, <2>2 DEF Row, Agrees, Unfilled
<1>5. CASE sync /\ n # was.new /\ o = was.old
  <2>1. scene.reverse # <<>> /\ r = [Row(o, n) EXCEPT !.old = Reverse(n)]
    BY Zenon, <1>5 DEF Trigger, Row
  <2>2. Reverse(n) \in Values /\ (n = Null => Reverse(n) = Null)
    BY Zenon, <1>1, <2>1 DEF SceneOK, Values, Reverse
  <2> QED
    BY Zenon, <1>5, <2>1, <2>2 DEF Row, Agrees, Unfilled
<1>6. CASE sync /\ ~(o # was.old /\ n = was.new) /\ ~(n # was.new /\ o = was.old)
  <2>1. r = Row(o, n) /\ (r = was \/ n = Forward(o))
    BY Zenon, <1>6 DEF Trigger, Row
  <2>2. CASE r = was
    <3>1. rows[k] = Gone
      BY Zenon, <2>1, <2>2
    <3>2. o = Null /\ n = Null
      BY <2>1, <2>2, <3>1 DEF Row
    <3> QED
      BY Zenon, <1>6, <2>1, <3>2 DEF Row, Agrees, Unfilled
  <2>3. CASE n = Forward(o)
    <3>1. n = Null => o = Null
      BY Zenon, <1>1, <2>3 DEF SceneOK, Values, Forward
    <3> QED
      BY Zenon, <1>6, <2>1, <2>3, <3>1 DEF Row, Agrees, Unfilled
  <2> QED
    BY Zenon, <2>1, <2>2, <2>3
<1> QED
  BY Zenon, <1>3, <1>4, <1>5, <1>6

\* A statement of an application opens a row version that the trigger stores;
\* without trigger and without the new version it leaves the new column alone.
LEMMA WriteStores ==
    ASSUME TableTypes, NEW k \in Keys, Write(k)
    PROVE  \E r \in [old : Values, new : Values] :
              /\ open' = [open EXCEPT ![k] = [by |-> "app", row |-> r]]
              /\ sync => Agrees(r) /\ ~Unfilled(r)
              /\ ~sync /\ "cur" \notin views /\ Untouched(rows[k]) => Untouched(r)
<1> DEFINE was == IF rows[k] = Gone THEN Row(Null, Null) ELSE rows[k]
<1>1. PICK o \in Values, n \in Values :
         /\ n # was.new => NewWritable
         /\ rows[k] # Gone => Row(o, n) # rows[k]
         /\ \E r \in Trigger(rows[k], Row(o, n)) :
               open' = [open EXCEPT ![k] = [by |-> "app", row |-> r]]
  BY Zenon DEF Write
<1>2. PICK r \in Trigger(rows[k], Row(o, n)) :
         open' = [open EXCEPT ![k] = [by |-> "app", row |-> r]]
  BY Zenon, <1>1
<1>3. /\ r \in [old : Values, new : Values]
      /\ sync => Agrees(r) /\ ~Unfilled(r)
      /\ ~sync => r = Row(o, n)
  BY Zenon, <1>1, <1>2, TriggerStores
<1>4. Untouched(rows[k]) => was.new = Null
  BY Zenon DEF Untouched, Row
<1>5. ~sync /\ "cur" \notin views /\ Untouched(rows[k]) => Untouched(r)
  BY <1>1, <1>3, <1>4 DEF Untouched, Row, NewWritable
<1> QED
  BY Zenon, <1>2, <1>3, <1>5

\* What a batch stores for a row that waits for it.
LEMMA BatchStores ==
    ASSUME TableTypes, NEW k \in Keys, Unfilled(rows[k]),
           NEW r, r = [rows[k] EXCEPT !.new = Forward(rows[k].old)]
    PROVE  r \in [old : Values, new : Values] /\ Agrees(r) /\ ~Unfilled(r)
<1>1. SceneOK(scene)
  BY Zenon, ZeroDowntimeAssumption DEF TableTypes
<1>2. rows[k] \in [old : Values, new : Values]
  BY Zenon DEF TableTypes, RowType, Unfilled
<1>3. Forward(rows[k].old) \in Values /\ Forward(rows[k].old) # Null
  BY Zenon, <1>1, <1>2 DEF SceneOK, Values, Forward, Unfilled
<1>4. r = [old |-> rows[k].old, new |-> Forward(rows[k].old)]
  BY Zenon, <1>2
<1> QED
  BY Zenon, <1>2, <1>3, <1>4 DEF Agrees, Unfilled

-----------------------------------------------------------------------------
(* Types and positions.                                                    *)

\* Rows and row versions stay rows.
LEMMA TableTypesStep ==
    ASSUME TableTypes, ZNext
    PROVE  TableTypes'
<1>1. UNCHANGED scene
  BY Zenon, TableFrame
<1>2. CASE UNCHANGED table
  BY Zenon, <1>1, <1>2 DEF table, TableTypes, RowType, Values
<1>3. ASSUME NEW k \in Keys, Write(k) PROVE TableTypes'
  <2>1. PICK r \in [old : Values, new : Values] :
           open' = [open EXCEPT ![k] = [by |-> "app", row |-> r]]
    BY Zenon, <1>3, WriteStores
  <2> QED
    BY Zenon, <1>3, <2>1 DEF Write, TableTypes, RowType, Values
<1>4. ASSUME NEW k \in Keys, Delete(k) \/ Finish(k) PROVE TableTypes'
  BY SMTT(30), <1>4 DEF Delete, Finish, Closed, TableTypes, RowType, Values
<1>5. ASSUME NEW p \in Processes, Fill(p) PROVE TableTypes'
  <2>1. ASSUME NEW k \in Keys
        PROVE  open'[k] \in [by : Processes \cup {"app", Nobody}, row : RowType]
    <3>1. CASE k \in Batch
      <4>1. open'[k] = [by |-> p, row |-> [rows[k] EXCEPT !.new = Forward(rows[k].old)]]
        BY Zenon, <1>5, <3>1 DEF Fill
      <4>2. Unfilled(rows[k])
        BY Zenon, <3>1 DEF Batch
      <4> QED
        BY <4>1, <4>2, BatchStores DEF RowType
    <3>2. CASE k \notin Batch
      BY Zenon, <1>5, <3>2 DEF Fill, TableTypes
    <3> QED
      BY Zenon, <3>1, <3>2
  <2>2. open' = [k \in Keys |-> open'[k]]
    BY Zenon, <1>5 DEF Fill
  <2> QED
    BY Zenon, <1>1, <1>5, <2>1, <2>2 DEF Fill, TableTypes, RowType, Values
<1>6. ASSUME NEW p \in Processes, Commit(p) \/ BatchFails(p) \/ Crash(p) PROVE TableTypes'
  BY <1>1, <1>6 DEF Commit, BatchFails, Crash, Sees, Dropped, Closed, TableTypes,
     RowType, Values
<1> QED
  BY Zenon, <1>2, <1>3, <1>4, <1>5, <1>6, TableFrame

\* Columns, trigger and versions stay what they are.
LEMMA SchemaTypesStep ==
    ASSUME SchemaTypes, ZNext
    PROVE  SchemaTypes'
<1>1. CASE UNCHANGED objects
  BY Zenon, <1>1 DEF objects, SchemaTypes
<1>2. ASSUME NEW p \in Processes, Act(p) PROVE SchemaTypes'
  BY Zenon, <1>2 DEF Act, mutate, installVersions, SchemaTypes
<1>3. ASSUME NEW p \in Processes, Execute(p) PROVE SchemaTypes'
  BY Zenon, <1>3 DEF Execute, SchemaTypes
<1>4. ASSUME NEW p \in Processes, Undo(p) PROVE SchemaTypes'
  BY Zenon, <1>4 DEF Undo, mutate, SchemaTypes
<1> QED
  BY Zenon, <1>1, <1>2, <1>3, <1>4, ObjectsFrame

\* The rows of the commands keep their types.
LEMMA ControlTypesStep ==
    ASSUME Types, Placed, ZNext
    PROVE  ControlTypes'
<1> USE DEF Types, ControlTypes, ProcessTypes, Placed, Locks, BackfillPcs, StartPcs,
      ContractPcs, UndoPcs
<1>1. CASE Application \/ (\E state \in {"paused", "running", "cancelled"} : Control(state))
  BY Zenon, <1>1, OuterFrame
<1>2. ASSUME NEW p \in Processes, StartBackfill(p) \/ Backfill(p) PROVE ControlTypes'
  BY <1>2, BackfillFrame
<1>3. ASSUME NEW p \in Processes,
                Start(p) \/ Interrupt(p) \/ Note(p) \/ Complete(p)
      PROVE  ControlTypes'
  BY <1>3 DEF Start, Interrupt, Note, Complete, Domain, Return, control
<1>4. ASSUME NEW p \in Processes, Act(p) PROVE ControlTypes'
  BY Zenon, <1>4 DEF Act, PhaseNames, mutate, installVersions, control
<1>5. ASSUME NEW p \in Processes,
                StartContract(p) \/ PassGate(p) \/ Checkpoint(p)
                \/ InterruptContract(p) \/ Verify(p)
      PROVE  ControlTypes'
  BY <1>5 DEF StartContract, PassGate, Checkpoint, InterruptContract, Verify, Domain,
    Return, Gate, control
<1>6. ASSUME NEW p \in Processes, Execute(p) PROVE ControlTypes'
  BY Zenon, <1>6 DEF Execute, control
<1>7. ASSUME NEW p \in Processes,
                StartRollback(p) \/ InterruptRollback(p) \/ NoteUndone(p)
                \/ Audit(p) \/ Close(p)
      PROVE  ControlTypes'
  BY <1>7 DEF StartRollback, InterruptRollback, NoteUndone, Audit, Close, Domain,
    Eligible, ResumeAt, Return, control
<1>8. ASSUME NEW p \in Processes, Undo(p) PROVE ControlTypes'
  BY <1>8 DEF Undo, UndoPhases, mutate, control
<1>9. ASSUME NEW p \in Processes, Crash(p) PROVE ControlTypes'
  BY Zenon, <1>9 DEF Crash, Dropped, control
<1> QED
  BY Zenon, <1>1, <1>2, <1>3, <1>4, <1>5, <1>6, <1>7, <1>8, <1>9 DEF ZNext, Command

\* Locks and positions keep their types.
LEMMA ProcessTypesStep ==
    ASSUME Types, Placed, ZNext
    PROVE  ProcessTypes'
<1> USE DEF Types, ControlTypes, ProcessTypes, Placed, Locks, BackfillPcs, StartPcs,
      ContractPcs, UndoPcs
<1>1. CASE Application \/ (\E state \in {"paused", "running", "cancelled"} : Control(state))
  BY Zenon, <1>1, OuterFrame
<1>2. ASSUME NEW p \in Processes, StartBackfill(p) \/ Backfill(p) PROVE ProcessTypes'
  BY <1>2, BackfillFrame
<1>3. ASSUME NEW p \in Processes,
                Start(p) \/ Interrupt(p) \/ Note(p) \/ Complete(p)
      PROVE  ProcessTypes'
  BY <1>3 DEF Start, Interrupt, Note, Complete, Domain, Return, Goto, control
<1>4. ASSUME NEW p \in Processes, Act(p) PROVE ProcessTypes'
  BY Zenon, <1>4 DEF Act, PhaseNames, mutate, installVersions, Goto, control
<1>5. ASSUME NEW p \in Processes,
                StartContract(p) \/ PassGate(p) \/ Checkpoint(p)
                \/ InterruptContract(p) \/ Verify(p)
      PROVE  ProcessTypes'
  BY <1>5 DEF StartContract, PassGate, Checkpoint, InterruptContract, Verify, Domain,
    Return, Gate, Goto, control
<1>6. ASSUME NEW p \in Processes, Execute(p) PROVE ProcessTypes'
  BY Zenon, <1>6 DEF Execute, Goto, control
<1>7. ASSUME NEW p \in Processes,
                InterruptRollback(p) \/ NoteUndone(p)
                \/ Audit(p) \/ Close(p)
      PROVE  ProcessTypes'
  BY <1>7 DEF InterruptRollback, NoteUndone, Audit, Close, Return, Goto, control
<1>8. ASSUME NEW p \in Processes, StartRollback(p) PROVE ProcessTypes'
  BY <1>8 DEF StartRollback, Domain, Eligible, ResumeAt, Goto, control
<1>9. ASSUME NEW p \in Processes, Undo(p) PROVE ProcessTypes'
  BY Zenon, <1>9 DEF Undo, UndoPhases, mutate, Goto, control
<1>10. ASSUME NEW p \in Processes, Crash(p) PROVE ProcessTypes'
  BY Zenon, <1>10 DEF Crash, Dropped, Goto, control
<1> QED
  BY Zenon, <1>1, <1>2, <1>3, <1>4, <1>5, <1>6, <1>7, <1>8, <1>9, <1>10 DEF ZNext, Command

\* A command keeps its lock as long as it works.
LEMMA LockedStep ==
    ASSUME Types, Locked, ZNext
    PROVE  Locked'
<1> USE DEF Types, ProcessTypes, Locked, Locks, BackfillPcs, StartPcs, ContractPcs,
      UndoPcs
<1>1. CASE Application \/ (\E state \in {"paused", "running", "cancelled"} : Control(state))
  BY Zenon, <1>1, OuterFrame, ZeroDowntimeAssumption
<1>2. ASSUME NEW p \in Processes, StartBackfill(p) \/ Backfill(p) PROVE Locked'
  BY <1>2, BackfillFrame, ZeroDowntimeAssumption
<1>3. ASSUME NEW p \in Processes,
                Start(p) \/ Interrupt(p) \/ Note(p) \/ Complete(p)
      PROVE  Locked'
  BY <1>3, ZeroDowntimeAssumption DEF Start, Interrupt, Note, Complete, Domain, Return,
    Goto
<1>4. ASSUME NEW p \in Processes, Act(p) PROVE Locked'
  BY <1>4, ZeroDowntimeAssumption DEF Act, PhaseNames, mutate, installVersions, Goto
<1>5. ASSUME NEW p \in Processes,
                StartContract(p) \/ PassGate(p) \/ Checkpoint(p)
                \/ InterruptContract(p) \/ Verify(p)
      PROVE  Locked'
  BY <1>5, ZeroDowntimeAssumption DEF StartContract, PassGate, Checkpoint,
    InterruptContract, Verify, Domain, Return, Gate, Goto
<1>6. ASSUME NEW p \in Processes, Execute(p) PROVE Locked'
  BY Zenon, <1>6, ZeroDowntimeAssumption DEF Execute, Goto
<1>7. ASSUME NEW p \in Processes,
                StartRollback(p) \/ InterruptRollback(p) \/ NoteUndone(p)
                \/ Audit(p) \/ Close(p)
      PROVE  Locked'
  BY <1>7, ZeroDowntimeAssumption DEF StartRollback, InterruptRollback, NoteUndone,
    Audit, Close, Domain, Eligible, ResumeAt, Return, Goto
<1>8. ASSUME NEW p \in Processes, Undo(p) PROVE Locked'
  BY Zenon, <1>8, ZeroDowntimeAssumption DEF Undo, UndoPhases, mutate, Goto
<1>9. ASSUME NEW p \in Processes, Crash(p) PROVE Locked'
  BY SMTT(30), <1>9, ZeroDowntimeAssumption DEF Crash, Dropped, Goto
<1> QED
  BY Zenon, <1>1, <1>2, <1>3, <1>4, <1>5, <1>6, <1>7, <1>8, <1>9 DEF ZNext, Command

\* Commands and their rows keep agreeing.
LEMMA PlacedStep ==
    ASSUME Types, Locked, Placed, ZNext
    PROVE  Placed'
<1> USE DEF Types, ControlTypes, ProcessTypes, Locked, Placed, Locks, BackfillPcs,
      StartPcs, ContractPcs, UndoPcs
<1>1. CASE Application \/ (\E state \in {"paused", "running", "cancelled"} : Control(state))
  BY SMTT(30), <1>1, OuterFrame, ZeroDowntimeAssumption
<1>2. ASSUME NEW p \in Processes, StartBackfill(p) \/ Backfill(p) PROVE Placed'
  BY <1>2, BackfillFrame, ZeroDowntimeAssumption
<1>3. ASSUME NEW p \in Processes,
                Interrupt(p) \/ Note(p) \/ Complete(p)
      PROVE  Placed'
  BY SMTT(30), <1>3, ZeroDowntimeAssumption DEF Interrupt, Note, Complete, Return, Goto, control
<1>4. ASSUME NEW p \in Processes, Start(p) PROVE Placed'
  BY <1>4, ZeroDowntimeAssumption DEF Start, Domain, Goto, control
<1>5. ASSUME NEW p \in Processes, Act(p) PROVE Placed'
  BY <1>5, ZeroDowntimeAssumption DEF Act, PhaseNames, mutate, installVersions, Goto,
    control
<1>6. ASSUME NEW p \in Processes,
                PassGate(p) \/ Checkpoint(p)
                \/ InterruptContract(p) \/ Verify(p)
      PROVE  Placed'
  BY SMTT(30), <1>6, ZeroDowntimeAssumption DEF PassGate, Checkpoint, InterruptContract, Verify,
    Return, Gate, Goto, control
<1>7. ASSUME NEW p \in Processes, StartContract(p) PROVE Placed'
  BY <1>7, ZeroDowntimeAssumption DEF StartContract, Domain, Goto, control
<1>8. ASSUME NEW p \in Processes, Execute(p) PROVE Placed'
  <2>1. /\ pc' = [pc EXCEPT ![p] = "post"] /\ contract' = [contract EXCEPT !.state = "running"]
        /\ pc[p] = "step" /\ UNCHANGED <<start, undo, lock, at>>
    BY Zenon, <1>8 DEF Execute, Goto
  <2> QED
    BY <2>1
<1>9. ASSUME NEW p \in Processes,
                StartRollback(p) \/ InterruptRollback(p) \/ NoteUndone(p)
                \/ Audit(p) \/ Close(p)
      PROVE  Placed'
  BY SMTT(30), <1>9, ZeroDowntimeAssumption DEF StartRollback, InterruptRollback, NoteUndone,
    Audit, Close, Domain, Eligible, ResumeAt, Return, Goto, control
<1>10. ASSUME NEW p \in Processes, Undo(p) PROVE Placed'
  BY SMTT(30), <1>10, ZeroDowntimeAssumption DEF Undo, UndoPhases, mutate, Goto, control
<1>11. ASSUME NEW p \in Processes, Crash(p) PROVE Placed'
  BY SMTT(30), <1>11, ZeroDowntimeAssumption DEF Crash, Dropped, Goto, control
<1> QED
  BY Zenon, <1>1, <1>2, <1>3, <1>4, <1>5, <1>6, <1>7, <1>8, <1>9, <1>10, <1>11 DEF ZNext,
    Command

-----------------------------------------------------------------------------
(* Synchronization.                                                        *)

\* What holds before the trigger is installed.
LEMMA BeforeStep ==
    ASSUME SyncInv, ZNext
    PROVE  Before'
<1> USE DEF SyncInv, Types, ControlTypes, ProcessTypes, TableTypes, Locked, Placed,
      Before, Untouched, Locks, BackfillPcs, StartPcs, ContractPcs, UndoPcs
<1>1. ASSUME NEW k \in Keys, Write(k) \/ Delete(k) \/ Finish(k) PROVE Before'
  <2>1. SUFFICES ASSUME ~sync, start.state # "complete"
                 PROVE  \A i \in Keys : Untouched(rows'[i]) /\ Untouched(open'[i].row)
    BY Zenon, <1>1 DEF Write, Delete, Finish, objects, control
  <2>2. CASE Write(k)
    <3> HIDE DEF TableTypes, Untouched
    <3>1. PICK r \in [old : Values, new : Values] :
             /\ open' = [open EXCEPT ![k] = [by |-> "app", row |-> r]]
             /\ Untouched(r)
      BY Zenon, <2>1, <2>2, WriteStores
    <3> QED
      BY SMTT(30), <2>1, <2>2, <3>1 DEF Write, TableTypes
  <2>3. CASE Delete(k) \/ Finish(k)
    BY <2>1, <2>3 DEF Delete, Finish, Closed
  <2> QED
    BY Zenon, <1>1, <2>2, <2>3
<1>2. ASSUME NEW state \in {"paused", "running", "cancelled"}, Control(state)
      PROVE  Before'
  BY Zenon, <1>2 DEF Control, table, objects
<1>3. ASSUME NEW p \in Processes, StartBackfill(p) \/ Backfill(p) PROVE Before'
  BY <1>3, BackfillFrame, ZeroDowntimeAssumption
<1>4. ASSUME NEW p \in Processes,
                Start(p) \/ Interrupt(p) \/ Note(p) \/ Complete(p)
      PROVE  Before'
  BY <1>4, ZeroDowntimeAssumption DEF Start, Interrupt, Note, Complete, Domain, Return,
    Goto, frame, table, objects, control
<1>5. ASSUME NEW p \in Processes, Act(p) PROVE Before'
  BY <1>5, ZeroDowntimeAssumption DEF Act, PhaseNames, mutate, installVersions, Goto,
    frame, table, objects, control
<1>6. ASSUME NEW p \in Processes,
                StartContract(p) \/ PassGate(p) \/ Checkpoint(p)
                \/ InterruptContract(p) \/ Verify(p)
      PROVE  Before'
  BY <1>6, ZeroDowntimeAssumption DEF StartContract, PassGate, Checkpoint,
    InterruptContract, Verify, Domain, Return, Gate, Goto, frame, table, objects,
    control
<1>7. ASSUME NEW p \in Processes, Execute(p) PROVE Before'
  BY Zenon, <1>7, ZeroDowntimeAssumption DEF Execute, Goto, frame, table, objects, control
<1>8. ASSUME NEW p \in Processes,
                StartRollback(p) \/ InterruptRollback(p) \/ NoteUndone(p)
                \/ Audit(p) \/ Close(p)
      PROVE  Before'
  BY Zenon, <1>8, ZeroDowntimeAssumption DEF StartRollback, InterruptRollback, NoteUndone,
    Audit, Close, Domain, Eligible, ResumeAt, Return, Goto, frame, table, objects,
    control
<1>9. ASSUME NEW p \in Processes, Undo(p) PROVE Before'
  BY Zenon, <1>9, ZeroDowntimeAssumption DEF Undo, UndoPhases, mutate, Goto, frame, table,
    objects, control
<1>10. ASSUME NEW p \in Processes, Crash(p) PROVE Before'
  <2>1. \A k \in Keys : open'[k] = open[k] \/ open'[k].row = Gone
    BY Zenon, <1>10 DEF Crash, Dropped, Closed
  <2>2. /\ \A q \in Processes : pc'[q] \in {pc[q], "idle"}
        /\ UNCHANGED <<rows, sync, views, start, job, at>>
    BY Zenon, <1>10 DEF Crash, Goto, objects, control
  <2> QED
    BY SMTT(30), <2>1, <2>2
<1> QED
  BY Zenon, <1>1, <1>2, <1>3, <1>4, <1>5, <1>6, <1>7, <1>8, <1>9, <1>10 DEF ZNext, Command,
    Application

\* The rows that a step which writes neither rows nor row versions leaves in
\* agreement, as long as it does not install the trigger.
LEMMA BehindFrame ==
    ASSUME Behind, UNCHANGED <<scene, rows, open>>, sync' => sync
    PROVE  Behind'
  BY Zenon DEF Behind, Agrees, Unfilled, Forward, Reverse

\* Row versions are committed, or dropped, as they are.
LEMMA BehindMoves ==
    ASSUME Behind, UNCHANGED <<scene, sync>>,
           \A k \in Keys : rows'[k] \in {rows[k], open[k].row},
           \A k \in Keys : open'[k].row \in {open[k].row, Gone}
    PROVE  Behind'
  BY DEF Behind, Agrees, Unfilled, Forward, Reverse

\* Behind the trigger rows keep agreeing.
LEMMA BehindStep ==
    ASSUME SyncInv, ZNext
    PROVE  Behind'
<1>1. Types /\ TableTypes /\ Before /\ Behind
  BY Zenon DEF SyncInv, Types
<1>2. ASSUME NEW k \in Keys, Write(k) PROVE Behind'
  <2>1. PICK r \in [old : Values, new : Values] :
           /\ open' = [open EXCEPT ![k] = [by |-> "app", row |-> r]]
           /\ sync => Agrees(r) /\ ~Unfilled(r)
    BY Zenon, <1>1, <1>2, WriteStores
  <2>2. \A i \in Keys : open'[i].row \in {open[i].row, r} /\ (open'[i].row # open[i].row => open'[i].row = r)
    BY Zenon, <1>1, <2>1 DEF TableTypes
  <2> QED
    BY SMTT(30), <1>1, <1>2, <2>1, <2>2 DEF Write, objects, Behind, Agrees, Unfilled, Forward, Reverse
<1>3. ASSUME NEW k \in Keys, Delete(k) \/ Finish(k) PROVE Behind'
  BY SMTT(30), <1>1, <1>3, BehindMoves DEF Delete, Finish, objects, TableTypes, Closed
<1>4. ASSUME NEW p \in Processes, Fill(p) PROVE Behind'
  <2>1. ASSUME NEW k \in Keys, sync
        PROVE  Agrees(open'[k].row) /\ ~Unfilled(open'[k].row)
    <3>1. CASE k \in Batch
      <4>1. open'[k].row = [rows[k] EXCEPT !.new = Forward(rows[k].old)]
        BY Zenon, <1>4, <3>1 DEF Fill
      <4>2. Unfilled(rows[k])
        BY Zenon, <3>1 DEF Batch
      <4> QED
        BY Zenon, <1>1, <4>1, <4>2, BatchStores
    <3>2. CASE k \notin Batch
      BY Zenon, <1>1, <1>4, <2>1, <3>2 DEF Fill, Behind
    <3> QED
      BY Zenon, <3>1, <3>2
  <2> QED
    BY <1>1, <1>4, <2>1 DEF Fill, frame, objects, Behind, Agrees, Unfilled, Forward, Reverse
<1>5. ASSUME NEW p \in Processes, Commit(p) \/ BatchFails(p) \/ Crash(p) PROVE Behind'
  BY <1>1, <1>5, BehindMoves
     DEF Commit, BatchFails, Crash, Sees, Dropped, Closed, frame, objects, TableTypes
<1>6. ASSUME NEW p \in Processes, Act(p) PROVE Behind'
  <2>1. CASE sync' => sync
    BY Zenon, <1>1, <1>6, <2>1, BehindFrame DEF Act, frame, table
  <2>2. CASE sync' /\ ~sync
    <3>1. start.state # "complete" /\ UNCHANGED <<rows, open>>
      BY Zenon, <1>6, <2>2
         DEF SyncInv, Locked, Placed, Act, table, StartPcs
    <3>2. \A k \in Keys : Untouched(rows[k]) /\ Untouched(open[k].row)
      BY Zenon, <1>1, <2>2, <3>1 DEF Before
    <3>3. mutate(TRUE)
      BY Zenon, <1>6, <2>2 DEF Act
    <3>4. \A k \in Keys : open[k].row = Gone
      BY <3>3 DEF mutate, Quiet, Closed
    <3> QED
      BY Zenon, <3>1, <3>2, <3>4 DEF Behind, Untouched, Agrees, Unfilled
  <2> QED
    BY Zenon, <2>1, <2>2
<1>7. ASSUME NEW p \in Processes, Execute(p) PROVE Behind'
  <2>1. (sync' => sync) /\ UNCHANGED <<frame, table>>
    BY Zenon, <1>7 DEF Execute
  <2> QED
    BY Zenon, <1>1, <2>1, BehindFrame DEF frame, table
<1>8. ASSUME NEW p \in Processes, Undo(p) PROVE Behind'
  <2>1. (sync' => sync) /\ UNCHANGED <<frame, table>>
    BY Zenon, <1>8 DEF Undo, mutate
  <2> QED
    BY Zenon, <1>1, <2>1, BehindFrame DEF frame, table
<1>9. CASE UNCHANGED <<table, objects>>
  BY Zenon, <1>1, <1>9, TableFrame, BehindFrame DEF table, objects
<1> QED
  BY Zenon, <1>2, <1>3, <1>4, <1>5, <1>6, <1>7, <1>8, <1>9, TableFrame, ObjectsFrame

\* A job that is complete, and a gate that is passed, leave no row behind.
LEMMA FilledStep ==
    ASSUME SyncInv, ZNext
    PROVE  Filled'
<1>0. /\ TableTypes /\ ControlTypes /\ ProcessTypes /\ Locked /\ Placed /\ Before
      /\ Behind /\ Filled
  BY Zenon DEF SyncInv, Types
<1>1. ASSUME NEW k \in Keys, Write(k) \/ Delete(k) \/ Finish(k) PROVE Filled'
  BY Zenon, <1>0, <1>1 DEF Write, Delete, Finish, objects, control, TableTypes, Behind, Filled
<1>2. ASSUME NEW p \in Processes, Commit(p) PROVE Filled'
  BY <1>0, <1>2 DEF Commit, Sees, More, Goto, frame, objects, Behind, Filled, ProcessTypes
<1>3. ASSUME NEW p \in Processes, PassGate(p) PROVE Filled'
  <2>1. CASE pc' = [pc EXCEPT ![p] = "step"]
    <3>1. job.state = "complete" /\ UNCHANGED <<rows, sync>>
      BY Zenon, <1>0, <1>3, <2>1 DEF PassGate, Gate, Return, Goto, table, objects, ProcessTypes
    <3> QED
      BY Zenon, <1>0, <3>1 DEF Filled
  <2>2. CASE pc' = [pc EXCEPT ![p] = "idle"]
    BY Zenon, <1>0, <1>3, <2>2 DEF PassGate, table, objects, Filled, ProcessTypes
  <2> QED
    BY Zenon, <1>3, <2>1, <2>2 DEF PassGate, Return, Goto
<1>4. ASSUME NEW p \in Processes, Act(p), sync', ~sync PROVE Filled'
  <2>1. start.state # "complete" /\ job.state = "none" /\ UNCHANGED job
    BY Zenon, <1>0, <1>4 DEF Locked, Placed, Act, Before, StartPcs
  <2>2. \A q \in Processes : pc'[q] # "step"
    BY Zenon, <1>0, <1>4, <2>1 DEF Act, Placed, Goto, ProcessTypes
  <2> QED
    BY Zenon, <2>1, <2>2 DEF Filled
<1>5. ASSUME UNCHANGED rows, sync' => sync,
             job'.state = "complete" => job.state = "complete",
             \A q \in Processes : pc'[q] = "step" => pc[q] = "step"
      PROVE  Filled'
  BY Zenon, <1>0, <1>5 DEF Filled
<1>6. UNCHANGED rows \/ (\E k \in Keys : Finish(k)) \/ (\E p \in Processes : Commit(p))
  BY Zenon, TableFrame DEF table, Write, Delete, Fill, BatchFails, Crash
<1>7. (sync' => sync) \/ \E p \in Processes : Act(p)
  BY Zenon, ObjectsFrame DEF objects, Execute, Undo, mutate
<1>8. \/ \A q \in Processes : pc'[q] = "step" => pc[q] = "step"
      \/ \E p \in Processes : PassGate(p)
  <2>1. ASSUME NEW p \in Processes,
               StartContract(p) \/ Execute(p) \/ Checkpoint(p) \/ InterruptContract(p) \/ Verify(p)
        PROVE  \A q \in Processes : pc'[q] = "step" => pc[q] = "step"
    BY Zenon, <1>0, <2>1 DEF StartContract, Execute, Checkpoint, InterruptContract, Verify, Goto,
       Return, ProcessTypes
  <2> QED
    BY Zenon, <1>0, <2>1, ContractFrame DEF ContractPcs
<1> QED
  BY Zenon, <1>0, <1>1, <1>2, <1>3, <1>4, <1>5, <1>6, <1>7, <1>8, JobFrame

-----------------------------------------------------------------------------
(* Contract and rollback.                                                  *)

\* The steps of the contract plan.
LEMMA StepNames ==
    ASSUME NEW i \in 0..2
    PROVE  \/ i = 0 /\ Steps[i + 1] = "withdraw_previous"
           \/ i = 1 /\ Steps[i + 1] = "drop_sync"
           \/ i = 2 /\ Steps[i + 1] = "drop_old"
<1>1. i = 0 \/ i = 1 \/ i = 2
  OBVIOUS
<1>2. Steps[1] = "withdraw_previous" /\ Steps[2] = "drop_sync" /\ Steps[3] = "drop_old"
  BY Zenon DEF Steps
<1> QED
  BY <1>1, <1>2

\* What the postconditions of the steps say.
LEMMA StepHolds ==
    /\ Holds("withdraw_previous") <=> "prev" \notin views
    /\ Holds("drop_sync") <=> ~sync
    /\ Holds("drop_old") <=> "old" \notin cols
  BY Zenon DEF Holds

\* When only the previous version is published.
LEMMA OnlyPrevious ==
    ASSUME views \subseteq {"prev", "cur"}, "prev" \in views, "cur" \notin views
    PROVE  views = {"prev"}
  BY Zenon

\* What a step of contract does.
LEMMA StepEffect ==
    ASSUME NEW p \in Processes, Execute(p), at[p] \in 0..2
    PROVE  /\ "prev" \in views /\ "prev" \notin views' => at[p] = 0
           /\ sync' => sync
           /\ sync /\ ~sync' => at[p] = 1
           /\ "old" \in cols /\ "old" \notin cols' => at[p] = 2
           /\ views' \subseteq views /\ cols' \subseteq cols
           /\ "cur" \in views => "cur" \in views'
<1>1. PICK step \in {Steps[at[p] + 1], "no effect"} :
         /\ views' = IF step = "withdraw_previous" THEN views \ {"prev"} ELSE views
         /\ sync' = (sync /\ step # "drop_sync")
         /\ cols' = IF step = "drop_old" THEN cols \ {"old"} ELSE cols
  BY Zenon DEF Execute
<1>2. /\ step = "withdraw_previous" => at[p] = 0
      /\ step = "drop_sync" => at[p] = 1
      /\ step = "drop_old" => at[p] = 2
  BY Zenon, StepNames
<1> QED
  BY Zenon, <1>1, <1>2

\* What contract has recorded stays true.
LEMMA ContractedStep ==
    ASSUME LifeInv, OneLifecycle, ZNext
    PROVE  Contracted'
<1>0. /\ TableTypes /\ ControlTypes /\ ProcessTypes /\ Locked /\ Placed /\ Before
      /\ Contracted /\ Undone /\ UNCHANGED scene
  BY Zenon, TableFrame DEF LifeInv, SyncInv, Types
<1>1. CASE /\ UNCHANGED <<contract, objects>>
           /\ \A q \in Processes : pc'[q] \in ContractPcs => pc'[q] = pc[q]
  BY Zenon, <1>0, <1>1 DEF objects, Contracted, Desired
<1> USE DEF ProcessTypes, Contracted, ContractPcs
<1>2. ASSUME NEW p \in Processes, Act(p) PROVE Contracted'
  <2>1. start.state # "complete" /\ contract.done = 0 /\ contract.state # "complete"
    BY <1>0, <1>2 DEF Act, Locked, Placed, StartPcs, ControlTypes
  <2>2. "prev" \in views' => sync'
    BY SMTT(30), <1>0, <1>2, <2>1 DEF Act, PhaseNames, mutate, installVersions, Before, Placed
  <2> QED
    BY <1>0, <1>2, <2>1, <2>2 DEF Act, Goto, frame
<1>3. ASSUME NEW p \in Processes, Undo(p) PROVE Contracted'
  <2>1. pc[p] = "undo" /\ UNCHANGED <<contract, scene>> /\ pc' = [pc EXCEPT ![p] = "undone"]
    BY Zenon, <1>3 DEF Undo, Goto, frame
  <2>2. "rollback" \in scene.commands
    BY Zenon, <1>0, <2>1 DEF Undone, UndoPcs
  <2>3. "contract" \notin scene.commands
    BY Zenon, <1>0, <2>2 DEF OneLifecycle, TableTypes
  <2> QED
    BY <1>0, <2>1, <2>3 DEF ControlTypes
<1>4. ASSUME NEW p \in Processes, StartContract(p) PROVE Contracted'
  BY <1>0, <1>4 DEF StartContract, Domain, Goto, frame, objects, Desired, ControlTypes
<1>5. ASSUME NEW p \in Processes, PassGate(p) PROVE Contracted'
  BY Zenon, <1>0, <1>5 DEF PassGate, Return, Goto, frame, objects, Desired, ControlTypes
<1>6. ASSUME NEW p \in Processes, Execute(p) PROVE Contracted'
  <2>1. /\ pc[p] = "step" /\ pc' = [pc EXCEPT ![p] = "post"]
        /\ contract' = [contract EXCEPT !.state = "running"] /\ UNCHANGED scene
    BY Zenon, <1>6 DEF Execute, Goto, frame
  <2>2. at[p] = contract.done /\ at[p] \in 0..2 /\ contract.state # "complete"
    BY <1>0, <2>1 DEF Placed
  <2>3. "contract" \in scene.commands /\ "prev" \in views' => sync'
    BY <1>0, <1>6, <2>2, StepEffect
  <2> QED
    BY Zenon, <1>0, <1>6, <2>1, <2>2, <2>3, StepEffect DEF ControlTypes
<1>7. ASSUME NEW p \in Processes, Checkpoint(p) PROVE Contracted'
  <2>1. pc[p] = "post" /\ contract.done = at[p] /\ at[p] \in 0..2 /\ Holds(Steps[at[p] + 1])
    BY <1>0, <1>7 DEF Checkpoint, Checked, Placed
  <2>2. /\ at[p] = 0 => "prev" \notin views
        /\ at[p] = 1 => ~sync
        /\ at[p] = 2 => "old" \notin cols
    BY <2>1, StepNames, StepHolds
  <2> QED
    BY <1>0, <1>7, <2>1, <2>2 DEF Checkpoint, Goto, frame, objects, Desired, ControlTypes
<1>8. ASSUME NEW p \in Processes, InterruptContract(p) PROVE Contracted'
  BY Zenon, <1>0, <1>8 DEF InterruptContract, Return, Goto, frame, objects, Desired, ControlTypes
<1>9. ASSUME NEW p \in Processes, Verify(p) PROVE Contracted'
  BY Zenon, <1>0, <1>9 DEF Verify, Return, Goto, frame, objects, Desired, ControlTypes, Locked
<1> QED
  BY Zenon, <1>0, <1>1, <1>2, <1>3, <1>4, <1>5, <1>6, <1>7, <1>8, <1>9, ContractFrame, ObjectsFrame

\* What rollback has recorded stays true.
LEMMA UndoneStep ==
    ASSUME LifeInv, OneLifecycle, ZNext
    PROVE  Undone'
<1>0. /\ TableTypes /\ SchemaTypes /\ ControlTypes /\ ProcessTypes /\ Locked /\ Placed
      /\ Contracted /\ Undone /\ UNCHANGED scene
  BY Zenon, TableFrame DEF LifeInv, SyncInv, Types
<1>1. CASE /\ UNCHANGED <<undo, audited, objects>>
           /\ \A q \in Processes : pc'[q] \in UndoPcs => pc'[q] = pc[q] /\ at'[q] = at[q]
  BY Zenon, <1>0, <1>1 DEF objects, Undone, UndoPcs, PreviousWritable
<1> USE DEF ProcessTypes, Undone, PreviousWritable, UndoPcs
<1>2. ASSUME NEW p \in Processes, Act(p) PROVE Undone'
  <2>1. start.state # "complete" /\ UNCHANGED <<undo, scene, at, audited>>
    BY Zenon, <1>0, <1>2 DEF Act, Locked, Placed, StartPcs, frame
  <2>2. \A q \in Processes : pc'[q] \notin UndoPcs
    BY Zenon, <1>0, <1>2, <2>1 DEF Act, Placed, Goto
  <2> QED
    BY <1>0, <2>1, <2>2 DEF Placed, ControlTypes
<1>3. ASSUME NEW p \in Processes, Execute(p) PROVE Undone'
  <2>1. pc[p] = "step" /\ pc' = [pc EXCEPT ![p] = "post"] /\ UNCHANGED <<scene, undo>>
    BY Zenon, <1>3 DEF Execute, Goto, frame
  <2>2. "contract" \in scene.commands
    BY Zenon, <1>0, <2>1 DEF Contracted, ContractPcs
  <2>3. "rollback" \notin scene.commands
    BY Zenon, <1>0, <2>2 DEF OneLifecycle, TableTypes
  <2> QED
    BY <1>0, <2>1, <2>3 DEF ControlTypes
<1>4. ASSUME NEW p \in Processes, StartRollback(p) PROVE Undone'
  BY SMTT(30), <1>0, <1>4 DEF StartRollback, Domain, Eligible, ResumeAt, PreviousWritable, Goto,
     frame, objects, ControlTypes
<1>5. ASSUME NEW p \in Processes, Undo(p) PROVE Undone'
  <2>1. pc[p] = "undo" /\ undo' = [state |-> "running", phase |-> at[p]]
        /\ pc' = [pc EXCEPT ![p] = "undone"] /\ UNCHANGED <<scene, cols, at, audited, lock>>
    BY Zenon, <1>5 DEF Undo, Goto, frame
  <2>2. at[p] \in 0..2 /\ "rollback" \in scene.commands /\ PreviousWritable
    BY SMTT(30), <1>0, <2>1 DEF Placed
  <2>3. /\ "prev" \in views' /\ ("cur" \in views' => "cur" \in views) /\ (sync' => sync)
        /\ at[p] = 0 => "cur" \notin views'
        /\ at[p] = 1 => ~sync'
    BY SMTT(30), <1>5, <2>2 DEF Undo, UndoPhases, mutate
  <2>4. \A q \in Processes : pc'[q] \in UndoPcs => q = p
    BY Zenon, <1>0, <2>1 DEF Locked
  <2>5. at[p] > 0 => "cur" \notin views
    BY Zenon, <1>0, <2>1
  <2>6. at[p] > 1 => ~sync
    BY Zenon, <1>0, <2>1
  <2> QED
    BY SMTT(30), <1>0, <2>1, <2>2, <2>3, <2>4, <2>5, <2>6
<1>6. ASSUME NEW p \in Processes, InterruptRollback(p) PROVE Undone'
  BY Zenon, <1>0, <1>6 DEF InterruptRollback, Return, Goto, frame, objects, ControlTypes
<1>7. ASSUME NEW p \in Processes, NoteUndone(p) PROVE Undone'
  BY SMTT(30), <1>0, <1>7 DEF NoteUndone, Goto, frame, objects, ControlTypes
<1>8. ASSUME NEW p \in Processes, Audit(p) PROVE Undone'
  BY Zenon, <1>0, <1>8 DEF Audit, Goto, frame, objects
<1>9. ASSUME NEW p \in Processes, Close(p) PROVE Undone'
  <2>1. pc[p] = "close" /\ undo' = [state |-> "complete", phase |-> 3]
        /\ pc' = [pc EXCEPT ![p] = "idle"] /\ UNCHANGED <<scene, objects, audited>>
    BY Zenon, <1>9 DEF Close, Return, Goto, frame
  <2>2. "prev" \in views /\ "cur" \notin views /\ ~sync /\ audited /\ at[p] = 3
    BY SMTT(30), <1>0, <2>1 DEF Placed
  <2>3. views = {"prev"}
    BY Zenon, <1>0, <2>2, OnlyPrevious DEF SchemaTypes
  <2>4. \A q \in Processes : pc'[q] \notin UndoPcs
    BY Zenon, <1>0, <2>1 DEF Locked
  <2> QED
    BY Zenon, <1>0, <2>1, <2>2, <2>3, <2>4 DEF objects
<1> QED
  BY Zenon, <1>0, <1>1, <1>2, <1>3, <1>4, <1>5, <1>6, <1>7, <1>8, <1>9, UndoFrame, ObjectsFrame

-----------------------------------------------------------------------------
(* The theorems.                                                           *)

\* The invariants hold before the first command.
LEMMA InitialInv ==
    ASSUME ZInit
    PROVE  LifeInv
<1>1. SceneOK(scene)
  BY Zenon, ZeroDowntimeAssumption DEF ZInit
<1>2. TableTypes
  BY Zenon, <1>1 DEF ZInit, TableTypes, RowType, Row, Closed, SceneOK, Values
<1>3. SchemaTypes /\ ControlTypes /\ ProcessTypes
  <2>1. SchemaTypes
    BY Zenon DEF ZInit, SchemaTypes
  <2>2. ControlTypes
    BY SMTT(30) DEF ZInit, ControlTypes
  <2>3. ProcessTypes
    BY SMTT(30) DEF ZInit, ProcessTypes, Locks
  <2> QED
    BY Zenon, <2>1, <2>2, <2>3
<1>4. Locked /\ Placed
  BY SMTT(30), ZeroDowntimeAssumption
     DEF ZInit, Locked, Placed, Locks, StartPcs, ContractPcs, UndoPcs, BackfillPcs
<1>5. Before
  <2>1. ASSUME NEW k \in Keys PROVE Untouched(rows[k]) /\ Untouched(open[k].row)
    BY Zenon DEF ZInit, Untouched, Row, Closed
  <2> QED
    BY SMTT(30), <2>1 DEF ZInit, Before, BackfillPcs
<1>6. Behind /\ Filled
  BY Zenon DEF ZInit, Behind, Filled
<1>7. Contracted /\ Undone
  BY DEF ZInit, Contracted, Undone, ContractPcs, UndoPcs
<1> QED
  BY Zenon, <1>2, <1>3, <1>4, <1>5, <1>6, <1>7 DEF LifeInv, SyncInv, Types

\* Every step keeps the invariant of synchronization.
LEMMA SyncStep ==
    ASSUME SyncInv, [ZNext]_zvars
    PROVE  SyncInv'
<1>1. CASE ZNext
  <2>1. Types'
    BY Zenon, <1>1, TableTypesStep, SchemaTypesStep, ControlTypesStep, ProcessTypesStep
       DEF SyncInv, Types
  <2>2. Locked' /\ Placed'
    BY Zenon, <1>1, LockedStep, PlacedStep DEF SyncInv
  <2>3. Before' /\ Behind' /\ Filled'
    BY Zenon, <1>1, BeforeStep, BehindStep, FilledStep
  <2> QED
    BY Zenon, <2>1, <2>2, <2>3 DEF SyncInv
<1>2. CASE UNCHANGED zvars
  BY ZenonT(30), <1>2 DEF zvars, frame, table, objects, control, SyncInv, Types, TableTypes,
     SchemaTypes, ControlTypes, ProcessTypes, Locked, Placed, Before, Behind, Filled,
     RowType, Values, Untouched, Agrees, Unfilled, Forward, Reverse
<1> QED
  BY Zenon, <1>1, <1>2

\* Every step keeps what contract and rollback have recorded, when the two do
\* not meet.
LEMMA LifeStep ==
    ASSUME OneLifecycle, LifeInv, [ZNext]_zvars
    PROVE  LifeInv'
<1>1. SyncInv'
  BY Zenon, SyncStep DEF LifeInv
<1>2. CASE ZNext
  BY Zenon, <1>1, <1>2, ContractedStep, UndoneStep DEF LifeInv
<1>3. CASE UNCHANGED zvars
  BY Zenon, <1>1, <1>3 DEF zvars, frame, table, objects, control, LifeInv, Contracted, Undone,
     Desired, PreviousWritable
<1> QED
  BY Zenon, <1>2, <1>3

\* While the trigger of shadowsync is installed, the two columns of every
\* committed row agree or the row waits for the backfill: whatever applications,
\* backfills, retries, contract, rollback and crashes interleave.
THEOREM ColumnsInSync == ZSpec => []InSync
<1>1. ZInit => SyncInv
  BY Zenon, InitialInv DEF LifeInv
<1>2. SyncInv /\ [ZNext]_zvars => SyncInv'
  BY Zenon, SyncStep
<1>3. SyncInv => InSync
  BY Zenon DEF SyncInv, Behind, Agrees, InSync
<1> QED
  BY <1>1, <1>2, <1>3, PTL DEF ZSpec

\* The recorded steps of contract hold, a contract recorded as complete has
\* reached the desired schema, and a rollback recorded as complete has restored
\* the previous one, through any interruptions, retries and crashes, for a
\* migration that is contracted or rolled back, not both.
THEOREM CheckpointsAreTrue ==
    ASSUME OneLifecycle
    PROVE  ZSpec => []CheckpointTrue
<1>1. ZInit => LifeInv
  BY Zenon, InitialInv
<1>2. LifeInv /\ [ZNext]_zvars => LifeInv'
  BY Zenon, LifeStep
<1>3. LifeInv => CheckpointTrue
  <2>1. ASSUME LifeInv, NEW i \in 1..contract.done
        PROVE  Holds(Steps[i])
    <3>1. contract.done \in 0..3
      BY Zenon, <2>1 DEF LifeInv, SyncInv, Types, ControlTypes
    <3>2. i - 1 \in 0..2 /\ i = (i - 1) + 1
      BY <2>1, <3>1
    <3>3. \/ i - 1 = 0 /\ Steps[i] = "withdraw_previous"
          \/ i - 1 = 1 /\ Steps[i] = "drop_sync"
          \/ i - 1 = 2 /\ Steps[i] = "drop_old"
      BY Zenon, <3>2, StepNames
    <3>4. /\ i - 1 = 0 => "prev" \notin views
          /\ i - 1 = 1 => ~sync
          /\ i - 1 = 2 => "old" \notin cols
      BY <2>1, <3>1 DEF LifeInv, Contracted
    <3> QED
      BY Zenon, <3>3, <3>4, StepHolds
  <2> QED
    BY Zenon, <2>1 DEF LifeInv, Contracted, Undone, CheckpointTrue
<1> QED
  BY <1>1, <1>2, <1>3, PTL DEF ZSpec

\* The previous version is withdrawn only when every value written through it
\* can be read through the new one: the gate of contract, the trigger and the
\* last read of a batch make up for rows that are locked, skipped, inserted or
\* rewritten while the backfill runs.
THEOREM ValuesKept ==
    ASSUME OneLifecycle
    PROVE  ZSpec => NoValueLost
<1>1. ZInit => LifeInv
  BY Zenon, InitialInv
<1>2. LifeInv /\ [ZNext]_zvars => LifeInv'
  BY Zenon, LifeStep
<1>3. LifeInv /\ [ZNext]_zvars =>
         [("prev" \in views /\ "prev" \notin views') => \A k \in Keys : ~Unfilled(rows[k])]_zvars
  <2> SUFFICES ASSUME LifeInv, ZNext, "prev" \in views, "prev" \notin views'
               PROVE  \A k \in Keys : ~Unfilled(rows[k])
    BY Zenon DEF zvars, objects
  <2>1. PICK p \in Processes : Execute(p)
    <3>1. ASSUME NEW p \in Processes, Act(p) \/ Undo(p) PROVE FALSE
      BY Zenon, <3>1 DEF Act, Undo, installVersions
    <3> QED
      BY Zenon, <3>1, ObjectsFrame DEF objects
  <2>2. pc[p] = "step"
    BY Zenon, <2>1 DEF Execute
  <2>3. "contract" \in scene.commands /\ sync
    BY Zenon, <2>2 DEF LifeInv, Contracted, ContractPcs
  <2> QED
    BY Zenon, <2>2, <2>3 DEF LifeInv, SyncInv, Filled
<1> QED
  BY <1>1, <1>2, <1>3, PTL DEF ZSpec, NoValueLost
=============================================================================
