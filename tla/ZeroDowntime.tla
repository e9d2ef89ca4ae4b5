---------------------------- MODULE ZeroDowntime ----------------------------
(***************************************************************************)
(* A zero-downtime migration of one column (pkg/zdm): start expands the    *)
(* table, installs the synchronization trigger, backfills and publishes    *)
(* both versions; contract removes the previous one; rollback withdraws    *)
(* the new one.  Each command keeps its progress in a row of its own and   *)
(* holds an advisory lock of its own, while applications write through     *)
(* either version in transactions.  A process may stop anywhere, which     *)
(* releases its locks and rolls back its transaction.                      *)
(*                                                                         *)
(* A value stands for the column of a row.  A request whose specification  *)
(* differs from the recorded one, or that finds its lock taken, changes    *)
(* nothing and is left out.                                                *)
(***************************************************************************)
EXTENDS Integers, FiniteSets, Sequences

CONSTANTS
    Processes,  \* processes that run commands
    Keys,       \* unique keys of the table, in batch order
    Null, Gone, \* the SQL null, an absent row
    Nobody,
    Scenes      \* instances: see SceneOK

\* commands: the commands that are run; rows: the table before the migration;
\* forward, reverse: the transforms of the pair, reverse empty when there is
\* none; size: the batch size; writes, faults: bounds on application
\* transactions and on failures.
SceneOK(s) ==
    /\ s.commands \subseteq {"start", "backfill", "contract", "rollback", "control"}
    /\ s.size > 0 /\ s.writes \in Nat /\ s.faults \in Nat
    /\ LET values == DOMAIN s.forward IN
         /\ s.rows \in [Keys -> values \cup {Gone}]
         /\ s.forward \in [values -> values]
         /\ \A v \in values : s.forward[v] = Null <=> v = Null
         /\ Null \in values
         /\ s.reverse # <<>> => /\ s.reverse \in [values -> values]
                               /\ s.reverse[Null] = Null

\* The transforms (value, lower, upper, btrim, casts) are total and give null for
\* null and for nothing else.
ASSUME ZeroDowntimeAssumption ==
    /\ \A s \in Scenes : SceneOK(s)
    /\ "app" \notin Processes /\ Nobody \notin Processes \cup {"app"}

VARIABLES
    scene,
    rows,       \* committed rows: [old, new] or Gone
    open,       \* uncommitted row versions, with the writer that locks the row
    cols, sync, views,      \* columns, the trigger, the published versions
    start, job, contract, undo,     \* the control rows of the commands
    audited,    \* rollback_completed is in the audit table
    lock,       \* holder of each advisory lock
    pc, at,     \* what a process does next, and the index of its phase or step
    left,       \* the rows its batch leaves
    faults,     \* failures so far
    writes,     \* application transactions so far
    cancelled   \* the job was cancelled (history variable)

table   == <<rows, open>>
objects == <<cols, sync, views>>
control == <<start, job, contract, undo, audited>>
frame   == <<scene, writes, cancelled>>
zvars   == <<frame, table, objects, control, lock, pc, at, left, faults>>

Closed == [by |-> Nobody, row |-> Gone]
Row(o, n) == [old |-> o, new |-> n]
Values == DOMAIN scene.forward

ZInit ==
    /\ scene \in Scenes
    /\ rows = [k \in Keys |-> IF scene.rows[k] = Gone THEN Gone ELSE Row(scene.rows[k], Null)]
    /\ open = [k \in Keys |-> Closed]
    /\ cols = {"old"} /\ sync = FALSE /\ views = {}
    /\ start = [state |-> "none", progress |-> 0]
    /\ job = [state |-> "none", remaining |-> -1]
    /\ contract = [state |-> "none", done |-> 0]
    /\ undo = [state |-> "none", phase |-> 0]
    /\ audited = FALSE
    /\ lock = [c \in {"start", "backfill", "contract", "rollback"} |-> Nobody]
    /\ pc = [p \in Processes |-> "idle"] /\ at = [p \in Processes |-> 0]
    /\ left = [p \in Processes |-> 0]
    /\ faults = 0 /\ writes = 0 /\ cancelled = FALSE

Fault == faults < scene.faults /\ faults' = faults + 1

Goto(p, l) == pc' = [pc EXCEPT ![p] = l]
Return(p, c) == Goto(p, "idle") /\ lock' = [lock EXCEPT ![c] = Nobody]

\* The backfill of start holds the lock of start as well.
Ends(p) == Goto(p, IF lock["start"] = p THEN "interrupt" ELSE "idle")

\* DDL on the table waits for every open transaction on it.
Quiet == \A k \in Keys : open[k] = Closed

Unfilled(r) == r # Gone /\ r.old # Null /\ r.new = Null
Count(tab) == Cardinality({k \in Keys : Unfilled(tab[k])})

-----------------------------------------------------------------------------
(* The application.                                                        *)

Forward(v) == scene.forward[v]
Reverse(v) == scene.reverse[v]

\* Mutant: a write through the new version is refused only when it inserts.
TriggerForwardOnly(before, after) ==
    IF ~sync THEN {after}
    ELSE IF before # Gone /\ before.old # after.old
         THEN {[after EXCEPT !.new = Forward(after.old)]}
         ELSE {after}

\* The row trigger: the rows it stores, none when it raises an exception.
Trigger(before, after) ==
    LET was == IF before = Gone THEN Row(Null, Null) ELSE before
        forth == after.old # was.old /\ after.new = was.new
        back  == after.new # was.new /\ after.old = was.old
    IN  CASE ~sync -> {after}
          [] sync /\ forth -> {[after EXCEPT !.new = Forward(after.old)]}
          [] sync /\ back -> IF scene.reverse = <<>> THEN {}
                             ELSE {[after EXCEPT !.old = Reverse(after.new)]}
          [] OTHER -> IF after = was \/ after.new = Forward(after.old) THEN {after} ELSE {}

\* The physical column serves the applications until a version is published.
OldWritable == "old" \in cols /\ ("prev" \in views \/ "cur" \notin views)
NewWritable == "cur" \in views

\* A statement of an application opens a transaction on a row.
Write(k) ==
    /\ writes < scene.writes /\ open[k] = Closed
    /\ \E o, n \in Values :
          LET was == IF rows[k] = Gone THEN Row(Null, Null) ELSE rows[k] IN
          /\ o # was.old => OldWritable
          /\ n # was.new => NewWritable
          /\ rows[k] # Gone => Row(o, n) # was
          /\ \E r \in Trigger(rows[k], Row(o, n)) :
                open' = [open EXCEPT ![k] = [by |-> "app", row |-> r]]
    /\ writes' = writes + 1
    /\ UNCHANGED <<scene, rows, objects, control, lock, pc, at, left, faults, cancelled>>

Delete(k) ==
    /\ writes < scene.writes /\ open[k] = Closed /\ rows[k] # Gone
    /\ open' = [open EXCEPT ![k] = [by |-> "app", row |-> Gone]]
    /\ writes' = writes + 1
    /\ UNCHANGED <<scene, rows, objects, control, lock, pc, at, left, faults, cancelled>>

Finish(k) ==
    /\ open[k].by = "app"
    /\ open' = [open EXCEPT ![k] = Closed]
    /\ \/ rows' = [rows EXCEPT ![k] = open[k].row]
       \/ UNCHANGED rows
    /\ UNCHANGED <<scene, objects, control, lock, pc, at, left, faults, writes, cancelled>>

Application == \E k \in Keys : Write(k) \/ Delete(k) \/ Finish(k)

-----------------------------------------------------------------------------
(* Backfill.                                                               *)

\* A batch holds the lock of its job row from its first read to its end.
JobRowLocked == \E p \in Processes : pc[p] \in {"fill", "check"}

\* The row as the transaction of p sees it.
Sees(p, k) == IF open[k].by = p THEN open[k].row ELSE rows[k]

Dropped(p) == [k \in Keys |-> IF open[k].by = p THEN Closed ELSE open[k]]

\* RunBatch to its row: validateLive, the lock of the job, ensureJob.
Prepare(p) ==
    /\ pc[p] = "prepare"
    /\ IF "new" \in cols /\ lock["backfill"] = Nobody
       THEN /\ lock' = [lock EXCEPT !["backfill"] = p]
            /\ job' = IF job.state = "none" THEN [state |-> "running", remaining |-> -1] ELSE job
            /\ Goto(p, "batch")
       ELSE /\ Ends(p)
            /\ UNCHANGED <<lock, job>>
    /\ UNCHANGED <<frame, table, objects, start, contract, undo, audited, at, left, faults>>

\* The job row is locked; the rows left are counted once for a job.
CountRows(p) ==
    /\ pc[p] = "batch"
    /\ IF job.state # "running"
       THEN Goto(p, "status") /\ UNCHANGED left
       ELSE /\ left' = [left EXCEPT ![p] = IF job.remaining < 0 THEN Count(rows) ELSE job.remaining]
            /\ Goto(p, "fill")
    /\ UNCHANGED <<frame, table, objects, control, lock, at, faults>>

\* The first eligible rows that nobody locks, at most a batch of them.
Batch ==
    LET eligible == {k \in Keys : open[k] = Closed /\ Unfilled(rows[k])}
    IN  {k \in eligible : Cardinality({j \in eligible : j < k}) < scene.size}

Fill(p) ==
    /\ pc[p] = "fill"
    /\ open' = [k \in Keys |->
          IF k \in Batch THEN [by |-> p, row |-> [rows[k] EXCEPT !.new = Forward(rows[k].old)]]
                         ELSE open[k]]
    /\ left' = [left EXCEPT ![p] = IF @ > Cardinality(Batch) THEN @ - Cardinality(Batch) ELSE 0]
    /\ Goto(p, "check")
    /\ UNCHANGED <<frame, rows, objects, control, lock, at, faults>>

\* A row is left in the eyes of the transaction.
More(p) == \E k \in Keys : Unfilled(Sees(p, k))

\* The last read of the batch and its commit, whose answer may be lost.
Commit(p) ==
    /\ pc[p] = "check"
    /\ rows' = [k \in Keys |-> Sees(p, k)]
    /\ open' = Dropped(p)
    /\ job' = IF More(p) THEN [job EXCEPT !.remaining = left[p]]
                         ELSE [state |-> "complete", remaining |-> 0]
    /\ \/ Goto(p, "status") /\ UNCHANGED faults
       \/ Goto(p, "error") /\ Fault
    /\ UNCHANGED <<frame, objects, start, contract, undo, audited, lock, at, left>>

\* The transaction fails: a transient error is tried again.
BatchFails(p) ==
    /\ Fault
    /\ pc[p] \in {"batch", "fill", "check"}
    /\ open' = Dropped(p)
    /\ Goto(p, "batch") \/ Goto(p, "error")
    /\ UNCHANGED <<frame, rows, objects, control, lock, at, left>>

\* recordError sets the state outside the transaction that failed, if it can.
RecordError(p) ==
    /\ pc[p] = "error"
    /\ job' = [job EXCEPT !.state = "failed"] \/ UNCHANGED job
    /\ lock' = [lock EXCEPT !["backfill"] = Nobody]
    /\ Ends(p)
    /\ UNCHANGED <<frame, table, objects, start, contract, undo, audited, at, left, faults>>

\* RunBatch reads the row again and returns; Run goes on or returns without an
\* error, whatever has stopped the job.
Status(p) ==
    /\ pc[p] = "status"
    /\ lock' = [lock EXCEPT !["backfill"] = Nobody]
    /\ Goto(p, IF job.state = "running" /\ job.remaining # 0 THEN "prepare"
               ELSE IF lock["start"] = p THEN "note" ELSE "idle")
    /\ UNCHANGED <<frame, table, objects, control, at, left, faults>>

\* pause, resume, cancel
Control(state) ==
    /\ "control" \in scene.commands /\ ~JobRowLocked
    /\ job.state \notin {"none", "complete", "cancelled"} /\ job.state # state
    /\ job' = [job EXCEPT !.state = state]
    /\ cancelled' = (cancelled \/ state = "cancelled")
    /\ UNCHANGED <<scene, table, objects, start, contract, undo, audited, lock, pc, at, left, faults, writes>>

Backfill(p) ==
    \/ Prepare(p) \/ CountRows(p) \/ Fill(p) \/ Commit(p) \/ BatchFails(p)
    \/ RecordError(p) \/ Status(p)

-----------------------------------------------------------------------------
(* Commands.  A command takes its lock, reads or makes its row, and then    *)
(* works through its phases from the one the row names.                    *)

Domain(c) == c \in scene.commands /\ lock[c] = Nobody

StartBackfill(p) ==
    /\ pc[p] = "idle" /\ "backfill" \in scene.commands
    /\ sync     \* an operator backfills behind the synchronization
    /\ Goto(p, "prepare")
    /\ UNCHANGED <<frame, table, objects, control, lock, at, left, faults>>

\* StartWithHooks to its first phase
Start(p) ==
    /\ pc[p] = "idle" /\ Domain("start") /\ start.state # "complete"
    /\ lock' = [lock EXCEPT !["start"] = p]
    /\ start' = IF start.state = "none" THEN [state |-> "pending", progress |-> 0] ELSE start
    /\ at' = [at EXCEPT ![p] = start.progress]
    /\ Goto(p, IF start.progress = 6 THEN "complete" ELSE "phase")
    /\ UNCHANGED <<frame, table, objects, job, contract, undo, audited, left, faults>>

PhaseNames == <<"validate", "record_intent", "expand", "compatibility", "backfill", "publish">>

\* shadowsync.Apply and Remove: one transaction, refused when a column of the
\* pair is missing, without effect when the trigger is as wanted.
mutate(on) == Quiet /\ {"old", "new"} \subseteq cols /\ sync' = on

\* virtualschema.Apply installs both versions in one transaction.
installVersions == {"old", "new"} \subseteq cols /\ views' = {"prev", "cur"}

\* The action of a phase succeeds.  Pipeline.Actions: the verified expand plan,
\* shadowsync.Apply, backfill.Run for every job, virtualschema.Apply.
Act(p) ==
    LET phase == PhaseNames[at[p] + 1] IN
    /\ pc[p] = "phase"
    /\ start' = [start EXCEPT !.state = "running"]
    /\ IF phase = "expand" THEN Quiet /\ cols' = cols \cup {"new"} ELSE UNCHANGED cols
    /\ IF phase = "compatibility" THEN mutate(TRUE) ELSE UNCHANGED sync
    /\ IF phase = "publish" THEN installVersions ELSE UNCHANGED views
    /\ Goto(p, IF phase = "backfill" THEN "prepare" ELSE "note")
    /\ UNCHANGED <<frame, table, job, contract, undo, audited, lock, at, left, faults>>

\* An action fails, before its effect or after it, or the hook that follows.
Interrupt(p) ==
    /\ pc[p] \in {"phase", "note", "interrupt"}
    /\ IF pc[p] = "interrupt" THEN UNCHANGED faults ELSE Fault
    /\ \E n \in {at[p]} \cup {m \in {at[p] + 1} : pc[p] = "note"} :
          start' = [state |-> "interrupted", progress |-> n]
    /\ Return(p, "start")
    /\ UNCHANGED <<frame, table, objects, job, contract, undo, audited, at, left>>

\* The phase is recorded as done.
Note(p) ==
    /\ pc[p] = "note"
    /\ start' = [start EXCEPT !.progress = at[p] + 1]
    /\ at' = [at EXCEPT ![p] = @ + 1]
    /\ Goto(p, IF at[p] = 5 THEN "complete" ELSE "phase")
    /\ UNCHANGED <<frame, table, objects, job, contract, undo, audited, lock, left, faults>>

Complete(p) ==
    /\ pc[p] = "complete"
    /\ start' = [start EXCEPT !.state = "complete"]
    /\ Return(p, "start")
    /\ UNCHANGED <<frame, table, objects, job, contract, undo, audited, at, left, faults>>

\* Complete to its first step
StartContract(p) ==
    /\ pc[p] = "idle" /\ Domain("contract") /\ contract.state # "complete"
    /\ lock' = [lock EXCEPT !["contract"] = p]
    /\ contract' = IF contract.state = "none" THEN [state |-> "pending", done |-> 0] ELSE contract
    /\ at' = [at EXCEPT ![p] = contract.done]
    /\ Goto(p, IF contract.done = 3 THEN "verify" ELSE "gate")
    /\ UNCHANGED <<frame, table, objects, start, job, undo, audited, left, faults>>

\* The plan: every step with its CheckSQL
Steps == <<"withdraw_previous", "drop_sync", "drop_old">>
Holds(step) == CASE step = "withdraw_previous" -> "prev" \notin views
                 [] step = "drop_sync" -> ~sync
                 [] step = "drop_old" -> "old" \notin cols

\* Mutant: the approval alone opens the gate.
GateApproved(approval, sessions) == approval

\* The evidence, which the caller inspects, and the approval of this plan.
Gate(approval, sessions) ==
    /\ approval /\ ~sessions
    /\ job.state = "complete"
    /\ start.state = "complete" /\ "new" \in cols /\ "cur" \in views

PassGate(p) ==
    /\ pc[p] = "gate"
    /\ \E approval, sessions \in BOOLEAN :
          /\ sessions => "prev" \in views
          /\ IF Gate(approval, sessions)
             THEN Goto(p, "step") /\ UNCHANGED <<contract, lock>>
             ELSE /\ contract' = [contract EXCEPT !.state = "blocked"]
                  /\ Return(p, "contract")
    /\ UNCHANGED <<frame, table, objects, start, job, undo, audited, at, left, faults>>

\* A step whose postcondition holds already is not executed again; a statement
\* may succeed without establishing it.
Execute(p) ==
    /\ pc[p] = "step"
    /\ LET planned == Steps[at[p] + 1] IN
       \E step \in {planned, "no effect"} :
          /\ ~Holds(planned) => Quiet
          /\ IF step = planned THEN UNCHANGED faults ELSE ~Holds(planned) /\ Fault
          /\ views' = IF step = "withdraw_previous" THEN views \ {"prev"} ELSE views
          /\ sync' = (sync /\ step # "drop_sync")
          /\ cols' = IF step = "drop_old" THEN cols \ {"old"} ELSE cols
    /\ contract' = [contract EXCEPT !.state = "running"]
    /\ Goto(p, "post")
    /\ UNCHANGED <<frame, table, start, job, undo, audited, lock, at, left>>

\* Mutant: the checkpoint does not wait for the postcondition.
CheckedBlindly(step) == TRUE

\* The postcondition of the step is read again.
Checked(step) == Holds(step)

Checkpoint(p) ==
    /\ pc[p] = "post" /\ Checked(Steps[at[p] + 1])
    /\ contract' = [contract EXCEPT !.done = at[p] + 1]
    /\ at' = [at EXCEPT ![p] = @ + 1]
    /\ Goto(p, IF at[p] = 2 THEN "verify" ELSE "gate")
    /\ UNCHANGED <<frame, table, objects, start, job, undo, audited, lock, left, faults>>

\* A step fails, or its postcondition does, or the final inspection.
InterruptContract(p) ==
    /\ pc[p] \in {"step", "post", "verify"}
    /\ IF pc[p] = "post" /\ ~Checked(Steps[at[p] + 1]) THEN UNCHANGED faults ELSE Fault
    /\ contract' = [contract EXCEPT !.state = "interrupted"]
    /\ Return(p, "contract")
    /\ UNCHANGED <<frame, table, objects, start, job, undo, audited, at, left>>

Desired == cols = {"new"} /\ ~sync /\ views = {"cur"}

Verify(p) ==
    /\ pc[p] = "verify" /\ Desired
    /\ contract' = [contract EXCEPT !.state = "complete"]
    /\ Return(p, "contract")
    /\ UNCHANGED <<frame, table, objects, start, job, undo, audited, at, left, faults>>

-----------------------------------------------------------------------------
UndoPhases == <<"withdraw_new", "remove_compatibility", "verify_previous">>

PreviousWritable == "prev" \in views /\ "old" \in cols

\* The evidence, which the caller inspects, and the acknowledgement.
Eligible(ack) ==
    /\ start.state = "complete" /\ contract.state # "complete" /\ PreviousWritable
    /\ scene.reverse = <<>> => ack

\* The phase a retry starts from: a name that is not a phase starts over.
ResumeAt(phase) == IF phase \in 0..2 THEN phase ELSE 0

\* Rollback to its first phase: phase 3 is the name "complete".
StartRollback(p) ==
    /\ pc[p] = "idle" /\ Domain("rollback") /\ undo.state # "complete"
    /\ \E ack \in BOOLEAN : Eligible(ack)
    /\ lock' = [lock EXCEPT !["rollback"] = p]
    /\ undo' = IF undo.state = "none" THEN [state |-> "running", phase |-> 0] ELSE undo
    /\ at' = [at EXCEPT ![p] = ResumeAt(undo.phase)]
    /\ Goto(p, "undo")
    /\ UNCHANGED <<frame, table, objects, start, job, contract, audited, left, faults>>

Undo(p) ==
    LET phase == UndoPhases[at[p] + 1] IN
    /\ pc[p] = "undo"
    /\ phase = "verify_previous" => PreviousWritable
    /\ undo' = [state |-> "running", phase |-> at[p]]
    /\ IF phase = "withdraw_new" THEN Quiet /\ views' = views \ {"cur"} ELSE UNCHANGED views
    /\ IF phase = "remove_compatibility" THEN mutate(FALSE) ELSE UNCHANGED sync
    /\ Goto(p, "undone")
    /\ UNCHANGED <<frame, table, cols, start, job, contract, audited, lock, at, left, faults>>

InterruptRollback(p) ==
    /\ Fault
    /\ pc[p] = "undo"
    /\ undo' = [state |-> "interrupted", phase |-> at[p]]
    /\ Return(p, "rollback")
    /\ UNCHANGED <<frame, table, objects, start, job, contract, audited, at, left>>

NoteUndone(p) ==
    /\ pc[p] = "undone"
    /\ undo' = [undo EXCEPT !.phase = at[p] + 1]
    /\ at' = [at EXCEPT ![p] = @ + 1]
    /\ Goto(p, IF at[p] = 2 THEN "audit" ELSE "undo")
    /\ UNCHANGED <<frame, table, objects, start, job, contract, audited, lock, left, faults>>

Audit(p) ==
    /\ pc[p] = "audit"
    /\ audited' = TRUE
    /\ Goto(p, "close")
    /\ UNCHANGED <<frame, table, objects, start, job, contract, undo, lock, at, left, faults>>

Close(p) ==
    /\ pc[p] = "close"
    /\ undo' = [state |-> "complete", phase |-> 3]
    /\ Return(p, "rollback")
    /\ UNCHANGED <<frame, table, objects, start, job, contract, audited, at, left, faults>>

-----------------------------------------------------------------------------
\* The process stops, or loses its connection and returns.
Crash(p) ==
    /\ Fault
    /\ pc[p] # "idle"
    /\ Goto(p, "idle")
    /\ open' = Dropped(p)
    /\ lock' = [c \in DOMAIN lock |-> IF lock[c] = p THEN Nobody ELSE lock[c]]
    /\ UNCHANGED <<frame, rows, objects, control, at, left>>

Command(p) ==
    \/ StartBackfill(p) \/ Backfill(p)
    \/ Start(p) \/ Act(p) \/ Interrupt(p) \/ Note(p) \/ Complete(p)
    \/ StartContract(p) \/ PassGate(p) \/ Execute(p) \/ Checkpoint(p)
    \/ InterruptContract(p) \/ Verify(p)
    \/ StartRollback(p) \/ Undo(p) \/ InterruptRollback(p) \/ NoteUndone(p)
    \/ Audit(p) \/ Close(p)
    \/ Crash(p)

ZNext ==
    \/ Application
    \/ \E state \in {"paused", "running", "cancelled"} : Control(state)
    \/ \E p \in Processes : Command(p)

ZSpec == ZInit /\ [][ZNext]_zvars

-----------------------------------------------------------------------------
(* Properties.                                                             *)

\* While the trigger is installed, the two columns of every committed row agree
\* under one of the transforms or the row waits for the backfill, whatever
\* transactions and batches have interleaved.
InSync ==
    sync => \A k \in Keys : rows[k] # Gone /\ rows[k].new # Null =>
        \/ rows[k].new = Forward(rows[k].old)
        \/ scene.reverse # <<>> /\ rows[k].old = Reverse(rows[k].new)

\* docs/contract-completion.md: "Durable step checkpoints and approved
\* postcondition queries make retries safe": the recorded steps hold, and with
\* all of them completed the schema is the desired one.  And
\* docs/zero-downtime-rollback-repair.md: "Target-scoped serialization and durable
\* phase state make an identical retry safe": a rollback recorded as complete has
\* withdrawn the new version and the trigger, left the previous one writable and
\* is in the audit.
CheckpointTrue ==
    /\ \A i \in 1..contract.done : Holds(Steps[i])
    /\ contract.state = "complete" => Desired
    /\ undo.state = "complete" => views = {"prev"} /\ ~sync /\ PreviousWritable /\ audited

\* The previous version is withdrawn only when every value that was written
\* through it can be read through the new one.
NoValueLost ==
    [][("prev" \in views /\ "prev" \notin views') => \A k \in Keys : ~Unfilled(rows[k])]_zvars

\* docs/migration-start-recovery.md: start runs "every durable bounded backfill"
\* and then publishes, and "An interruption is safe to retry with the identical
\* specification": what an operator did not stop is filled when it is published.
PublishedFilled ==
    [][views = {} /\ views' # {} => Count(rows) = 0 \/ job.state \in {"paused", "cancelled"}]_zvars

\* docs/online-backfills.md: "Pause, resume, and cancellation are durable": a
\* cancelled job does not run again.
CancelIsFinal == cancelled => job.state # "running"

\* The refusal of a rollback says that "another lifecycle action is active": some
\* version stays published once there is one.
OneVersion == start.state = "complete" => views # {}
=============================================================================
