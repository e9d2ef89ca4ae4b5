------------------------------ MODULE Versioned ------------------------------
(***************************************************************************)
(* The versioned workflow over one target database: migrate apply (per      *)
(* file, all in one transaction, baseline), the controlled down, and the    *)
(* repair of a revision row.  They share the revision rows, the manifest    *)
(* ancestry, the executor's history and the audit outbox, and one advisory  *)
(* lock.  A manifest is the first `published` entries of Line, which only   *)
(* grows; entry i has version i.  Digests of files, plans and artifacts are *)
(* the entry itself, so the drift checks always agree.                      *)
(***************************************************************************)
EXTENDS Naturals, Sequences, FiniteSets, SequencesExt, FiniteSetsExt

CONSTANTS
  Runs,        \* processes that run a command
  NoRun,       \* nobody holds the advisory lock
  Scenes       \* the instances: a line of migrations, the commands and bounds

\* line: the entries that can be published; first: how many are at the start;
\* adopted: entry 1 is in the database before the first command.
SceneType(s) ==
  /\ s.line \in Seq([kind : {"sql", "checkpoint"}, tx : BOOLEAN])
  /\ s.first \in 1 .. Len(s.line) /\ s.adopted \in BOOLEAN
  /\ s.commands \subseteq {"file", "all", "baseline", "plan", "down", "repair"}
  /\ {s.plans, s.proposals, s.lapses, s.faults} \subseteq Nat

ASSUME VersionedAssumption == NoRun \notin Runs /\ \A s \in Scenes : SceneType(s)

VARIABLES
  scene,       \* the instance
  published,   \* length of the published manifest
  rows,        \* the revision rows, in started_at order
  ancestry,    \* manifest lengths recorded by RecordManifest
  hist,        \* executor history: [art, attempt, state]
  db,          \* ordinary migrations in effect in the target schema
  half,        \* entries whose statements stopped half way
  outbox,      \* pending outbox items: [src, ev]
  logs,        \* audit records: <<log, ev>>
  plans,       \* signed down plans held by the down service
  trusted,     \* down artifacts whose policy still verifies
  planned,     \* plans made so far
  proposals,   \* signed repair proposals
  advisory,    \* holder of the target's advisory lock
  proc,        \* what each process is doing
  lapses, runFaults  \* counters of the bounds

verVars == <<scene, published, rows, ancestry, hist, db, half, outbox, logs, plans,
             trusted, planned, proposals, advisory, proc, lapses, runFaults>>
stores  == <<rows, ancestry, hist, db, half>>
audits  == <<outbox, logs>>
papers  == <<plans, trusted, planned, proposals>>
limits  == <<lapses, runFaults>>

Line     == scene.line
Commands == scene.commands

-----------------------------------------------------------------------------
(* Versions and rows.                                                       *)

Ver(e)          == <<"v", e, 0>>
ReapplyVer(e, a) == <<"reapply", e, a>>
DownVer(n)      == <<"down", n, 0>>
RepairVer(n)    == <<"repair", n, 0>>

Ordinary(e)  == Line[e].kind = "sql"
CoveredBy(c) == IF Ordinary(c) THEN {} ELSE 1 .. (c - 1)
Effect(e)    == {i \in CoveredBy(e) \cup {e} : Ordinary(i)}
Clean        == {"applied", "baseline", "checkpoint"}

\* from is 0 when the column holds no version of the manifest.
Row(ver, kind, state, e, from, attempt, of, man) ==
  [ver |-> ver, kind |-> kind, state |-> state, art |-> Ver(e), from |-> from,
   to |-> e, attempt |-> attempt, of |-> of, man |-> man,
   sup |-> IF kind = "checkpoint" THEN CoveredBy(e) ELSE {}]

HasRow(ver)   == \E i \in DOMAIN rows : rows[i].ver = ver
SetState(rs, ver, state) ==
  [i \in DOMAIN rs |-> IF rs[i].ver = ver THEN [rs[i] EXCEPT !.state = state] ELSE rs[i]]

\* A manifest enters the ancestry, once.
RecordManifest(man) == ancestry' = ancestry \cup {man}

\* ManifestDescendsFrom the manifest of the last row.
Descends(man) ==
  rows # <<>> => LET m == Last(rows).man IN m = man \/ (m \in ancestry /\ m <= man)

-----------------------------------------------------------------------------
(* selectTrusted: read the rows in order, then walk the manifest.           *)

Reversals(rs) == {i \in DOMAIN rs : rs[i].kind = "reversal"}

\* The loop's map `by` before row n: entries recorded and not reversed since.
Recorded(rs, n) ==
  {rs[i].to : i \in {j \in 1 .. (n - 1) \ Reversals(rs) :
     \A r \in Reversals(rs) \cap (j + 1) .. (n - 1) :
       rs[j].to \notin (rs[r].to + 1) .. rs[r].from}}

RowAccepted(rs, i, man) ==
  LET x == rs[i]
  IN CASE x.kind = "reversal" -> /\ x.to \in 1 .. man /\ x.from \in 1 .. man
                                 /\ x.from > x.to /\ x.state = "applied" /\ x.of
       [] x.kind = "reapply"  -> x.to \in 1 .. man /\ x.state = "applied" /\ x.of
       [] OTHER               -> /\ x.to \in 1 .. man /\ x.state \in Clean
                                 /\ x.to \notin Recorded(rs, i)

Superseded(rs) ==
  UNION {rs[i].sup : i \in {j \in DOMAIN rs : rs[j].kind = "checkpoint"
                                             /\ rs[j].state \in {"checkpoint", "applied"}}}

\* Entries the walk does not pass over.
Walked(rs, man) ==
  LET ckpts   == {i \in 1 .. man : ~Ordinary(i)}
      fresh   == IF rs = <<>> /\ ckpts # {} THEN Max(ckpts) ELSE 0
      forward == {rs[i].to : i \in {j \in DOMAIN rs : rs[j].ver[1] = "v"}}
  IN {i \in (1 .. man) \ Superseded(rs) : i >= fresh /\ forward \cap CoveredBy(i) = {}}

\* Mutant: a reapplied entry starts again at attempt one.
CandidateFirst(rs, e) ==
  [e |-> e, again |-> Reversals(rs) # {} /\ e <= rs[Max(Reversals(rs))].from, attempt |-> 1]

\* After a reversal its entries are applied again, as a further attempt.
Candidate(rs, e) ==
  LET again == Reversals(rs) # {} /\ e <= rs[Max(Reversals(rs))].from
      tries == {x.attempt : x \in {y \in Range(rs) : y.kind = "reapply" /\ y.to = e}}
  IN [e |-> e, again |-> again, attempt |-> IF again THEN Max(tries \cup {1}) + 1 ELSE 1]

Pending(rs, man) ==
  LET left == Walked(rs, man) \ Recorded(rs, Len(rs) + 1)
  IN SelectSeq([i \in 1 .. man |-> i], LAMBDA i : i \in left)

\* The first k pending entries; the walk stops at the entry after the k-th.
Selected(rs, man, k) ==
  LET pending == Pending(rs, man)
  IN [i \in 1 .. Min({k, Len(pending)}) |-> Candidate(rs, pending[i])]

Selects(rs, man, k) ==
  LET pending == Pending(rs, man)
      applied == Walked(rs, man) \cap Recorded(rs, Len(rs) + 1)
  IN /\ \A i \in DOMAIN rs : RowAccepted(rs, i, man)
     /\ pending # <<>> =>                                       \* no gap
          \A i \in applied : i > pending[1] => Len(pending) > k /\ i > pending[k + 1]

\* reconcileHistory: every row has exactly the history of its attempt.
ReconcileHistory(rs, h) ==
  /\ \A i \in DOMAIN rs :
       LET x == rs[i]
           attempts == {y \in h : y.art = x.art}
       IN /\ x.kind = "reversal" => x.art \in trusted /\ x.ver[1] = "down"
          /\ IF x.state = "baseline" THEN attempts = {}
             ELSE \E y \in attempts : y.attempt = x.attempt /\ y.state = "confirmed"
  /\ \A y \in h : \E i \in DOMAIN rs : rs[i].art = y.art

\* revalidateLocked.
Revalidates(man) ==
  /\ Descends(man)
  /\ Selects(rows, man, Len(Line))
  /\ ReconcileHistory(rows, hist)

-----------------------------------------------------------------------------
(* Processes.                                                               *)

Idle == [op |-> "none", pc |-> "idle", man |-> 0, k |-> 0, todo |-> <<>>,
         evs |-> <<>>, arg |-> <<>>, ok |-> FALSE]

Leave(p) ==
  /\ proc' = [proc EXCEPT ![p] = Idle]
  /\ advisory' = IF advisory = p THEN NoRun ELSE advisory
Go(p, pc) == proc' = [proc EXCEPT ![p].pc = pc] /\ UNCHANGED advisory

Fault   == runFaults < scene.faults /\ runFaults' = runFaults + 1 /\ UNCHANGED lapses
NoFault == UNCHANGED limits

\* A command opens its session and reads the published manifest.
StartRun(p, op) ==
  /\ proc[p].pc = "idle"
  /\ op \in Commands
  /\ \E k \in {1, Len(Line)},
        arg \in CASE op = "down"   -> {<<d>> : d \in plans}
                  [] op = "repair" -> {<<q>> : q \in proposals}
                  [] OTHER         -> {<<>>} :
       /\ op \in {"file", "all", "baseline"} \/ k = 1
       /\ (rows = <<>> /\ db # {}) => op = "baseline"
       /\ proc' = [proc EXCEPT ![p] = [Idle EXCEPT !.op = op, !.pc = "loaded",
                                       !.man = published, !.k = k, !.arg = arg]]
  /\ UNCHANGED <<published, stores, audits, papers, advisory, limits>>

\* pg_try_advisory_lock on the target, then the writer barrier.
TryLock(p) ==
  /\ proc[p].pc = "loaded"
  /\ IF advisory = NoRun
     THEN advisory' = p /\ proc' = [proc EXCEPT ![p].pc = "drain"]
     ELSE Leave(p)
  /\ UNCHANGED <<published, stores, audits, papers, limits>>

-----------------------------------------------------------------------------
(* The outbox.  Apply names its items by a hash of the payload, down and    *)
(* repair by the event's own identity.                                      *)

EnqueueOutbox(src, vers) == outbox \cup {[src |-> src, ev |-> v] : v \in vers}

LogOf(op) == IF op = "repair" THEN "repair" ELSE "lifecycle"

Drainable(p) ==
  {x \in outbox : proc[p].op = "repair" => x.src # "apply"}

MalformedFor(op, x) == op \in {"plan", "down"} /\ x.src = "apply"

DrainItem(p) ==
  /\ proc[p].pc = "drain"
  /\ \E x \in Drainable(p) :
       LET record == <<LogOf(proc[p].op), x.ev>>
       IN \/ /\ MalformedFor(proc[p].op, x)
             /\ Leave(p) /\ NoFault /\ UNCHANGED audits
          \/ /\ ~MalformedFor(proc[p].op, x)
             /\ logs' = logs \cup {record}
             /\ outbox' = outbox \ {x}
             /\ proc' = [proc EXCEPT ![p].ok = @ \/ (proc[p].op = "repair"
                                     /\ x.ev = RepairVer(proc[p].arg[1].id))]
             /\ NoFault /\ UNCHANGED advisory
          \/ /\ ~MalformedFor(proc[p].op, x)
             /\ logs' \in {logs, logs \cup {record}}
             /\ Leave(p) /\ Fault /\ UNCHANGED outbox
  /\ UNCHANGED <<published, stores, papers>>

Drained(p) == proc[p].pc = "drain" /\ Drainable(p) = {}

-----------------------------------------------------------------------------
(* migrate apply.                                                           *)

\* The rows a candidate adds, in its first state.
RowOf(c, man, state, kind) ==
  IF c.again
  THEN [Row(ReapplyVer(c.e, c.attempt), "reapply", state, c.e, 0, c.attempt, TRUE, man)
          EXCEPT !.sup = {}]
  ELSE Row(Ver(c.e), kind, state, c.e, 0, 1, FALSE, man)
KindOf(c)  == IF Ordinary(c.e) THEN "migration" ELSE "checkpoint"
FinalOf(c) == IF Ordinary(c.e) THEN "applied" ELSE "checkpoint"
Evidence(c, state) == [art |-> Ver(c.e), attempt |-> c.attempt, state |-> state]

\* Everything between the lock and the first mutation of an apply command.
AdmitRun(p) ==
  /\ Drained(p)
  /\ proc[p].op \in {"file", "all", "baseline"}
  /\ LET man == proc[p].man
         todo == Selected(rows, man, proc[p].k)
         admitted == /\ published = man
                     /\ Descends(man)
                     /\ Selects(rows, man, proc[p].k)
                     /\ ReconcileHistory(rows, hist)
         wholly == \A i \in DOMAIN todo : Line[todo[i].e].tx
     IN \/ /\ admitted /\ todo = <<>>
           /\ RecordManifest(man)
           /\ Leave(p)
        \/ /\ admitted /\ todo # <<>> /\ (proc[p].op = "all" => wholly)
           /\ proc' = [proc EXCEPT ![p].pc = "apply", ![p].todo = todo]
           /\ UNCHANGED <<ancestry, advisory>>
        \/ /\ ~admitted \/ (todo # <<>> /\ proc[p].op = "all" /\ ~wholly)
           /\ Leave(p) /\ UNCHANGED ancestry
  /\ UNCHANGED <<published, rows, hist, db, half, audits, papers, limits>>

\* Files of one transaction: rows, statements, history and outbox together.
Files(p) == IF proc[p].op = "all" THEN proc[p].todo ELSE <<Head(proc[p].todo)>>
CommitFiles(p, files) ==
  LET new == [i \in DOMAIN files |->
                RowOf(files[i], proc[p].man, FinalOf(files[i]), KindOf(files[i]))]
  IN /\ rows' = rows \o new
     /\ RecordManifest(proc[p].man)
     /\ hist' = hist \cup {Evidence(files[i], "confirmed") : i \in DOMAIN files}
     /\ db' = db \cup UNION {Effect(files[i].e) : i \in DOMAIN files}
     /\ outbox' = EnqueueOutbox("apply", {new[i].ver : i \in DOMAIN files})
     /\ UNCHANGED <<half, logs>>

ApplyFiles(p) ==
  /\ proc[p].pc = "apply"
  /\ proc[p].op \in {"file", "all"}
  /\ proc[p].op = "file" => Line[Head(proc[p].todo).e].tx
  /\ LET files   == Files(p)
         allowed == /\ Revalidates(proc[p].man)
                    /\ \A i \in DOMAIN files :
                         ~HasRow(RowOf(files[i], proc[p].man, "", KindOf(files[i])).ver)
     IN \/ /\ allowed /\ CommitFiles(p, files) /\ NoFault
           /\ proc' = [proc EXCEPT ![p].pc = "audit",
                         ![p].evs = [i \in DOMAIN files |->
                            RowOf(files[i], 0, "", KindOf(files[i])).ver],
                         ![p].todo = SubSeq(@, Len(files) + 1, Len(@))]
           /\ UNCHANGED advisory
        \/ /\ allowed /\ CommitFiles(p, files) /\ Fault     \* commit outcome unknown
           /\ Leave(p)
        \/ /\ allowed /\ Fault                              \* SQL or commit failed
           /\ Leave(p) /\ UNCHANGED <<stores, audits>>
        \/ /\ ~allowed /\ NoFault
           /\ Leave(p) /\ UNCHANGED <<stores, audits>>
  /\ UNCHANGED <<published, papers>>

\* After the commit: the durable audit, then FinalizeOutbox, event by event.
FinalizeEvent(p) ==
  /\ proc[p].pc = "audit"
  /\ LET ev     == Head(proc[p].evs)
         record == <<LogOf(proc[p].op), ev>>
         more   == [proc[p] EXCEPT !.evs = Tail(@)]
     IN \/ /\ logs' = logs \cup {record}
           /\ outbox' = {x \in outbox : x.ev # ev}
           /\ NoFault
           /\ IF more.evs = <<>> /\ more.todo = <<>> THEN Leave(p)
              ELSE /\ proc' = [proc EXCEPT ![p] =
                                [more EXCEPT !.pc = IF more.evs = <<>> THEN "apply" ELSE @]]
                   /\ UNCHANGED advisory
        \/ /\ logs' \in {logs, logs \cup {record}}
           /\ Leave(p) /\ Fault /\ UNCHANGED outbox
  /\ UNCHANGED <<published, stores, papers>>

\* Mutant: the row is written only when the outcome is known.
InsertLater(p, row) == RecordManifest(proc[p].man) /\ UNCHANGED rows

\* A nontransactional file: the pending row is committed first.
InsertPending(p, row) ==
  /\ rows' = Append(rows, row)
  /\ RecordManifest(proc[p].man)

NontxBegin(p) ==
  /\ proc[p].pc = "apply"
  /\ proc[p].op = "file"
  /\ LET c   == Head(proc[p].todo)
         row == RowOf(c, proc[p].man, "pending", KindOf(c))
     IN /\ ~Line[c.e].tx
        /\ ~HasRow(row.ver)
        /\ \/ InsertPending(p, row) /\ NoFault /\ Go(p, "run")
           \/ InsertPending(p, row) /\ Fault /\ Leave(p)
           \/ Fault /\ Leave(p) /\ UNCHANGED <<rows, ancestry>>
  /\ UNCHANGED <<published, hist, db, half, audits, papers>>

\* The executor runs the file's steps; Executor models this call in detail.
NontxRun(p) ==
  /\ proc[p].pc = "run"
  /\ LET c == Head(proc[p].todo)
     IN \/ /\ db' = db \cup Effect(c.e)
           /\ hist' = hist \cup {Evidence(c, "confirmed")}
           /\ NoFault /\ UNCHANGED half
           /\ proc' = [proc EXCEPT ![p].pc = "final", ![p].ok = TRUE]
        \/ /\ \/ UNCHANGED <<db, half, hist>>
              \/ /\ hist' = hist \cup {Evidence(c, "partial")}
                 /\ \/ UNCHANGED <<db, half>>
                    \/ half' = half \cup {c.e} /\ UNCHANGED db
                    \/ db' = db \cup Effect(c.e) /\ UNCHANGED half
           /\ Fault
           /\ proc' = [proc EXCEPT ![p].pc = "final", ![p].ok = FALSE]
  /\ UNCHANGED <<published, rows, ancestry, audits, papers, advisory>>

\* The outcome is recorded in a second transaction.
RecordOutcome(p, c) ==
  rows' = SetState(rows, RowOf(c, 0, "", KindOf(c)).ver,
                   IF proc[p].ok THEN FinalOf(c) ELSE "partial")

NontxFinal(p) ==
  /\ proc[p].pc = "final"
  /\ LET c    == Head(proc[p].todo)
         more == [proc[p] EXCEPT !.todo = Tail(@), !.pc = "apply", !.ok = FALSE]
     IN \/ /\ RecordOutcome(p, c) /\ NoFault
           /\ IF proc[p].ok /\ more.todo # <<>>
              THEN proc' = [proc EXCEPT ![p] = more] /\ UNCHANGED advisory
              ELSE Leave(p)
        \/ /\ RecordOutcome(p, c) \/ UNCHANGED rows
           /\ Fault /\ Leave(p)
  /\ UNCHANGED <<published, ancestry, hist, db, half, audits, papers>>

\* baseline: rows for the selected entries, no statement is run.
ApplyBaseline(p) ==
  /\ proc[p].pc = "apply"
  /\ proc[p].op = "baseline"
  /\ LET todo == proc[p].todo
         new  == [i \in DOMAIN todo |-> RowOf(todo[i], proc[p].man, "baseline", "baseline")]
         honest == UNION {Effect(todo[i].e) : i \in DOMAIN todo} \subseteq db
     IN \/ /\ honest /\ Revalidates(proc[p].man)
           /\ \A i \in DOMAIN new : ~HasRow(new[i].ver)
           /\ rows' = rows \o new
           /\ RecordManifest(proc[p].man)
        \/ UNCHANGED <<rows, ancestry>>
  /\ Leave(p)
  /\ UNCHANGED <<published, hist, db, half, audits, papers, limits>>

-----------------------------------------------------------------------------
(* Controlled down.                                                         *)

AllClean == /\ \A i \in DOMAIN rows : rows[i].state \in Clean
            /\ \A y \in hist : y.state = "confirmed"

\* The row Build holds for each version: the last attempt.
EvidenceRows ==
  {x \in Range(rows) : /\ x.kind # "reversal"
                       /\ \A z \in Range(rows) : (z.kind # "reversal" /\ z.to = x.to)
                                                   => z.attempt <= x.attempt}

LogicalHead == Last(rows).to

\* Build: entries (to, head] must be applied with confirmed history.
Buildable(man, to) ==
  /\ rows # <<>>
  /\ LogicalHead \in 1 .. man
  /\ to \in 1 .. (LogicalHead - 1)
  /\ \A i \in (to + 1) .. LogicalHead :
       \E x \in EvidenceRows :
         /\ x.to = i /\ x.state = "applied" /\ x.kind # "baseline"
         /\ \E y \in hist : y.art = x.art /\ y.attempt = x.attempt /\ y.state = "confirmed"

PlanDown(p) ==
  /\ Drained(p)
  /\ proc[p].op = "plan"
  /\ \/ \E to \in 1 .. proc[p].man :
          /\ AllClean /\ Buildable(proc[p].man, to)
          /\ planned < scene.plans
          /\ planned' = planned + 1
          /\ plans' = plans \cup {[id |-> planned', head |-> Last(rows).ver,
                                   man |-> proc[p].man, to |-> to, live |-> db]}
          /\ trusted' = trusted \cup {DownVer(planned')}
     \/ UNCHANGED <<plans, trusted, planned>>
  /\ Leave(p)
  /\ UNCHANGED <<published, stores, audits, proposals, limits>>

\* ApplyDown: verify the plan against the locked state, one transaction.
DownAllowed(p, d) ==
  /\ rows # <<>> /\ AllClean
  /\ d.man = proc[p].man /\ d.head = Last(rows).ver
  /\ d.live = db
  /\ DownVer(d.id) \in trusted

CommitDown(d) ==
  LET head == IF d.head[1] = "v" THEN d.head[2] ELSE 0
      row  == [Row(DownVer(d.id), "reversal", "applied", d.to, head, 1, TRUE, d.man)
                 EXCEPT !.art = DownVer(d.id)]
  IN /\ rows' = Append(rows, row)
     /\ db' = UNION {Effect(i) : i \in 1 .. d.to}
     /\ hist' = hist \cup {[art |-> row.art, attempt |-> 1, state |-> "confirmed"]}
     /\ outbox' = EnqueueOutbox("down", {row.ver})
     /\ UNCHANGED <<ancestry, half, logs>>

ApplyDown(p) ==
  /\ Drained(p)
  /\ proc[p].op = "down"
  /\ LET d == proc[p].arg[1]
     IN \/ /\ DownAllowed(p, d) /\ CommitDown(d) /\ NoFault
           /\ proc' = [proc EXCEPT ![p].pc = "audit", ![p].evs = <<DownVer(d.id)>>]
           /\ UNCHANGED advisory
        \/ /\ DownAllowed(p, d) /\ CommitDown(d) /\ Fault /\ Leave(p)
        \/ /\ DownAllowed(p, d) /\ Fault /\ Leave(p) /\ UNCHANGED <<stores, audits>>
        \/ /\ ~DownAllowed(p, d) /\ NoFault /\ Leave(p) /\ UNCHANGED <<stores, audits>>
  /\ UNCHANGED <<published, papers>>

-----------------------------------------------------------------------------
(* Repair.                                                                  *)

\* An operator signs a proposal for a row that needs attention.
SignProposal ==
  /\ "repair" \in Commands
  /\ Cardinality(proposals) < scene.proposals
  /\ \E i \in DOMAIN rows, act \in {"mark", "remove"} :
       /\ rows[i].state \notin Clean
       /\ proposals' = proposals \cup {[id |-> Cardinality(proposals) + 1, act |-> act,
                                        row |-> rows[i]]}
  /\ UNCHANGED <<published, stores, audits, plans, trusted, planned>>
  /\ UNCHANGED <<advisory, proc, limits>>

\* Session.Repair: compare-and-swap on the whole row.
Repaired(q) ==
  IF q.act = "mark"
  THEN SetState(rows, q.row.ver, IF q.row.art[2] \in DOMAIN Line /\ ~Ordinary(q.row.art[2])
                                 THEN "checkpoint" ELSE "applied")
  ELSE Append(rows, [q.row EXCEPT !.ver = RepairVer(q.id), !.kind = "reversal",
                                  !.state = "applied", !.attempt = 1, !.of = TRUE,
                                  !.sup = {q.row.to}])

\* HasRepairProposal: the repair_applied event of the revision's event table.
ProposalRecorded(q) == <<"events", RepairVer(q.id)>> \in logs

RepairAllowed(p, q) == ~proc[p].ok /\ ~ProposalRecorded(q) /\ q.row \in Range(rows)

Requested(q) == <<"repair", <<"requested", q.id, 0>>>>

CommitRepair(q) ==
  /\ rows' = Repaired(q)
  /\ outbox' = EnqueueOutbox("repair", {RepairVer(q.id)})
  /\ logs' = logs \cup {Requested(q), <<"events", RepairVer(q.id)>>}

ApplyRepair(p) ==
  /\ Drained(p)
  /\ proc[p].op = "repair"
  /\ LET q == proc[p].arg[1]
     IN \/ /\ RepairAllowed(p, q) /\ CommitRepair(q) /\ NoFault
           /\ proc' = [proc EXCEPT ![p].pc = "audit", ![p].evs = <<RepairVer(q.id)>>]
           /\ UNCHANGED advisory
        \/ /\ RepairAllowed(p, q) /\ CommitRepair(q) /\ Fault /\ Leave(p)
        \/ /\ RepairAllowed(p, q) /\ Fault /\ Leave(p)
           /\ logs' \in {logs, logs \cup {Requested(q)}} /\ UNCHANGED <<rows, outbox>>
        \/ /\ ~RepairAllowed(p, q) /\ NoFault /\ Leave(p)
           /\ UNCHANGED <<rows, audits>>
  /\ UNCHANGED <<published, ancestry, hist, db, half, papers>>

-----------------------------------------------------------------------------
(* The environment.                                                         *)

\* A longer manifest is published (Directory models how).
Publish ==
  /\ published < Len(Line)
  /\ published' = published + 1
  /\ UNCHANGED <<stores, audits, papers, advisory, proc, limits>>

\* The down service restarts, or its plans expire: plans and policies are gone.
Lapse ==
  /\ lapses < scene.lapses /\ trusted # {}
  /\ lapses' = lapses + 1
  /\ plans' = {} /\ trusted' = {}
  /\ UNCHANGED <<published, stores, audits, planned, proposals, advisory, proc, runFaults>>

\* A process dies: its session closes and the advisory lock is released.
RunCrash(p) ==
  /\ proc[p].pc \notin {"idle", "loaded"}
  /\ Fault
  /\ Leave(p)
  /\ UNCHANGED <<published, stores, audits, papers>>

VersionedInit ==
  /\ scene \in Scenes
  /\ published = scene.first
  /\ rows = <<>> /\ ancestry = {} /\ hist = {} /\ half = {}
  /\ db = IF scene.adopted THEN Effect(1) ELSE {}
  /\ outbox = {} /\ logs = {}
  /\ plans = {} /\ trusted = {} /\ planned = 0 /\ proposals = {}
  /\ advisory = NoRun
  /\ proc = [p \in Runs |-> Idle]
  /\ lapses = 0 /\ runFaults = 0

RunStep(p) ==
  \/ \E op \in Commands : StartRun(p, op)
  \/ TryLock(p) \/ DrainItem(p) \/ AdmitRun(p)
  \/ ApplyFiles(p) \/ FinalizeEvent(p) \/ ApplyBaseline(p)
  \/ NontxBegin(p) \/ NontxRun(p) \/ NontxFinal(p)
  \/ PlanDown(p) \/ ApplyDown(p) \/ ApplyRepair(p)
  \/ RunCrash(p)

VersionedNext ==
  /\ (\E p \in Runs : RunStep(p)) \/ SignProposal \/ Publish \/ Lapse
  /\ UNCHANGED scene

VersionedSpec == VersionedInit /\ [][VersionedNext]_verVars

-----------------------------------------------------------------------------
(* Status: read-only, from the rows and the executor's history.             *)

HistoryStates(x) == {y.state : y \in {z \in hist : z.art = x.art /\ z.attempt = x.attempt}}

\* Control rows that count, and the last version one of them leads to.
ValidControl(x) ==
  /\ x.kind = "reversal" \/ (x.kind = "reapply" /\ x.attempt > 1)
  /\ x.state = "applied" /\ x.of /\ x.to <= published
  /\ HistoryStates(x) = {"confirmed"}

ReversedTo ==
  LET valid == {i \in DOMAIN rows : ValidControl(rows[i])}
  IN IF valid = {} THEN 0 ELSE rows[Max(valid)].to

StatusOf(e) ==
  LET own == {x \in Range(rows) : x.ver = Ver(e)}
      reversed == ReversedTo # 0 /\ e > ReversedTo
  IN [class |-> IF reversed THEN "reversed"
                ELSE IF own = {} THEN "pending" ELSE (CHOOSE x \in own : TRUE).state,
      dirty |-> /\ ~reversed
                /\ \E x \in own : x.state = "partial" \/ "partial" \in HistoryStates(x)]

-----------------------------------------------------------------------------
(* migrate diagnose: read-only, from a manifest, the rows, the history and   *)
(* the live schema, in the lock.                                            *)

Listed(ver, man) == ver[1] = "v" /\ ver[2] <= man

\* A row that no entry of the manifest explains, or that is not finished.
RowsDiverge(man) ==
  \E i \in DOMAIN rows : ~Listed(rows[i].ver, man) \/ rows[i].state \in {"pending", "partial"}

\* Evidence without its row, or of another attempt or outcome.
HistoryDiverges(man) ==
  \E y \in hist : ~\E x \in Range(rows) :
    /\ Listed(y.art, man) /\ x.ver = y.art /\ x.attempt = y.attempt
    /\ x.state = "applied" => y.state = "confirmed"

\* The head of the entries recorded without a break; 0 when there is none.
ExpectedHead(man) == Max({k \in 0 .. man : \A i \in 1 .. k : HasRow(Ver(i))})

LiveDiverges(man) ==
  ExpectedHead(man) # 0 => half # {} \/ db # {i \in 1 .. ExpectedHead(man) : Ordinary(i)}

Diagnose(man) ==
  IF RowsDiverge(man) \/ HistoryDiverges(man) \/ LiveDiverges(man) THEN "diverged" ELSE "consistent"

-----------------------------------------------------------------------------
(* Properties.                                                              *)

RowStates == {"pending", "partial", "applied", "baseline", "checkpoint"}

\* Type invariant: rows name entries of the line or control rows, a process
\* beyond the lock is the one that holds it.
VersionedTypeOK ==
  /\ published \in scene.first .. Len(Line)
  /\ \A i \in DOMAIN rows :
       /\ rows[i].kind \in {"migration", "checkpoint", "baseline", "reapply", "reversal"}
       /\ rows[i].state \in RowStates
       /\ rows[i].to \in DOMAIN Line
       /\ \A j \in DOMAIN rows : rows[i].ver = rows[j].ver => i = j
  /\ db \subseteq {e \in DOMAIN Line : Ordinary(e)}
  /\ advisory \in Runs \cup {NoRun}
  /\ \A p \in Runs : proc[p].pc \notin {"idle", "loaded"} <=> advisory = p

\* What the rows say is in effect, and whether an apply command that loaded any
\* of the published manifests believes them, or a diagnosis confirms them.
\* The empty ledger of an adopted database is the operator's to baseline, and the
\* schema of a database that began with a checkpoint is not diagnosed.
Claimed == {e \in Recorded(rows, Len(rows) + 1) \cup Superseded(rows) : Ordinary(e)}
Manifests == scene.first .. published
Believed == /\ \E man \in Manifests : Revalidates(man)
            /\ rows = <<>> => ~scene.adopted
Confirmed == /\ advisory = NoRun /\ \E man \in Manifests : Diagnose(man) = "consistent"
             /\ HasRow(Ver(1))

\* The ledger is never wrong when it is believed: whatever sequence of applies,
\* downs, crashes, unknown commits and repairs (even of rows whose outcome the
\* operator misjudged) came before, if the checks of Engine.Run admit the rows,
\* or Service.Diagnose calls them consistent, then the migrations they claim are
\* exactly the ones in the schema and no file stopped half way.
LedgerIsTrue == Believed \/ Confirmed => Claimed = db /\ half = {}

\* No migration runs on a schema that already has it, and no attempt of an
\* artifact is executed twice.
NoRerun ==
  [][\A y \in hist' \ hist :
       /\ y.art[1] = "v" => Effect(y.art[2]) \cap db = {}
       /\ \A z \in hist : z.art = y.art => z.attempt # y.attempt]_verVars

\* The audit event of a committed transaction is never lost: until some audit
\* log has it, the outbox has it, across crashes, failed audits and drains by
\* commands of another kind.
EventsKept ==
  \A i \in DOMAIN rows :
    (rows[i].kind = "reversal" \/ (rows[i].kind # "baseline" /\ Line[rows[i].to].tx))
      => \/ \E x \in outbox : x.ev = rows[i].ver
         \/ \E log \in {"lifecycle", "repair"} : <<log, rows[i].ver>> \in logs

\* Status is never wrong about what is in effect: an entry it classifies as
\* applied, baselined or checkpointed is in the schema, whatever reversals and
\* reapplied attempts the rows hold, as long as the rows are believed.
StatusSound ==
  Believed => \A e \in 1 .. published : StatusOf(e).class \in Clean => Effect(e) \subseteq db

\* The ledger of the rows as MigrationLedger sees it.
Longest == Max({Len(s.line) : s \in Scenes})
NoLevel == Longest + 1
Abstract == INSTANCE MigrationLedger WITH
  MaxLevel <- Longest, Unknown <- NoLevel,
  schema <- Cardinality(db), torn <- half # {},
  ledger <- IF Believed THEN Cardinality(Claimed) ELSE NoLevel

\* The versioned workflow implements MigrationLedger: the level moves only from
\* a settled ledger or inside an announced attempt; the levels stand for the
\* migrations themselves (LedgerIsTrue), and what Status and the audit tell of
\* them is true and complete (StatusSound, EventsKept).
ImplementsLedger == Abstract!LedgerSpec /\ [](LedgerIsTrue /\ StatusSound /\ EventsKept)

\* "append-only reversal applied; forward migration remains available for
\* reapply" (the guidance Status gives for a reversed entry): after a reversal
\* with nothing left to reconcile, an apply command is admitted.
ReapplyAvailable ==
  (AllClean /\ rows # <<>> /\ Last(rows).kind = "reversal" /\ Last(rows).ver[1] = "down")
    => Believed
=============================================================================
