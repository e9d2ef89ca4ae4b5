------------------------------ MODULE Guardrail ------------------------------
(***************************************************************************)
(* The apply boundary of pkg/guardrail: the bundle, safety and policy       *)
(* checks, the approval gate of pkg/approval with its hash-linked audit     *)
(* file, and the guarded transaction of pkg/precheck that runs inside it.   *)
(* Every call runs in a process of its own; they share the audit file, its  *)
(* operating system lock, the migration lock and the database.              *)
(*                                                                          *)
(* A digest is the value it is computed from, so two digests are equal      *)
(* exactly when the inputs are.  The hash of an audit record stands for the *)
(* record.  What the identity authority authenticates about an approval is  *)
(* what the approval says; who may approve is Roles.                        *)
(***************************************************************************)
EXTENDS Integers, FiniteSets, Sequences

CONSTANTS
    Calls,         \* calls of Guardrail.Apply
    Roles,         \* Roles[who]: the roles the identity authority answers
    Requirements,  \* approval requirements of the environment: risk, count, roles
    FailOn,        \* safety severity that blocks
    Scenes,        \* [request, faults]: what each call asks for, what may go wrong
    MaxTime,       \* bound on the clock
    None

VARIABLES
    scene,   \* the instance, chosen once
    now,     \* the system clock
    file,    \* lines of the audit file: [record, readable]
    eol,     \* the file ends with a line feed
    flock,   \* holder of the lock on the audit file
    migration, \* holder of the migration lock
    rows,    \* rows a live check counts
    call     \* call[c]: where the call is and what it carries

gvars == <<scene, now, file, eol, flock, migration, rows, call>>

Request(c) == scene.request[c]
At(c, pc) == call[c].pc = pc
Goto(c, pc) == call' = [call EXCEPT ![c].pc = pc]
Ended == {"refused", "applied", "failed", "dead"}

(***************************************************************************)
(* Static checks                                                           *)
(***************************************************************************)

\* applySuppression: the first suppression that has not expired.
Suppressed(finding, t) == finding.until > t

\* deriveRisk: suppressed diagnostics count as well.
SeverityRisk(s) == s - 1
deriveRisk(findings) ==
    LET risks == {0} \cup {SeverityRisk(f.severity) : f \in findings}
    IN  CHOOSE r \in risks : \A q \in risks : q <= r

blockingDiagnostics(findings, t) ==
    {f \in findings : ~Suppressed(f, t) /\ f.severity >= FailOn}

\* What the approval was given for against what is installed now.
Bound(q) == q.plan = q.bundle

\* Guardrail.evaluate: nothing is audited when it fails.
Evaluate(c) ==
    LET q == Request(c)
        passes == /\ Bound(q)
                  /\ blockingDiagnostics(q.findings, now) = {}
                  /\ ~q.violation
    IN  /\ At(c, "idle")
        /\ call' = [call EXCEPT ![c].pc = IF passes THEN "decide" ELSE "refused",
                                ![c].risk = deriveRisk(q.findings)]
        /\ UNCHANGED <<scene, now, file, eol, flock, migration, rows>>

(***************************************************************************)
(* The approval gate                                                       *)
(***************************************************************************)
Expired(expires, t) == expires # 0 /\ expires <= t

\* The same gate without the separation of author and approver.
ValidAnyone(q, t) ==
    {a \in q.approvals : /\ a.plan = q.plan
                         /\ a.from <= t /\ a.until > t
                         /\ a.who # q.by}

\* The approvals evaluateFor keeps.
Valid(q, t) ==
    {a \in q.approvals : /\ a.plan = q.plan
                         /\ a.from <= t /\ a.until > t
                         /\ a.who # q.author /\ a.who # q.by}

hasAllRoles(who, requirement) == requirement.roles \subseteq Roles[who]

Applies(risk) == {r \in Requirements : risk >= r.risk}
Eligible(q, r, t) == {a \in Valid(q, t) : hasAllRoles(a.who, r)}
Granted(q, risk, t) == UNION {Eligible(q, r, t) : r \in Applies(risk)}

evaluateFor(q, risk, t) ==
    /\ q.author # q.by
    /\ ~Expired(q.expires, t)
    /\ \/ q.override
       \/ \A r \in Applies(risk) :
             Cardinality({a.who : a \in Eligible(q, r, t)}) >= r.count

\* GuardedApply decides, and then writes what it decided.
Decide(c) ==
    LET q == Request(c)
        ok == evaluateFor(q, call[c].risk, now)
    IN  /\ At(c, "decide")
        /\ call' = [call EXCEPT ![c].pc = "tail",
                                ![c].type = IF ok THEN "apply_authorized" ELSE "apply_denied",
                                ![c].approvals = IF ok /\ ~q.override
                                                 THEN Granted(q, call[c].risk, now)
                                                 ELSE {}]
        /\ UNCHANGED <<scene, now, file, eol, flock, migration, rows>>

(***************************************************************************)
(* The audit file                                                          *)
(***************************************************************************)

\* FileSink.load: every line parses, numbers itself and names its predecessor.
Hash(lines) == IF lines = <<>> THEN None ELSE lines[Len(lines)].record.id
load(lines) ==
    \A i \in 1 .. Len(lines) :
        /\ lines[i].readable
        /\ lines[i].record.sequence = i
        /\ lines[i].record.previous = Hash(SubSeq(lines, 1, i - 1))

withOSLock == flock = None

\* FileSink.Tail, under the lock for its own duration.
ReadTail(c) ==
    /\ At(c, "tail") /\ withOSLock
    /\ call' = [call EXCEPT ![c].pc = IF load(file) THEN "append" ELSE "refused",
                            ![c].tail = Hash(file),
                            ![c].sequence = Len(file) + 1]
    /\ UNCHANGED <<scene, now, file, eol, flock, migration, rows>>

\* FileSink.appendLocked, up to the write: it reads the chain again, and the
\* record must still follow its head.
CompareHead(c) ==
    /\ At(c, "append") /\ withOSLock
    /\ IF /\ load(file)
          /\ Hash(file) = call[c].tail
          /\ call[c].sequence = Len(file) + 1
       THEN Goto(c, "write") /\ flock' = c
       ELSE Goto(c, "refused") /\ UNCHANGED flock
    /\ UNCHANGED <<scene, now, file, eol, migration, rows>>

Line(c) == [record |-> [sequence |-> call[c].sequence,
                        previous |-> call[c].tail,
                        id |-> <<c, call[c].type>>],
            readable |-> TRUE]

\* O_APPEND after a line feed starts a line; without one it spoils the last.
Appended(line) ==
    IF eol THEN Append(file, line)
    ELSE [file EXCEPT ![Len(file)].readable = FALSE]

\* The record is written and synchronised; an error of fsync or close leaves it
\* in the file and fails the call.
WriteRecord(c) ==
    /\ At(c, "write")
    /\ file' = Appended(Line(c))
    /\ eol' = TRUE
    /\ flock' = None
    /\ \/ call' = [call EXCEPT ![c].pc = IF call[c].type = "apply_authorized"
                                         THEN "fresh" ELSE "refused"]
       \/ "sync" \in scene.faults /\ Goto(c, "refused")
    /\ UNCHANGED <<scene, now, migration, rows>>

\* The machine stops during the write: a partial line, or all of it but the feed.
Tear(c) ==
    /\ At(c, "write")
    /\ \/ /\ "tear" \in scene.faults
          /\ file' = Append(file, [Line(c) EXCEPT !.readable = FALSE])
          /\ eol' = FALSE
       \/ /\ "cut" \in scene.faults
          /\ file' = Appended(Line(c))
          /\ eol' = FALSE
    /\ flock' = None
    /\ Goto(c, "dead")
    /\ UNCHANGED <<scene, now, migration, rows>>

(***************************************************************************)
(* The mutation                                                            *)
(***************************************************************************)

approvalsFresh(q, approvals, t) ==
    /\ ~Expired(q.expires, t)
    /\ q.override \/ \A a \in approvals : a.until > t

\* The final recheck: what expired while the audit was written is denied, and
\* that denial is audited too.
Recheck(c) ==
    LET q == Request(c)
    IN  /\ At(c, "fresh")
        /\ IF approvalsFresh(q, call[c].approvals, now)
           THEN Goto(c, "lock")
           ELSE call' = [call EXCEPT ![c].pc = "tail", ![c].type = "apply_denied"]
        /\ UNCHANGED <<scene, now, file, eol, flock, migration, rows>>

\* precheck.GuardedApply: the transaction takes the migration lock,
AcquireLock(c) ==
    /\ At(c, "lock") /\ migration = None
    /\ migration' = c
    /\ Goto(c, "check")
    /\ UNCHANGED <<scene, now, file, eol, flock, rows>>

\* runs every check,
QueryCount(c) ==
    /\ At(c, "check")
    /\ IF rows <= Request(c).max
       THEN Goto(c, "exec") /\ UNCHANGED migration
       ELSE Goto(c, "failed") /\ migration' = None
    /\ UNCHANGED <<scene, now, file, eol, flock, rows>>

\* and commits the statements, or rolls them back.  The commit may take effect
\* and be reported as an error.
Exec(c) ==
    /\ At(c, "exec")
    /\ migration' = IF migration = c THEN None ELSE migration
    /\ \/ rows' = rows + Request(c).adds /\ Goto(c, "applied")
       \/ /\ "commit" \in scene.faults
          /\ rows' \in {rows, rows + Request(c).adds}
          /\ Goto(c, "failed")
    /\ UNCHANGED <<scene, now, file, eol, flock>>

(***************************************************************************)
(* Cancellation, time and crashes                                          *)
(***************************************************************************)

\* The context ends where the code looks at it or waits with it.
Cancel(c) ==
    /\ "cancel" \in scene.faults
    /\ call[c].pc \in {"idle", "decide", "tail", "append", "fresh", "lock"}
    /\ Goto(c, IF At(c, "lock") THEN "failed" ELSE "refused")
    /\ UNCHANGED <<scene, now, file, eol, flock, migration, rows>>

Die(c) ==
    /\ "die" \in scene.faults
    /\ call[c].pc \notin Ended \cup {"idle", "write"}
    /\ migration' = IF migration = c THEN None ELSE migration
    /\ Goto(c, "dead")
    /\ UNCHANGED <<scene, now, file, eol, flock, rows>>

Tick ==
    /\ now < MaxTime
    /\ \E c \in Calls : call[c].pc \notin Ended
    /\ now' = now + 1
    /\ UNCHANGED <<scene, file, eol, flock, migration, rows, call>>

GInit ==
    /\ scene \in Scenes
    /\ now = 0 /\ file = <<>> /\ eol = TRUE
    /\ flock = None /\ migration = None /\ rows = 0
    /\ call = [c \in Calls |-> [pc |-> "idle", risk |-> 0, type |-> "apply_denied",
                                approvals |-> {}, tail |-> None, sequence |-> 0]]

GNext ==
    \/ \E c \in Calls : \/ Evaluate(c) \/ Decide(c) \/ ReadTail(c) \/ CompareHead(c)
                        \/ WriteRecord(c) \/ Tear(c) \/ Recheck(c)
                        \/ AcquireLock(c) \/ QueryCount(c) \/ Exec(c)
                        \/ Cancel(c) \/ Die(c)
    \/ Tick

GSpec == GInit /\ [][GNext]_gvars

(***************************************************************************)
(* Properties                                                              *)
(***************************************************************************)

\* What the code's types say of requests, findings, approvals and requirements.
WellFormed ==
    /\ None \notin Calls
    /\ \A r \in Requirements : r.risk \in Nat /\ r.count \in Nat
    /\ \A s \in Scenes : \A c \in Calls :
          /\ s.request[c].expires \in Nat
          /\ \A f \in s.request[c].findings : f.severity \in 1 .. 3
          /\ \A a \in s.request[c].approvals :
                a.from \in Nat /\ a.until \in Nat /\ a.who \in DOMAIN Roles

\* The risk a request really has, the people who may vouch for it at an instant.
Severities(q) == {f.severity : f \in q.findings}
Vouches(q, who, t) ==
    /\ who \notin {q.author, q.by}
    /\ \E a \in q.approvals : a.who = who /\ a.plan = q.bundle /\ a.from <= t /\ t < a.until

\* GuardedApply: the mutation begins only for a request whose authorization is in
\* the audit file, at the end of a chain that FileSink.load accepts; whose plan is
\* the installed one and has not expired; and for which every requirement its
\* findings call for still has its approvers at that moment, or an emergency
\* override.
MutationAuthorized ==
    \A c \in Calls :
         LET q == Request(c)
         IN  At(c, "fresh") /\ call'[c].pc = "lock" =>
               /\ \E i \in 1 .. Len(file) :
                     load(SubSeq(file, 1, i)) /\ file[i].record.id = <<c, "apply_authorized">>
               /\ q.plan = q.bundle /\ q.author # q.by
               /\ q.expires = 0 \/ now < q.expires
               /\ \/ q.override
                  \/ \A r \in Requirements :
                        (r.risk = 0 \/ \E s \in Severities(q) : s > r.risk) =>
                          \E team \in SUBSET {w \in DOMAIN Roles : Vouches(q, w, now)} :
                             /\ Cardinality(team) >= r.count
                             /\ \A w \in team : r.roles \subseteq Roles[w]

=============================================================================
