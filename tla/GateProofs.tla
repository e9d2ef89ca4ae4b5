----------------------------- MODULE GateProofs -----------------------------
(***************************************************************************)
(* The two gates on the way of a plan to a database: an edited plan is       *)
(* signed only on fresh evidence (PlanEdit), and a mutation begins only when *)
(* it is authorized (Guardrail).  Neither gate trusts what it is handed: a   *)
(* publication is proved from what the command learned itself, whatever the  *)
(* attestation says, and a mutation from the lock on the audit file, the two *)
(* readings of its chain and the second look at the clock.                   *)
(***************************************************************************)
EXTENDS PlanEdit, Guardrail, TLAPS

-----------------------------------------------------------------------------
Texts == Sqls \cup {NoSql}
FileKinds == {"absent", "torn", "draft", "attested", "signed"}
Slots == {"draft", "attested", "signed"}
FileType ==
    [is : FileKinds, sql : Texts, policy : Nat, expired : BOOLEAN, by : Nat,
     sources : SUBSET {"source", "elsewhere"}, policies : SUBSET Nat]
EditPoints ==
    {"idle", "publish_requested", "requested", "inspect", "rejected", "publish_rejected"}
        \cup {"pipeline", "validated", "compare", "sign", "create", "write", "published"}
EditType ==
    [cmd : {"none", "edit", "revalidate", "publish"}, pc : EditPoints, sql : Texts, supplied : FileType,
     policy : Nat, sources : SUBSET {"source", "elsewhere"}, policies : SUBSET Nat]

\* The shapes of the variables.
EditShapes ==
    /\ target \in {"source", "elsewhere"} /\ policy \in Nat /\ shifts \in Nat /\ commands \in Nat
    /\ files \in [Slots -> FileType] /\ edit \in EditType
    /\ ended \subseteq 1..commands

\* Where a publication has inspected the target, run the pipeline, recorded it.
Inspected == {"pipeline", "validated", "compare", "sign", "create", "write", "published"}
Validated == Inspected \ {"pipeline"}
Compared == Validated \ {"validated"}

\* What a running command has seen, and what a publication knows at each point.
EditSeen == edit.pc # "idle" => target \in edit.sources /\ policy \in edit.policies /\ commands \notin ended
EditKnown ==
    edit.cmd = "publish" =>
        /\ edit.pc \in Inspected \cup {"requested", "inspect"} =>
              <<"edit_publish_requested", commands>> \in audit
        /\ edit.pc \in Inspected \cup {"inspect"} => <<"edit_requested", commands>> \in audit
        /\ edit.pc \in Inspected => "source" \in edit.sources
        /\ edit.pc \in Validated => edit.policy \in edit.policies /\ edit.sql.ast = "same"
        /\ edit.pc \in Compared => <<"edit_validated", commands>> \in audit

\* The signed file is of an earlier command, or of the one that is recording it.
EditPlaced ==
    /\ edit.pc = "idle" <=> edit.cmd = "none"
    /\ edit.pc # "idle" => commands > 0
    /\ edit.pc = "published" => edit.cmd = "publish"
    /\ edit.pc = "compare" => edit.cmd = "publish"
    /\ files["signed"].is = "signed" =>
          /\ files["signed"].by \in 1..commands
          /\ files["signed"].by = commands => edit.pc \in {"idle", "published"}

EditInv == EditShapes /\ EditSeen /\ EditKnown /\ EditPlaced /\ EvidenceCurrent

-----------------------------------------------------------------------------
\* No file, and no command.
LEMMA IdleType == Absent \in FileType /\ Torn \in FileType /\ Idle \in EditType
<1>1. NoSql \in Texts
    BY Zenon DEF Texts
<1>2. {} \in SUBSET {"source", "elsewhere"} /\ {} \in SUBSET Nat
    BY Zenon
<1>3. Absent \in FileType
    BY Zenon, <1>1, <1>2 DEF Absent, FileType, FileKinds
<1>4. Torn \in FileType
    BY Zenon, <1>1, <1>2 DEF Absent, Torn, FileType, FileKinds
<1>5. "idle" \in EditPoints
    BY Zenon DEF EditPoints
<1>6. Idle \in EditType
    BY Zenon, <1>1, <1>2, <1>3, <1>5 DEF Idle, EditType
<1> QED
    BY Zenon, <1>3, <1>4, <1>6

\* A command goes on to its next point.
LEMMA EditMoves ==
    ASSUME edit \in EditType, NEW p \in EditPoints, Go(p)
    PROVE  /\ edit' \in EditType /\ edit'.pc = p
           /\ edit'.cmd = edit.cmd /\ edit'.sql = edit.sql /\ edit'.supplied = edit.supplied
           /\ edit'.policy = edit.policy /\ edit'.sources = edit.sources /\ edit'.policies = edit.policies
BY Zenon DEF Go, EditType

\* A command returns.
LEMMA EditReturns ==
    ASSUME Return
    PROVE  edit' \in EditType /\ edit'.pc = "idle" /\ edit'.cmd = "none" /\ ended' = ended \cup {commands}
BY Zenon, IdleType DEF Return, Idle

\* The initial state: no file, no command.
LEMMA EditStart == EditInit => EditInv
<1> SUFFICES ASSUME EditInit PROVE EditInv
    BY Zenon
<1>1. NoSql \in Texts
    BY Zenon DEF Texts
<1>2. Absent \in FileType
    BY Zenon, <1>1 DEF Absent, FileType, FileKinds
<1>3. Idle \in EditType
    BY Zenon, IdleType
<1>4. EditShapes
    BY Zenon, <1>2, <1>3 DEF EditInit, EditShapes, Slots
<1>5. files["signed"].is = "absent" /\ edit.pc = "idle" /\ edit.cmd = "none"
    BY Zenon DEF EditInit, Absent, Idle
<1> QED
    BY Zenon, <1>4, <1>5 DEF EditInv, EditSeen, EditKnown, EditPlaced, EvidenceCurrent

\* What a step that leaves the files alone keeps, when the audit only grows.
LEMMA SignedKept ==
    ASSUME EvidenceCurrent, files' = files, audit \subseteq audit',
           ended' = ended \/ (ended' = ended \cup {commands} /\ files["signed"].by # commands)
    PROVE  EvidenceCurrent'
BY Zenon DEF EvidenceCurrent

\* A command that goes on keeps the invariant if it knows what it must know.
LEMMA EditMovedOn ==
    ASSUME EditInv, NEW p \in EditPoints, Go(p), p # "idle", edit.pc \notin {"idle", "published"},
           p \in {"published", "compare"} => edit.cmd = "publish",
           UNCHANGED <<target, policy, shifts, files, commands, ended>>, audit \subseteq audit', EditKnown'
    PROVE  EditInv'
<1> USE DEF EditInv
<1>1. /\ edit' \in EditType /\ edit'.pc = p /\ edit'.cmd = edit.cmd
      /\ edit'.sources = edit.sources /\ edit'.policies = edit.policies
    BY Zenon, EditMoves DEF EditShapes
<1>2. EditShapes'
    BY Zenon, <1>1 DEF EditShapes
<1>3. EditSeen'
    BY Zenon, <1>1 DEF EditSeen
<1>4. EditPlaced'
    BY Zenon, <1>1 DEF EditPlaced
<1>5. EvidenceCurrent'
    BY Zenon, SignedKept
<1> QED
    BY Zenon, <1>2, <1>3, <1>4, <1>5

\* A command may return from everywhere but from where it records its file.
LEMMA EditReturned ==
    ASSUME EditInv, Return, edit.pc \notin {"idle", "published"},
           UNCHANGED <<target, policy, shifts, files, commands>>, audit \subseteq audit'
    PROVE  EditInv'
<1> USE DEF EditInv
<1>1. edit' \in EditType /\ edit'.pc = "idle" /\ edit'.cmd = "none" /\ ended' = ended \cup {commands}
    BY Zenon, EditReturns
<1>2. commands \in 1..commands
    BY DEF EditShapes, EditPlaced
<1>3. EditShapes'
    BY Zenon, <1>1, <1>2 DEF EditShapes
<1>4. EditSeen' /\ EditKnown'
    BY Zenon, <1>1 DEF EditSeen, EditKnown
<1>5. EditPlaced'
    BY Zenon, <1>1 DEF EditPlaced
<1>6. EvidenceCurrent'
  <2>1. CASE files["signed"].is = "signed"
    BY Zenon, <2>1, <1>1, SignedKept DEF EditPlaced
  <2>2. CASE files["signed"].is # "signed"
    BY Zenon, <2>2 DEF EvidenceCurrent
  <2> QED
    BY Zenon, <2>1, <2>2
<1> QED
    BY Zenon, <1>3, <1>4, <1>5, <1>6

\* The request of a publication is recorded, or it stops.
LEMMA PublishRequestKeeps == EditInv /\ PublishRequest => EditInv'
<1> SUFFICES ASSUME EditInv, PublishRequest PROVE EditInv'
    BY Zenon
<1>0. edit \in EditType
    BY Zenon DEF EditInv, EditShapes
<1>1. CASE Recorded("edit_publish_requested") /\ Go("requested") /\ UNCHANGED ended
  <2>1. audit \subseteq audit'
    BY Zenon, <1>1 DEF PublishRequest, Recorded, Unrecorded
  <2>2. "requested" \in EditPoints
    BY Zenon, <1>1 DEF PublishRequest, EditPoints
  <2>3. /\ edit'.pc = "requested" /\ edit'.cmd = edit.cmd /\ edit'.sql = edit.sql
        /\ edit'.policy = edit.policy /\ edit'.sources = edit.sources /\ edit'.policies = edit.policies
    BY Zenon, <1>1, <1>0, <2>2, EditMoves
  <2>4. EditKnown'
    BY Zenon, <1>1, <2>1, <2>3 DEF PublishRequest, EditInv, EditKnown, EditSeen, Inspected, Validated, Compared, Recorded
  <2> QED
    BY Zenon, <1>1, <2>1, <2>2, <2>3, <2>4, EditMovedOn DEF PublishRequest, EditInv, EditPlaced
<1>2. CASE Unrecorded("edit_publish_requested") /\ Return
  <2>1. audit \subseteq audit'
    BY Zenon, <1>2 DEF PublishRequest, Recorded, Unrecorded
  <2> QED
    BY Zenon, <1>2, <2>1, EditReturned DEF PublishRequest
<1> QED
    BY Zenon, <1>1, <1>2 DEF PublishRequest, Fail

\* The request of the validation is recorded, or it fails.
LEMMA RevalidateRequestKeeps == EditInv /\ RevalidateRequest => EditInv'
<1> SUFFICES ASSUME EditInv, RevalidateRequest PROVE EditInv'
    BY Zenon
<1>0. edit \in EditType
    BY Zenon DEF EditInv, EditShapes
<1>1. CASE Recorded("edit_requested") /\ Go("inspect") /\ UNCHANGED ended
  <2>1. audit \subseteq audit'
    BY Zenon, <1>1 DEF RevalidateRequest, Recorded, Unrecorded
  <2>2. "inspect" \in EditPoints
    BY Zenon, <1>1 DEF RevalidateRequest, EditPoints
  <2>3. /\ edit'.pc = "inspect" /\ edit'.cmd = edit.cmd /\ edit'.sql = edit.sql
        /\ edit'.policy = edit.policy /\ edit'.sources = edit.sources /\ edit'.policies = edit.policies
    BY Zenon, <1>1, <1>0, <2>2, EditMoves
  <2>4. EditKnown'
    BY Zenon, <1>1, <2>1, <2>3 DEF RevalidateRequest, EditInv, EditKnown, EditSeen, Inspected, Validated, Compared, Recorded
  <2> QED
    BY Zenon, <1>1, <2>1, <2>2, <2>3, <2>4, EditMovedOn DEF RevalidateRequest, EditInv, EditPlaced
<1>2. CASE Unrecorded("edit_requested") /\ Go("publish_rejected") /\ UNCHANGED ended
  <2>1. audit \subseteq audit'
    BY Zenon, <1>2 DEF RevalidateRequest, Recorded, Unrecorded
  <2>2. "publish_rejected" \in EditPoints
    BY Zenon, <1>2 DEF RevalidateRequest, EditPoints
  <2>3. /\ edit'.pc = "publish_rejected" /\ edit'.cmd = edit.cmd /\ edit'.sql = edit.sql
        /\ edit'.policy = edit.policy /\ edit'.sources = edit.sources /\ edit'.policies = edit.policies
    BY Zenon, <1>2, <1>0, <2>2, EditMoves
  <2>4. EditKnown'
    BY Zenon, <1>2, <2>1, <2>3 DEF RevalidateRequest, EditInv, EditKnown, EditSeen, Inspected, Validated, Compared, Recorded
  <2> QED
    BY Zenon, <1>2, <2>1, <2>2, <2>3, <2>4, EditMovedOn DEF RevalidateRequest, EditInv, EditPlaced
<1>3. CASE Unrecorded("edit_requested") /\ Return
  <2>1. audit \subseteq audit'
    BY Zenon, <1>3 DEF RevalidateRequest, Recorded, Unrecorded
  <2> QED
    BY Zenon, <1>3, <2>1, EditReturned DEF RevalidateRequest
<1> QED
    BY Zenon, <1>1, <1>2, <1>3 DEF RevalidateRequest, Fail

\* The target is inspected.
LEMMA inspectTargetKeeps == EditInv /\ inspectTarget => EditInv'
<1> SUFFICES ASSUME EditInv, inspectTarget PROVE EditInv'
    BY Zenon
<1>0. edit \in EditType
    BY Zenon DEF EditInv, EditShapes
<1>1. CASE target = "source" /\ Go("pipeline")
  <2>1. audit \subseteq audit'
    BY Zenon, <1>1 DEF inspectTarget, Recorded, Unrecorded
  <2>2. "pipeline" \in EditPoints
    BY Zenon, <1>1 DEF inspectTarget, EditPoints
  <2>3. /\ edit'.pc = "pipeline" /\ edit'.cmd = edit.cmd /\ edit'.sql = edit.sql
        /\ edit'.policy = edit.policy /\ edit'.sources = edit.sources /\ edit'.policies = edit.policies
    BY Zenon, <1>1, <1>0, <2>2, EditMoves
  <2>4. EditKnown'
    BY Zenon, <1>1, <2>1, <2>3 DEF inspectTarget, EditInv, EditKnown, EditSeen, Inspected, Validated, Compared, Recorded
  <2> QED
    BY Zenon, <1>1, <2>1, <2>2, <2>3, <2>4, EditMovedOn DEF inspectTarget, EditInv, EditPlaced
<1>2. CASE Go("rejected")
  <2>1. audit \subseteq audit'
    BY Zenon, <1>2 DEF inspectTarget, Recorded, Unrecorded
  <2>2. "rejected" \in EditPoints
    BY Zenon, <1>2 DEF inspectTarget, EditPoints
  <2>3. /\ edit'.pc = "rejected" /\ edit'.cmd = edit.cmd /\ edit'.sql = edit.sql
        /\ edit'.policy = edit.policy /\ edit'.sources = edit.sources /\ edit'.policies = edit.policies
    BY Zenon, <1>2, <1>0, <2>2, EditMoves
  <2>4. EditKnown'
    BY Zenon, <1>2, <2>1, <2>3 DEF inspectTarget, EditInv, EditKnown, EditSeen, Inspected, Validated, Compared, Recorded
  <2> QED
    BY Zenon, <1>2, <2>1, <2>2, <2>3, <2>4, EditMovedOn DEF inspectTarget, EditInv, EditPlaced
<1> QED
    BY Zenon, <1>1, <1>2 DEF inspectTarget, Fail

\* A rejection is recorded, if it can be.
LEMMA RevalidateRejectedKeeps == EditInv /\ RevalidateRejected => EditInv'
<1> SUFFICES ASSUME EditInv, RevalidateRejected PROVE EditInv'
    BY Zenon
<1>0. edit \in EditType
    BY Zenon DEF EditInv, EditShapes
<1>1. CASE Go("publish_rejected") /\ UNCHANGED ended
  <2>1. audit \subseteq audit'
    BY Zenon, <1>1 DEF RevalidateRejected, Recorded, Unrecorded
  <2>2. "publish_rejected" \in EditPoints
    BY Zenon, <1>1 DEF RevalidateRejected, EditPoints
  <2>3. /\ edit'.pc = "publish_rejected" /\ edit'.cmd = edit.cmd /\ edit'.sql = edit.sql
        /\ edit'.policy = edit.policy /\ edit'.sources = edit.sources /\ edit'.policies = edit.policies
    BY Zenon, <1>1, <1>0, <2>2, EditMoves
  <2>4. EditKnown'
    BY Zenon, <1>1, <2>1, <2>3 DEF RevalidateRejected, EditInv, EditKnown, EditSeen, Inspected, Validated, Compared, Recorded
  <2> QED
    BY Zenon, <1>1, <2>1, <2>2, <2>3, <2>4, EditMovedOn DEF RevalidateRejected, EditInv, EditPlaced
<1>2. CASE Return
  <2>1. audit \subseteq audit'
    BY Zenon, <1>2 DEF RevalidateRejected, Recorded, Unrecorded
  <2> QED
    BY Zenon, <1>2, <2>1, EditReturned DEF RevalidateRejected
<1> QED
    BY Zenon, <1>1, <1>2 DEF RevalidateRejected, Fail

\* The validation is recorded, or it fails.
LEMMA RevalidateDoneKeeps == EditInv /\ RevalidateDone => EditInv'
<1> SUFFICES ASSUME EditInv, RevalidateDone PROVE EditInv'
    BY Zenon
<1>0. edit \in EditType
    BY Zenon DEF EditInv, EditShapes
<1>1. CASE Recorded("edit_validated") /\ Go("compare") /\ edit.cmd = "publish" /\ UNCHANGED ended
  <2>1. audit \subseteq audit'
    BY Zenon, <1>1 DEF RevalidateDone, Recorded, Unrecorded
  <2>2. "compare" \in EditPoints
    BY Zenon, <1>1 DEF RevalidateDone, EditPoints
  <2>3. /\ edit'.pc = "compare" /\ edit'.cmd = edit.cmd /\ edit'.sql = edit.sql
        /\ edit'.policy = edit.policy /\ edit'.sources = edit.sources /\ edit'.policies = edit.policies
    BY Zenon, <1>1, <1>0, <2>2, EditMoves
  <2>4. EditKnown'
    BY Zenon, <1>1, <2>1, <2>3 DEF RevalidateDone, EditInv, EditKnown, EditSeen, Inspected, Validated, Compared, Recorded
  <2> QED
    BY Zenon, <1>1, <2>1, <2>2, <2>3, <2>4, EditMovedOn DEF RevalidateDone, EditInv, EditPlaced
<1>2. CASE Go("create") /\ edit.cmd # "publish" /\ UNCHANGED ended
  <2>1. audit \subseteq audit'
    BY Zenon, <1>2 DEF RevalidateDone, Recorded, Unrecorded
  <2>2. "create" \in EditPoints
    BY Zenon, <1>2 DEF RevalidateDone, EditPoints
  <2>3. /\ edit'.pc = "create" /\ edit'.cmd = edit.cmd /\ edit'.sql = edit.sql
        /\ edit'.policy = edit.policy /\ edit'.sources = edit.sources /\ edit'.policies = edit.policies
    BY Zenon, <1>2, <1>0, <2>2, EditMoves
  <2>4. EditKnown'
    BY Zenon, <1>2, <2>1, <2>3 DEF RevalidateDone, EditInv, EditKnown, EditSeen, Inspected, Validated, Compared, Recorded
  <2> QED
    BY Zenon, <1>2, <2>1, <2>2, <2>3, <2>4, EditMovedOn DEF RevalidateDone, EditInv, EditPlaced
<1>3. CASE Go("publish_rejected") /\ UNCHANGED ended
  <2>1. audit \subseteq audit'
    BY Zenon, <1>3 DEF RevalidateDone, Recorded, Unrecorded
  <2>2. "publish_rejected" \in EditPoints
    BY Zenon, <1>3 DEF RevalidateDone, EditPoints
  <2>3. /\ edit'.pc = "publish_rejected" /\ edit'.cmd = edit.cmd /\ edit'.sql = edit.sql
        /\ edit'.policy = edit.policy /\ edit'.sources = edit.sources /\ edit'.policies = edit.policies
    BY Zenon, <1>3, <1>0, <2>2, EditMoves
  <2>4. EditKnown'
    BY Zenon, <1>3, <2>1, <2>3 DEF RevalidateDone, EditInv, EditKnown, EditSeen, Inspected, Validated, Compared, Recorded
  <2> QED
    BY Zenon, <1>3, <2>1, <2>2, <2>3, <2>4, EditMovedOn DEF RevalidateDone, EditInv, EditPlaced
<1>4. CASE Return
  <2>1. audit \subseteq audit'
    BY Zenon, <1>4 DEF RevalidateDone, Recorded, Unrecorded
  <2> QED
    BY Zenon, <1>4, <2>1, EditReturned DEF RevalidateDone
<1> QED
    BY Zenon, <1>1, <1>2, <1>3, <1>4 DEF RevalidateDone, Fail

\* The attestation is compared with what was found.
LEMMA CompareEligibleKeeps == EditInv /\ CompareEligible => EditInv'
<1> SUFFICES ASSUME EditInv, CompareEligible PROVE EditInv'
    BY Zenon
<1>0. edit \in EditType
    BY Zenon DEF EditInv, EditShapes
<1>1. CASE Go("sign")
  <2>1. audit \subseteq audit'
    BY Zenon, <1>1 DEF CompareEligible, Recorded, Unrecorded
  <2>2. "sign" \in EditPoints
    BY Zenon, <1>1 DEF CompareEligible, EditPoints
  <2>3. /\ edit'.pc = "sign" /\ edit'.cmd = edit.cmd /\ edit'.sql = edit.sql
        /\ edit'.policy = edit.policy /\ edit'.sources = edit.sources /\ edit'.policies = edit.policies
    BY Zenon, <1>1, <1>0, <2>2, EditMoves
  <2>4. EditKnown'
    BY Zenon, <1>1, <2>1, <2>3 DEF CompareEligible, EditInv, EditKnown, EditSeen, Inspected, Validated, Compared, Recorded
  <2> QED
    BY Zenon, <1>1, <2>1, <2>2, <2>3, <2>4, EditMovedOn DEF CompareEligible, EditInv, EditPlaced
<1>2. CASE Go("publish_rejected")
  <2>1. audit \subseteq audit'
    BY Zenon, <1>2 DEF CompareEligible, Recorded, Unrecorded
  <2>2. "publish_rejected" \in EditPoints
    BY Zenon, <1>2 DEF CompareEligible, EditPoints
  <2>3. /\ edit'.pc = "publish_rejected" /\ edit'.cmd = edit.cmd /\ edit'.sql = edit.sql
        /\ edit'.policy = edit.policy /\ edit'.sources = edit.sources /\ edit'.policies = edit.policies
    BY Zenon, <1>2, <1>0, <2>2, EditMoves
  <2>4. EditKnown'
    BY Zenon, <1>2, <2>1, <2>3 DEF CompareEligible, EditInv, EditKnown, EditSeen, Inspected, Validated, Compared, Recorded
  <2> QED
    BY Zenon, <1>2, <2>1, <2>2, <2>3, <2>4, EditMovedOn DEF CompareEligible, EditInv, EditPlaced
<1> QED
    BY Zenon, <1>1, <1>2 DEF CompareEligible, Fail

\* The artifact is signed.
LEMMA FreshArtifactKeeps == EditInv /\ FreshArtifact => EditInv'
<1> SUFFICES ASSUME EditInv, FreshArtifact PROVE EditInv'
    BY Zenon
<1>0. edit \in EditType
    BY Zenon DEF EditInv, EditShapes
<1>1. CASE Go("create")
  <2>1. audit \subseteq audit'
    BY Zenon, <1>1 DEF FreshArtifact, Recorded, Unrecorded
  <2>2. "create" \in EditPoints
    BY Zenon, <1>1 DEF FreshArtifact, EditPoints
  <2>3. /\ edit'.pc = "create" /\ edit'.cmd = edit.cmd /\ edit'.sql = edit.sql
        /\ edit'.policy = edit.policy /\ edit'.sources = edit.sources /\ edit'.policies = edit.policies
    BY Zenon, <1>1, <1>0, <2>2, EditMoves
  <2>4. EditKnown'
    BY Zenon, <1>1, <2>1, <2>3 DEF FreshArtifact, EditInv, EditKnown, EditSeen, Inspected, Validated, Compared, Recorded
  <2> QED
    BY Zenon, <1>1, <2>1, <2>2, <2>3, <2>4, EditMovedOn DEF FreshArtifact, EditInv, EditPlaced
<1>2. CASE Go("publish_rejected")
  <2>1. audit \subseteq audit'
    BY Zenon, <1>2 DEF FreshArtifact, Recorded, Unrecorded
  <2>2. "publish_rejected" \in EditPoints
    BY Zenon, <1>2 DEF FreshArtifact, EditPoints
  <2>3. /\ edit'.pc = "publish_rejected" /\ edit'.cmd = edit.cmd /\ edit'.sql = edit.sql
        /\ edit'.policy = edit.policy /\ edit'.sources = edit.sources /\ edit'.policies = edit.policies
    BY Zenon, <1>2, <1>0, <2>2, EditMoves
  <2>4. EditKnown'
    BY Zenon, <1>2, <2>1, <2>3 DEF FreshArtifact, EditInv, EditKnown, EditSeen, Inspected, Validated, Compared, Recorded
  <2> QED
    BY Zenon, <1>2, <2>1, <2>2, <2>3, <2>4, EditMovedOn DEF FreshArtifact, EditInv, EditPlaced
<1> QED
    BY Zenon, <1>1, <1>2 DEF FreshArtifact, Fail

\* The rejection of a publication.
LEMMA PublishRejectedKeeps == EditInv /\ PublishRejected => EditInv'
<1> SUFFICES ASSUME EditInv, PublishRejected PROVE EditInv'
    BY Zenon
<1>0. edit \in EditType
    BY Zenon DEF EditInv, EditShapes
<1>1. CASE Return
  <2>1. audit \subseteq audit'
    BY Zenon, <1>1 DEF PublishRejected, Recorded, Unrecorded
  <2> QED
    BY Zenon, <1>1, <2>1, EditReturned DEF PublishRejected
<1> QED
    BY Zenon, <1>1 DEF PublishRejected, Fail
\* A command begins with what it sees first.
LEMMA BeginKeeps ==
    ASSUME EditInv, NEW cmd \in {"edit", "revalidate", "publish"}, NEW p \in {"create", "requested", "publish_requested"},
           NEW sql \in Texts, NEW f \in FileType, Begin(cmd, p, sql, f), cmd = "publish" <=> p = "publish_requested",
           UNCHANGED <<target, policy, shifts, files, audit, ended>>
    PROVE  EditInv'
<1> USE DEF EditInv
<1>1. edit.pc = "idle" /\ commands' = commands + 1 /\ commands \in Nat
    BY Zenon DEF Begin, EditShapes
<1>2. p \in EditPoints
    BY Zenon DEF EditPoints
<1>3. {target} \in SUBSET {"source", "elsewhere"} /\ {policy} \in SUBSET Nat
    BY Zenon DEF EditShapes
<1>4. /\ edit' \in EditType /\ edit'.cmd = cmd /\ edit'.pc = p
      /\ edit'.sources = {target} /\ edit'.policies = {policy}
    BY Zenon, <1>2, <1>3, IdleType DEF Begin, EditType
<1>5. EditShapes'
    BY <1>1, <1>4 DEF EditShapes
<1>6. EditSeen'
  <2>1. commands + 1 \notin 1..commands
    BY <1>1
  <2> QED
    BY Zenon, <1>1, <1>4, <2>1 DEF EditSeen, EditShapes
<1>7. EditKnown'
    BY Zenon, <1>4 DEF EditKnown, Inspected, Validated, Compared
<1>8. EditPlaced'
    BY <1>1, <1>4 DEF EditPlaced, EditShapes
<1>9. EvidenceCurrent'
    BY Zenon DEF EvidenceCurrent
<1> QED
    BY Zenon, <1>5, <1>6, <1>7, <1>8, <1>9

\* plan edit
LEMMA runPlanEditKeeps == ASSUME NEW sql \in Sqls PROVE EditInv /\ runPlanEdit(sql) => EditInv'
BY Zenon, BeginKeeps, IdleType DEF runPlanEdit, Texts

\* plan revalidate
LEMMA runPlanRevalidateKeeps == EditInv /\ runPlanRevalidate => EditInv'
<1> SUFFICES ASSUME EditInv, runPlanRevalidate PROVE EditInv'
    BY Zenon
<1>1. files["draft"] \in FileType
    BY Zenon DEF EditInv, EditShapes, Slots
<1>2. files["draft"].sql \in Texts
    BY Zenon, <1>1 DEF FileType
<1> QED
    BY Zenon, <1>2, BeginKeeps, IdleType DEF runPlanRevalidate

\* plan publish
LEMMA runPlanPublishKeeps == EditInv /\ runPlanPublish => EditInv'
<1> SUFFICES ASSUME EditInv, runPlanPublish PROVE EditInv'
    BY Zenon
<1>1. files["attested"] \in FileType
    BY Zenon DEF EditInv, EditShapes, Slots
<1>2. files["attested"].sql \in Texts
    BY Zenon, <1>1 DEF FileType
<1> QED
    BY Zenon, <1>1, <1>2, BeginKeeps DEF runPlanPublish

\* The pipeline binds the edit to the policy of now.
LEMMA PipelineRevalidateKeeps == EditInv /\ PipelineRevalidate => EditInv'
<1> SUFFICES ASSUME EditInv, PipelineRevalidate PROVE EditInv'
    BY Zenon
<1> USE DEF EditInv
<1>0. edit \in EditType /\ policy \in Nat
    BY Zenon DEF EditShapes
<1>1. CASE Accepted(edit.sql) /\ edit' = [edit EXCEPT !.pc = "validated", !.policy = policy]
  <2>1. "validated" \in EditPoints
    BY Zenon DEF EditPoints
  <2>2. /\ edit' \in EditType /\ edit'.pc = "validated" /\ edit'.cmd = edit.cmd /\ edit'.sql = edit.sql
        /\ edit'.policy = policy /\ edit'.sources = edit.sources /\ edit'.policies = edit.policies
    BY Zenon, <1>0, <1>1, <2>1 DEF EditType
  <2>3. EditShapes'
    BY Zenon, <2>2 DEF EditShapes, PipelineRevalidate
  <2>4. EditSeen'
    BY Zenon, <2>2 DEF EditSeen, PipelineRevalidate
  <2>5. EditKnown'
    BY Zenon, <1>1, <2>2 DEF EditKnown, EditSeen, PipelineRevalidate, Accepted, Inspected, Validated, Compared
  <2>6. EditPlaced'
    BY Zenon, <2>2 DEF EditPlaced, PipelineRevalidate
  <2>7. EvidenceCurrent'
    BY Zenon DEF EvidenceCurrent, PipelineRevalidate
  <2> QED
    BY Zenon, <2>3, <2>4, <2>5, <2>6, <2>7
<1>2. CASE Go("rejected")
  <2>1. "rejected" \in EditPoints
    BY Zenon DEF EditPoints
  <2>2. edit'.pc = "rejected"
    BY Zenon, <1>0, <1>2, <2>1, EditMoves
  <2>3. EditKnown'
    BY Zenon, <2>2 DEF EditKnown, Inspected, Validated, Compared
  <2> QED
    BY Zenon, <1>2, <2>1, <2>3, EditMovedOn DEF PipelineRevalidate
<1> QED
    BY Zenon, <1>1, <1>2 DEF PipelineRevalidate

\* The output is created, empty.
LEMMA atomicCreateKeeps == EditInv /\ atomicCreate => EditInv'
<1> SUFFICES ASSUME EditInv, atomicCreate PROVE EditInv'
    BY Zenon
<1> DEFINE f == OutputOf(edit.cmd)
<1>1. CASE Return /\ UNCHANGED files
    BY Zenon, <1>1, EditReturned DEF atomicCreate
<1>2. CASE files[f] = Absent /\ files' = [files EXCEPT ![f] = Torn] /\ Go("write") /\ UNCHANGED ended
  <2> USE DEF EditInv
  <2>1. f \in Slots
    BY Zenon DEF OutputOf, Slots
  <2>2. files' \in [Slots -> FileType]
    BY Zenon, <1>2, <2>1, IdleType DEF EditShapes
  <2>3. files'["signed"] = files["signed"] \/ files'["signed"].is = "torn"
    BY Zenon, <1>2, <2>1 DEF EditShapes, Slots, Torn, Absent
  <2>4. "write" \in EditPoints
    BY Zenon DEF EditPoints
  <2>5. /\ edit' \in EditType /\ edit'.pc = "write" /\ edit'.cmd = edit.cmd /\ edit'.sql = edit.sql
        /\ edit'.policy = edit.policy /\ edit'.sources = edit.sources /\ edit'.policies = edit.policies
    BY Zenon, <1>2, <2>4, EditMoves DEF EditShapes
  <2>6. EditShapes'
    BY Zenon, <1>2, <2>2, <2>5 DEF EditShapes, atomicCreate
  <2>7. EditSeen'
    BY Zenon, <1>2, <2>5 DEF EditSeen, atomicCreate
  <2>8. EditKnown'
    BY Zenon, <2>5 DEF EditKnown, atomicCreate, Inspected, Validated, Compared
  <2>9. EditPlaced'
    BY Zenon, <2>3, <2>5 DEF EditPlaced, atomicCreate
  <2>10. EvidenceCurrent'
    BY <1>2, <2>3 DEF EvidenceCurrent, atomicCreate
  <2> QED
    BY Zenon, <2>6, <2>7, <2>8, <2>9, <2>10
<1> QED
    BY Zenon, <1>1, <1>2 DEF atomicCreate
\* The output is written, or removed; a publication goes on to record it.
LEMMA atomicWriteKeeps == EditInv /\ atomicWrite => EditInv'
<1> SUFFICES ASSUME EditInv, atomicWrite PROVE EditInv'
    BY Zenon
<1> USE DEF EditInv
<1> DEFINE f == OutputOf(edit.cmd)
<1>1. f \in Slots
    BY Zenon DEF OutputOf, Slots
<1>2. edit \in EditType /\ commands \in Nat /\ edit.pc = "write" /\ edit.cmd # "none"
    BY Zenon DEF EditShapes, EditPlaced, atomicWrite
<1>3. commands > 0 /\ commands \in 1..commands /\ commands \notin ended
    BY <1>2 DEF EditPlaced, EditSeen
<1>4. Content \in FileType
    BY Zenon, <1>2 DEF Content, EditType, FileType, FileKinds, OutputOf
<1>5. files["signed"].is = "signed" => files["signed"].by # commands
    BY Zenon, <1>2 DEF EditPlaced
<1>6. CASE Return /\ (files' = [files EXCEPT ![f] = Absent] \/ (edit.cmd # "publish" /\ files' = [files EXCEPT ![f] = Content]))
  <2>1. edit' \in EditType /\ edit'.pc = "idle" /\ edit'.cmd = "none" /\ ended' = ended \cup {commands}
    BY Zenon, <1>6, EditReturns
  <2>2. files' \in [Slots -> FileType]
    BY Zenon, <1>1, <1>4, <1>6, IdleType DEF EditShapes
  <2>3. f # "signed" \/ edit.cmd = "publish"
    BY Zenon, <1>2 DEF OutputOf, EditType
  <2>4. files'["signed"] = files["signed"] \/ files'["signed"].is = "absent"
    BY <1>1, <1>6, <2>3 DEF EditShapes, Absent, Slots
  <2>5. EditShapes'
    BY Zenon, <1>3, <2>1, <2>2 DEF EditShapes, atomicWrite
  <2>6. EditSeen' /\ EditKnown'
    BY Zenon, <2>1 DEF EditSeen, EditKnown
  <2>7. EditPlaced'
    BY Zenon, <2>1, <2>4 DEF EditPlaced, atomicWrite
  <2>8. EvidenceCurrent'
    BY Zenon, <1>5, <2>1, <2>4 DEF EvidenceCurrent, atomicWrite
  <2> QED
    BY Zenon, <2>5, <2>6, <2>7, <2>8
<1>7. CASE edit.cmd = "publish" /\ Go("published") /\ UNCHANGED ended /\ files' = [files EXCEPT ![f] = Content]
  <2>1. "published" \in EditPoints
    BY Zenon DEF EditPoints
  <2>2. /\ edit' \in EditType /\ edit'.pc = "published" /\ edit'.cmd = edit.cmd /\ edit'.sql = edit.sql
        /\ edit'.policy = edit.policy /\ edit'.sources = edit.sources /\ edit'.policies = edit.policies
    BY Zenon, <1>2, <1>7, <2>1, EditMoves
  <2>3. f = "signed"
    BY Zenon, <1>7 DEF OutputOf
  <2>4. files' \in [Slots -> FileType] /\ files'["signed"] = Content
    BY Zenon, <1>1, <1>4, <1>7, <2>3 DEF EditShapes
  <2>5. EditShapes'
    BY Zenon, <1>7, <2>2, <2>4 DEF EditShapes, atomicWrite
  <2>6. EditSeen'
    BY Zenon, <1>2, <1>7, <2>2 DEF EditSeen, atomicWrite
  <2>7. EditKnown'
    BY Zenon, <1>2, <2>2 DEF EditKnown, atomicWrite, Inspected, Validated, Compared
  <2>8. EditPlaced'
    BY <1>3, <1>7, <2>2, <2>4 DEF EditPlaced, Content, atomicWrite
  <2>9. /\ "source" \in edit.sources /\ edit.policy \in edit.policies /\ edit.sql.ast = "same"
        /\ \A t \in {"edit_publish_requested", "edit_requested", "edit_validated"} : <<t, commands>> \in audit
    BY Zenon, <1>2, <1>7 DEF EditKnown, Inspected, Validated, Compared
  <2>10. EvidenceCurrent'
    BY <1>3, <1>7, <2>4, <2>9 DEF EvidenceCurrent, Content, atomicWrite
  <2> QED
    BY Zenon, <2>5, <2>6, <2>7, <2>8, <2>10
<1> QED
    BY Zenon, <1>6, <1>7 DEF atomicWrite

\* The publication is recorded, or the file goes.
LEMMA PublishOutputKeeps == EditInv /\ PublishOutput => EditInv'
<1> SUFFICES ASSUME EditInv, PublishOutput PROVE EditInv'
    BY Zenon
<1> USE DEF EditInv
<1>1. edit \in EditType /\ edit.pc = "published" /\ commands \in 1..commands
    BY DEF EditShapes, EditPlaced, PublishOutput
<1>2. CASE Recorded("edit_published") /\ Return /\ UNCHANGED files
  <2>1. edit' \in EditType /\ edit'.pc = "idle" /\ edit'.cmd = "none" /\ ended' = ended \cup {commands}
    BY Zenon, <1>2, EditReturns
  <2>2. EditShapes'
    BY Zenon, <1>1, <1>2, <2>1 DEF EditShapes, PublishOutput
  <2>3. EditSeen' /\ EditKnown'
    BY Zenon, <2>1 DEF EditSeen, EditKnown
  <2>4. EditPlaced'
    BY Zenon, <1>2, <2>1 DEF EditPlaced, PublishOutput
  <2>5. EvidenceCurrent'
    BY Zenon, <1>2, <2>1 DEF EvidenceCurrent, Recorded
  <2> QED
    BY Zenon, <2>2, <2>3, <2>4, <2>5
<1>3. CASE /\ Unrecorded("edit_published") /\ Go("publish_rejected") /\ UNCHANGED ended
           /\ files' = [files EXCEPT !.signed = Absent]
  <2>1. "publish_rejected" \in EditPoints
    BY Zenon DEF EditPoints
  <2>2. /\ edit' \in EditType /\ edit'.pc = "publish_rejected" /\ edit'.cmd = edit.cmd
        /\ edit'.sources = edit.sources /\ edit'.policies = edit.policies
    BY Zenon, <1>1, <1>3, <2>1, EditMoves
  <2>3. files' \in [Slots -> FileType] /\ files'["signed"].is = "absent"
    BY Zenon, <1>3, IdleType DEF EditShapes, Slots, Absent
  <2>4. EditShapes'
    BY Zenon, <1>3, <2>2, <2>3 DEF EditShapes, PublishOutput
  <2>5. EditSeen'
    BY Zenon, <1>1, <1>3, <2>2 DEF EditSeen, PublishOutput
  <2>6. EditKnown'
    BY Zenon, <2>2 DEF EditKnown, Inspected, Validated, Compared
  <2>7. EditPlaced'
    BY Zenon, <1>1, <2>2, <2>3 DEF EditPlaced, PublishOutput
  <2>8. EvidenceCurrent'
    BY Zenon, <2>3 DEF EvidenceCurrent
  <2> QED
    BY Zenon, <2>4, <2>5, <2>6, <2>7, <2>8
<1> QED
    BY Zenon, <1>2, <1>3 DEF PublishOutput

\* Removing a file.
LEMMA RemoveFileKeeps == ASSUME NEW f \in Slots PROVE EditInv /\ RemoveFile(f) => EditInv'
<1> SUFFICES ASSUME EditInv, RemoveFile(f) PROVE EditInv'
    BY Zenon
<1> USE DEF EditInv, RemoveFile
<1>1. files' \in [Slots -> FileType]
    BY Zenon, IdleType DEF EditShapes
<1>2. files'["signed"] = files["signed"] \/ files'["signed"].is = "absent"
    BY Zenon DEF EditShapes, Absent, Slots
<1>3. EditShapes'
    BY Zenon, <1>1 DEF EditShapes
<1>4. EditSeen' /\ EditKnown'
    BY Zenon DEF EditSeen, EditKnown
<1>5. EditPlaced'
    BY Zenon, <1>2 DEF EditPlaced
<1>6. EvidenceCurrent'
    BY <1>2 DEF EvidenceCurrent
<1> QED
    BY Zenon, <1>3, <1>4, <1>5, <1>6

\* An attestation expires.
LEMMA ExpireKeeps == EditInv /\ Expire => EditInv'
<1> SUFFICES ASSUME EditInv, Expire PROVE EditInv'
    BY Zenon
<1> USE DEF EditInv, Expire
<1>1. files["attested"] \in FileType
    BY Zenon DEF EditShapes, Slots
<1>2. [files["attested"] EXCEPT !.expired = TRUE] \in FileType
    BY Zenon, <1>1 DEF FileType
<1>3. files' = [files EXCEPT !["attested"] = [files["attested"] EXCEPT !.expired = TRUE]]
    BY Zenon
<1>4. files' \in [Slots -> FileType] /\ files'["signed"] = files["signed"]
    BY Zenon, <1>2, <1>3 DEF EditShapes, Slots
<1>5. EditShapes'
    BY Zenon, <1>4 DEF EditShapes
<1>6. EditSeen' /\ EditKnown'
    BY Zenon DEF EditSeen, EditKnown
<1>7. EditPlaced' /\ EvidenceCurrent'
    BY <1>4 DEF EditPlaced, EvidenceCurrent
<1> QED
    BY Zenon, <1>5, <1>6, <1>7

\* The target or the policy changes under a command, which has then seen both.
LEMMA ShiftKeeps == EditInv /\ Shift => EditInv'
<1> SUFFICES ASSUME EditInv, Shift PROVE EditInv'
    BY Zenon
<1> USE DEF EditInv
<1>1. target' \in {"source", "elsewhere"} /\ policy' \in Nat /\ shifts' \in Nat
    BY DEF Shift, EditShapes
<1>2. /\ edit' \in EditType /\ edit'.pc = edit.pc /\ edit'.cmd = edit.cmd /\ edit'.sql = edit.sql
      /\ edit'.policy = edit.policy /\ edit.sources \subseteq edit'.sources /\ edit.policies \subseteq edit'.policies
      /\ edit.pc # "idle" => target' \in edit'.sources /\ policy' \in edit'.policies
  <2>1. CASE edit.pc = "idle"
    BY Zenon, <2>1 DEF Shift, EditShapes
  <2>2. CASE edit.pc # "idle"
    <3>1. edit \in EditType /\ edit.sources \cup {target'} \in SUBSET {"source", "elsewhere"} /\ edit.policies \cup {policy'} \in SUBSET Nat
        BY Zenon, <1>1 DEF EditShapes, EditType
    <3>2. edit' = [edit EXCEPT !.sources = edit.sources \cup {target'}, !.policies = edit.policies \cup {policy'}]
        BY Zenon, <2>2 DEF Shift
    <3> QED
        BY Zenon, <3>1, <3>2 DEF EditType
  <2> QED
    BY Zenon, <2>1, <2>2
<1>3. EditShapes'
    BY Zenon, <1>1, <1>2 DEF EditShapes, Shift
<1>4. EditSeen'
    BY Zenon, <1>2 DEF EditSeen, Shift
<1>5. EditKnown'
    BY Zenon, <1>2 DEF EditKnown, Shift
<1>6. EditPlaced' /\ EvidenceCurrent'
    BY Zenon, <1>2 DEF EditPlaced, EvidenceCurrent, Shift
<1> QED
    BY Zenon, <1>3, <1>4, <1>5, <1>6

\* The process is killed; what it left in the files stays.
LEMMA CrashKeeps == EditInv /\ Crash => EditInv'
<1> SUFFICES ASSUME EditInv, Crash PROVE EditInv'
    BY Zenon
<1> USE DEF EditInv
<1>1. edit' \in EditType /\ edit'.pc = "idle" /\ edit'.cmd = "none"
    BY Zenon, IdleType DEF Crash, Idle
<1>2. EditShapes'
    BY Zenon, <1>1 DEF EditShapes, Crash
<1>3. EditSeen' /\ EditKnown'
    BY Zenon, <1>1 DEF EditSeen, EditKnown
<1>4. EditPlaced' /\ EvidenceCurrent'
    BY Zenon, <1>1 DEF EditPlaced, EvidenceCurrent, Crash
<1> QED
    BY Zenon, <1>2, <1>3, <1>4

\* Every step keeps the invariant.
LEMMA EditStep == EditInv /\ [EditNext]_editVars => EditInv'
<1> SUFFICES ASSUME EditInv, [EditNext]_editVars PROVE EditInv'
    BY Zenon
<1>1. CASE EditNext
  <2>1. DOMAIN files = Slots
    BY Zenon DEF EditInv, EditShapes
  <2> QED
    BY Zenon, <1>1, <2>1, runPlanEditKeeps, runPlanRevalidateKeeps, runPlanPublishKeeps, PublishRequestKeeps,
       RevalidateRequestKeeps, inspectTargetKeeps, PipelineRevalidateKeeps, RevalidateRejectedKeeps,
       RevalidateDoneKeeps, CompareEligibleKeeps, FreshArtifactKeeps, PublishRejectedKeeps, atomicCreateKeeps,
       atomicWriteKeeps, PublishOutputKeeps, RemoveFileKeeps, ExpireKeeps, ShiftKeeps, CrashKeeps
    DEF EditNext
<1>2. CASE UNCHANGED editVars
    BY Zenon, <1>2 DEF editVars, EditInv, EditShapes, EditSeen, EditKnown, EditPlaced, EvidenceCurrent
<1> QED
    BY Zenon, <1>1, <1>2

(* For any set of edits, any number of commands and of changes of the target  *)
(* and of the policy, at whatever step they fall and wherever a command stops *)
(* (productionEditService.Publish, PublishOutput): a signed edit has evidence   *)
(* and audit of the command that signed it.                                   *)
THEOREM SignedHasEvidence == EditSpec => []EvidenceCurrent
<1>1. EditInv => EvidenceCurrent
    BY Zenon DEF EditInv
<1> QED
    BY <1>1, EditStart, EditStep, PTL DEF EditSpec

-----------------------------------------------------------------------------
EventTypes == {"apply_authorized", "apply_denied"}
Ids == Calls \X EventTypes
Approvals == UNION {s.request[c].approvals : s \in Scenes, c \in Calls}
GatePoints == {"idle", "decide", "tail", "append", "write", "fresh", "lock", "check", "exec"} \cup Ended
RecordType == [sequence : Nat, previous : Ids \cup {None}, id : Ids]
LineType == [record : RecordType, readable : BOOLEAN]
CallType ==
    [pc : GatePoints, risk : Int, type : EventTypes, approvals : SUBSET Approvals,
     tail : Ids \cup {None}, sequence : Nat]

\* The shapes of the variables.
GateShapes ==
    /\ scene \in Scenes /\ now \in Nat /\ file \in Seq(LineType) /\ eol \in BOOLEAN
    /\ call \in [Calls -> CallType]

\* The file is one chain, and only its last line may be torn.
Before(lines, i) == IF i = 1 THEN None ELSE lines[i - 1].record.id
Chained ==
    /\ \A i \in 1 .. Len(file) :
          /\ file[i].record.sequence = i /\ file[i].record.previous = Before(file, i)
          /\ i # Len(file) => file[i].readable
    /\ ~eol => Len(file) > 0 /\ ~file[Len(file)].readable

\* Who is about to write holds the lock, and has just read a whole file.
Writing ==
    \A c \in Calls : At(c, "write") =>
        /\ flock = c /\ eol /\ call[c].sequence = Len(file) + 1 /\ call[c].tail = Before(file, Len(file) + 1)
        /\ \A i \in 1 .. Len(file) : file[i].readable

\* Who wrote that it is authorized finds that in the file.
Wrote ==
    \A c \in Calls : At(c, "fresh") =>
        /\ call[c].type = "apply_authorized"
        /\ \E i \in 1 .. Len(file) : file[i].readable /\ file[i].record.id = <<c, "apply_authorized">>

\* What a call decided, and when.
JudgedCall(c) ==
    /\ call[c].pc \in {"decide", "tail", "append", "write", "fresh"} =>
          Bound(Request(c)) /\ call[c].risk = deriveRisk(Request(c).findings)
    /\ call[c].pc \in {"tail", "append", "write", "fresh"} /\ call[c].type = "apply_authorized" =>
          \E t \in 0 .. now :
             /\ evaluateFor(Request(c), call[c].risk, t)
             /\ Request(c).override \/ call[c].approvals = Granted(Request(c), call[c].risk, t)
Judged == \A c \in Calls : JudgedCall(c)

GuardInv == GateShapes /\ ("cut" \notin scene.faults => Chained /\ Writing /\ Wrote) /\ Judged
-----------------------------------------------------------------------------
(* The operators.                                                           *)

\* The hash of a prefix is the identity of its last record.
LEMMA HashBefore ==
    ASSUME NEW lines \in Seq(LineType), NEW i \in 1 .. Len(lines) + 1
    PROVE  Hash(SubSeq(lines, 1, i - 1)) = Before(lines, i)
<1>1. i - 1 \in 0 .. Len(lines)
    OBVIOUS
<1>2. Len(SubSeq(lines, 1, i - 1)) = i - 1 /\ \A j \in 1 .. i - 1 : SubSeq(lines, 1, i - 1)[j] = lines[j]
    BY <1>1
<1>3. CASE i = 1
    BY <1>2, <1>3 DEF Hash, Before
<1>4. CASE i # 1
  <2>1. SubSeq(lines, 1, i - 1) # <<>>
    BY <1>2, <1>4
  <2> QED
    BY <1>2, <1>4, <2>1 DEF Hash, Before
<1> QED
    BY Zenon, <1>3, <1>4

\* The hash of the whole file.
LEMMA HashWhole ==
    ASSUME NEW lines \in Seq(LineType)
    PROVE  Hash(lines) = Before(lines, Len(lines) + 1)
BY DEF Hash, Before

\* What load accepts is a chain of readable lines, and the other way round.
LEMMA LoadMeans ==
    ASSUME NEW lines \in Seq(LineType)
    PROVE  load(lines) <=>
               \A i \in 1 .. Len(lines) :
                   lines[i].readable /\ lines[i].record.sequence = i
                   /\ lines[i].record.previous = Before(lines, i)
BY HashBefore DEF load

\* A prefix of the file whose lines are readable and chained is accepted.
LEMMA LoadPrefix ==
    ASSUME NEW lines \in Seq(LineType), NEW n \in 1 .. Len(lines),
           \A i \in 1 .. n : lines[i].readable /\ lines[i].record.sequence = i
                              /\ lines[i].record.previous = Before(lines, i)
    PROVE  load(SubSeq(lines, 1, n))
<1> DEFINE front == SubSeq(lines, 1, n)
<1>1. front \in Seq(LineType) /\ Len(front) = n /\ \A i \in 1 .. n : front[i] = lines[i]
    OBVIOUS
<1>2. \A i \in 1 .. n : Before(front, i) = Before(lines, i)
    BY <1>1 DEF Before
<1> HIDE DEF front
<1>3. load(front)
    BY <1>1, <1>2, LoadMeans
<1> QED
    BY Zenon, <1>3 DEF front

\* The derived risk is at least zero, and at least that of every finding.
LEMMA RiskCovers ==
    ASSUME NEW findings, \A f \in findings : f.severity \in 1 .. 3
    PROVE  /\ deriveRisk(findings) \in 0 .. 2
           /\ \A f \in findings : f.severity - 1 <= deriveRisk(findings)
<1> DEFINE risks == {0} \cup {SeverityRisk(f.severity) : f \in findings}
<1>1. risks \subseteq 0 .. 2 /\ 0 \in risks
    BY DEF SeverityRisk
<1>2. \E r \in risks : \A q \in risks : q <= r
  <2>1. CASE 2 \in risks
    BY <1>1, <2>1
  <2>2. CASE 2 \notin risks /\ 1 \in risks
    BY <1>1, <2>2
  <2>3. CASE 2 \notin risks /\ 1 \notin risks
    BY <1>1, <2>3
  <2> QED
    BY Zenon, <2>1, <2>2, <2>3
<1>3. deriveRisk(findings) \in risks /\ \A q \in risks : q <= deriveRisk(findings)
    BY Zenon, <1>2 DEF deriveRisk
<1> QED
    BY Zenon, <1>1, <1>3 DEF SeverityRisk

\* A call goes on and keeps all it carries.
LEMMA GateMoves ==
    ASSUME GateShapes, NEW c \in Calls, NEW p \in GatePoints, Goto(c, p)
    PROVE  /\ call' \in [Calls -> CallType] /\ \A d \in Calls \ {c} : call'[d] = call[d]
           /\ call'[c].pc = p /\ call'[c].risk = call[c].risk /\ call'[c].type = call[c].type
           /\ call'[c].approvals = call[c].approvals /\ call'[c].tail = call[c].tail
           /\ call'[c].sequence = call[c].sequence
<1>1. call[c] \in CallType
    BY Zenon DEF GateShapes
<1>2. call' = [call EXCEPT ![c] = [call[c] EXCEPT !.pc = p]]
    BY Zenon DEF Goto
<1>3. [call[c] EXCEPT !.pc = p] \in CallType
    BY Zenon, <1>1 DEF CallType
<1>4. call'[c] = [call[c] EXCEPT !.pc = p]
    BY Zenon, <1>2 DEF GateShapes
<1> QED
    BY Zenon, <1>1, <1>2, <1>3, <1>4 DEF GateShapes, CallType

\* What the other calls decided stays decided.
LEMMA JudgedOthers ==
    ASSUME Judged, NEW c \in Calls, UNCHANGED <<scene, now>>,
           \A d \in Calls \ {c} : call'[d] = call[d], JudgedCall(c)'
    PROVE  Judged'
<1> SUFFICES ASSUME NEW d \in Calls, d # c PROVE JudgedCall(d)'
    BY Zenon DEF Judged
<1>1. call'[d] = call[d] /\ JudgedCall(d)
    BY Zenon DEF Judged
<1> QED
    BY Zenon, <1>1 DEF JudgedCall, Request

\* And what a call decided does while it only goes on.
LEMMA JudgedKept ==
    ASSUME Judged, NEW c \in Calls, UNCHANGED <<scene, now>>,
           \A d \in Calls \ {c} : call'[d] = call[d],
           call'[c].pc \in {"decide", "tail", "append", "write", "fresh"} =>
               /\ call[c].pc \in {"tail", "append", "write", "fresh"} /\ call'[c].pc # "decide"
               /\ call'[c].risk = call[c].risk /\ call'[c].approvals = call[c].approvals
               /\ call'[c].type \in {call[c].type, "apply_denied"}
    PROVE  Judged'
<1>1. JudgedCall(c)
    BY Zenon DEF Judged
<1>2. JudgedCall(c)'
    BY Zenon, <1>1 DEF JudgedCall, Request
<1> QED
    BY Zenon, <1>2, JudgedOthers

\* The file and its lock stay as they are while a call does other things.
LEMMA FileKept ==
    ASSUME GuardInv, NEW c \in Calls, UNCHANGED <<scene, file, eol, flock>>,
           \A d \in Calls \ {c} : call'[d] = call[d], call'[c].pc \notin {"write", "fresh"}
    PROVE  ("cut" \notin scene.faults => Chained /\ Writing /\ Wrote)'
<1> SUFFICES ASSUME "cut" \notin scene.faults PROVE Chained' /\ Writing' /\ Wrote'
    BY Zenon
<1> USE DEF GuardInv
<1>1. Chained'
    BY Zenon DEF Chained, Before
<1>2. Writing'
    BY Zenon DEF Writing, Before, At
<1>3. Wrote'
    BY Zenon DEF Wrote, At
<1> QED
    BY Zenon, <1>1, <1>2, <1>3

\* A call that takes itself out of the gate disturbs nothing.
LEMMA Leaves ==
    ASSUME GuardInv, NEW c \in Calls, NEW p \in GatePoints \ {"decide", "tail", "append", "write", "fresh"}, Goto(c, p),
           UNCHANGED <<scene, now, file, eol, flock>>
    PROVE  GuardInv'
<1>1. /\ call' \in [Calls -> CallType] /\ \A d \in Calls \ {c} : call'[d] = call[d]
      /\ call'[c].pc = p
    BY Zenon, GateMoves DEF GuardInv
<1>2. GateShapes'
    BY Zenon, <1>1 DEF GuardInv, GateShapes
<1>3. Judged'
    BY Zenon, <1>1, JudgedKept DEF GuardInv
<1> QED
    BY Zenon, <1>1, <1>2, <1>3, FileKept DEF GuardInv

-----------------------------------------------------------------------------
(* The actions.                                                             *)

\* evaluate: the static checks, and the risk they derive.
LEMMA EvaluateKeeps == ASSUME WellFormed, GuardInv, NEW c \in Calls, Evaluate(c) PROVE GuardInv'
<1> DEFINE q == Request(c)
<1> DEFINE rest == [call[c] EXCEPT !.pc = call'[c].pc, !.risk = deriveRisk(q.findings)]
<1>1. call \in [Calls -> CallType] /\ call[c] \in CallType
    BY Zenon DEF GuardInv, GateShapes
<1>2. /\ \A d \in Calls \ {c} : call'[d] = call[d]
      /\ call'[c].pc \in {"decide", "refused"} /\ (call'[c].pc = "decide" => Bound(q))
      /\ call'[c].risk = deriveRisk(q.findings) /\ call'[c].type = call[c].type
      /\ DOMAIN call' = Calls
    BY Zenon, <1>1 DEF Evaluate, CallType
<1>3. deriveRisk(q.findings) \in Int
  <2>1. \A f \in q.findings : f.severity \in 1 .. 3
    BY Zenon DEF WellFormed, GuardInv, GateShapes, Request
  <2> QED
    BY <2>1, RiskCovers
<1>4. call' \in [Calls -> CallType]
  <2>1. call'[c].pc \in GatePoints
    BY Zenon, <1>2 DEF GatePoints, Ended
  <2>2. call' = [call EXCEPT ![c] = rest]
    BY Zenon, <1>1 DEF Evaluate, CallType
  <2>3. rest \in CallType
    BY Zenon, <1>1, <1>3, <2>1 DEF CallType
  <2> HIDE DEF rest
  <2> QED
    BY Zenon, <1>1, <2>2, <2>3
<1>5. GateShapes'
    BY Zenon, <1>4 DEF GuardInv, GateShapes, Evaluate
<1>6. JudgedCall(c)'
    BY Zenon, <1>2 DEF JudgedCall, Request, Evaluate
<1>7. Judged'
    BY Zenon, <1>2, <1>6, JudgedOthers DEF GuardInv, Evaluate
<1> QED
    BY Zenon, <1>2, <1>5, <1>7, FileKept DEF GuardInv, Evaluate

\* evaluateFor: what the gate decides now.
LEMMA DecideKeeps == ASSUME GuardInv, NEW c \in Calls, Decide(c) PROVE GuardInv'
<1> DEFINE q == Request(c)
<1> DEFINE ok == evaluateFor(q, call[c].risk, now)
<1> DEFINE given == IF ok /\ ~q.override THEN Granted(q, call[c].risk, now) ELSE {}
<1> DEFINE type == IF ok THEN "apply_authorized" ELSE "apply_denied"
<1> DEFINE rest == [call[c] EXCEPT !.pc = "tail", !.type = type, !.approvals = given]
<1>1. call \in [Calls -> CallType] /\ call[c] \in CallType /\ now \in Nat /\ scene \in Scenes
    BY Zenon DEF GuardInv, GateShapes
<1>2. call' = [call EXCEPT ![c] = rest]
    BY Zenon, <1>1 DEF Decide, CallType
<1>3. rest \in CallType
  <2>1. given \subseteq Approvals
    <3>1. given \subseteq q.approvals
        BY Zenon DEF Granted, Eligible, Valid
    <3>2. q.approvals \subseteq Approvals
        BY <1>1 DEF Approvals, Request
    <3> QED
        BY Zenon, <3>1, <3>2
  <2>2. "tail" \in GatePoints /\ type \in EventTypes
    BY Zenon DEF GatePoints, EventTypes
  <2> HIDE DEF given, type
  <2> QED
    BY Zenon, <1>1, <2>1, <2>2 DEF CallType
<1>4. /\ rest.pc = "tail" /\ rest.type = type /\ rest.approvals = given /\ rest.risk = call[c].risk
    BY Zenon, <1>1 DEF CallType
<1> HIDE DEF rest
<1>5. call' \in [Calls -> CallType] /\ call'[c] = rest /\ \A d \in Calls \ {c} : call'[d] = call[d]
    BY Zenon, <1>1, <1>2, <1>3
<1>6. GateShapes'
    BY Zenon, <1>5 DEF GuardInv, GateShapes, Decide
<1>7. JudgedCall(c)'
  <2>1. JudgedCall(c) /\ call[c].pc = "decide" /\ UNCHANGED <<scene, now>>
    BY Zenon DEF GuardInv, Judged, Decide, At
  <2>2. Bound(q) /\ call[c].risk = deriveRisk(q.findings)
    BY Zenon, <2>1 DEF JudgedCall
  <2>3. type = "apply_authorized" => ok
    BY Zenon
  <2>4. ok => (q.override \/ given = Granted(q, call[c].risk, now))
    BY Zenon
  <2>5. now \in 0 .. now
    BY <1>1
  <2> HIDE DEF type, given
  <2>6. UNCHANGED q
    BY Zenon, <2>1 DEF Request
  <2> QED
    BY Zenon, <1>4, <1>5, <2>1, <2>2, <2>3, <2>4, <2>5, <2>6 DEF JudgedCall
<1>8. Judged'
    BY Zenon, <1>5, <1>7, JudgedOthers DEF GuardInv, Decide
<1>9. call'[c].pc \notin {"write", "fresh"}
    BY Zenon, <1>4, <1>5
<1> QED
    BY Zenon, <1>5, <1>6, <1>8, <1>9, FileKept DEF GuardInv, Decide

\* FileSink.Tail: the call knows the head it saw.
LEMMA ReadTailKeeps == ASSUME GuardInv, NEW c \in Calls, ReadTail(c) PROVE GuardInv'
<1> DEFINE p == IF load(file) THEN "append" ELSE "refused"
<1> DEFINE rest == [call[c] EXCEPT !.pc = p, !.tail = Hash(file), !.sequence = Len(file) + 1]
<1>1. call \in [Calls -> CallType] /\ call[c] \in CallType /\ file \in Seq(LineType)
    BY Zenon DEF GuardInv, GateShapes
<1>2. call' = [call EXCEPT ![c] = rest]
    BY Zenon, <1>1 DEF ReadTail, CallType
<1>3. p \in GatePoints /\ p \in {"append", "refused"}
    BY Zenon DEF GatePoints, Ended
<1>4. Hash(file) \in Ids \cup {None}
  <2>1. CASE file = <<>>
    BY Zenon, <2>1 DEF Hash
  <2>2. CASE file # <<>>
    <3>1. file[Len(file)] \in LineType
        BY <1>1, <2>2
    <3>2. file[Len(file)].record \in RecordType
        BY Zenon, <3>1 DEF LineType
    <3> QED
        BY Zenon, <2>2, <3>2 DEF Hash, RecordType
  <2> QED
    BY Zenon, <2>1, <2>2
<1>5. Len(file) + 1 \in Nat
    BY <1>1
<1> HIDE DEF p
<1>6. rest \in CallType
    BY Zenon, <1>1, <1>3, <1>4, <1>5 DEF CallType
<1>7. rest.pc = p /\ rest.type = call[c].type /\ rest.approvals = call[c].approvals /\ rest.risk = call[c].risk
    BY Zenon, <1>1 DEF CallType
<1> HIDE DEF rest
<1>8. call' \in [Calls -> CallType] /\ call'[c] = rest /\ \A d \in Calls \ {c} : call'[d] = call[d]
    BY Zenon, <1>1, <1>2, <1>6
<1>9. GateShapes'
    BY Zenon, <1>8 DEF GuardInv, GateShapes, ReadTail
<1>10. Judged'
    BY Zenon, <1>3, <1>7, <1>8, JudgedKept DEF GuardInv, ReadTail, At
<1> QED
    BY Zenon, <1>3, <1>7, <1>8, <1>9, <1>10, FileKept DEF GuardInv, ReadTail

\* appendLocked, up to the write: the writer holds the lock over a whole file.
LEMMA CompareHeadKeeps == ASSUME WellFormed, GuardInv, NEW c \in Calls, CompareHead(c) PROVE GuardInv'
<1>1. CASE Goto(c, "refused") /\ UNCHANGED flock
  <2>1. "refused" \in GatePoints \ {"decide", "tail", "append", "write", "fresh"}
    BY Zenon DEF GatePoints, Ended
  <2> QED
    BY Zenon, <1>1, <2>1, Leaves DEF CompareHead
<1>2. CASE /\ load(file) /\ Hash(file) = call[c].tail /\ call[c].sequence = Len(file) + 1
           /\ Goto(c, "write") /\ flock' = c
  <2>1. "write" \in GatePoints
    BY Zenon DEF GatePoints
  <2>2. /\ call' \in [Calls -> CallType] /\ \A d \in Calls \ {c} : call'[d] = call[d]
        /\ call'[c].pc = "write" /\ call'[c].risk = call[c].risk /\ call'[c].type = call[c].type
        /\ call'[c].approvals = call[c].approvals /\ call'[c].tail = call[c].tail
        /\ call'[c].sequence = call[c].sequence
    BY Zenon, <1>2, <2>1, GateMoves DEF GuardInv
  <2>3. GateShapes'
    BY Zenon, <2>2 DEF GuardInv, GateShapes, CompareHead
  <2>4. Judged'
    BY Zenon, <2>2, JudgedKept DEF GuardInv, CompareHead, At
  <2>5. ("cut" \notin scene.faults => Chained /\ Writing /\ Wrote)'
    <3> SUFFICES ASSUME "cut" \notin scene.faults PROVE Chained' /\ Writing' /\ Wrote'
        BY Zenon DEF CompareHead
    <3> USE DEF GuardInv
    <3>1. file \in Seq(LineType) /\ UNCHANGED <<file, eol>> /\ flock = None /\ eol \in BOOLEAN
        BY Zenon DEF GateShapes, CompareHead, withOSLock
    <3>2. Chained'
        BY Zenon, <3>1 DEF Chained, Before
    <3>3. \A i \in 1 .. Len(file) : file[i].readable
        BY Zenon, <1>2, <3>1, LoadMeans
    <3>4. eol
        BY <3>1, <3>3 DEF Chained
    <3>5. call[c].tail = Before(file, Len(file) + 1)
        BY Zenon, <1>2, <3>1, HashWhole
    <3>6. \A d \in Calls : ~At(d, "write")
        BY Zenon, <3>1 DEF Writing, WellFormed
    <3>7. Writing'
        BY Zenon, <1>2, <2>2, <3>1, <3>3, <3>4, <3>5, <3>6 DEF Writing, Before, At
    <3>8. Wrote'
        BY <2>2, <3>1 DEF Wrote, At
    <3> QED
        BY Zenon, <3>2, <3>7, <3>8
  <2> QED
    BY Zenon, <2>3, <2>4, <2>5 DEF GuardInv
<1> QED
    BY Zenon, <1>1, <1>2 DEF CompareHead

\* The line of a call has the shape of a line.
LEMMA LineShape ==
    ASSUME GateShapes, NEW c \in Calls
    PROVE  /\ Line(c) \in LineType /\ [Line(c) EXCEPT !.readable = FALSE] \in LineType
           /\ Line(c).readable /\ ~[Line(c) EXCEPT !.readable = FALSE].readable
           /\ [Line(c) EXCEPT !.readable = FALSE].record = Line(c).record
           /\ Line(c).record.sequence = call[c].sequence /\ Line(c).record.previous = call[c].tail
           /\ Line(c).record.id = <<c, call[c].type>>
<1>1. call[c] \in CallType
    BY Zenon DEF GateShapes
<1>2. /\ call[c].sequence \in Nat /\ call[c].tail \in Ids \cup {None} /\ <<c, call[c].type>> \in Ids
    BY Zenon, <1>1 DEF CallType, Ids
<1>3. [sequence |-> call[c].sequence, previous |-> call[c].tail, id |-> <<c, call[c].type>>] \in RecordType
    BY Zenon, <1>2 DEF RecordType
<1> QED
    BY Zenon, <1>3 DEF Line, LineType

\* The holder of the lock adds its line, whole or torn, to a whole file.
LEMMA Extends ==
    ASSUME GuardInv, WellFormed, "cut" \notin scene.faults, NEW c \in Calls, At(c, "write"),
           NEW line \in LineType, line.record = Line(c).record, file' = Append(file, line),
           eol' \/ ~line.readable, \A d \in Calls \ {c} : call'[d] = call[d],
           call'[c].pc # "write",
           call'[c].pc = "fresh" =>
               line.readable /\ call[c].type = "apply_authorized" /\ call'[c].type = "apply_authorized"
    PROVE  Chained' /\ Writing' /\ Wrote'
<1> USE DEF GuardInv
<1>1. file \in Seq(LineType) /\ call[c].pc = "write"
    BY Zenon DEF GateShapes, At
<1>2. /\ flock = c /\ call[c].sequence = Len(file) + 1 /\ call[c].tail = Before(file, Len(file) + 1)
      /\ \A i \in 1 .. Len(file) : file[i].readable
    BY Zenon DEF Writing
<1>3. /\ Len(file') = Len(file) + 1 /\ file'[Len(file) + 1] = line
      /\ \A i \in 1 .. Len(file) : file'[i] = file[i]
    BY <1>1
<1>4. /\ line.record.sequence = call[c].sequence /\ line.record.previous = call[c].tail
      /\ line.record.id = <<c, call[c].type>>
    BY Zenon, LineShape
<1>5. \A i \in 1 .. Len(file) + 1 : Before(file', i) = Before(file, i)
    BY <1>1, <1>3 DEF Before
<1>6. Chained'
  <2> SUFFICES /\ \A i \in 1 .. Len(file') :
                     /\ file'[i].record.sequence = i /\ file'[i].record.previous = Before(file', i)
                     /\ i # Len(file') => file'[i].readable
               /\ ~eol' => Len(file') > 0 /\ ~file'[Len(file')].readable
    BY Zenon DEF Chained, Before
  <2>1. ASSUME NEW i \in 1 .. Len(file')
        PROVE  /\ file'[i].record.sequence = i /\ file'[i].record.previous = Before(file', i)
               /\ i # Len(file') => file'[i].readable
    <3>1. CASE i \in 1 .. Len(file)
        BY <1>2, <1>3, <1>5, <3>1 DEF Chained
    <3>2. CASE i = Len(file) + 1
        BY Zenon, <1>1, <1>2, <1>3, <1>4, <1>5, <3>2
    <3> QED
        BY <1>1, <1>3, <3>1, <3>2
  <2> QED
    BY <1>1, <1>3, <2>1
<1>7. \A d \in Calls : call'[d].pc # "write"
    BY Zenon, <1>2 DEF Writing, At
<1>8. Writing'
    BY Zenon, <1>7 DEF Writing, At
<1>9. Wrote'
  <2> SUFFICES ASSUME NEW d \in Calls, call'[d].pc = "fresh"
               PROVE  /\ call'[d].type = "apply_authorized"
                      /\ \E i \in 1 .. Len(file') :
                            file'[i].readable /\ file'[i].record.id = <<d, "apply_authorized">>
    BY Zenon DEF Wrote, At
  <2>1. CASE d = c
    BY <1>1, <1>3, <1>4, <2>1
  <2>2. CASE d # c
    <3>1. PICK i \in 1 .. Len(file) : file[i].readable /\ file[i].record.id = <<d, "apply_authorized">>
        BY Zenon, <2>2 DEF Wrote, At
    <3>2. i \in 1 .. Len(file') /\ file'[i] = file[i]
        BY <1>1, <1>3
    <3> QED
        BY Zenon, <2>2, <3>1, <3>2 DEF Wrote, At
  <2> QED
    BY Zenon, <2>1, <2>2
<1> QED
    BY Zenon, <1>6, <1>8, <1>9

\* Whatever is appended, the file has the shape of a file.
LEMMA AppendedShape ==
    ASSUME GateShapes, NEW line \in LineType
    PROVE  Appended(line) \in Seq(LineType)
<1>1. file \in Seq(LineType)
    BY Zenon DEF GateShapes
<1>2. CASE eol
    BY <1>1, <1>2 DEF Appended
<1>3. CASE ~eol /\ Len(file) > 0
  <2>1. file[Len(file)] \in LineType /\ Len(file) \in 1 .. Len(file)
    BY <1>1, <1>3
  <2>2. [file[Len(file)] EXCEPT !.readable = FALSE] \in LineType
    BY Zenon, <2>1 DEF LineType
  <2>3. Appended(line) = [file EXCEPT ![Len(file)] = [file[Len(file)] EXCEPT !.readable = FALSE]]
    BY Zenon, <1>3 DEF Appended
  <2> QED
    BY <1>1, <2>1, <2>2, <2>3
<1>4. CASE ~eol /\ Len(file) = 0
  <2>1. file = <<>>
    BY <1>1, <1>4
  <2>2. Appended(line) = <<>>
    BY <1>4, <2>1 DEF Appended
  <2> QED
    BY <2>2
<1> QED
    BY <1>1, <1>2, <1>3, <1>4

\* The record is written; a readable authorization is in the file.
LEMMA WriteRecordKeeps == ASSUME WellFormed, GuardInv, NEW c \in Calls, WriteRecord(c) PROVE GuardInv'
<1>1. PICK p \in {"fresh", "refused"} : Goto(c, p) /\ (p = "fresh" => call[c].type = "apply_authorized")
    BY Zenon DEF WriteRecord, Goto
<1>2. p \in GatePoints
    BY Zenon DEF GatePoints, Ended
<1>3. /\ call' \in [Calls -> CallType] /\ \A d \in Calls \ {c} : call'[d] = call[d]
      /\ call'[c].pc = p /\ call'[c].risk = call[c].risk /\ call'[c].type = call[c].type
      /\ call'[c].approvals = call[c].approvals
    BY Zenon, <1>1, <1>2, GateMoves DEF GuardInv
<1>4. At(c, "write") /\ file' = Appended(Line(c)) /\ eol' = TRUE /\ UNCHANGED <<scene, now>>
    BY Zenon DEF WriteRecord
<1>5. GateShapes'
    BY Zenon, <1>3, <1>4, AppendedShape, LineShape DEF GuardInv, GateShapes
<1>6. Judged'
    BY Zenon, <1>1, <1>3, <1>4, JudgedKept DEF GuardInv, At
<1>7. ("cut" \notin scene.faults => Chained /\ Writing /\ Wrote)'
  <2> SUFFICES ASSUME "cut" \notin scene.faults PROVE Chained' /\ Writing' /\ Wrote'
    BY Zenon, <1>4
  <2>1. eol
    BY Zenon, <1>4 DEF GuardInv, Writing
  <2>2. file' = Append(file, Line(c))
    BY Zenon, <1>4, <2>1 DEF Appended
  <2>3. Line(c) \in LineType /\ Line(c).readable
    BY Zenon, LineShape DEF GuardInv
  <2> QED
    BY Zenon, <1>1, <1>3, <1>4, <2>2, <2>3, Extends
<1> QED
    BY Zenon, <1>5, <1>6, <1>7 DEF GuardInv

\* The machine stops during the write: a torn line ends the file for good.
LEMMA TearKeeps == ASSUME WellFormed, GuardInv, NEW c \in Calls, Tear(c) PROVE GuardInv'
<1> DEFINE torn == [Line(c) EXCEPT !.readable = FALSE]
<1>1. "dead" \in GatePoints /\ Goto(c, "dead") /\ At(c, "write") /\ UNCHANGED <<scene, now>>
    BY Zenon DEF GatePoints, Ended, Tear
<1>2. /\ call' \in [Calls -> CallType] /\ \A d \in Calls \ {c} : call'[d] = call[d]
      /\ call'[c].pc = "dead"
    BY Zenon, <1>1, GateMoves DEF GuardInv
<1>3. torn \in LineType /\ ~torn.readable /\ torn.record = Line(c).record /\ Line(c) \in LineType
    BY Zenon, LineShape DEF GuardInv
<1> HIDE DEF torn
<1>4. (file' = Append(file, torn) /\ eol' = FALSE) \/ ("cut" \in scene.faults /\ file' = Appended(Line(c)) /\ eol' = FALSE)
    BY Zenon DEF Tear, torn
<1>5. file' \in Seq(LineType) /\ eol' \in BOOLEAN
  <2>1. file \in Seq(LineType) /\ Appended(Line(c)) \in Seq(LineType)
    BY Zenon, <1>3, AppendedShape DEF GuardInv, GateShapes
  <2>2. Append(file, torn) \in Seq(LineType)
    BY <1>3, <2>1
  <2> QED
    BY Zenon, <1>4, <2>1, <2>2
<1>6. GateShapes'
    BY Zenon, <1>1, <1>2, <1>5 DEF GuardInv, GateShapes
<1>7. Judged'
    BY Zenon, <1>1, <1>2, JudgedKept DEF GuardInv
<1>8. ("cut" \notin scene.faults => Chained /\ Writing /\ Wrote)'
    BY Zenon, <1>1, <1>2, <1>3, <1>4, Extends
<1> QED
    BY Zenon, <1>6, <1>7, <1>8 DEF GuardInv

\* The final recheck: on to the mutation, or a denial to write.
LEMMA RecheckKeeps == ASSUME GuardInv, NEW c \in Calls, Recheck(c) PROVE GuardInv'
<1>1. CASE Goto(c, "lock")
  <2>1. "lock" \in GatePoints \ {"decide", "tail", "append", "write", "fresh"}
    BY Zenon DEF GatePoints, Ended
  <2> QED
    BY Zenon, <1>1, <2>1, Leaves DEF Recheck
<1>2. CASE call' = [call EXCEPT ![c].pc = "tail", ![c].type = "apply_denied"]
  <2> DEFINE rest == [call[c] EXCEPT !.pc = "tail", !.type = "apply_denied"]
  <2>1. call \in [Calls -> CallType] /\ call[c] \in CallType /\ "tail" \in GatePoints /\ "apply_denied" \in EventTypes
    BY Zenon DEF GuardInv, GateShapes, GatePoints, EventTypes
  <2>2. call' = [call EXCEPT ![c] = rest]
    BY Zenon, <1>2, <2>1 DEF CallType
  <2>3. rest \in CallType
    BY Zenon, <2>1 DEF CallType
  <2>4. rest.pc = "tail" /\ rest.type = "apply_denied" /\ rest.approvals = call[c].approvals /\ rest.risk = call[c].risk
    BY Zenon, <2>1 DEF CallType
  <2> HIDE DEF rest
  <2>5. call' \in [Calls -> CallType] /\ call'[c] = rest /\ \A d \in Calls \ {c} : call'[d] = call[d]
    BY Zenon, <2>1, <2>2, <2>3
  <2>6. GateShapes'
    BY Zenon, <2>5 DEF GuardInv, GateShapes, Recheck
  <2>7. Judged'
    BY Zenon, <2>4, <2>5, JudgedKept DEF GuardInv, Recheck, At
  <2> QED
    BY Zenon, <2>4, <2>5, <2>6, <2>7, FileKept DEF GuardInv, Recheck
<1> QED
    BY Zenon, <1>1, <1>2 DEF Recheck

\* The steps of the guarded transaction are outside the gate.
LEMMA MutationKeeps ==
    ASSUME GuardInv, NEW c \in Calls, AcquireLock(c) \/ QueryCount(c) \/ Exec(c) \/ Cancel(c) \/ Die(c)
    PROVE  GuardInv'
<1>1. PICK p \in {"check", "exec", "failed", "applied", "refused", "dead"} : Goto(c, p)
    BY Zenon DEF AcquireLock, QueryCount, Exec, Cancel, Die
<1>2. p \in GatePoints \ {"decide", "tail", "append", "write", "fresh"}
    BY Zenon DEF GatePoints, Ended
<1>3. UNCHANGED <<scene, now, file, eol, flock>>
    BY Zenon DEF AcquireLock, QueryCount, Exec, Cancel, Die
<1> QED
    BY Zenon, <1>1, <1>2, <1>3, Leaves

\* Time passes: what was decided was decided earlier still.
LEMMA TickKeeps == ASSUME GuardInv, Tick PROVE GuardInv'
<1> USE DEF GuardInv
<1>1. now' = now + 1 /\ now \in Nat /\ UNCHANGED <<scene, file, eol, flock, call>>
    BY Zenon DEF GateShapes, Tick
<1>2. GateShapes'
    BY <1>1 DEF GateShapes
<1>3. 0 .. now \subseteq 0 .. now'
    BY <1>1
<1>4. Judged'
  <2> SUFFICES ASSUME NEW c \in Calls PROVE JudgedCall(c)'
    BY Zenon DEF Judged
  <2>1. JudgedCall(c)
    BY Zenon DEF Judged
  <2> QED
    BY Zenon, <1>1, <1>3, <2>1 DEF JudgedCall, Request
<1>5. ("cut" \notin scene.faults => Chained /\ Writing /\ Wrote)'
  <2>1. Chained' <=> Chained
    BY Zenon, <1>1 DEF Chained, Before
  <2>2. Writing' <=> Writing
    BY Zenon, <1>1 DEF Writing, Before, At
  <2>3. Wrote' <=> Wrote
    BY Zenon, <1>1 DEF Wrote, At
  <2> QED
    BY Zenon, <1>1, <2>1, <2>2, <2>3
<1> QED
    BY Zenon, <1>2, <1>4, <1>5

\* Before the first call.
LEMMA GuardStart == ASSUME WellFormed PROVE GInit => GuardInv
<1> SUFFICES ASSUME GInit PROVE GuardInv
    BY Zenon
<1>1. "idle" \in GatePoints /\ "apply_denied" \in EventTypes /\ {} \in SUBSET Approvals /\ 0 \in Int /\ None \in Ids \cup {None}
    BY DEF GatePoints, EventTypes
<1>2. [pc |-> "idle", risk |-> 0, type |-> "apply_denied", approvals |-> {}, tail |-> None, sequence |-> 0] \in CallType
    BY Zenon, <1>1 DEF CallType
<1>3. call \in [Calls -> CallType] /\ \A c \in Calls : call[c].pc = "idle"
    BY Zenon, <1>2 DEF GInit
<1>4. GateShapes
  <2>1. <<>> \in Seq(LineType)
    OBVIOUS
  <2> QED
    BY Zenon, <1>3, <2>1 DEF GInit, GateShapes
<1>5. Judged
    BY Zenon, <1>3 DEF Judged, JudgedCall
<1>6. Chained /\ Writing /\ Wrote
    BY <1>3 DEF GInit, Chained, Writing, Wrote, At
<1> QED
    BY Zenon, <1>4, <1>5, <1>6 DEF GuardInv

\* Every step keeps the invariant.
LEMMA GuardStep == ASSUME WellFormed PROVE GuardInv /\ [GNext]_gvars => GuardInv'
<1> SUFFICES ASSUME GuardInv, [GNext]_gvars PROVE GuardInv'
    BY Zenon
<1>1. CASE GNext
    BY Zenon, <1>1, EvaluateKeeps, DecideKeeps, ReadTailKeeps, CompareHeadKeeps, WriteRecordKeeps, TearKeeps,
       RecheckKeeps, MutationKeeps, TickKeeps DEF GNext
<1>2. CASE UNCHANGED gvars
  <2>1. UNCHANGED <<scene, now, file, eol, flock, call>>
    BY Zenon, <1>2 DEF gvars
  <2>2. GateShapes' /\ Judged'
    BY Zenon, <2>1 DEF GuardInv, GateShapes, Judged, JudgedCall, Request
  <2>3. ("cut" \notin scene.faults => Chained /\ Writing /\ Wrote)'
    BY <2>1, Zenon DEF GuardInv, Chained, Before, Writing, Wrote, At
  <2> QED
    BY Zenon, <2>2, <2>3 DEF GuardInv
<1> QED
    BY Zenon, <1>1, <1>2

-----------------------------------------------------------------------------
(* The mutation.                                                            *)

\* A call at its final recheck finds its authorization at the end of a chain.
LEMMA RecordStands ==
    ASSUME GuardInv, "cut" \notin scene.faults, NEW c \in Calls, At(c, "fresh")
    PROVE  \E i \in 1 .. Len(file) :
               load(SubSeq(file, 1, i)) /\ file[i].record.id = <<c, "apply_authorized">>
<1>1. file \in Seq(LineType)
    BY Zenon DEF GuardInv, GateShapes
<1>2. PICK i \in 1 .. Len(file) : file[i].readable /\ file[i].record.id = <<c, "apply_authorized">>
    BY Zenon DEF GuardInv, Wrote
<1>3. \A j \in 1 .. i : file[j].readable /\ file[j].record.sequence = j /\ file[j].record.previous = Before(file, j)
    BY <1>1, <1>2 DEF GuardInv, Chained
<1>4. load(SubSeq(file, 1, i))
    BY Zenon, <1>1, <1>3, LoadPrefix
<1> QED
    BY Zenon, <1>2, <1>4

\* Approvals that were enough when the gate decided, and are fresh now, are
\* enough now.
LEMMA TeamStands ==
    ASSUME WellFormed, GuardInv, NEW c \in Calls, NEW t \in 0 .. now,
           Bound(Request(c)), call[c].risk = deriveRisk(Request(c).findings),
           evaluateFor(Request(c), call[c].risk, t), ~Request(c).override,
           \A a \in Granted(Request(c), call[c].risk, t) : a.until > now,
           NEW r \in Requirements, r.risk = 0 \/ \E s \in Severities(Request(c)) : s > r.risk
    PROVE  \E team \in SUBSET {w \in DOMAIN Roles : Vouches(Request(c), w, now)} :
               Cardinality(team) >= r.count /\ \A w \in team : r.roles \subseteq Roles[w]
<1> DEFINE q == Request(c)
<1> DEFINE able == Eligible(q, r, t)
<1>1. /\ \A f \in q.findings : f.severity \in 1 .. 3
      /\ \A a \in q.approvals : a.from \in Nat /\ a.until \in Nat /\ a.who \in DOMAIN Roles
      /\ r.risk \in Nat /\ now \in Nat
    BY Zenon DEF WellFormed, GuardInv, GateShapes, Request
<1>2. /\ deriveRisk(q.findings) \in 0 .. 2
      /\ \A f \in q.findings : f.severity - 1 <= deriveRisk(q.findings)
    BY Zenon, <1>1, RiskCovers
<1>3. r \in Applies(call[c].risk)
  <2>1. CASE r.risk = 0
    BY <1>2, <2>1 DEF Applies
  <2>2. CASE r.risk # 0
    <3>1. PICK f \in q.findings : f.severity > r.risk
        BY Zenon, <2>2 DEF Severities
    <3> QED
        BY <1>1, <1>2, <3>1 DEF Applies
  <2> QED
    BY Zenon, <2>1, <2>2
<1>4. Cardinality({a.who : a \in able}) >= r.count
    BY Zenon, <1>3 DEF evaluateFor
<1>5. \A a \in able : /\ a \in q.approvals /\ a.plan = q.bundle /\ a.from <= t /\ a.until > now
                       /\ a.who \notin {q.author, q.by} /\ r.roles \subseteq Roles[a.who]
    BY Zenon, <1>3 DEF Eligible, Valid, hasAllRoles, Granted, Bound
<1>6. \A a \in able : a.who \in DOMAIN Roles /\ Vouches(q, a.who, now)
    BY <1>1, <1>5 DEF Vouches
<1> HIDE DEF able
<1>7. {a.who : a \in able} \in SUBSET {w \in DOMAIN Roles : Vouches(q, w, now)}
    BY Zenon, <1>6
<1>8. \A w \in {a.who : a \in able} : r.roles \subseteq Roles[w]
    BY Zenon, <1>5
<1> QED
    BY Zenon, <1>4, <1>7, <1>8

\* A call enters the mutation only through its final recheck.
LEMMA OnlyRecheck ==
    ASSUME GuardInv, GNext, NEW c \in Calls, At(c, "fresh"), call'[c].pc = "lock"
    PROVE  approvalsFresh(Request(c), call[c].approvals, now)
<1>1. call \in [Calls -> CallType] /\ call[c].pc = "fresh"
    BY Zenon DEF GuardInv, GateShapes, At
<1>2. call'[c] # call[c]
    BY Zenon, <1>1
<1>3. ~Tick
    BY Zenon, <1>2 DEF Tick
<1>4. \A d \in Calls \ {c} : ~(Evaluate(d) \/ Decide(d) \/ ReadTail(d) \/ CompareHead(d) \/ WriteRecord(d) \/ Tear(d))
    BY <1>1, <1>2 DEF Evaluate, Decide, ReadTail, CompareHead, WriteRecord, Tear, Goto
<1>5. \A d \in Calls \ {c} : ~(Recheck(d) \/ AcquireLock(d) \/ QueryCount(d) \/ Exec(d) \/ Cancel(d) \/ Die(d))
    BY Zenon, <1>1, <1>2 DEF Recheck, AcquireLock, QueryCount, Exec, Cancel, Die, Goto
<1>6. ~(Evaluate(c) \/ Decide(c) \/ ReadTail(c) \/ CompareHead(c) \/ WriteRecord(c) \/ Tear(c)
        \/ AcquireLock(c) \/ QueryCount(c) \/ Exec(c))
    BY Zenon, <1>1 DEF Evaluate, Decide, ReadTail, CompareHead, WriteRecord, Tear, AcquireLock, QueryCount, Exec, At
<1>7. ~(Cancel(c) \/ Die(c))
  <2>1. ~Goto(c, "refused") /\ ~Goto(c, "dead")
    BY Zenon, <1>1 DEF Goto, CallType
  <2> QED
    BY Zenon, <1>1, <2>1 DEF Cancel, Die, At
<1>8. Recheck(c)
    BY Zenon, <1>3, <1>4, <1>5, <1>6, <1>7 DEF GNext
<1>9. call' # [call EXCEPT ![c].pc = "tail", ![c].type = "apply_denied"]
    BY Zenon, <1>1 DEF CallType
<1> QED
    BY Zenon, <1>8, <1>9 DEF Recheck

(* For any calls, requests, requirements and faults except a write that loses  *)
(* only its line feed, in every interleaving (Guardrail.Apply, Gate.GuardedApply *)
(* and FileSink): a mutation begins only when it is authorized at that moment. *)
THEOREM MutationsAuthorized ==
    ASSUME WellFormed
    PROVE  GSpec => [][("cut" \notin scene.faults) => MutationAuthorized]_gvars
<1>1. GuardInv /\ [GNext]_gvars => [("cut" \notin scene.faults) => MutationAuthorized]_gvars
  <2> SUFFICES ASSUME GuardInv, GNext, "cut" \notin scene.faults, NEW c \in Calls,
                      At(c, "fresh"), call'[c].pc = "lock"
               PROVE  LET q == Request(c)
                      IN  /\ \E i \in 1 .. Len(file) :
                                load(SubSeq(file, 1, i)) /\ file[i].record.id = <<c, "apply_authorized">>
                          /\ q.plan = q.bundle /\ q.author # q.by
                          /\ q.expires = 0 \/ now < q.expires
                          /\ \/ q.override
                             \/ \A r \in Requirements :
                                   (r.risk = 0 \/ \E s \in Severities(q) : s > r.risk) =>
                                     \E team \in SUBSET {w \in DOMAIN Roles : Vouches(q, w, now)} :
                                        /\ Cardinality(team) >= r.count
                                        /\ \A w \in team : r.roles \subseteq Roles[w]
    BY Zenon DEF MutationAuthorized
  <2> DEFINE q == Request(c)
  <2>1. \E i \in 1 .. Len(file) : load(SubSeq(file, 1, i)) /\ file[i].record.id = <<c, "apply_authorized">>
    BY Zenon, RecordStands
  <2>2. approvalsFresh(q, call[c].approvals, now)
    BY Zenon, OnlyRecheck
  <2>3. /\ Bound(q) /\ call[c].risk = deriveRisk(q.findings)
        /\ \E t \in 0 .. now : /\ evaluateFor(q, call[c].risk, t)
                               /\ q.override \/ call[c].approvals = Granted(q, call[c].risk, t)
    BY Zenon DEF GuardInv, Judged, JudgedCall, Wrote, At
  <2>4. PICK t \in 0 .. now : /\ evaluateFor(q, call[c].risk, t)
                              /\ q.override \/ call[c].approvals = Granted(q, call[c].risk, t)
    BY Zenon, <2>3
  <2>5. q.plan = q.bundle /\ q.author # q.by
    BY Zenon, <2>3, <2>4 DEF Bound, evaluateFor
  <2>6. q.expires = 0 \/ now < q.expires
    BY <2>2 DEF approvalsFresh, Expired, WellFormed, GuardInv, GateShapes, Request
  <2>7. ASSUME ~q.override, NEW r \in Requirements, r.risk = 0 \/ \E s \in Severities(q) : s > r.risk
        PROVE  \E team \in SUBSET {w \in DOMAIN Roles : Vouches(q, w, now)} :
                   Cardinality(team) >= r.count /\ \A w \in team : r.roles \subseteq Roles[w]
    <3>1. \A a \in Granted(q, call[c].risk, t) : a.until > now
        BY Zenon, <2>2, <2>4, <2>7 DEF approvalsFresh
    <3> QED
        BY Zenon, <2>3, <2>4, <2>7, <3>1, TeamStands
  <2> QED
    BY Zenon, <2>1, <2>5, <2>6, <2>7
<1> QED
    BY <1>1, GuardStart, GuardStep, PTL DEF GSpec
=============================================================================
