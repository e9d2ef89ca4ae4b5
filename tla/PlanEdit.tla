------------------------------ MODULE PlanEdit ------------------------------
(***************************************************************************)
(* Controlled editing of a generated plan: the commands plan edit, plan     *)
(* revalidate and plan publish, which hand files to each other, with the    *)
(* pipeline of planedit and the durable audit of the production service.    *)
(* Between two commands, and between two steps of one, the target may       *)
(* change, the policy may be configured anew and attestations may expire; a *)
(* command may stop at any step.                                            *)
(*                                                                         *)
(* Edited SQL is one of Sqls: its text, and whether it parses to the        *)
(* generated statements ("same"), to others ("other"), or to something      *)
(* that may not be edited in ("control").  Digests are the values they      *)
(* cover.                                                                   *)
(***************************************************************************)
EXTENDS Naturals, FiniteSets

CONSTANTS Sqls,         \* records [text, ast]
          MaxCommands,  \* commands of one behaviour
          MaxShifts     \* changes of the target and of the policy

VARIABLES target,       \* is the production schema what the plan starts from?
          policy,       \* version of policy, guardrail and limits
          shifts,       \* such changes so far
          files,        \* draft, attested and signed file
          edit,         \* the running command and what it holds in memory
          commands,     \* commands started
          audit,        \* durable events, each with the command that wrote it
          ended         \* commands that returned

editVars == <<target, policy, shifts, files, edit, commands, audit, ended>>

-----------------------------------------------------------------------------
NoSql == [text |-> "", ast |-> ""]
Absent == [is |-> "absent", sql |-> NoSql, policy |-> 0, expired |-> FALSE, by |-> 0, sources |-> {}, policies |-> {}]
Torn == [Absent EXCEPT !.is = "torn"]
Idle == [cmd |-> "none", pc |-> "idle", sql |-> NoSql, supplied |-> Absent, policy |-> 0, sources |-> {}, policies |-> {}]

(* parse, plan.EditSQL and bindDDL: the statements must be the generated     *)
(* ones, one for one, up to layout.                                         *)
Accepted(sql) == sql.ast = "same"

(* EditedArtifact.Validate, for a draft or for the edit inside an            *)
(* attestation: the digests over it are right and the SQL is still bound.   *)
ValidFile(f, kind) == f.is = kind /\ Accepted(f.sql)

Go(pc) == edit' = [edit EXCEPT !.pc = pc]

Return == edit' = Idle /\ ended' = ended \cup {commands}

(* FileAudit.AppendDurable: the event is durable, or an error is reported     *)
(* and the event may be there all the same.                                 *)
Recorded(type) == audit' = audit \cup {<<type, commands>>}
Unrecorded(type) == audit' \in {audit, audit \cup {<<type, commands>>}}

Begin(cmd, pc, sql, supplied) ==
    /\ edit.pc = "idle" /\ commands < MaxCommands /\ commands' = commands + 1
    /\ edit' = [Idle EXCEPT !.cmd = cmd, !.pc = pc, !.sql = sql, !.supplied = supplied,
                            !.sources = {target}, !.policies = {policy}]

-----------------------------------------------------------------------------
(* plan edit: verify the original artifact, make the draft, create its file. *)
runPlanEdit(sql) ==
    /\ Begin("edit", "create", sql, Absent) /\ Accepted(sql)
    /\ UNCHANGED <<target, policy, shifts, files, audit, ended>>

runPlanRevalidate ==
    /\ ValidFile(files.draft, "draft")
    /\ Begin("revalidate", "requested", files.draft.sql, Absent)
    /\ UNCHANGED <<target, policy, shifts, files, audit, ended>>

runPlanPublish ==
    /\ ValidFile(files.attested, "attested")
    /\ Begin("publish", "publish_requested", files.attested.sql, files.attested)
    /\ UNCHANGED <<target, policy, shifts, files, audit, ended>>

\* Mutant: publish what the attestation says, without the pipeline.
PublishRequestTrusting ==
    /\ edit.pc = "publish_requested"
    /\ \/ /\ Recorded("edit_publish_requested") /\ UNCHANGED ended
          /\ edit' = [edit EXCEPT !.pc = "sign", !.policy = edit.supplied.policy]
       \/ Unrecorded("edit_publish_requested") /\ Return
    /\ UNCHANGED <<target, policy, shifts, files, commands>>

(* A publication stops when its request cannot be recorded.                *)
PublishRequest ==
    /\ edit.pc = "publish_requested"
    /\ \/ Recorded("edit_publish_requested") /\ Go("requested") /\ UNCHANGED ended
       \/ Unrecorded("edit_publish_requested") /\ Return
    /\ UNCHANGED <<target, policy, shifts, files, commands>>

(* What an error inside Revalidate leads to: a publication still records     *)
(* that it was rejected.                                                    *)
Fail == IF edit.cmd = "publish" THEN Go("publish_rejected") /\ UNCHANGED ended ELSE Return

RevalidateRequest ==
    /\ edit.pc = "requested"
    /\ \/ Recorded("edit_requested") /\ Go("inspect") /\ UNCHANGED ended
       \/ Unrecorded("edit_requested") /\ Fail
    /\ UNCHANGED <<target, policy, shifts, files, commands>>

(* revalidateCore: the original is verified again, and the target must be    *)
(* where the plan starts.  Each of these may fail for other reasons too.    *)
inspectTarget ==
    /\ edit.pc = "inspect"
    /\ \/ target = "source" /\ Go("pipeline")
       \/ Go("rejected")
    /\ UNCHANGED <<target, policy, shifts, files, commands, audit, ended>>

(* Pipeline.Revalidate: parse, bind, simulate, compare the fingerprint,      *)
(* analyse, then policy, prechecks and guardrail under the policy of now.   *)
PipelineRevalidate ==
    /\ edit.pc = "pipeline"
    /\ \/ Accepted(edit.sql) /\ edit' = [edit EXCEPT !.pc = "validated", !.policy = policy]
       \/ Go("rejected")
    /\ UNCHANGED <<target, policy, shifts, files, commands, audit, ended>>

RevalidateRejected ==
    /\ edit.pc = "rejected"
    /\ Recorded("edit_rejected") \/ Unrecorded("edit_rejected")
    /\ Fail
    /\ UNCHANGED <<target, policy, shifts, files, commands>>

RevalidateDone ==
    /\ edit.pc = "validated"
    /\ \/ /\ Recorded("edit_validated") /\ UNCHANGED ended
          /\ Go(IF edit.cmd = "publish" THEN "compare" ELSE "create")
       \/ Unrecorded("edit_validated") /\ Fail
    /\ UNCHANGED <<target, policy, shifts, files, commands>>

(* The attestation supplied must be what the pipeline found just now, and    *)
(* not expired; then FreshArtifact wants an approval given after the edit   *)
(* by somebody else than the one who approved the original, and the         *)
(* artifact is signed.                                                      *)
CompareEligible ==
    /\ edit.pc = "compare"
    /\ \/ edit.supplied.policy = edit.policy /\ ~edit.supplied.expired /\ Go("sign")
       \/ Go("publish_rejected")
    /\ UNCHANGED <<target, policy, shifts, files, commands, audit, ended>>

FreshArtifact ==
    /\ edit.pc = "sign"
    /\ Go("create") \/ Go("publish_rejected")
    /\ UNCHANGED <<target, policy, shifts, files, commands, audit, ended>>

PublishRejected ==
    /\ edit.pc = "publish_rejected"
    /\ Recorded("edit_rejected") \/ Unrecorded("edit_rejected")
    /\ Return
    /\ UNCHANGED <<target, policy, shifts, files, commands>>

-----------------------------------------------------------------------------
OutputOf(cmd) == CASE cmd = "edit" -> "draft" [] cmd = "revalidate" -> "attested" [] OTHER -> "signed"

Content ==
    [is |-> OutputOf(edit.cmd), sql |-> edit.sql, policy |-> edit.policy, expired |-> FALSE,
     by |-> commands, sources |-> edit.sources, policies |-> edit.policies]

(* atomicCreate: the file must not exist; it is empty until it is written    *)
(* and synced, and is removed again when that fails.                        *)
atomicCreate ==
    /\ edit.pc = "create"
    /\ LET f == OutputOf(edit.cmd)
       IN  IF files[f] # Absent THEN Return /\ UNCHANGED files
           ELSE files' = [files EXCEPT ![f] = Torn] /\ Go("write") /\ UNCHANGED ended
    /\ UNCHANGED <<target, policy, shifts, commands, audit>>

atomicWrite ==
    /\ edit.pc = "write"
    /\ LET f == OutputOf(edit.cmd)
       IN  \/ /\ files' = [files EXCEPT ![f] = Content]
              /\ IF edit.cmd = "publish" THEN Go("published") /\ UNCHANGED ended ELSE Return
           \/ files' = [files EXCEPT ![f] = Absent] /\ Return
    /\ UNCHANGED <<target, policy, shifts, commands, audit>>

(* PublishOutput: when the publication cannot be recorded the file goes.     *)
PublishOutput ==
    /\ edit.pc = "published"
    /\ \/ Recorded("edit_published") /\ Return /\ UNCHANGED files
       \/ /\ Unrecorded("edit_published") /\ Go("publish_rejected") /\ UNCHANGED ended
          /\ files' = [files EXCEPT !.signed = Absent]
    /\ UNCHANGED <<target, policy, shifts, commands>>

-----------------------------------------------------------------------------
(* The world: the operator removes files, attestations expire, somebody      *)
(* changes the target or the policy, the process is killed.                 *)
RemoveFile(f) ==
    /\ edit.pc = "idle" /\ files[f] # Absent /\ files' = [files EXCEPT ![f] = Absent]
    /\ UNCHANGED <<target, policy, shifts, edit, commands, audit, ended>>

Expire ==
    /\ files.attested.is = "attested" /\ ~files.attested.expired
    /\ files' = [files EXCEPT !.attested.expired = TRUE]
    /\ UNCHANGED <<target, policy, shifts, edit, commands, audit, ended>>

Shift ==
    /\ shifts < MaxShifts /\ shifts' = shifts + 1
    /\ \/ target' \in {"source", "elsewhere"} \ {target} /\ UNCHANGED policy
       \/ policy' = policy + 1 /\ UNCHANGED target
    /\ edit' = IF edit.pc = "idle" THEN edit
               ELSE [edit EXCEPT !.sources = @ \cup {target'}, !.policies = @ \cup {policy'}]
    /\ UNCHANGED <<files, commands, audit, ended>>

Crash ==
    /\ edit.pc # "idle" /\ edit' = Idle
    /\ UNCHANGED <<target, policy, shifts, files, commands, audit, ended>>

-----------------------------------------------------------------------------
EditInit ==
    /\ target = "source" /\ policy = 1 /\ shifts = 0 /\ commands = 0 /\ edit = Idle
    /\ files = [f \in {"draft", "attested", "signed"} |-> Absent] /\ audit = {} /\ ended = {}

EditNext ==
    \/ \E sql \in Sqls : runPlanEdit(sql)
    \/ runPlanRevalidate \/ runPlanPublish \/ PublishRequest \/ RevalidateRequest
    \/ inspectTarget \/ PipelineRevalidate \/ RevalidateRejected \/ RevalidateDone
    \/ CompareEligible \/ FreshArtifact \/ PublishRejected
    \/ atomicCreate \/ atomicWrite \/ PublishOutput
    \/ \E f \in DOMAIN files : RemoveFile(f)
    \/ Expire \/ Shift \/ Crash

EditSpec == EditInit /\ [][EditNext]_editVars

-----------------------------------------------------------------------------
(* A signed edit rests on evidence that was true during the command that     *)
(* signed it, and not only when an earlier command attested it: the target  *)
(* was where the plan starts, and the policy it is bound to was in force.   *)
(* The durable audit has its request and its validation by that command,    *)
(* and its publication once the command has returned (PublishOutput's       *)
(* comment: "callers never observe an unaudited release").                  *)
EvidenceCurrent ==
    files.signed.is = "signed" =>
        /\ "source" \in files.signed.sources
        /\ files.signed.policy \in files.signed.policies
        /\ files.signed.sql.ast = "same"
        /\ \A t \in {"edit_publish_requested", "edit_requested", "edit_validated"} :
              <<t, files.signed.by>> \in audit
        /\ files.signed.by \in ended => <<"edit_published", files.signed.by>> \in audit
=============================================================================
