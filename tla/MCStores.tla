------------------------------ MODULE MCStores ------------------------------
(* Instances of the components that keep files several processes write: the   *)
(* migration directory (Directory), the artifact registry with its backup     *)
(* (Registry) and the apply boundary with its audit file (Guardrail).  A      *)
(* behaviour is about one of them; the variables of the others are Unused.    *)
EXTENDS Integers, Sequences, FiniteSets, TLC

CONSTANTS None, Unused,
          d1, d2,              \* writers of the directory
          w1, w2,              \* users of the registry
          a1, a2, a3, a4,      \* digests of artifacts
          c1, c2,              \* calls of Guardrail.Apply
          ann, bob, cat, dan   \* people

VARIABLES part, scene, now, file, acked,
          synced, pending, locked, writer, published, wins, dirFaults,
          key, inputs, lock, tags, backup, manifest, worker,
          eol, flock, migration, rows, call

directoryVars == <<synced, pending, locked, writer, published, wins, dirFaults>>
registryVars  == <<key, inputs, lock, tags, backup, manifest, worker>>
guardrailVars == <<eol, flock, migration, rows, call>>
storesVars    == <<part, scene, now, file, acked, directoryVars, registryVars, guardrailVars>>

-----------------------------------------------------------------------------
(* The directory: two processes that generate, checkpoint, migrate or recover. *)
D == INSTANCE Directory WITH
    Writers <- {d1, d2}, Versions <- {1, 3}, MaxFile <- 5, MaxManifest <- 9,
    Starts <- {"empty", "v0"}, MaxFaults <- 2

-----------------------------------------------------------------------------
(* The registry: the same artifact put by two processes that may stop, tags    *)
(* that race, weak and edited artifacts, and recovery from the copy.          *)
Stages == {"replay_simulation", "safety", "policy_precheck_guardrail"}
Generated == [approved |-> 0, created |-> 0, expires |-> 2, origin |-> "generated",
              key |-> "k", editChain |-> FALSE, inputs |-> None, attested |-> Stages,
              size |-> "small"]
Artifacts ==
    (a1 :> Generated) @@ (a2 :> [Generated EXCEPT !.created = 1])
    @@ (a3 :> [Generated EXCEPT !.origin = "edited", !.editChain = TRUE, !.attested = {"safety"}])
    @@ (a4 :> [Generated EXCEPT !.size = "large"])

Do(op, d) == [op |-> op, digest |-> d, listed |-> Stages]
Weak(d) == [op |-> "push", digest |-> d, listed |-> {"safety"}]
Jobs(one, two, failing, noEdits) ==
    [jobs |-> (w1 :> one @@ w2 :> two), faults |-> failing, noEdits |-> noEdits]
RegistryScenes ==
    {Jobs(<<Do("push", a1), Do("promote", a1), Do("resolve", a1)>>,
          <<Do("push", a1), Do("push", a2), Do("promote", a2), Do("promote", a1)>>,
          {"stop", "revoke"}, TRUE),
     Jobs(<<Do("push", a3), Weak(a3), Do("read", a3)>>,
          <<Weak(a1), Do("push", a1), Do("read", a1)>>, {}, FALSE),
     Jobs(<<Weak(a3), Do("read", a4)>>,
          <<Do("push", a1), Do("replicate", a1), Do("recover", a1)>>, {"outage"}, TRUE)}

R == INSTANCE Registry WITH
    Workers <- {w1, w2}, Digests <- {a1, a2, a3, a4}, Artifact <- Artifacts,
    Required <- {"safety", "policy_precheck_guardrail"}, Scenes <- RegistryScenes,
    MaxTime <- 2, MaxStaleness <- 1

-----------------------------------------------------------------------------
(* The apply boundary: every change needs an owner, a risky one two database  *)
(* administrators as well.                                                    *)
People == [p \in {ann, bob, cat, dan} |->
             CASE p = cat -> {"dba", "owner"} [] p = dan -> {"owner"} [] OTHER -> {"dba"}]
Rules == {[risk |-> 0, count |-> 1, roles |-> {"owner"}],
          [risk |-> 2, count |-> 2, roles |-> {"dba"}]}

By(who, from, until) == [who |-> who, plan |-> "p", from |-> from, until |-> until]
Plain == [plan |-> "p", bundle |-> "p", author |-> ann, by |-> dan, expires |-> 0,
          override |-> FALSE, findings |-> {}, violation |-> FALSE, max |-> 1, adds |-> 1,
          approvals |-> {By(cat, 0, 2)}]
Expiring == [Plain EXCEPT !.expires = 2, !.max = 0]
Edited == [Plain EXCEPT !.bundle = "q"]
Violating == [Plain EXCEPT !.violation = TRUE]
\* An error, suppressed until 1, that calls for two database administrators.
Risky == [Plain EXCEPT !.findings = {[severity |-> 3, until |-> 1], [severity |-> 1, until |-> 0]},
                       !.author = dan, !.by = ann,
                       !.approvals = {By(cat, 0, 3), By(bob, 1, 3), By(ann, 0, 3)}]
RiskySoon == [Risky EXCEPT !.findings = {[severity |-> 3, until |-> 9]},
                           !.approvals = {By(cat, 0, 2), By(bob, 0, 3)}]
\* One of the two approvers is the author.
OwnWork == [RiskySoon EXCEPT !.author = bob, !.by = dan]
Emergency == [RiskySoon EXCEPT !.approvals = {}, !.override = TRUE, !.expires = 2]

Requests(one, two, failing) == [request |-> (c1 :> one @@ c2 :> two), faults |-> failing]
GuardrailScenes ==
    {Requests(Plain, Expiring, {"sync", "tear", "commit", "die"}),
     Requests(Risky, RiskySoon, {"cancel"}),
     Requests(Edited, Violating, {}),
     Requests(OwnWork, Emergency, {"die"}),
     Requests(Plain, Edited, {"cut"})}

G == INSTANCE Guardrail WITH
    Calls <- {c1, c2}, Roles <- People, Requirements <- Rules, FailOn <- 3,
    Scenes <- GuardrailScenes, MaxTime <- 3

-----------------------------------------------------------------------------
NoDirectory ==
    /\ synced = Unused /\ pending = Unused /\ locked = Unused /\ writer = Unused
    /\ published = Unused /\ wins = Unused /\ dirFaults = Unused
NoRegistry ==
    /\ key = Unused /\ inputs = Unused /\ lock = Unused /\ tags = Unused
    /\ backup = Unused /\ manifest = Unused /\ worker = Unused
NoGuardrail ==
    /\ eol = Unused /\ flock = Unused /\ migration = Unused /\ rows = Unused /\ call = Unused

StoresInit ==
    \/ /\ part = "directory" /\ D!DirInit /\ NoRegistry /\ NoGuardrail
       /\ scene = Unused /\ now = Unused /\ file = Unused
    \/ part = "registry" /\ R!RInit /\ NoDirectory /\ NoGuardrail
    \/ part = "guardrail" /\ G!GInit /\ NoDirectory /\ NoRegistry /\ acked = Unused

DirectoryStep ==
    /\ part = "directory" /\ D!DirNext
    /\ UNCHANGED <<part, scene, now, file, registryVars, guardrailVars>>
RegistryStep ==
    part = "registry" /\ R!RNext /\ UNCHANGED <<part, directoryVars, guardrailVars>>
GuardrailStep ==
    part = "guardrail" /\ G!GNext /\ UNCHANGED <<part, acked, directoryVars, registryVars>>

StoresNext == DirectoryStep \/ RegistryStep \/ GuardrailStep

StoresSpec == StoresInit /\ [][StoresNext]_storesVars

-----------------------------------------------------------------------------
(* The properties of the components, each in the behaviours about it.         *)

\* Directory: the manifest an update has returned survives every later crash, and
\* of the updates that raced from one manifest, one returns success.
Durable == part = "directory" => D!Durable /\ D!OneWinner

\* Directory: when no writer is at work, Recover can carry a whole journal to its
\* end, and without one the directory is readable.
Recoverable == part = "directory" => D!Recoverable

\* Registry: what a Put reported as stored is read back whole, and the records of
\* a tag are one chain of artifacts that can still be read.
AckedReadable == part = "registry" => R!AckedReadable /\ R!TagsLinear

\* Guardrail: a mutation begins only with the approvals its findings call for.
MutationAuthorized == [][part = "guardrail" => G!MutationAuthorized]_storesVars

=============================================================================
