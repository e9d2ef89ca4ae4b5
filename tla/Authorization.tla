---------------------------- MODULE Authorization ----------------------------
(***************************************************************************)
(* Who may run what when a database is made from nothing: the inventory of  *)
(* what needs a review, the manifest that authorizes it, the plan built     *)
(* with that authority, the capabilities the plan carries and the check of  *)
(* the server's extensions before the first statement.  The commands are    *)
(* those of "autosql database bootstrap".  Digests are the values they      *)
(* cover; a signature verifies exactly what was signed.                     *)
(***************************************************************************)
EXTENDS PlanBuild

CONSTANTS Sources,      \* the documents the source file may hold
          Target,       \* [mode: "managed" or "external", owner]
          Base,         \* the options of a command that authorize nothing
          Servers,      \* what the server offers: sets of control records
          Superuser,    \* the session has all rights
          Lifetime, MaxTime

VARIABLES source,       \* the document in the source file
          signed,       \* the manifest on disk; NoManifest
          clock,
          server,       \* control records [name, version, trusted, superuser, schema, requires]
          whole,        \* the plan a command holds; NoPlan
          result,       \* how the last command ended
          created       \* what the last command created, and on which server

authVars == <<source, signed, clock, server, whole, result, created>>

-----------------------------------------------------------------------------
Routines(doc) == {r \in doc : r.kind = "function" /\ r.def[2] = ""}
Extensions(doc) == {r \in doc : r.kind = "extension"}
Untrusted(doc) == {r \in Extensions(doc) : r.def[2] = "untrusted"}

(* What exists before the first step in a database that is to be created.   *)
managedBootstrapIntrinsicResources(target, desired) ==
    IF target.mode # "managed" THEN {}
    ELSE {[r EXCEPT !.owner = "", !.def = <<>>, !.deps = {}] :
              r \in {x \in desired : x.kind = "schema" /\ x.name = "public"}}
         \cup {r \in desired : r.kind = "role" /\ r.name = target.owner}

NoPlan == [digest |-> <<>>, caps |-> {}]

(* A capability is for one plan and one extension, or for all ("*").        *)
sealBootstrapExtensionAuthorization(digest, id) == <<digest, id>>

hasBootstrapExtensionAuthorization(p, id) ==
    \E i \in {<<"*">>, id} : sealBootstrapExtensionAuthorization(p.digest, i) \in p.caps

Composed(target, current, desired, steps, given) ==
    [target |-> target, from |-> current, to |-> desired, steps |-> steps, given |-> given]

Sealed(digest, general) ==
    IF digest.steps = RefusedPlan THEN NoPlan
    ELSE [digest |-> digest, caps |-> IF general THEN {sealBootstrapExtensionAuthorization(digest, <<"*">>)} ELSE {}]

PlanDatabaseTransition(target, current, desired, options) ==
    Sealed(Composed(target, current, desired,
                    BuildPlan([current |-> current, desired |-> desired, options |-> options]), {}),
           options.untrusted)

WithPreconditions(p, given) ==
    IF p = NoPlan \/ given = {} THEN p ELSE [p EXCEPT !.digest.given = given]

PlanDatabaseBootstrap(target, desired, options) ==
    WithPreconditions(
        PlanDatabaseTransition(target, managedBootstrapIntrinsicResources(target, desired), desired, options),
        managedBootstrapIntrinsicResources(target, desired))

-----------------------------------------------------------------------------
Granted(options, digests, names, untrusted) ==
    [options EXCEPT !.reviewed = digests, !.extensions = names, !.untrusted = @ \/ untrusted]

NoInventory == [digest |-> <<>>]

Inventory(p, desired) ==
    IF p = NoPlan THEN NoInventory
    ELSE [digest |-> p.digest, source |-> desired,
          routines |-> {<<StableID(r), r.def[1]>> : r \in Routines(desired)},
          extensions |-> {<<StableID(r), r.name, r.def>> : r \in Extensions(desired)}]

(* The plan is built with all the authority it needs, for its digest only.  *)
PrepareBootstrapAuthorizationInventory(target, desired, options) ==
    Inventory(PlanDatabaseBootstrap(target, desired,
                  Granted(options, {r.def[1] : r \in Routines(desired)}, {r.name : r \in Extensions(desired)},
                          Untrusted(desired) # {})),
              desired)

NoManifest == [inventory |-> NoInventory, issued |-> 0, expires |-> 0]

NewBootstrapAuthorizationManifest(inventory, issued, expires) ==
    [inventory |-> inventory, issued |-> issued, expires |-> expires]

VerifyBootstrapAuthorizationManifest(m, inventory, now) ==
    IF m = NoManifest \/ inventory = NoInventory THEN "invalid"
    ELSE IF m.inventory # inventory THEN "stale"
    ELSE IF now < m.issued \/ now >= m.expires THEN "expired"
    ELSE "verified"

renderOptions(m, options) ==
    Granted(options, {r[2] : r \in m.inventory.routines}, {e[2] : e \in m.inventory.extensions},
            \E e \in m.inventory.extensions : e[3][2] = "untrusted")

UntrustedIds(m) == {e[1] : e \in {x \in m.inventory.extensions : x[3][2] = "untrusted"}}

\* Mutant: the general capability of the planner is kept.
WithRuntimeAuthorizationGlobal(p, m) ==
    IF p.digest # m.inventory.digest THEN NoPlan
    ELSE [p EXCEPT !.caps = {sealBootstrapExtensionAuthorization(p.digest, i) : i \in {<<"*">>} \cup UntrustedIds(m)}]

(* The general capability gives way to one for every extension that was      *)
(* authorized as untrusted.                                                 *)
WithRuntimeAuthorization(p, m) ==
    IF p.digest # m.inventory.digest THEN NoPlan
    ELSE [p EXCEPT !.caps = {sealBootstrapExtensionAuthorization(p.digest, i) : i \in UntrustedIds(m)}]

PlanDatabaseBootstrapAuthorized(target, desired, options, m) ==
    WithRuntimeAuthorization(PlanDatabaseBootstrap(target, desired, renderOptions(m, options)), m)

-----------------------------------------------------------------------------
(* Nothing is installed in the database yet, so every extension is created.  *)
(* The plan is the allowlist, with its own versions and schemas.            *)
EvaluateExtensionReadiness(extensions, offered, policy) ==
    \A e \in extensions : \E c \in offered :
        /\ c.name = e.name /\ c.version = e.def[1]
        /\ c.trusted \/ StableID(e) \in policy
        /\ c.schema \in {"", e.parent[3]}
        /\ c.superuser => c.trusted \/ Superuser
        /\ c.requires \subseteq {x.name : x \in extensions}

PreflightBootstrapExtensions(p, offered) ==
    LET extensions == Extensions(p.digest.to)
    IN  EvaluateExtensionReadiness(extensions, offered,
                                   {i \in Ids(extensions) : hasBootstrapExtensionAuthorization(p, i)})

-----------------------------------------------------------------------------
NoResult == [status |-> "none", by |-> NoManifest, options |-> Base, source |-> {}]
Nothing == [rows |-> {}, server |-> {}]

AuthInit ==
    /\ source \in Sources /\ server \in Servers
    /\ signed = NoManifest /\ clock = 0 /\ whole = NoPlan
    /\ result = NoResult /\ created = Nothing

Idle == whole = NoPlan

(* What an ended command left is forgotten when its surroundings change.     *)
Forget ==
    IF Idle THEN result' = NoResult /\ created' = Nothing ELSE UNCHANGED <<result, created>>

Ended(status, by, options) ==
    result' = [status |-> status, by |-> by, options |-> options, source |-> source]

(* "authorize"                                                              *)
Authorize ==
    \E inventory \in {PrepareBootstrapAuthorizationInventory(Target, source, Base)} :
        /\ Idle
        /\ IF inventory = NoInventory THEN Ended("refused", NoManifest, Base) /\ UNCHANGED signed
           ELSE /\ signed' = NewBootstrapAuthorizationManifest(inventory, clock, clock + Lifetime)
                /\ Ended("authorized", signed', Base)
        /\ UNCHANGED <<source, clock, server, whole, created>>

(* A command with a manifest, up to its plan.                               *)
PlanWithManifest ==
    \E verdict \in {VerifyBootstrapAuthorizationManifest(signed,
                        PrepareBootstrapAuthorizationInventory(Target, source, Base), clock)} :
        /\ Idle
        /\ whole' = IF verdict = "verified" THEN PlanDatabaseBootstrapAuthorized(Target, source, Base, signed)
                    ELSE NoPlan
        /\ Ended(IF verdict # "verified" THEN verdict ELSE IF whole' = NoPlan THEN "stale" ELSE "planned",
                 signed, Base)
        /\ UNCHANGED <<source, signed, clock, server, created>>

(* A command whose flags authorize routines and extensions by name; there is  *)
(* no flag for the untrusted ones.                                           *)
PlanWithFlags ==
    \E digests \in SUBSET {r.def[1] : r \in Routines(source)}, names \in SUBSET {r.name : r \in Extensions(source)} :
        /\ Idle
        /\ whole' = PlanDatabaseBootstrap(Target, source, Granted(Base, digests, names, FALSE))
        /\ Ended(IF whole' = NoPlan THEN "refused" ELSE "planned", NoManifest, Granted(Base, digests, names, FALSE))
        /\ UNCHANGED <<source, signed, clock, server, created>>

(* The rest of the command: the check of the server, then the statements    *)
(* (Bootstrap has them).                                                    *)
Execute ==
    /\ ~Idle
    /\ LET ready == PreflightBootstrapExtensions(whole, server)
       IN  /\ result' = [result EXCEPT !.status = IF ready THEN "executed" ELSE "blocked"]
           /\ created' = [rows |-> IF ready THEN whole.digest.to \ whole.digest.given ELSE {}, server |-> server]
    /\ whole' = NoPlan
    /\ UNCHANGED <<source, signed, clock, server>>

Edit == source' \in Sources \ {source} /\ Forget /\ UNCHANGED <<signed, clock, server, whole>>

Upgrade == server' \in Servers \ {server} /\ Forget /\ UNCHANGED <<source, signed, clock, whole>>

Tick == clock < MaxTime /\ clock' = clock + 1 /\ Forget /\ UNCHANGED <<source, signed, server, whole>>

AuthNext ==
    \/ Authorize \/ PlanWithManifest \/ PlanWithFlags \/ Execute
    \/ Edit \/ Upgrade \/ Tick

-----------------------------------------------------------------------------
(* What a command created had its own authority: a routine its reviewed      *)
(* body, an extension its name and, when the server's control file does not  *)
(* trust it, an approval as untrusted, whatever the document said; a         *)
(* manifest was signed for the document that was executed                    *)
(* (PlanDatabaseBootstrapAuthorized; docs/postgresql-database-bootstrap.md:  *)
(* "an untrusted approval for one extension cannot authorize another whose   *)
(* signed metadata disagrees with the live control file").                  *)
AuthorityExact ==
    result.status = "executed" =>
        LET m == result.by
            risky == {e \in Extensions(created.rows) :
                        \A c \in created.server : c.name = e.name /\ c.version = e.def[1] => ~c.trusted}
        IN  IF m = NoManifest
            THEN /\ {r.def[1] : r \in Routines(created.rows)} \subseteq result.options.reviewed
                 /\ {e.name : e \in Extensions(created.rows)} \subseteq result.options.extensions
                 /\ risky = {}
            ELSE /\ m.inventory.source = result.source
                 /\ {<<StableID(r), r.def[1]>> : r \in Routines(created.rows)} \subseteq m.inventory.routines
                 /\ \A e \in risky : <<StableID(e), e.name, <<e.def[1], "untrusted">>>> \in m.inventory.extensions

=============================================================================
