---------------------------- MODULE MCAuthoring -----------------------------
(* Instances of the components that make plans: the plan between two schemas  *)
(* (Planning), the edit of a signed plan (PlanEdit), the generation of        *)
(* migrations and checkpoints (Generation), the authority to create a         *)
(* database (Authorization) and the plan of an expand phase (Expansion).  A   *)
(* behaviour is about one of them; the variables of the others are Unused.    *)
EXTENDS Naturals, Sequences, FiniteSets

CONSTANTS Unused, author1

VARIABLES part,
          case, plan, live, pos, status,
          target, policy, shifts, files, edit, commands, audit, ended,
          manifest, author,
          source, signed, clock, server, whole, result, created,
          store, ddl, recorder, planner, locks

planningVars   == <<case, plan, pos, status>>
editVars       == <<target, policy, shifts, files, edit, commands, audit, ended>>
generationVars == <<manifest, author>>
authorityVars  == <<source, signed, clock, server, whole, result, created>>
expansionVars  == <<store, ddl, recorder, planner, locks>>
authoringVars  == <<part, live, planningVars, editVars, generationVars, authorityVars, expansionVars>>

-----------------------------------------------------------------------------
W == INSTANCE PlanningWorlds
P == INSTANCE Planning WITH Worlds <- W!MCWorlds

(* An edit that keeps the statements, twice, and one that changes them.       *)
E == INSTANCE PlanEdit WITH
    Sqls <- {[text |-> "one", ast |-> "same"], [text |-> "two", ast |-> "same"],
             [text |-> "three", ast |-> "other"]},
    MaxCommands <- 4, MaxShifts <- 1

(* Two tables in schemas of their own, four entries.                          *)
Stmt(op, t) == [op |-> op, table |-> t]
G == INSTANCE Generation WITH
    Authors <- {author1}, Tables <- {1, 2},
    Documents <- {[scope |-> {{1}}, tables |-> {1}], [scope |-> {{1}, {2}}, tables |-> {2}]},
    Rewrites <- {Stmt("create_as", 2)},
    Writable <- {Stmt("insert", 1)},
    MaxEntries <- 4

(* A routine with two bodies, an extension that the source or the server calls *)
(* trusted, one that nobody trusts and a role that the options refuse; the     *)
(* owner role and the schema exist before the first step.                      *)
Public == W!Row("schema", "public", <<>>, <<>>)
Function(body) == W!Row("function", "f", W!StableID(Public), <<body, "">>)
Extension(name, trust) == W!Row("extension", name, W!StableID(Public), <<"1", trust>>)
Control(name, trust, needs) ==
    [name |-> name, version |-> "1", trusted |-> trust, superuser |-> trust, schema |-> "", requires |-> needs]
A == INSTANCE Authorization WITH
    Sources <- {W!inspectSnapshot(rows \cup {Public, W!Row("role", "r", <<>>, <<"plain", "">>)}, W!Everything) :
                  rows \in {{Function("one"), Extension("ext", "trusted")},
                            {Function("two"), Extension("ext", "trusted")},
                            {Extension("ext", "trusted"), Extension("y", "untrusted")},
                            {Extension("ext", "untrusted")},
                            {W!Row("role", "s", <<>>, <<"superuser", "">>)}}},
    Target <- [mode |-> "managed", owner |-> "r"], Base <- W!Plainly,
    Servers <- {{Control("ext", t, {}), Control("y", FALSE, n)} : t \in BOOLEAN, n \in {{"ext"}, {"z"}}},
    Superuser <- FALSE, Lifetime <- 1, MaxTime <- 1

(* Expand phases on five schemas, from control schemas old and new, while      *)
(* somebody else changes tables twice.                                         *)
V == INSTANCE ExpandWorlds
X == INSTANCE Expansion WITH
    Catalogs <- V!MCCatalogs, Stores <- V!MCStores, Migrations <- V!MCMigrations,
    Policies <- V!MCPolicies, Major <- 16, MaxChanges <- 2

-----------------------------------------------------------------------------
NoPlanning == case = Unused /\ plan = Unused /\ pos = Unused /\ status = Unused
NoEdit ==
    /\ target = Unused /\ policy = Unused /\ shifts = Unused /\ files = Unused
    /\ edit = Unused /\ commands = Unused /\ audit = Unused /\ ended = Unused
NoGeneration == manifest = Unused /\ author = Unused
NoAuthority ==
    /\ source = Unused /\ signed = Unused /\ clock = Unused /\ server = Unused
    /\ whole = Unused /\ result = Unused /\ created = Unused
NoExpansion ==
    store = Unused /\ ddl = Unused /\ recorder = Unused /\ planner = Unused /\ locks = Unused

AuthoringInit ==
    \/ part = "planning" /\ P!PlanningInit /\ NoEdit /\ NoGeneration /\ NoAuthority /\ NoExpansion
    \/ /\ part = "edit" /\ E!EditInit /\ live = Unused
       /\ NoPlanning /\ NoGeneration /\ NoAuthority /\ NoExpansion
    \/ /\ part = "generation" /\ G!GenerationInit /\ live = Unused
       /\ NoPlanning /\ NoEdit /\ NoAuthority /\ NoExpansion
    \/ /\ part = "authority" /\ A!AuthInit /\ live = Unused
       /\ NoPlanning /\ NoEdit /\ NoGeneration /\ NoExpansion
    \/ part = "expansion" /\ X!ExpansionInit /\ NoPlanning /\ NoEdit /\ NoGeneration /\ NoAuthority

PlanningStep ==
    /\ part = "planning" /\ P!PlanningNext
    /\ UNCHANGED <<part, editVars, generationVars, authorityVars, expansionVars>>
EditStep ==
    /\ part = "edit" /\ E!EditNext
    /\ UNCHANGED <<part, live, planningVars, generationVars, authorityVars, expansionVars>>
GenerationStep ==
    /\ part = "generation" /\ G!GenerationNext
    /\ UNCHANGED <<part, live, planningVars, editVars, authorityVars, expansionVars>>
AuthorityStep ==
    /\ part = "authority" /\ A!AuthNext
    /\ UNCHANGED <<part, live, planningVars, editVars, generationVars, expansionVars>>
ExpansionStep ==
    /\ part = "expansion" /\ X!ExpansionNext
    /\ UNCHANGED <<part, planningVars, editVars, generationVars, authorityVars>>

AuthoringNext == PlanningStep \/ EditStep \/ GenerationStep \/ AuthorityStep \/ ExpansionStep

AuthoringSpec == AuthoringInit /\ [][AuthoringNext]_authoringVars

-----------------------------------------------------------------------------
(* The properties of the components, each in the behaviours about it.         *)

\* Planning: a plan that ran to its end has made the desired schema.
PlanConverges == part = "planning" => P!PlanConverges

\* Planning: PostgreSQL refuses no step of a plan whose order the dependencies settle.
PlanExecutes == part = "planning" => P!PlanExecutes

\* Planning: what inspection reads can be built from nothing.
Reproducible == part = "planning" => P!Reproducible

\* PlanEdit: a signed edit has evidence for the schema and policy it was checked with.
EvidenceCurrent == part = "edit" => E!EvidenceCurrent

\* Generation: a checkpoint leads to the schema and the rows of what it replaces.
CheckpointFaithful == part = "generation" => G!CheckpointFaithful

\* Authorization: what a command created had authority of its own.
AuthorityExact == part = "authority" => A!AuthorityExact

\* Expansion: PostgreSQL accepts every step of a plan that is issued, on the schema it then
\* has, each makes what it promises, and the previous version keeps all it uses.
ExpandFits == [][part = "expansion" => X!PlanFits /\ X!BaselineTrue]_authoringVars
=============================================================================
