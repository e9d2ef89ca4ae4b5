----------------------------- MODULE SchemaDiff -----------------------------
(***************************************************************************)
(* Selection, difference and ordering of schema documents.                 *)
(*                                                                         *)
(* A document is a set of resources.  A resource is a record               *)
(*   [kind, name, parent, deps, ord, def, owner]                           *)
(* whose identity is its kind, parent and name, as in schema.StableID.     *)
(* "parent" is an identity or <<>>, "deps" a set of pairs of a dependency  *)
(* type and an identity; "ord", "def" and "owner" stand for the            *)
(* specification.                                                          *)
(* Patterns of a selection are abstracted to the identities they match.    *)
(* A change is a record [op, before, after] with NoResource for an absent  *)
(* side; the record is its own identifier, as the digest over it is in the *)
(* code.  A request that the code refuses gives the sequence Refused.      *)
(***************************************************************************)
EXTENDS Integers, Sequences, FiniteSets, SequencesExt, FiniteSetsExt

NoResource == [kind |-> "", name |-> "", parent |-> <<>>, deps |-> {},
               ord |-> 0, def |-> <<>>, owner |-> ""]

StableID(r) == <<r.kind, r.parent, r.name>>

Ids(doc) == {StableID(r) : r \in doc}

resourceMap(doc) == [i \in Ids(doc) |-> CHOOSE r \in doc : StableID(r) = i]

Targets(r) == {d[2] : d \in r.deps}

Needs(r) == Targets(r) \cup (IF r.parent = <<>> THEN {} ELSE {r.parent})

-----------------------------------------------------------------------------
(* Everything reachable from "seeds" along the pairs of "edges".           *)
RECURSIVE Closure(_, _)
Closure(seeds, edges) ==
    LET more == seeds \cup {e[2] : e \in {x \in edges : x[1] \in seeds}}
    IN  IF more = seeds THEN seeds ELSE Closure(more, edges)

DependencyEdges(doc) == UNION {{<<StableID(r), d>> : d \in Targets(r)} : r \in doc}

(* Identities are unique, references resolve, and dependencies (parents     *)
(* apart, as in the code) have no cycle.                                    *)
Validate(doc) ==
    /\ Cardinality(Ids(doc)) = Cardinality(doc)
    /\ \A r \in doc : Needs(r) \subseteq Ids(doc) /\ StableID(r) \notin Targets(r)
    /\ LET edges == DependencyEdges(doc)
       IN  \A i \in Ids(doc) : i \notin Closure({e[2] : e \in {x \in edges : x[1] = i}}, edges)

(* "include" is {} when no pattern was given.  What a pattern matches is     *)
(* kept with its descendants and then with all they need; what is excluded  *)
(* is removed with all that needs it.                                       *)
Select(doc, include, exclude) ==
    LET children == {<<r.parent, StableID(r)>> : r \in {x \in doc : x.parent # <<>>}}
        needs == UNION {{<<StableID(r), d>> : d \in Needs(r)} : r \in doc}
        seeds == IF include = {} THEN Ids(doc) ELSE Ids(doc) \cap include
        keep == Closure(Closure(seeds, children), needs)
        remove == Closure(Ids(doc) \cap exclude, {<<e[2], e[1]>> : e \in needs})
    IN  {r \in doc : StableID(r) \in keep \ remove}

-----------------------------------------------------------------------------
(* Pairs of an old and a new identity.                                     *)
Paired(pairs, i) == {p[2] : p \in {q \in pairs : q[1] = i}}

(* A hint is refused unless it names one unmatched resource on each side,   *)
(* of one kind, in one container or in containers that are hinted too.      *)
HintsValid(cur, want, hints) ==
    /\ \A h \in hints : h[1] \in Ids(cur) /\ h[2] \in Ids(want) /\ h[1][1] = h[2][1]
    /\ \A h \in hints, g \in hints : h # g => h[1] # g[1] /\ h[2] # g[2]
    /\ \A h \in hints : h[1] \notin Ids(want) /\ h[2] \notin Ids(cur)
    /\ \A h \in hints : h[1][2] = h[2][2] \/ <<h[1][2], h[2][2]>> \in hints

(* A renamed container carries the descendants of the same kind and name.   *)
RECURSIVE Carry(_, _, _)
Carry(cur, want, pairs) ==
    LET carried == {<<StableID(a), StableID(b)>> : <<a, b>> \in
            {<<x, y>> \in cur \X want :
                /\ Paired(pairs, StableID(x)) = {} /\ x.parent # <<>>
                /\ \A p \in pairs : p[2] # StableID(y)
                /\ Paired(pairs, x.parent) = {y.parent} /\ y.parent # x.parent
                /\ x.kind = y.kind /\ x.name = y.name}}
    IN  IF carried = {} THEN pairs ELSE Carry(cur, want, pairs \cup carried)

Follow(pairs, i) == IF Paired(pairs, i) = {} THEN i ELSE CHOOSE j \in Paired(pairs, i) : TRUE

remapResourceReferences(r, pairs) ==
    [r EXCEPT !.parent = Follow(pairs, r.parent),
              !.deps = {<<d[1], Follow(pairs, d[2])>> : d \in r.deps}]

(* The resource after its rename and before the alteration that follows.    *)
Intermediate(before, after, pairs) ==
    [remapResourceReferences(before, pairs) EXCEPT !.name = after.name, !.parent = after.parent]

Change(op, before, after) == [op |-> op, before |-> before, after |-> after]

Refused == <<Change("refused", NoResource, NoResource)>>

PairChanges(before, after, pairs) ==
    LET middle == Intermediate(before, after, pairs)
    IN  IF StableID(before) # StableID(after)
        THEN {Change("rename", before, middle)}
             \cup (IF middle = after THEN {} ELSE {Change("alter", middle, after)})
        ELSE IF before = after THEN {} ELSE {Change("alter", before, after)}

Changes(cur, want, hints) ==
    LET pairs == Carry(cur, want, {<<i, i>> : i \in Ids(cur) \cap Ids(want)} \cup hints)
        old == resourceMap(cur)
        new == resourceMap(want)
    IN  UNION {PairChanges(old[p[1]], new[p[2]], pairs) : p \in pairs}
        \cup {Change("create", NoResource, new[i]) : i \in Ids(want) \ {p[2] : p \in pairs}}
        \cup {Change("drop", old[i], NoResource) : i \in Ids(cur) \ {p[1] : p \in pairs}}

-----------------------------------------------------------------------------
(* The resource a change is about.                                         *)
Subject(c) == IF c.op = "drop" THEN c.before ELSE c.after

Touches(c, i) == i \in {StableID(r) : r \in {c.before, c.after} \ {NoResource}}

(* The change a reference leads to: of a rename and the alteration after it, *)
(* the alteration.                                                          *)
byResource(changes, i) ==
    LET all == {c \in changes : Touches(c, i)}
        altered == {c \in all : c.op = "alter"}
    IN  IF altered # {} THEN altered ELSE all

isAccessHandoffChange(c) == Subject(c).kind \in {"grant", "membership", "default_privilege"}

(* Pairs of a change and one that waits for it.                             *)
RenameEdges(changes) ==
    {<<a, b>> \in changes \X changes :
        a.op = "rename" /\ b.op = "alter" /\ StableID(a.after) = StableID(b.before)}

\* Mutant: drops in the order of creation.
NeedEdgesForward(changes) ==
    UNION {UNION {{<<d, c>> : d \in byResource(changes, i)} : i \in Needs(Subject(c))} : c \in changes}

NeedEdges(changes) ==
    UNION {UNION {{IF c.op = "drop" THEN <<c, d>> ELSE <<d, c>> : d \in byResource(changes, i)}
                    : i \in Needs(Subject(c))} : c \in changes}

ColumnEdges(changes) ==
    {<<a, b>> \in changes \X changes :
        /\ b.op \in {"drop", "rename"} /\ b.before.kind = "column"
        /\ a.op = "drop" /\ a.before.kind # "column" /\ a.before.parent = b.before.parent}

AccessEdges(changes) ==
    {<<a, b>> \in changes \X changes :
        \/ isAccessHandoffChange(a) /\ ~isAccessHandoffChange(b) /\ a.op = "drop" /\ b.op = "drop"
        \/ isAccessHandoffChange(b) /\ ~isAccessHandoffChange(a) /\ a.op # "drop" /\ b.op # "drop"}

Edges(changes) ==
    {e \in RenameEdges(changes) \cup NeedEdges(changes) \cup ColumnEdges(changes) \cup AccessEdges(changes)
        : e[1] # e[2]}

(* Kinds in the order of their names, and the ranks of operations.          *)
KindOrder ==
    <<"column", "default_privilege", "enum", "extension", "foreign_key", "function", "grant", "index",
      "materialized_view", "membership", "policy", "role", "schema", "sequence", "table", "trigger",
      "unique_constraint", "view">>

Rank(op) == CASE op \in {"rename", "alter"} -> 1 [] op = "create" -> 2 [] OTHER -> 3

(* changeSortKey as a tuple of numbers.  The order of two parents is that   *)
(* of digests in the code, and here that of their kinds and "order", a      *)
(* sequence of names; two changes of one resource compare by operation.     *)
changeSortKey(c, order) ==
    LET r == Subject(c)
        at(s, x) == IF \E k \in 1..Len(s) : s[k] = x THEN CHOOSE k \in 1..Len(s) : s[k] = x ELSE 0
        ordinal == IF c.op = "create" /\ r.kind = "column" THEN r.ord ELSE 0
    IN  <<Rank(c.op), at(KindOrder, r.kind),
          IF r.parent = <<>> THEN 0 ELSE 100 * at(KindOrder, r.parent[1]) + at(order, r.parent[3]),
          ordinal, at(order, r.name), IF c.op = "rename" THEN 0 ELSE 1>>

Before(a, b) ==
    \E k \in 1..Len(a) : a[k] < b[k] /\ \A j \in 1..(k - 1) : a[j] = b[j]

(* The ready change with the least key comes next; an empty result of a     *)
(* nonempty set is the cycle the code refuses.                              *)
orderChanges(changes, order) ==
    LET edges == Edges(changes)
        key == [c \in changes |-> changeSortKey(c, order)]
        ready(done) == {c \in changes \ done : \A e \in edges : e[2] = c => e[1] \in done}
        next(out) ==
            LET r == ready(ToSet(out))
            IN  IF r = {} THEN out
                ELSE Append(out, CHOOSE c \in r : \A d \in r \ {c} : Before(key[c], key[d]))
        out == FoldLeft(LAMBDA acc, k : next(acc), <<>>, [k \in 1..Cardinality(changes) |-> k])
    IN  IF Len(out) = Cardinality(changes) THEN out ELSE Refused

DependsOn(changes, c) == {e[1] : e \in {x \in Edges(changes) : x[2] = c}}

Diff(current, desired, options, order) ==
    LET cur == Select(current, options.include, options.exclude)
        want == Select(desired, options.include, options.exclude)
    IN  IF ~Validate(current) \/ ~Validate(desired) \/ ~HintsValid(cur, want, options.hints)
        THEN Refused
        ELSE orderChanges(Changes(cur, want, options.hints), order)
=============================================================================
