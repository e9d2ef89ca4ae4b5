----------------------------- MODULE FleetPlan -----------------------------
(***************************************************************************)
(* Rollout planning (pkg/fleet/rollout.go): a request, a function from     *)
(* group names to groups, becomes a sequence of execution groups with      *)
(* batches.  Names of groups and of targets are numbers, so that sorting   *)
(* them is <.                                                              *)
(***************************************************************************)
EXTENDS Integers, Sequences, FiniteSets, SequencesExt

Invalid == <<>>

Names(request) == DOMAIN request

\* validateDependencies: a depth-first search that refuses unknown names and
\* names already on its path.
Refused(request) ==
    LET known == Names(request)
        visit[path \in SUBSET known, n \in Int] ==
            \/ n \notin known \/ n \in path
            \/ \E d \in request[n].dependsOn : visit[path \cup {n}, d]
    IN  \E n \in known : visit[{}, n]

\* Snapshot.Select returns the targets of a group in the order of their names.
Selected(group) == SetToSortSeq(group.targets, LAMBDA s, t : s < t)

\* makeBatches: the canaries first, then slices of at most the batch size.
MakeBatches(targets, canary, size) ==
    LET rest == SubSeq(targets, canary + 1, Len(targets))
        slices == (Len(rest) + size - 1) \div size
        slice(k) == SubSeq(rest, (k - 1) * size + 1,
                           IF k * size > Len(rest) THEN Len(rest) ELSE k * size)
    IN  (IF canary > 0 THEN <<SubSeq(targets, 1, canary)>> ELSE <<>>)
            \o [k \in 1..slices |-> slice(k)]

Sorted(names) == SetToSortSeq(names, LAMBDA m, n : m < n)

\* Mutant: the groups are ordered by name.
OrderGroupsByName(request) == Sorted(Names(request))

\* orderGroups: every group behind those it depends on, otherwise by name.
OrderGroups(request) ==
    LET visit[out \in Seq(Names(request)), n \in Names(request)] ==
            IF n \in Range(out) THEN out
            ELSE Append(FoldLeft(LAMBDA o, d : visit[o, d], out,
                                 Sorted(request[n].dependsOn)), n)
    IN  FoldLeft(LAMBDA o, n : visit[o, n], <<>>, Sorted(Names(request)))

\* BuildRollout: overlapping groups and canaries beyond the group are refused.
BuildRollout(request) ==
    IF \/ Names(request) = {} \/ Refused(request)
       \/ \E g \in Names(request) :
             \/ g \in request[g].dependsOn
             \/ request[g].canary > Cardinality(request[g].targets)
       \/ \E g, h \in Names(request) :
             g # h /\ request[g].targets \cap request[h].targets # {}
    THEN Invalid
    ELSE LET order == OrderGroups(request)
             group(n) ==
                [name |-> n, dependsOn |-> Sorted(request[n].dependsOn),
                 batches |-> MakeBatches(Selected(request[n]), request[n].canary,
                                         request[n].size),
                 parallel |-> request[n].parallel, policy |-> request[n].policy,
                 delay |-> request[n].delay]
         IN  [k \in DOMAIN order |-> group(order[k])]
=============================================================================
