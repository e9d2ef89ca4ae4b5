--------------------------- MODULE MCZeroDowntime ---------------------------
(* Instances of ZeroDowntime for TLC. *)
EXTENDS ZeroDowntime, TLC

\* lower(value), which loses the case of "A", and the identity
Lower == ("a" :> "a") @@ ("A" :> "a") @@ (Null :> Null)
Same == ("a" :> "a") @@ ("b" :> "b") @@ (Null :> Null)

Scene(commands, values, forward, reverse, bound, failing) ==
    [commands |-> commands, rows |-> values, forward |-> forward, reverse |-> reverse,
     size |-> 1, writes |-> bound, faults |-> failing]

McScenes ==
    { Scene({"start", "backfill", "control"}, <<"A", "a">>, Lower, Lower, 1, 1),
      Scene({"start", "backfill"}, <<"A", "a">>, Lower, Lower, 2, 1),
      Scene({"start", "contract"}, <<"A", Gone>>, Lower, <<>>, 1, 2),
      Scene({"start", "rollback"}, <<"a", Null>>, Same, Same, 1, 2) }
\* one command that is interrupted and retried
McRetry == { Scene({"start"}, <<"A", "a">>, Lower, Lower, 0, 1) }

McSymmetry == Permutations(Processes)
=============================================================================
