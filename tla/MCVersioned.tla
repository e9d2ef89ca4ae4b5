----------------------------- MODULE MCVersioned -----------------------------
(* Instances of Versioned for TLC. *)
EXTENDS Versioned, TLC

Tx    == [kind |-> "sql", tx |-> TRUE]
Nontx == [kind |-> "sql", tx |-> FALSE]
Ckpt  == [kind |-> "checkpoint", tx |-> TRUE]

Scene(line, first, adopted, commands, plan, proposal, lapse, fault) ==
  [line |-> line, first |-> first, adopted |-> adopted, commands |-> commands,
   plans |-> plan, proposals |-> proposal, lapses |-> lapse, faults |-> fault]

McScenes ==
  { Scene(<<Tx, Nontx>>, 1, FALSE, {"file", "all", "repair"}, 0, 1, 0, 2),
    Scene(<<Tx, Nontx, Tx>>, 2, FALSE, {"file", "plan", "down"}, 1, 0, 0, 1),
    Scene(<<Tx, Nontx>>, 2, FALSE, {"file", "plan", "down", "repair"}, 1, 1, 1, 1),
    Scene(<<Tx, Tx, Tx>>, 3, FALSE, {"all", "plan", "down"}, 2, 0, 1, 0),
    Scene(<<Tx, Tx, Ckpt, Tx>>, 2, FALSE, {"all", "plan", "down"}, 1, 0, 0, 0),
    Scene(<<Tx, Ckpt, Tx>>, 1, FALSE, {"file", "all", "plan", "down"}, 1, 0, 0, 1),
    Scene(<<Tx, Tx>>, 1, TRUE, {"file", "baseline", "plan", "down"}, 1, 0, 0, 1) }
McTwiceDown == {Scene(<<Tx, Tx, Tx>>, 3, FALSE, {"all", "plan", "down"}, 2, 0, 0, 0)}
McSymmetry == Permutations(Runs)
=============================================================================
