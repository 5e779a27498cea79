---------------------------- MODULE MCDBInstance ----------------------------
(* An instance of DBInstance for TLC: what may happen together.             *)
EXTENDS DBInstance

MCValues == {"unset", "s", "t"}
Small == [set |-> [always |-> "s", option |-> Unset, logs |-> {}, fixed |-> "s",
                   protect |-> FALSE], skip |-> FALSE]
Large == [set |-> [always |-> "t", option |-> "s", logs |-> {"s"}, fixed |-> "t",
                   protect |-> FALSE], skip |-> TRUE]
Kept  == [Small EXCEPT !.set.protect = TRUE, !.set.option = "t"]
MCWants == {Small, Large, Kept}

MCScenarios ==
    { [wants |-> {Small, Large}, users |-> AllUsers, gens |-> 3,
       faults |-> AllFaults \ {"refused", "drift"}, most |-> 2],
      [wants |-> {Large, Kept}, users |-> AllUsers, gens |-> 3,
       faults |-> {"crash", "error", "lost", "lag"}, most |-> 1],
      [wants |-> MCWants, users |-> AllUsers, gens |-> 3,
       faults |-> {"failure", "externalDelete"}, most |-> 2] }
=============================================================================
